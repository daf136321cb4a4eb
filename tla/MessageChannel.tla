--------------------------- MODULE MessageChannel ----------------------------
(***************************************************************************)
(* What the key exchange expects of one direction of its connection: whole *)
(* messages, in order, each once.  A receiver gives up only when the       *)
(* connection is broken: the peer failed, closed early or fell silent.     *)
(***************************************************************************)
EXTENDS Naturals, Sequences

CONSTANT Messages

VARIABLES
    offered,           \* messages the sender has handed over, in order
    taken,             \* messages the receiver has got, in order
    broken,            \* something happened that may stop the messages
    failed             \* the receiver has given up

vars == <<offered, taken, broken, failed>>

Init ==
    /\ offered = <<>>
    /\ taken = <<>>
    /\ broken \in BOOLEAN
    /\ failed = FALSE

Offer(m) ==
    /\ offered' = Append(offered, m)
    /\ UNCHANGED <<taken, broken, failed>>

Take ==
    /\ ~failed
    /\ Len(taken) < Len(offered)
    /\ taken' = Append(taken, offered[Len(taken) + 1])
    /\ UNCHANGED <<offered, broken, failed>>

Break ==
    /\ broken' = TRUE
    /\ UNCHANGED <<offered, taken, failed>>

GiveUp ==
    /\ broken
    /\ failed' = TRUE
    /\ UNCHANGED <<offered, taken, broken>>

Next ==
    \/ \E m \in Messages : Offer(m)
    \/ Take
    \/ Break
    \/ GiveUp

Spec == Init /\ [][Next]_vars
==============================================================================
