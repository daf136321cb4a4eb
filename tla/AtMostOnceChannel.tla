-------------------------- MODULE AtMostOnceChannel --------------------------
(***************************************************************************)
(* What the protected GOOSE path promises to the application behind it:    *)
(* whatever the network, the crypto endpoints and the operator do, a       *)
(* payload comes out only if it went in, and at most once.  Payloads may   *)
(* be lost and may overtake one another; nothing is promised about either. *)
(***************************************************************************)
EXTENDS Naturals

CONSTANT Payloads        \* GOOSE payloads; the sender makes each one only once

VARIABLES
    offered,             \* payloads the publisher has sent
    deliveries           \* how often each payload reached the subscriber

vars == <<offered, deliveries>>

Init ==
    /\ offered = {}
    /\ deliveries = [p \in Payloads |-> 0]

Offer(p) ==
    /\ p \notin offered
    /\ offered' = offered \union {p}
    /\ UNCHANGED deliveries

Deliver(p) ==
    /\ p \in offered
    /\ deliveries[p] = 0
    /\ deliveries' = [deliveries EXCEPT ![p] = 1]
    /\ UNCHANGED offered

Next == \E p \in Payloads : Offer(p) \/ Deliver(p)

Spec == Init /\ [][Next]_vars
==============================================================================
