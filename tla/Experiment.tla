----------------------------- MODULE Experiment ------------------------------
(***************************************************************************)
(* The measurement around the protected path: goose_sender.py numbers and  *)
(* sends frames, payload_validation_receiver.py records what arrives in a  *)
(* CSV file, and calculate_statistics.py reads the loss from that file.    *)
(*                                                                         *)
(* Between sender and receiver lies the at-most-once channel that          *)
(* GooseTunnel and EdgeFabric implement.  What else is sent on the         *)
(* receiver's network reaches its interface too: frames that are no GOOSE, *)
(* GOOSE that fails validation or carries no usable send time, and valid   *)
(* frames of another run of goose_sender.py.                               *)
(***************************************************************************)
EXTENDS Integers, Sequences, FiniteSetsExt

CONSTANTS
    Count,             \* --count of the sender, --sent of the statistics
    Target,            \* --count of the receiver
    MaxOther,          \* other frames that reach the receiver's interface
    MaxStarts,         \* times the receiver is started
    Latencies,         \* the latencies a frame may take
    NoLatency          \* an empty latency field

ASSUME ExperimentAssumption ==
    /\ Count \in Nat \ {0} /\ Target \in Nat \ {0}
    /\ MaxOther \in Nat /\ MaxStarts \in Nat
    /\ NoLatency \notin Latencies

VARIABLES
    offered,           \* the sequence numbers sent
    deliveries,        \* how often each frame has come out of the channel
    others,            \* other frames so far
    starts,            \* times the receiver was started
    receiver,          \* "off", "listening" or "recording"
    captured,          \* frames captured and not yet handled
    received_count,    \* the receiver's counter
    rows               \* the rows of the results file

channelVars == <<offered, deliveries>>
receiverVars == <<starts, receiver, captured, received_count, rows>>
vars == <<offered, deliveries, others, starts, receiver, captured, received_count, rows>>

SequenceNumbers == 1 .. Count

Channel == INSTANCE AtMostOnceChannel WITH Payloads <- SequenceNumbers

\* A frame of the measured sender run is its sequence number.  The other frames are of
\* four kinds: GOOSE that fails validation, GOOSE that passes it without a usable send
\* time, a valid frame of another sender run (or a copy of one), and no GOOSE at all.
Foreign == 0
Untimed == -1
Another == -2
NotGoose == -3
Others == {Foreign, Untimed, Another, NotGoose}
Frames == SequenceNumbers \union Others

\* validate_payload; and what int() makes of the send time, if there is one.  A frame
\* may have a send time and fail validation.
Passes(f) == f # Foreign

LatenciesOf(f) ==
    CASE f \in SequenceNumbers \union {Another} -> Latencies
      [] f = Foreign -> Latencies \union {NoLatency}
      [] OTHER -> {NoLatency}

\* frame is the frame a row is of.  The file has its sq_num, which does not tell one
\* sender run from another.
Row(n, f, latency) == [received_count |-> n, frame |-> f,
                       passed |-> Passes(f), latency |-> latency]
Rows == [received_count : Nat, frame : Frames, passed : BOOLEAN,
         latency : Latencies \union {NoLatency}]

------------------------------------------------------------------------------
Init ==
    /\ Channel!Init
    /\ others = 0
    /\ starts = 0
    /\ receiver = "off"
    /\ captured = <<>>
    /\ received_count = 0
    /\ rows = <<>>

\* The sender numbers its frames from 1 and sends each once.
Send ==
    /\ \E sq_num \in SequenceNumbers :
           /\ sq_num = Cardinality(offered) + 1
           /\ Channel!Offer(sq_num)
    /\ UNCHANGED <<others, receiverVars>>

\* A frame reaches the receiver's interface; it counts only while the receiver runs.
Capture(f) ==
    /\ captured' = IF receiver = "off" THEN captured ELSE Append(captured, f)
    /\ UNCHANGED <<starts, receiver, received_count, rows>>

Arrive(f) ==
    /\ Channel!Deliver(f)
    /\ Capture(f)
    /\ UNCHANGED others

OtherArrives(f) ==
    /\ others < MaxOther
    /\ others' = others + 1
    /\ Capture(f)
    /\ UNCHANGED channelVars

StartKeepsFile ==              \* mutant of Start: the old file is not removed
    /\ receiver = "off" /\ starts < MaxStarts
    /\ starts' = starts + 1
    /\ receiver' = "listening"
    /\ captured' = <<>>
    /\ received_count' = 0
    /\ UNCHANGED <<channelVars, others, rows>>

\* The receiver starts with a fresh results file.
Start ==
    /\ receiver = "off" /\ starts < MaxStarts
    /\ starts' = starts + 1
    /\ receiver' = "listening"
    /\ captured' = <<>>
    /\ received_count' = 0
    /\ rows' = <<>>
    /\ UNCHANGED <<channelVars, others>>

\* handle_packet returns at once from a frame that is not GOOSE.
SkipPacket ==
    /\ receiver = "listening" /\ captured # <<>>
    /\ Head(captured) = NotGoose
    /\ captured' = Tail(captured)
    /\ UNCHANGED <<channelVars, others, starts, receiver, received_count, rows>>

\* It counts every other frame, whatever it holds.
HandlePacket ==
    /\ receiver = "listening" /\ captured # <<>>
    /\ Head(captured) # NotGoose
    /\ received_count' = received_count + 1
    /\ receiver' = "recording"
    /\ UNCHANGED <<channelVars, others, starts, captured, rows>>

ReachedLater(n) == n > Target  \* mutant of Reached: one frame too many

Reached(n) == n >= Target

\* It appends the row and ends the capture at the target count.
WriteRow ==
    /\ receiver = "recording"
    /\ \E latency \in LatenciesOf(Head(captured)) :
           rows' = Append(rows, Row(received_count, Head(captured), latency))
    /\ captured' = Tail(captured)
    /\ receiver' = IF Reached(received_count) THEN "off" ELSE "listening"
    /\ UNCHANGED <<channelVars, others, starts, received_count>>

\* The operator stops the receiver, between or within its steps.
Interrupt ==
    /\ receiver # "off"
    /\ receiver' = "off"
    /\ UNCHANGED <<channelVars, others, starts, captured, received_count, rows>>

Next ==
    \/ Send
    \/ \E f \in SequenceNumbers : Arrive(f)
    \/ \E f \in Others : OtherArrives(f)
    \/ Start
    \/ SkipPacket
    \/ HandlePacket
    \/ WriteRow
    \/ Interrupt

Spec == Init /\ [][Next]_vars

\* The sender sends all its frames and the receiver handles what it has captured;
\* the channel owes nothing.
Fairness ==
    /\ WF_vars(Send)
    /\ WF_vars(SkipPacket) /\ WF_vars(HandlePacket) /\ WF_vars(WriteRow)

FairSpec == Spec /\ Fairness

------------------------------------------------------------------------------
(* calculate_statistics.py on the results file, at any time                *)

MeasuredUntimed(r) == r.passed \* mutant of Measured: rows without a latency count

Measured(r) == r.passed /\ r.latency # NoLatency

\* n: the rows with a latency that are analysed.
Analysed == Cardinality({i \in DOMAIN rows : Measured(rows[i])})

Lost == Max({Count - Analysed, 0})

------------------------------------------------------------------------------
(* Properties                                                              *)

TypeOK ==
    /\ offered \subseteq SequenceNumbers
    /\ deliveries \in [SequenceNumbers -> {0, 1}]
    /\ others \in 0 .. MaxOther
    /\ starts \in 0 .. MaxStarts
    /\ receiver \in {"off", "listening", "recording"}
    /\ captured \in Seq(Frames)
    /\ received_count \in 0 .. Target
    /\ rows \in Seq(Rows)

\* The rows are numbered without a gap or a repetition, whenever the receiver is
\* interrupted and started again.
RowsNumbered == \A i \in DOMAIN rows : rows[i].received_count = i

\* The loss that is reported, at any time, is the number of the sender's frames without a
\* row, less one for every row of another sender run: each of those makes up for a lost
\* frame, since rows are counted and not frames.  Rows that fail validation or have no
\* latency hide nothing, and with frames of one run only the loss is exact.
Recorded == {rows[i].frame : i \in DOMAIN rows} \intersect SequenceNumbers

OfAnother == {i \in DOMAIN rows : rows[i].frame = Another}

LossAccounted ==
    Lost = Max({Cardinality(SequenceNumbers \ Recorded) - Cardinality(OfAnother), 0})

\* Once as many GOOSE frames as its target have come through, the receiver stops by
\* itself, even if no other frame ever arrives; frames that are no GOOSE do not count.
Goose == {i \in DOMAIN captured : captured[i] # NotGoose}

StopsAtTarget ==
    receiver # "off" /\ Len(rows) + Cardinality(Goose) >= Target ~> receiver = "off"
==============================================================================
