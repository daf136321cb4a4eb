-------------------------- MODULE ExperimentProofs ---------------------------
(***************************************************************************)
(* Proofs about Experiment, for any number of frames, other frames and     *)
(* starts of the receiver.  A frame of the sender is on its way to the     *)
(* file in one place only, because the channel delivers it once; so the    *)
(* analysed rows are as many as its recorded frames and the rows of other  *)
(* sender runs, and the loss is what both leave.                           *)
(* Then about LatencyStatistics: for any latencies, what the program       *)
(* computes is what each statistic is defined to be.                       *)
(***************************************************************************)
EXTENDS LatencyStatistics, FunctionTheorems, FiniteSetTheorems, WellFoundedInduction,
        TLAPS

\* The receiver's counter is the number of its rows, and one ahead within a step.
Counting ==
    /\ receiver = "listening" => received_count = Len(rows) /\ received_count < Target
    /\ receiver = "recording" =>
           received_count = Len(rows) + 1 /\ received_count <= Target /\ captured # <<>>
    /\ RowsNumbered

\* A frame of the sender is captured, or recorded, at most once, and only if it has
\* been delivered.
Once ==
    /\ \A i \in DOMAIN captured :
           captured[i] \in SequenceNumbers => deliveries[captured[i]] = 1
    /\ \A i \in DOMAIN rows :
           rows[i].frame \in SequenceNumbers => deliveries[rows[i].frame] = 1
    /\ \A i, j \in DOMAIN captured :
           captured[i] \in SequenceNumbers /\ captured[i] = captured[j] => i = j
    /\ \A i, j \in DOMAIN rows :
           rows[i].frame \in SequenceNumbers /\ rows[i].frame = rows[j].frame => i = j
    /\ \A i \in DOMAIN rows, j \in DOMAIN captured :
           rows[i].frame \in SequenceNumbers => rows[i].frame # captured[j]

\* Whether a row passed and has a latency is settled by its frame.
LatencyRows ==
    \A i \in DOMAIN rows : /\ rows[i].passed = Passes(rows[i].frame)
                           /\ rows[i].latency \in LatenciesOf(rows[i].frame)

Inv == TypeOK /\ Counting /\ Once /\ LatencyRows

------------------------------------------------------------------------------
(* Sequences                                                               *)

LEMMA AppendFacts ==
    ASSUME NEW S, NEW q \in Seq(S), NEW v \in S
    PROVE  /\ Append(q, v) \in Seq(S)
           /\ Len(q) \in Nat /\ Len(Append(q, v)) = Len(q) + 1
           /\ DOMAIN q = 1 .. Len(q)
           /\ DOMAIN Append(q, v) = 1 .. (Len(q) + 1)
           /\ \A i \in DOMAIN q : Append(q, v)[i] = q[i]
           /\ Append(q, v)[Len(q) + 1] = v
    OBVIOUS

LEMMA LengthIsNat ==
    ASSUME NEW S, NEW q \in Seq(S)
    PROVE  Len(q) \in Nat
    OBVIOUS

LEMMA TailFacts ==
    ASSUME NEW S, NEW q \in Seq(S), q # <<>>
    PROVE  /\ Head(q) \in S /\ Head(q) = q[1] /\ 1 \in DOMAIN q
           /\ Tail(q) \in Seq(S)
           /\ Len(q) \in Nat \ {0}
           /\ DOMAIN q = 1 .. Len(q)
           /\ DOMAIN Tail(q) = 1 .. (Len(q) - 1)
           /\ \A i \in DOMAIN Tail(q) : i + 1 \in DOMAIN q /\ Tail(q)[i] = q[i + 1]
    OBVIOUS

LEMMA EmptyFacts ==
    ASSUME NEW S
    PROVE  <<>> \in Seq(S) /\ Len(<<>>) = 0 /\ DOMAIN <<>> = {}
    OBVIOUS

------------------------------------------------------------------------------
LEMMA InvInit == Init => Inv
  BY ExperimentAssumption, EmptyFacts
  DEF Init, Channel!Init, Inv, TypeOK, Counting, Once, LatencyRows, RowsNumbered,
      SequenceNumbers

\* A frame is captured that is not yet anywhere, or that is not the sender's.
LEMMA CaptureInv ==
    ASSUME Inv, NEW f \in Frames, Capture(f),
           deliveries' \in [SequenceNumbers -> {0, 1}],
           offered' \subseteq SequenceNumbers, others' \in 0 .. MaxOther,
           \A n \in SequenceNumbers : deliveries[n] = 1 => deliveries'[n] = 1,
           f \in SequenceNumbers => deliveries[f] = 0 /\ deliveries'[f] = 1
    PROVE  Inv'
  <1>1. captured \in Seq(Frames) /\ rows \in Seq(Rows)
    BY DEF Inv, TypeOK
  <1>2. UNCHANGED <<starts, receiver, received_count, rows>>
    BY DEF Capture
  <1>3. CASE receiver = "off"
    <2>1. UNCHANGED captured
      BY <1>3 DEF Capture
    <2>2. Once'
      BY <1>2, <2>1 DEF Inv, Once
    <2> QED
      BY <1>2, <2>1, <2>2 DEF Inv, TypeOK, Counting, RowsNumbered, LatencyRows
  <1>4. CASE receiver # "off"
    <2>1. captured' = Append(captured, f)
      BY <1>4 DEF Capture
    <2>2. /\ captured' \in Seq(Frames)
          /\ DOMAIN captured = 1 .. Len(captured) /\ Len(captured) \in Nat
          /\ DOMAIN captured' = 1 .. (Len(captured) + 1)
          /\ \A i \in DOMAIN captured : captured'[i] = captured[i]
          /\ captured'[Len(captured) + 1] = f
          /\ captured' # <<>>
      BY <1>1, <2>1, AppendFacts
    <2>3. \A i \in DOMAIN captured' : i \in DOMAIN captured \/ i = Len(captured) + 1
      BY <2>2
    <2>4. f \in SequenceNumbers =>
              /\ \A i \in DOMAIN captured : captured[i] # f
              /\ \A i \in DOMAIN rows : rows[i].frame # f
      BY DEF Inv, Once
    <2>5. Once'
      <3>1. \A i \in DOMAIN captured' :
                captured'[i] \in SequenceNumbers => deliveries'[captured'[i]] = 1
        BY <2>2, <2>3 DEF Inv, Once
      <3>2. \A i \in DOMAIN rows :
                rows[i].frame \in SequenceNumbers => deliveries'[rows[i].frame] = 1
        BY DEF Inv, Once
      <3>3. \A i, j \in DOMAIN captured' :
                captured'[i] \in SequenceNumbers /\ captured'[i] = captured'[j] => i = j
        BY <2>2, <2>3, <2>4 DEF Inv, Once
      <3>4. \A i \in DOMAIN rows, j \in DOMAIN captured' :
                rows[i].frame \in SequenceNumbers => rows[i].frame # captured'[j]
        BY <2>2, <2>3, <2>4 DEF Inv, Once
      <3> QED
        BY <1>2, <3>1, <3>2, <3>3, <3>4 DEF Inv, Once
    <2> QED
      BY <1>2, <2>2, <2>5 DEF Inv, TypeOK, Counting, RowsNumbered, LatencyRows
  <1> QED
    BY <1>3, <1>4

\* A row is written for the captured frame that was counted.
LEMMA WriteRowInv ==
    ASSUME Inv, WriteRow
    PROVE  Inv'
  <1> DEFINE f == Head(captured)
  <1>0. PICK latency \in LatenciesOf(f) :
            rows' = Append(rows, Row(received_count, f, latency))
    BY DEF WriteRow
  <1> DEFINE r == Row(received_count, f, latency)
  <1>1. captured \in Seq(Frames) /\ rows \in Seq(Rows) /\ received_count \in 0 .. Target
    BY DEF Inv, TypeOK
  <1>2. receiver = "recording" /\ captured # <<>> /\ received_count = Len(rows) + 1
            /\ received_count <= Target
    BY DEF WriteRow, Inv, Counting
  <1>3. /\ f \in Frames /\ f = captured[1] /\ 1 \in DOMAIN captured
        /\ Tail(captured) \in Seq(Frames)
        /\ \A i \in DOMAIN Tail(captured) :
               i + 1 \in DOMAIN captured /\ Tail(captured)[i] = captured[i + 1]
        /\ DOMAIN Tail(captured) \subseteq Nat \ {0}
    BY <1>1, <1>2, TailFacts
  <1>4. r \in Rows /\ r.received_count = Len(rows) + 1 /\ r.frame = f
        /\ r.passed = Passes(f) /\ r.latency \in LatenciesOf(f)
    <2>1. latency \in Latencies \union {NoLatency} /\ Passes(f) \in BOOLEAN
      BY <1>0 DEF LatenciesOf, Passes
    <2> QED
      BY <1>0, <1>1, <1>2, <1>3, <2>1 DEF Row, Rows
  <1>5. /\ captured' = Tail(captured) /\ rows' = Append(rows, r)
        /\ UNCHANGED <<offered, deliveries, others, starts, received_count>>
        /\ receiver' = IF received_count >= Target THEN "off" ELSE "listening"
    BY <1>0 DEF WriteRow, Reached, channelVars
  <1>6. /\ rows' \in Seq(Rows)
        /\ Len(rows) \in Nat /\ Len(rows') = Len(rows) + 1
        /\ DOMAIN rows = 1 .. Len(rows)
        /\ DOMAIN rows' = 1 .. (Len(rows) + 1)
        /\ \A i \in DOMAIN rows : rows'[i] = rows[i]
        /\ rows'[Len(rows) + 1] = r
    BY <1>1, <1>4, <1>5, AppendFacts
  <1>7. \A i \in DOMAIN rows' : i \in DOMAIN rows \/ i = Len(rows) + 1
    BY <1>6
  <1>8. TypeOK'
    BY <1>3, <1>5, <1>6 DEF Inv, TypeOK
  <1>9. RowsNumbered'
    BY <1>4, <1>6, <1>7 DEF Inv, Counting, RowsNumbered
  <1>10. Counting'
    BY <1>1, <1>2, <1>5, <1>6, <1>9, ExperimentAssumption DEF Counting
  <1>11. LatencyRows'
    BY <1>4, <1>6, <1>7 DEF Inv, LatencyRows
  <1>12. Once'
    <2>1. \A i \in DOMAIN captured' :
              captured'[i] \in SequenceNumbers => deliveries'[captured'[i]] = 1
      BY <1>3, <1>5 DEF Inv, Once
    <2>2. \A i \in DOMAIN rows' :
              rows'[i].frame \in SequenceNumbers => deliveries'[rows'[i].frame] = 1
      BY <1>3, <1>4, <1>5, <1>6, <1>7 DEF Inv, Once
    <2>3. \A i, j \in DOMAIN captured' :
              captured'[i] \in SequenceNumbers /\ captured'[i] = captured'[j] => i = j
      BY <1>3, <1>5 DEF Inv, Once
    <2>4. f \in SequenceNumbers => \A i \in DOMAIN rows : rows[i].frame # f
      BY <1>3 DEF Inv, Once
    <2>5. \A i, j \in DOMAIN rows' :
              rows'[i].frame \in SequenceNumbers /\ rows'[i].frame = rows'[j].frame
              => i = j
      BY <1>4, <1>6, <1>7, <2>4 DEF Inv, Once
    <2>6. \A j \in DOMAIN captured' : f \in SequenceNumbers => f # captured'[j]
      BY <1>3, <1>5 DEF Inv, Once
    <2>7. \A i \in DOMAIN rows', j \in DOMAIN captured' :
              rows'[i].frame \in SequenceNumbers => rows'[i].frame # captured'[j]
      BY <1>3, <1>4, <1>5, <1>6, <1>7, <2>6 DEF Inv, Once
    <2> QED
      BY <2>1, <2>2, <2>3, <2>5, <2>7 DEF Once
  <1> QED
    BY <1>8, <1>10, <1>11, <1>12 DEF Inv

\* A frame that is not GOOSE leaves no trace.
LEMMA SkipPacketInv ==
    ASSUME Inv, SkipPacket
    PROVE  Inv'
  <1>1. captured \in Seq(Frames) /\ captured # <<>> /\ captured' = Tail(captured)
            /\ receiver = "listening"
            /\ UNCHANGED <<offered, deliveries, others, starts, receiver,
                           received_count, rows>>
    BY DEF SkipPacket, channelVars, Inv, TypeOK
  <1>2. /\ captured' \in Seq(Frames)
        /\ \A i \in DOMAIN captured' :
               i + 1 \in DOMAIN captured /\ captured'[i] = captured[i + 1]
        /\ DOMAIN captured' \subseteq Nat \ {0}
    BY <1>1, TailFacts
  <1>3. \A i, j \in DOMAIN captured' :
            captured'[i] \in SequenceNumbers /\ captured'[i] = captured'[j] => i = j
    BY <1>2 DEF Inv, Once
  <1>4. Once'
    BY <1>1, <1>2, <1>3 DEF Inv, Once
  <1> QED
    BY <1>1, <1>2, <1>4 DEF Inv, TypeOK, Counting, RowsNumbered, LatencyRows

LEMMA InvNext == Inv /\ [Next]_vars => Inv'
  <1> SUFFICES ASSUME Inv, [Next]_vars PROVE Inv'
    OBVIOUS
  <1> USE ExperimentAssumption
  <1>1. CASE Send
    BY <1>1 DEF Send, Channel!Offer, receiverVars, Inv, TypeOK, Counting, RowsNumbered, Once,
                LatencyRows
  <1>2. ASSUME NEW f \in SequenceNumbers, Arrive(f)
        PROVE  Inv'
    <2>1. /\ deliveries \in [SequenceNumbers -> {0, 1}]
          /\ deliveries[f] = 0
          /\ deliveries' = [deliveries EXCEPT ![f] = 1]
          /\ UNCHANGED <<offered, others>>
      BY <1>2 DEF Arrive, Channel!Deliver, Inv, TypeOK
    <2>2. f \in Frames /\ Capture(f)
      BY <1>2 DEF Arrive, Frames
    <2> QED
      BY <2>1, <2>2, CaptureInv DEF Inv, TypeOK
  <1>3. ASSUME NEW f \in Others, OtherArrives(f)
        PROVE  Inv'
    <2>1. f \notin SequenceNumbers /\ f \in Frames
      BY DEF Others, Foreign, Untimed, Another, NotGoose, SequenceNumbers, Frames
    <2>2. /\ UNCHANGED <<offered, deliveries>> /\ Capture(f)
          /\ others' \in 0 .. MaxOther
      BY <1>3 DEF OtherArrives, channelVars, Inv, TypeOK
    <2> QED
      BY <2>1, <2>2, CaptureInv DEF Inv, TypeOK
  <1>4. CASE Start
    BY <1>4, EmptyFacts DEF Start, channelVars, Inv, TypeOK, Counting, RowsNumbered, Once,
                            LatencyRows
  <1>5. CASE HandlePacket
    BY <1>5 DEF HandlePacket, channelVars, Inv, TypeOK, Counting, RowsNumbered, Once, LatencyRows
  <1>6. CASE WriteRow
    BY <1>6, WriteRowInv
  <1>7. CASE Interrupt
    BY <1>7 DEF Interrupt, channelVars, Inv, TypeOK, Counting, RowsNumbered, Once, LatencyRows
  <1>8. CASE SkipPacket
    BY <1>8, SkipPacketInv
  <1>9. CASE UNCHANGED vars
    BY <1>9 DEF vars, Inv, TypeOK, Counting, RowsNumbered, Once, LatencyRows
  <1> QED
    BY <1>1, <1>2, <1>3, <1>4, <1>5, <1>6, <1>7, <1>8, <1>9 DEF Next

LEMMA InvCorrect == Spec => []Inv
  BY InvInit, InvNext, PTL DEF Spec

------------------------------------------------------------------------------
\* The analysed rows are the recorded frames of the sender, one row each, and the rows
\* of other sender runs.
LEMMA AnalysedAreRecorded ==
    ASSUME Inv
    PROVE  /\ Cardinality(Recorded) \in Nat
           /\ Cardinality(OfAnother) \in Nat
           /\ Analysed = Cardinality(Recorded) + Cardinality(OfAnother)
           /\ IsFiniteSet(SequenceNumbers) /\ Cardinality(SequenceNumbers) = Count
           /\ Recorded \subseteq SequenceNumbers
  <1> DEFINE M == {i \in DOMAIN rows : Measured(rows[i])}
             A == {i \in DOMAIN rows : rows[i].frame \in SequenceNumbers}
             frame == [i \in A |-> rows[i].frame]
  <1>1. IsFiniteSet(SequenceNumbers) /\ Cardinality(SequenceNumbers) = Count
    BY FS_Interval, ExperimentAssumption DEF SequenceNumbers
  <1>2. Recorded \subseteq SequenceNumbers
    BY DEF Recorded
  <1>3. IsFiniteSet(Recorded) /\ Cardinality(Recorded) \in Nat
    BY <1>1, <1>2, FS_Subset, FS_CardinalityType
  <1>4. frame \in Bijection(A, Recorded)
    <2>1. frame \in [A -> Recorded]
      BY DEF Recorded
    <2>2. \A i, j \in A : frame[i] = frame[j] => i = j
      BY DEF Inv, Once
    <2>3. \A n \in Recorded : \E i \in A : frame[i] = n
      BY DEF Recorded
    <2> QED
      BY <2>1, <2>2, <2>3, Fun_IsBij
  <1>5. IsFiniteSet(A) /\ Cardinality(A) = Cardinality(Recorded)
    BY <1>3, <1>4, FS_Bijection, Fun_ExistsBijSymmetric DEF ExistsBijection
  <1>6. IsFiniteSet(OfAnother) /\ Cardinality(OfAnother) \in Nat
    <2>1. PICK n : n \in Nat /\ n = Len(rows) /\ DOMAIN rows = 1 .. n
      BY LengthIsNat DEF Inv, TypeOK
    <2>2. IsFiniteSet(DOMAIN rows)
      BY <2>1, FS_Interval
    <2>3. OfAnother \subseteq DOMAIN rows
      BY DEF OfAnother
    <2> QED
      BY <2>2, <2>3, FS_Subset, FS_CardinalityType
  <1>7. M = A \union OfAnother
    <2> SUFFICES ASSUME NEW i \in DOMAIN rows
                 PROVE  Measured(rows[i]) <=> \/ rows[i].frame \in SequenceNumbers
                                              \/ rows[i].frame = Another
      BY DEF OfAnother
    <2>1. /\ rows[i].passed = Passes(rows[i].frame)
          /\ rows[i].latency \in LatenciesOf(rows[i].frame)
      BY DEF Inv, LatencyRows
    <2>2. CASE rows[i].frame \in SequenceNumbers \union {Another}
      <3>1. rows[i].frame # Foreign
        BY <2>2 DEF SequenceNumbers, Another, Foreign
      <3>2. rows[i].latency \in Latencies
        BY <2>1, <2>2, <3>1 DEF LatenciesOf
      <3> QED
        BY <2>1, <2>2, <3>1, <3>2, ExperimentAssumption DEF Measured, Passes
    <2>3. CASE rows[i].frame \notin SequenceNumbers \union {Another}
      <3>1. rows[i].frame = Foreign \/ rows[i].latency = NoLatency
        BY <2>1, <2>3 DEF LatenciesOf
      <3> QED
        BY <2>1, <2>3, <3>1 DEF Measured, Passes
    <2> QED
      BY <2>2, <2>3
  <1>8. A \intersect OfAnother = {}
    BY DEF OfAnother, Another, SequenceNumbers
  <1>9. Cardinality(M) = Cardinality(A) + Cardinality(OfAnother)
    <2> HIDE DEF M, A
    <2>1. Cardinality(M) = Cardinality(A) + Cardinality(OfAnother)
                               - Cardinality(A \intersect OfAnother)
      BY <1>5, <1>6, <1>7, FS_Union
    <2>2. Cardinality(A \intersect OfAnother) = 0
      BY <1>8, FS_EmptySet
    <2> QED
      BY <1>3, <1>5, <1>6, <2>1, <2>2
  <1>10. Analysed = Cardinality(M)
    BY DEF Analysed
  <1> QED
    BY <1>1, <1>2, <1>3, <1>5, <1>6, <1>9, <1>10

LEMMA InvLoss == Inv => LossAccounted
  <1> SUFFICES ASSUME Inv PROVE LossAccounted
    OBVIOUS
  <1>1. /\ Cardinality(Recorded) \in Nat
        /\ Cardinality(OfAnother) \in Nat
        /\ Analysed = Cardinality(Recorded) + Cardinality(OfAnother)
        /\ IsFiniteSet(SequenceNumbers) /\ Cardinality(SequenceNumbers) = Count
        /\ Recorded \subseteq SequenceNumbers
    BY AnalysedAreRecorded
  <1>2. SequenceNumbers \intersect Recorded = Recorded
    BY <1>1
  <1>3. Cardinality(SequenceNumbers \ Recorded) = Count - Cardinality(Recorded)
    BY <1>1, <1>2, FS_Difference
  <1>4. Count - Analysed
            = Cardinality(SequenceNumbers \ Recorded) - Cardinality(OfAnother)
    BY <1>1, <1>3, ExperimentAssumption
  <1> QED
    BY <1>4 DEF Lost, LossAccounted

------------------------------------------------------------------------------
(* Theorems                                                                *)

\* Type correctness of sender, receiver and results file; in particular the receiver
\* never counts past its target.
THEOREM TypeCorrect == Spec => []TypeOK
  <1>1. Inv => TypeOK
    BY DEF Inv
  <1> QED
    BY <1>1, InvCorrect, PTL

\* The rows of the results file are numbered 1, 2, 3 ... without gap or repetition,
\* whenever the receiver is interrupted and started again (receiver 63-169).
THEOREM RowsNumberedCorrect == Spec => []RowsNumbered
  <1>1. Inv => RowsNumbered
    BY DEF Inv, Counting
  <1> QED
    BY <1>1, InvCorrect, PTL

\* The loss that calculate_statistics.py reports is the number of the sender's frames
\* without a row, less one for each row of another sender run, for any other frames that
\* reach the receiver and any interruptions and starts.
THEOREM LossAccountedCorrect == Spec => []LossAccounted
  BY InvLoss, InvCorrect, PTL

------------------------------------------------------------------------------
(* Induction over the numbers                                              *)

\* A set of numbers has a least one.
LEMMA Least ==
    ASSUME NEW T, T \subseteq Nat, T # {}
    PROVE  \E x \in T : \A y \in T : ~(y < x)
  <1>1. IsWellFoundedOn(OpToRel(<, Nat), Nat)
    BY NatLessThanWellFounded, Zenon
  <1>2. \E x \in T : \A y \in T : ~(<<y, x>> \in OpToRel(<, Nat))
    BY <1>1, WFMin, Zenon
  <1> QED
    BY <1>2 DEF OpToRel

\* A set that has 0, and with a number the next one, has every number.
LEMMA SetInduction ==
    ASSUME NEW T, T \subseteq Nat, 0 \in T, \A n \in T : n + 1 \in T
    PROVE  T = Nat
  <1> SUFFICES ASSUME Nat \ T # {} PROVE FALSE
    OBVIOUS
  <1>1. PICK x \in Nat \ T : \A y \in Nat \ T : ~(y < x)
    BY Least
  <1>2. x # 0 /\ x - 1 \in Nat /\ x - 1 < x /\ (x - 1) + 1 = x
    BY <1>1
  <1>3. x - 1 \in T
    BY <1>1, <1>2
  <1> QED
    BY <1>1, <1>2, <1>3

------------------------------------------------------------------------------
(* The order of the values                                                 *)

\* The permutation p of the first n positions puts s in ascending order.
Orders(p, n, s) ==
    /\ p \in [1 .. n -> 1 .. n]
    /\ \A i, j \in 1 .. n : p[i] = p[j] => i = j
    /\ \A v \in 1 .. n : \E i \in 1 .. n : p[i] = v
    /\ \A i, j \in 1 .. n : i < j => s[p[i]] <= s[p[j]]

\* The position of a least value comes first; of the others the last one takes its
\* place, and they are in order by induction.
LEMMA OrderStep ==
    ASSUME NEW n \in Nat, NEW s \in [1 .. (n + 1) -> Nat],
           \A r \in [1 .. n -> Nat] : \E p : Orders(p, n, r)
    PROVE  \E q : Orders(q, n + 1, s)
  <1>1. PICK m \in 1 .. (n + 1) : \A j \in 1 .. (n + 1) : s[m] <= s[j]
    <2> DEFINE V == {s[j] : j \in 1 .. (n + 1)}
    <2>1. V \subseteq Nat /\ s[1] \in V
      OBVIOUS
    <2>2. PICK x \in V : \A y \in V : ~(y < x)
      BY <2>1, Least
    <2>3. PICK m \in 1 .. (n + 1) : x = s[m]
      BY <2>2
    <2>4. ASSUME NEW j \in 1 .. (n + 1)
          PROVE  s[m] <= s[j]
      <3>1. s[j] \in V /\ s[j] \in Nat /\ s[m] \in Nat
        OBVIOUS
      <3> HIDE DEF V
      <3>2. ~(s[j] < s[m])
        BY <2>2, <2>3, <3>1
      <3> QED
        BY <3>1, <3>2
    <2> QED
      BY <2>4
  <1> DEFINE place(j) == IF j = m THEN n + 1 ELSE j
             r == [j \in 1 .. n |-> s[place(j)]]
  <1>2. \A j \in 1 .. n : place(j) \in 1 .. (n + 1) /\ place(j) # m
    OBVIOUS
  <1>3. \A i, j \in 1 .. n : place(i) = place(j) => i = j
    OBVIOUS
  <1>4. \A v \in 1 .. (n + 1) : v # m => \E j \in 1 .. n : place(j) = v
    <2> TAKE v \in 1 .. (n + 1)
    <2> HAVE v # m
    <2>1. CASE v = n + 1
      <3>1. m \in 1 .. n /\ place(m) = v
        BY <2>1
      <3> QED
        BY <3>1
    <2>2. CASE v # n + 1
      <3>1. v \in 1 .. n /\ place(v) = v
        BY <2>2
      <3> QED
        BY <3>1
    <2> QED
      BY <2>1, <2>2
  <1> HIDE DEF place
  <1>5. r \in [1 .. n -> Nat] /\ \A j \in 1 .. n : r[j] = s[place(j)]
    BY <1>2
  <1> HIDE DEF r
  <1>6. PICK p : Orders(p, n, r)
    BY <1>5
  <1>7. /\ \A i \in 1 .. n : p[i] \in 1 .. n
        /\ \A i, j \in 1 .. n : p[i] = p[j] => i = j
        /\ \A v \in 1 .. n : \E i \in 1 .. n : p[i] = v
        /\ \A i, j \in 1 .. n : i < j => r[p[i]] <= r[p[j]]
    BY <1>6 DEF Orders
  <1> DEFINE q == [i \in 1 .. (n + 1) |-> IF i = 1 THEN m ELSE place(p[i - 1])]
  <1>8. q[1] = m /\ \A i \in 2 .. (n + 1) : i - 1 \in 1 .. n /\ q[i] = place(p[i - 1])
    OBVIOUS
  <1>9. q \in [1 .. (n + 1) -> 1 .. (n + 1)]
    <2>1. \A i \in 1 .. (n + 1) : i # 1 => i - 1 \in 1 .. n
      OBVIOUS
    <2>2. \A i \in 1 .. (n + 1) : (IF i = 1 THEN m ELSE place(p[i - 1])) \in 1 .. (n + 1)
      <3>1. \A i \in 1 .. (n + 1) : i # 1 => place(p[i - 1]) \in 1 .. (n + 1)
        BY <1>2, <1>7, <2>1
      <3> QED
        BY <3>1
    <2> QED
      BY <2>2, Zenon
  <1> HIDE DEF q
  <1>10. \A i \in 1 .. (n + 1) :
             i # 1 => \E k \in 1 .. n : i = k + 1 /\ p[k] \in 1 .. n /\ q[i] = place(p[k])
    <2> SUFFICES ASSUME NEW i \in 1 .. (n + 1), i # 1
                 PROVE  \E k \in 1 .. n : i = k + 1 /\ p[k] \in 1 .. n /\ q[i] = place(p[k])
      OBVIOUS
    <2>1. i \in 2 .. (n + 1) /\ i - 1 \in 1 .. n /\ i = (i - 1) + 1
      OBVIOUS
    <2>2. p[i - 1] \in 1 .. n
      BY <1>7, <2>1
    <2>3. q[i] = place(p[i - 1])
      BY <1>8, <2>1
    <2> QED
      BY <2>1, <2>2, <2>3
  <1>11. ASSUME NEW i \in 1 .. (n + 1), NEW j \in 1 .. (n + 1), q[i] = q[j]
         PROVE  i = j
    <2>1. CASE i = 1 /\ j # 1
      <3>1. PICK k \in 1 .. n : p[k] \in 1 .. n /\ q[j] = place(p[k])
        BY <1>10, <2>1
      <3>2. q[j] # m
        BY <1>2, <3>1
      <3> QED
        BY <1>8, <1>11, <2>1, <3>2
    <2>2. CASE i # 1 /\ j = 1
      <3>1. PICK k \in 1 .. n : p[k] \in 1 .. n /\ q[i] = place(p[k])
        BY <1>10, <2>2
      <3>2. q[i] # m
        BY <1>2, <3>1
      <3> QED
        BY <1>8, <1>11, <2>2, <3>2
    <2>3. CASE i # 1 /\ j # 1
      <3>1. PICK k \in 1 .. n : i = k + 1 /\ p[k] \in 1 .. n /\ q[i] = place(p[k])
        BY <1>10, <2>3
      <3>2. PICK l \in 1 .. n : j = l + 1 /\ p[l] \in 1 .. n /\ q[j] = place(p[l])
        BY <1>10, <2>3
      <3>3. p[k] = p[l]
        BY <1>3, <1>11, <3>1, <3>2
      <3>4. k = l
        BY <1>7, <3>3
      <3> QED
        BY <3>1, <3>2, <3>4
    <2> QED
      BY <2>1, <2>2, <2>3
  <1>12. ASSUME NEW v \in 1 .. (n + 1)
         PROVE  \E i \in 1 .. (n + 1) : q[i] = v
    <2>1. CASE v = m
      BY <1>8, <2>1
    <2>2. CASE v # m
      <3>1. PICK j \in 1 .. n : place(j) = v
        BY <1>4, <2>2
      <3>2. PICK i \in 1 .. n : p[i] = j
        BY <1>7
      <3>3. i + 1 \in 2 .. (n + 1) /\ i + 1 \in 1 .. (n + 1) /\ (i + 1) - 1 = i
        OBVIOUS
      <3> QED
        BY <1>8, <3>1, <3>2, <3>3
    <2> QED
      BY <2>1, <2>2
  <1>13. ASSUME NEW i \in 1 .. (n + 1), NEW j \in 1 .. (n + 1), i < j
         PROVE  s[q[i]] <= s[q[j]]
    <2>1. CASE i = 1
      BY <1>1, <1>8, <1>9, <2>1
    <2>2. CASE i # 1
      <3>1. PICK k \in 1 .. n : i = k + 1 /\ p[k] \in 1 .. n /\ q[i] = place(p[k])
        BY <1>10, <2>2
      <3>2. PICK l \in 1 .. n : j = l + 1 /\ p[l] \in 1 .. n /\ q[j] = place(p[l])
        <4>1. j # 1
          BY <1>13, <2>2
        <4> QED
          BY <1>10, <4>1
      <3>3. k < l
        BY <1>13, <3>1, <3>2
      <3>4. s[q[i]] = r[p[k]] /\ s[q[j]] = r[p[l]]
        BY <1>5, <3>1, <3>2
      <3> QED
        BY <1>7, <3>3, <3>4
    <2> QED
      BY <2>1, <2>2
  <1>14. Orders(q, n + 1, s)
    BY <1>9, <1>11, <1>12, <1>13 DEF Orders
  <1> QED
    BY <1>14

LEMMA OrderExists ==
    ASSUME NEW n \in Nat, NEW s \in [1 .. n -> Nat]
    PROVE  \E p : Orders(p, n, s)
  <1> DEFINE T == {k \in Nat : \A r \in [1 .. k -> Nat] : \E p : Orders(p, k, r)}
  <1>1. 0 \in T
    <2> SUFFICES ASSUME NEW r \in [1 .. 0 -> Nat]
                 PROVE  \E p : Orders(p, 0, r)
      OBVIOUS
    <2>1. Orders([i \in 1 .. 0 |-> 1], 0, r)
      BY DEF Orders
    <2> QED
      BY <2>1
  <1>2. ASSUME NEW k \in T
        PROVE  k + 1 \in T
    <2>1. k \in Nat /\ \A r \in [1 .. k -> Nat] : \E p : Orders(p, k, r)
      OBVIOUS
    <2>2. \A r \in [1 .. (k + 1) -> Nat] : \E p : Orders(p, k + 1, r)
      BY <2>1, OrderStep
    <2> QED
      BY <2>1, <2>2
  <1>3. T \subseteq Nat
    OBVIOUS
  <1>4. n \in T
    <2> HIDE DEF T
    <2> QED
      BY <1>1, <1>2, <1>3, SetInduction
  <1> QED
    BY <1>4

\* The library's sorted gives a sequence that some order of the positions gives.
LEMMA SortedFacts ==
    ASSUME NEW s \in Seq(Nat)
    PROVE  \E p : /\ Orders(p, Len(s), s)
                  /\ SortedValues(s) = [i \in 1 .. Len(s) |-> s[p[i]]]
  <1> DEFINE n == Len(s)
             Sortings == {[i \in DOMAIN s |-> s[p[i]]] : p \in Bijection(DOMAIN s, DOMAIN s)}
  <1>1. n \in Nat /\ DOMAIN s = 1 .. n /\ s \in [1 .. n -> Nat]
    OBVIOUS
  <1> HIDE DEF n
  <1>2. ASSUME NEW p, Orders(p, n, s)
        PROVE  p \in Bijection(DOMAIN s, DOMAIN s)
    BY <1>1, <1>2 DEF Orders, Bijection, Injection, Surjection, IsInjective
  <1>3. \E t \in Sortings : Ascending(t)
    <2>1. PICK p : Orders(p, n, s)
      BY <1>1, OrderExists
    <2> DEFINE t == [i \in DOMAIN s |-> s[p[i]]]
    <2>2. t \in Sortings
      BY <1>2, <2>1
    <2>3. Ascending(t)
      BY <1>1, <2>1 DEF Ascending, Orders
    <2> QED
      BY <2>2, <2>3
  <1>4. SortedValues(s) \in Sortings /\ Ascending(SortedValues(s))
    <2>1. SortedValues(s) = CHOOSE t \in Sortings : Ascending(t)
      BY DEF SortedValues
    <2> HIDE DEF Sortings
    <2> QED
      BY <1>3, <2>1
  <1>5. PICK p \in Bijection(DOMAIN s, DOMAIN s) :
            SortedValues(s) = [i \in DOMAIN s |-> s[p[i]]]
    BY <1>4
  <1>6. /\ p \in [1 .. n -> 1 .. n]
        /\ \A i, j \in 1 .. n : p[i] = p[j] => i = j
        /\ \A v \in 1 .. n : \E i \in 1 .. n : p[i] = v
    BY <1>1 DEF Bijection, Injection, Surjection, IsInjective
  <1>7. \A i, j \in 1 .. n : i < j => s[p[i]] <= s[p[j]]
    <2>1. PICK t : t = SortedValues(s)
      OBVIOUS
    <2>2. DOMAIN t = 1 .. n /\ \A i \in 1 .. n : t[i] = s[p[i]]
      BY <1>1, <1>5, <2>1
    <2>3. \A i, j \in 1 .. n : i < j => t[i] <= t[j]
      BY <1>4, <2>1, <2>2 DEF Ascending
    <2> QED
      BY <2>2, <2>3
  <1>8. Orders(p, n, s)
    BY <1>6, <1>7 DEF Orders
  <1> QED
    BY <1>1, <1>5, <1>8 DEF n

\* How many values are smaller than v, and how many are not greater.
Smaller(s, v) == Cardinality({j \in DOMAIN s : s[j] < v})
NotGreater(s, v) == Cardinality({j \in DOMAIN s : s[j] <= v})

\* Fewer than k values are smaller than the k-th in order, and at least k are not greater.
LEMMA RankFacts ==
    ASSUME NEW s \in Seq(Nat), NEW p, Orders(p, Len(s), s), NEW k \in 1 .. Len(s)
    PROVE  /\ Smaller(s, s[p[k]]) <= k - 1
           /\ NotGreater(s, s[p[k]]) >= k
           /\ IsFiniteSet(DOMAIN s)
  <1>1. PICK n : n \in Nat /\ n = Len(s) /\ DOMAIN s = 1 .. n /\ k \in 1 .. n
    OBVIOUS
  <1>2. /\ p \in [1 .. n -> 1 .. n]
        /\ \A i, j \in 1 .. n : p[i] = p[j] => i = j
        /\ \A v \in 1 .. n : \E i \in 1 .. n : p[i] = v
        /\ \A i, j \in 1 .. n : i < j => s[p[i]] <= s[p[j]]
    BY <1>1 DEF Orders
  <1>3. \A j \in 1 .. n : s[j] \in Nat
    BY <1>1
  <1> DEFINE Below == {j \in DOMAIN s : s[j] < s[p[k]]}
             UpTo == {j \in DOMAIN s : s[j] <= s[p[k]]}
  <1>4. IsFiniteSet(1 .. n) /\ IsFiniteSet(1 .. (k - 1)) /\ Cardinality(1 .. (k - 1)) = k - 1
        /\ IsFiniteSet(1 .. k) /\ Cardinality(1 .. k) = k
    <2>1. k - 1 \in Nat /\ k \in Nat /\ n \in Nat
      BY <1>1
    <2>2. IsFiniteSet(1 .. n)
      BY <2>1, FS_Interval
    <2>3. IsFiniteSet(1 .. (k - 1)) /\ Cardinality(1 .. (k - 1)) = k - 1
      <3>1. PICK l : l \in Nat /\ l = k - 1
        BY <2>1
      <3>2. IsFiniteSet(1 .. l) /\ Cardinality(1 .. l) = IF 1 > l THEN 0 ELSE l - 1 + 1
        BY <3>1, FS_Interval
      <3>3. Cardinality(1 .. l) = l
        BY <3>1, <3>2
      <3> QED
        BY <3>1, <3>2, <3>3
    <2>4. IsFiniteSet(1 .. k) /\ Cardinality(1 .. k) = k
      <3>1. IsFiniteSet(1 .. k) /\ Cardinality(1 .. k) = IF 1 > k THEN 0 ELSE k - 1 + 1
        BY <2>1, FS_Interval
      <3> QED
        BY <2>1, <3>1
    <2> QED
      BY <2>2, <2>3, <2>4
  <1>5. Cardinality(Below) <= k - 1
    <2>1. \A j \in Below : \E i \in 1 .. (k - 1) : p[i] = j
      <3> SUFFICES ASSUME NEW j \in 1 .. n, s[j] < s[p[k]]
                   PROVE  \E i \in 1 .. (k - 1) : p[i] = j
        BY <1>1
      <3>1. PICK i \in 1 .. n : p[i] = j
        BY <1>2
      <3>2. ~(k <= i)
        <4>1. s[j] \in Nat /\ s[p[k]] \in Nat
          BY <1>1, <1>2, <1>3
        <4>2. k = i => s[p[k]] = s[j]
          BY <3>1
        <4>3. k < i => s[p[k]] <= s[j]
          BY <1>1, <1>2, <3>1
        <4> QED
          BY <1>1, <4>1, <4>2, <4>3
      <3>3. i \in 1 .. (k - 1)
        BY <1>1, <3>2
      <3> QED
        BY <3>1, <3>3
    <2> DEFINE f == [j \in Below |-> CHOOSE i \in 1 .. (k - 1) : p[i] = j]
    <2>2. \A j \in Below : f[j] \in 1 .. (k - 1) /\ p[f[j]] = j
      BY <2>1
    <2>3. f \in Injection(Below, 1 .. (k - 1))
      <3>1. f \in [Below -> 1 .. (k - 1)] /\ DOMAIN f = Below
        BY <2>2
      <3> HIDE DEF f, Below
      <3> QED
        BY <2>2, <3>1 DEF Injection, IsInjective
    <2> HIDE DEF f, Below
    <2> QED
      BY <1>4, <2>3, FS_Injection
  <1>6. Cardinality(UpTo) >= k
    <2> DEFINE f == [i \in 1 .. k |-> p[i]]
    <2>1. \A i \in 1 .. k : i \in 1 .. n /\ p[i] \in UpTo
      <3> SUFFICES ASSUME NEW i \in 1 .. k
                   PROVE  i \in 1 .. n /\ p[i] \in UpTo
        OBVIOUS
      <3>1. i \in 1 .. n /\ p[i] \in 1 .. n
        <4>1. n \in Nat /\ k \in 1 .. n
          BY <1>1
        <4>2. i \in 1 .. n
          BY <4>1
        <4> QED
          BY <1>2, <4>2
      <3>2. s[p[i]] \in Nat
        BY <1>3, <3>1
      <3>3. s[p[i]] <= s[p[k]]
        <4>1. CASE i = k
          BY <3>2, <4>1
        <4>2. CASE i # k
          BY <1>1, <1>2, <3>1, <4>2
        <4> QED
          BY <4>1, <4>2
      <3> QED
        BY <1>1, <3>1, <3>3
    <2>2. f \in [1 .. k -> UpTo] /\ DOMAIN f = 1 .. k
      BY <2>1
    <2>3. f \in Injection(1 .. k, UpTo)
      <3>1. \A i, j \in 1 .. k : f[i] = f[j] => i = j
        BY <1>2, <2>1
      <3> HIDE DEF f, UpTo
      <3> QED
        BY <2>2, <3>1 DEF Injection, IsInjective
    <2>4. UpTo \subseteq 1 .. n
      BY <1>1
    <2> HIDE DEF f, UpTo
    <2>5. IsFiniteSet(UpTo)
      BY <1>4, <2>4, FS_Subset
    <2>6. Cardinality(1 .. k) <= Cardinality(UpTo) /\ Cardinality(UpTo) \in Nat
      BY <2>3, <2>5, FS_Injection, FS_CardinalityType
    <2> QED
      BY <1>1, <1>4, <2>6
  <1> QED
    BY <1>1, <1>4, <1>5, <1>6 DEF Smaller, NotGreater

\* There is one value at a position, and sorting puts it there.
LEMMA AtIs ==
    ASSUME NEW s \in Seq(Nat), NEW k \in 1 .. Len(s)
    PROVE  /\ SortedValues(s)[k] = At(s, k - 1)
           /\ SortedValues(s)[k] \in Nat
           /\ Len(SortedValues(s)) = Len(s)
  <1>1. PICK p : /\ Orders(p, Len(s), s)
                 /\ SortedValues(s) = [i \in 1 .. Len(s) |-> s[p[i]]]
    BY SortedFacts
  <1>2. PICK n : n \in Nat /\ n = Len(s) /\ DOMAIN s = 1 .. n /\ k \in 1 .. n
    OBVIOUS
  <1>3. PICK v : v = s[p[k]] /\ v \in Range(s) /\ v \in Nat
    <2>1. p[k] \in 1 .. n
      BY <1>1, <1>2 DEF Orders
    <2>2. s[p[k]] \in Nat
      BY <1>2, <2>1
    <2> QED
      BY <1>2, <2>1, <2>2 DEF Range
  <1> DEFINE Here(w) == Smaller(s, w) <= k - 1 /\ NotGreater(s, w) > k - 1
  <1>4. IsFiniteSet(DOMAIN s)
    BY <1>1, RankFacts
  <1>5. \A w : Smaller(s, w) \in Nat /\ NotGreater(s, w) \in Nat
    <2> TAKE w
    <2>1. /\ {j \in DOMAIN s : s[j] < w} \in SUBSET DOMAIN s
          /\ {j \in DOMAIN s : s[j] <= w} \in SUBSET DOMAIN s
      OBVIOUS
    <2>2. /\ IsFiniteSet({j \in DOMAIN s : s[j] < w})
          /\ IsFiniteSet({j \in DOMAIN s : s[j] <= w})
      BY <1>4, <2>1, FS_Subset
    <2> QED
      BY <2>2, FS_CardinalityType DEF Smaller, NotGreater
  <1>6. Here(v)
    <2>1. Smaller(s, v) <= k - 1 /\ NotGreater(s, v) >= k
      BY <1>1, <1>3, RankFacts
    <2>2. k \in Nat /\ NotGreater(s, v) \in Nat
      BY <1>2, <1>5
    <2> QED
      BY <2>1, <2>2
  <1>7. ASSUME NEW u, NEW w, u \in Nat, w \in Nat, Here(u), Here(w)
        PROVE  ~(u < w)
    <2> SUFFICES ASSUME u < w PROVE FALSE
      OBVIOUS
    <2> DEFINE U == {j \in DOMAIN s : s[j] <= u}
               W == {j \in DOMAIN s : s[j] < w}
    <2>1. U \subseteq W
      <3>1. \A j \in 1 .. n : s[j] \in Nat
        BY <1>2
      <3> QED
        BY <1>2, <1>7, <3>1
    <2>2. IsFiniteSet(W)
      <3>1. W \in SUBSET DOMAIN s
        OBVIOUS
      <3> QED
        BY <1>4, <3>1, FS_Subset
    <2>3. /\ Cardinality(U) > k - 1 /\ Cardinality(W) <= k - 1
          /\ Cardinality(U) \in Nat /\ Cardinality(W) \in Nat
      BY <1>5, <1>7 DEF Smaller, NotGreater
    <2> HIDE DEF U, W
    <2>4. Cardinality(U) <= Cardinality(W)
      BY <2>1, <2>2, FS_Subset
    <2>5. k \in Nat
      BY <1>2
    <2> QED
      BY <2>3, <2>4, <2>5
  <1>8. At(s, k - 1) = v
    <2>1. At(s, k - 1) = CHOOSE w \in Range(s) : Here(w)
      BY DEF At, Smaller, NotGreater
    <2>2. \A w \in Range(s) : w \in Nat
      BY <1>2 DEF Range
    <2> HIDE DEF Here
    <2>3. At(s, k - 1) \in Range(s) /\ Here(At(s, k - 1))
      BY <1>3, <1>6, <2>1
    <2>4. PICK a : a = At(s, k - 1) /\ a \in Nat /\ Here(a)
      BY <2>2, <2>3
    <2>5. ~(a < v) /\ ~(v < a)
      BY <1>3, <1>6, <1>7, <2>4
    <2> QED
      BY <1>3, <2>4, <2>5
  <1>9. SortedValues(s)[k] = v /\ Len(SortedValues(s)) = n
    <2>1. Len([i \in 1 .. n |-> s[p[i]]]) = n
      BY <1>2
    <2> QED
      BY <1>1, <1>2, <1>3, <2>1
  <1> QED
    BY <1>2, <1>3, <1>8, <1>9

------------------------------------------------------------------------------
(* The statistics                                                          *)

LEMMA HundredFacts ==
    ASSUME NEW k \in Nat
    PROVE  /\ k \div 100 \in Nat /\ k % 100 \in 0 .. 99
           /\ k = 100 * (k \div 100) + (k % 100)
           /\ -((-k) \div 100) = IF k % 100 = 0 THEN k \div 100 ELSE (k \div 100) + 1
    OBVIOUS

\* A percentile of n values lies part hundredths behind position f, counting from 0.
Place(n, p, f, part) ==
    /\ f \in Nat /\ part \in 0 .. 99
    /\ f = ((n - 1) * p) \div 100 /\ part = ((n - 1) * p) % 100
    /\ (n - 1) * p = 100 * f + part
    /\ f + 1 \in 1 .. n
    /\ part # 0 => f + 2 \in 1 .. n
    /\ FloorIndex(n, p) = f
    /\ CeilIndex(n, p) = IF part = 0 THEN f ELSE f + 1

\* It has a place, not behind the last value.
LEMMA PlaceFacts ==
    ASSUME NEW n \in Nat \ {0}, NEW p \in 0 .. 100
    PROVE  \E f, part : Place(n, p, f, part)
  <1>1. PICK m : m \in Nat /\ m = n - 1 /\ n = m + 1
    <2>1. n - 1 \in Nat /\ n = (n - 1) + 1
      OBVIOUS
    <2> QED
      BY <2>1
  <1>2. PICK k : k \in Nat /\ k = (n - 1) * p /\ k <= 100 * m
    <2>1. \A x \in Nat : x * p \in Nat /\ x * p <= 100 * x
      OBVIOUS
    <2> QED
      BY <1>1, <2>1
  <1>3. PICK f, part : /\ f \in Nat /\ f = k \div 100
                       /\ part \in 0 .. 99 /\ part = k % 100
                       /\ k = 100 * f + part
                       /\ -((-k) \div 100) = IF part = 0 THEN f ELSE f + 1
    <2>1. k \in Nat
      BY <1>2
    <2>2. /\ k \div 100 \in Nat /\ k % 100 \in 0 .. 99
          /\ k = 100 * (k \div 100) + (k % 100)
          /\ -((-k) \div 100) = IF k % 100 = 0 THEN k \div 100 ELSE (k \div 100) + 1
      BY <2>1, HundredFacts
    <2> QED
      BY <2>2, Zenon
  <1>4. f <= m /\ (part # 0 => f + 1 <= m)
    <2>1. k \in Nat /\ m \in Nat /\ k <= 100 * m
      BY <1>1, <1>2
    <2> QED
      BY <1>3, <2>1
  <1>5. f + 1 \in 1 .. n /\ (part # 0 => f + 2 \in 1 .. n)
    BY <1>1, <1>3, <1>4
  <1>6. FloorIndex(n, p) = f
    BY <1>2, <1>3 DEF FloorIndex
  <1>7. CeilIndex(n, p) = IF part = 0 THEN f ELSE f + 1
    <2>1. -(n - 1) * p = -k
      BY <1>2
    <2> QED
      BY <1>3, <2>1 DEF CeilIndex
  <1>8. Place(n, p, f, part)
    BY <1>2, <1>3, <1>5, <1>6, <1>7 DEF Place
  <1> QED
    BY <1>8

\* The value part hundredths behind position f of the sorted values.
Between(s, f, part) ==
    IF part = 0 THEN 100 * SortedValues(s)[f + 1]
    ELSE SortedValues(s)[f + 1] * (100 - part) + SortedValues(s)[f + 2] * part

\* What percentile computes, with and without its special case of a single value.
LEMMA PercentileIs ==
    ASSUME NEW s \in Seq(Nat), Len(s) # 0, NEW p \in 0 .. 100,
           NEW f, NEW part, Place(Len(s), p, f, part)
    PROVE  percentile(s, p) = Between(s, f, part)
  <1>1. PICK n, v : /\ n \in Nat /\ n = Len(s) /\ n # 0
                    /\ v = SortedValues(s)
    BY LengthIsNat
  <1>2. f \in Nat /\ part \in 0 .. 99
    BY DEF Place
  <1>3. /\ FloorIndex(n, p) = f
        /\ CeilIndex(n, p) = IF part = 0 THEN f ELSE f + 1
    BY <1>1 DEF Place
  <1>4. 1 \in 1 .. n
    BY <1>1
  <1>5. Len(v) = n
    BY <1>1, <1>4, AtIs
  <1>6. (n - 1) * p = 100 * f + part
    BY <1>1 DEF Place
  <1>7. CASE n = 1
    <2>1. f = 0 /\ part = 0
      <3>1. (n - 1) * p = 0
        BY <1>7
      <3> QED
        BY <1>6, <1>2, <3>1
    <2> QED
      BY <1>1, <1>5, <1>7, <2>1 DEF percentile, Between
  <1>8. CASE n # 1 /\ part = 0
    <2>1. percentile(s, p) = Interpolated(v, p)
      BY <1>1, <1>5, <1>8 DEF percentile
    <2>2. Interpolated(v, p) = 100 * v[f + 1]
      BY <1>1, <1>5, <1>8, <1>3 DEF Interpolated
    <2> QED
      BY <1>1, <1>8, <2>1, <2>2 DEF Between
  <1>9. CASE n # 1 /\ part # 0
    <2>1. percentile(s, p) = Interpolated(v, p)
      BY <1>1, <1>5, <1>9 DEF percentile
    <2>2. f # f + 1
      BY <1>2
    <2>3. Interpolated(v, p) = v[f + 1] * (100 * (f + 1) - (100 * f + part))
                               + v[(f + 1) + 1] * ((100 * f + part) - 100 * f)
      BY <1>1, <1>5, <1>6, <1>9, <1>3, <2>2 DEF Interpolated
    <2>4. /\ 100 * (f + 1) - (100 * f + part) = 100 - part
          /\ (100 * f + part) - 100 * f = part
          /\ (f + 1) + 1 = f + 2
      BY <1>2
    <2> QED
      BY <1>1, <1>9, <2>1, <2>3, <2>4 DEF Between
  <1> QED
    BY <1>7, <1>8, <1>9

\* percentile is what its definition asks for, for any values (calculate_statistics.py
\* 10-24).
THEOREM PercentileCorrect ==
    ASSUME NEW s \in Seq(Nat), Len(s) # 0, NEW p \in 0 .. 100
    PROVE  percentile(s, p) = ReferencePercentile(s, p)
  <1>1. PICK n, v : /\ n \in Nat \ {0} /\ n = Len(s)
                    /\ v = SortedValues(s)
    BY LengthIsNat
  <1>2. PICK f, part : Place(n, p, f, part)
    BY <1>1, PlaceFacts
  <1>3. f \in Nat /\ f + 1 \in 1 .. n /\ part \in 0 .. 99 /\ (part # 0 => f + 2 \in 1 .. n)
    BY <1>2 DEF Place
  <1>4. PICK a : a \in Nat /\ a = v[f + 1] /\ a = At(s, f)
    <2>1. (f + 1) - 1 = f
      BY <1>3
    <2> QED
      BY <1>1, <1>3, <2>1, AtIs
  <1>5. percentile(s, p) = IF part = 0 THEN 100 * a ELSE a * (100 - part) + v[f + 2] * part
    <2>1. Place(Len(s), p, f, part)
      BY <1>1, <1>2
    <2>2. percentile(s, p) = Between(s, f, part)
      BY <2>1, PercentileIs
    <2> QED
      BY <1>1, <1>4, <2>2 DEF Between
  <1>6. ReferencePercentile(s, p) =
            100 * a + part * (At(s, IF part = 0 THEN f ELSE f + 1) - a)
    BY <1>1, <1>2, <1>4 DEF Place, ReferencePercentile
  <1>7. CASE part = 0
    <2>1. 100 * a + 0 * (a - a) = 100 * a
      BY <1>4
    <2> QED
      BY <1>4, <1>5, <1>6, <1>7, <2>1
  <1>8. CASE part # 0
    <2>1. PICK b : b \in Nat /\ b = v[f + 2] /\ b = At(s, f + 1)
      <3>1. (f + 2) - 1 = f + 1
        BY <1>3
      <3> QED
        BY <1>1, <1>8, <1>3, <3>1, AtIs
    <2>2. \A x, y, z \in Nat : z <= 100 => x * (100 - z) + y * z = 100 * x + z * (y - x)
      OBVIOUS
    <2>3. part \in Nat /\ part <= 100
      <3>1. part \in 0 .. 99
        BY <1>3
      <3> QED
        BY <3>1
    <2>4. a * (100 - part) + b * part = 100 * a + part * (b - a)
      BY <1>4, <2>1, <2>2, <2>3
    <2> QED
      BY <1>5, <1>6, <1>8, <2>1, <2>4
  <1> QED
    BY <1>7, <1>8

\* The sorted values are the values, with a least one first and a greatest one last.
LEMMA SortedEnds ==
    ASSUME NEW s \in Seq(Nat), Len(s) # 0
    PROVE  /\ SortedValues(s)[1] \in Range(s) /\ SortedValues(s)[Len(s)] \in Range(s)
           /\ \A x \in Range(s) : /\ x \in Nat
                                  /\ SortedValues(s)[1] <= x
                                  /\ x <= SortedValues(s)[Len(s)]
  <1>1. PICK n : n \in Nat /\ n = Len(s) /\ n # 0 /\ DOMAIN s = 1 .. n
    BY LengthIsNat
  <1>2. PICK p : Orders(p, n, s) /\ SortedValues(s) = [i \in 1 .. n |-> s[p[i]]]
    BY <1>1, SortedFacts
  <1>3. /\ \A i \in 1 .. n : p[i] \in 1 .. n
        /\ \A v \in 1 .. n : \E i \in 1 .. n : p[i] = v
        /\ \A i, j \in 1 .. n : i < j => s[p[i]] <= s[p[j]]
    BY <1>2 DEF Orders
  <1>4. \A j \in 1 .. n : s[j] \in Nat
    BY <1>1
  <1>5. 1 \in 1 .. n /\ n \in 1 .. n
    BY <1>1
  <1>6. SortedValues(s)[1] = s[p[1]] /\ SortedValues(s)[n] = s[p[n]]
    BY <1>2, <1>5
  <1>7. ASSUME NEW x \in Range(s)
        PROVE  x \in Nat /\ s[p[1]] <= x /\ x <= s[p[n]]
    <2>1. PICK j \in 1 .. n : x = s[j]
      BY <1>1 DEF Range
    <2>2. PICK i \in 1 .. n : p[i] = j
      BY <1>3
    <2>3. x \in Nat /\ x = s[p[i]] /\ s[p[1]] \in Nat /\ s[p[n]] \in Nat
      BY <1>3, <1>4, <1>5, <2>1, <2>2
    <2>4. i = 1 \/ 1 < i
      BY <2>2
    <2>5. i = n \/ i < n
      BY <1>1, <2>2
    <2>6. s[p[1]] <= x
      <3>1. i = 1 => s[p[1]] = x
        BY <2>3
      <3>2. 1 < i => s[p[1]] <= s[p[i]]
        BY <1>3, <1>5
      <3> QED
        BY <2>3, <2>4, <3>1, <3>2
    <2>7. x <= s[p[n]]
      <3>1. i = n => s[p[n]] = x
        BY <2>3
      <3>2. i < n => s[p[i]] <= s[p[n]]
        BY <1>3, <1>5
      <3> QED
        BY <2>3, <2>5, <3>1, <3>2
    <2> QED
      BY <2>3, <2>6, <2>7
  <1>8. s[p[1]] \in Range(s) /\ s[p[n]] \in Range(s)
    BY <1>1, <1>3, <1>5 DEF Range
  <1> QED
    BY <1>1, <1>6, <1>7, <1>8

\* min and max find what percentile finds at its ends.
LEMMA EndsAre ==
    ASSUME NEW s \in Seq(Nat), Len(s) # 0
    PROVE  Minimum(s) = percentile(s, 0) /\ Maximum(s) = percentile(s, 100)
  <1>1. PICK n, least, greatest :
            /\ n \in Nat \ {0} /\ n = Len(s)
            /\ least = SortedValues(s)[1] /\ greatest = SortedValues(s)[n]
    BY LengthIsNat
  <1>2. /\ least \in Range(s) /\ greatest \in Range(s)
        /\ \A x \in Range(s) : x \in Nat /\ least <= x /\ x <= greatest
    BY <1>1, SortedEnds
  <1>3. Min(Range(s)) = least
    <2>1. \A x \in Range(s) : (\A y \in Range(s) : x <= y) => x = least
      BY <1>2
    <2>2. \A y \in Range(s) : least <= y
      BY <1>2
    <2> QED
      BY <1>2, <2>1, <2>2 DEF Min
  <1>4. Max(Range(s)) = greatest
    <2>1. \A x \in Range(s) : (\A y \in Range(s) : x >= y) => x = greatest
      BY <1>2
    <2>2. \A y \in Range(s) : greatest >= y
      BY <1>2
    <2> QED
      BY <1>2, <2>1, <2>2 DEF Max
  <1>5. percentile(s, 0) = 100 * least
    <2>1. PICK f, part : Place(n, 0, f, part)
      BY <1>1, PlaceFacts
    <2>2. f = 0 /\ part = 0
      <3>1. (n - 1) * 0 = 0
        BY <1>1
      <3> QED
        BY <2>1, <3>1 DEF Place
    <2>3. percentile(s, 0) = Between(s, 0, 0)
      BY <1>1, <2>1, <2>2, PercentileIs
    <2> QED
      BY <1>1, <2>3 DEF Between
  <1>6. percentile(s, 100) = 100 * greatest
    <2>1. PICK f, part : Place(n, 100, f, part)
      BY <1>1, PlaceFacts
    <2>2. f = n - 1 /\ part = 0
      <3>1. f \in Nat /\ part \in 0 .. 99 /\ (n - 1) * 100 = 100 * f + part
        BY <2>1 DEF Place
      <3> QED
        BY <1>1, <3>1
    <2>3. percentile(s, 100) = Between(s, n - 1, 0)
      BY <1>1, <2>1, <2>2, PercentileIs
    <2>4. (n - 1) + 1 = n
      BY <1>1
    <2> QED
      BY <1>1, <2>3, <2>4 DEF Between
  <1> QED
    BY <1>3, <1>4, <1>5, <1>6 DEF Minimum, Maximum

\* median finds what percentile finds in the middle.
LEMMA MiddleIs ==
    ASSUME NEW s \in Seq(Nat), Len(s) # 0
    PROVE  Median(s) = percentile(s, 50)
  <1>1. PICK n, v : n \in Nat \ {0} /\ n = Len(s) /\ v = SortedValues(s)
    BY LengthIsNat
  <1>2. \A k \in 1 .. n : v[k] \in Nat
    BY <1>1, AtIs
  <1>3. Len(v) = n
    <2>1. 1 \in 1 .. n
      BY <1>1
    <2> QED
      BY <1>1, <2>1, AtIs
  <1>4. PICK f, part : Place(n, 50, f, part)
    BY <1>1, PlaceFacts
  <1>5. f \in Nat /\ part \in 0 .. 99 /\ (n - 1) * 50 = 100 * f + part /\ f + 1 \in 1 .. n
            /\ (part # 0 => f + 2 \in 1 .. n)
    BY <1>4 DEF Place
  <1>6. percentile(s, 50) = Between(s, f, part)
    BY <1>1, <1>4, PercentileIs
  <1>7. CASE n % 2 = 1
    <2>1. f = n \div 2 /\ part = 0
      <3>1. PICK h : h \in Nat /\ h = n \div 2 /\ n = 2 * h + 1
        <4>1. n = 2 * (n \div 2) + 1 /\ n \div 2 \in Nat
          BY <1>1, <1>7
        <4> QED
          BY <4>1
      <3>2. (n - 1) * 50 = 100 * h
        BY <3>1
      <3>3. f = h /\ part = 0
        BY <1>5, <3>1, <3>2
      <3> QED
        BY <3>1, <3>3
    <2>2. Median(s) = 100 * v[n \div 2 + 1]
      BY <1>1, <1>3, <1>7 DEF Median
    <2>3. percentile(s, 50) = 100 * v[f + 1]
      BY <1>1, <1>6, <2>1 DEF Between
    <2> QED
      BY <2>1, <2>2, <2>3
  <1>8. CASE n % 2 # 1
    <2>1. f + 1 = n \div 2 /\ part = 50 /\ (f + 1) + 1 = f + 2
      <3>1. PICK h : h \in Nat /\ h = n \div 2 /\ n = 2 * h
        <4>1. n = 2 * (n \div 2) /\ n \div 2 \in Nat
          BY <1>1, <1>8
        <4> QED
          BY <4>1
      <3>2. (n - 1) * 50 = 100 * (h - 1) + 50
        BY <3>1
      <3> QED
        BY <1>5, <3>1, <3>2
    <2>2. Median(s) = 50 * (v[n \div 2] + v[n \div 2 + 1])
      BY <1>1, <1>3, <1>8 DEF Median
    <2>3. percentile(s, 50) = v[f + 1] * (100 - 50) + v[f + 2] * 50
      BY <1>1, <1>6, <2>1 DEF Between
    <2>4. PICK a, b : a \in Nat /\ b \in Nat /\ a = v[f + 1] /\ b = v[f + 2]
      <3>1. f + 1 \in 1 .. n /\ f + 2 \in 1 .. n
        BY <1>5, <2>1
      <3> QED
        BY <1>2, <3>1
    <2>5. \A x, y \in Nat : x * (100 - 50) + y * 50 = 50 * (x + y)
      OBVIOUS
    <2>6. a * (100 - 50) + b * 50 = 50 * (a + b)
      BY <2>4, <2>5
    <2>7. Median(s) = 50 * (a + b)
      <3>1. v[n \div 2] = a /\ v[n \div 2 + 1] = b
        <4>1. n \div 2 + 1 = f + 2
          BY <2>1
        <4> QED
          BY <2>1, <2>4, <4>1
      <3> QED
        BY <2>2, <3>1
    <2>8. percentile(s, 50) = a * (100 - 50) + b * 50
      BY <2>3, <2>4
    <2> QED
      BY <2>6, <2>7, <2>8
  <1> QED
    BY <1>7, <1>8

------------------------------------------------------------------------------
(* What is collected from the results file                                 *)

\* The function over the rows exists, and what it collects are latencies.
LEMMA CollectedFacts ==
    ASSUME rows \in Seq(Rows)
    PROVE  latencies \in Seq(Nat)
  <1>1. PICK N, q : N \in Nat /\ N = Len(rows) /\ q = rows /\ q \in Seq(Rows)
    BY LengthIsNat
  <1> DEFINE further(k, l) == IF Measured(q[k]) THEN Append(l, q[k].latency) ELSE l
             Collects(n, f) == /\ f \in [0 .. n -> Seq(Nat)]
                               /\ f[0] = <<>>
                               /\ \A k \in 1 .. n : f[k] = further(k, f[k - 1])
             T == {n \in Nat : n <= N => \E f : Collects(n, f)}
  <1>2. \A k \in 1 .. N, l \in Seq(Nat) : further(k, l) \in Seq(Nat)
    <2> SUFFICES ASSUME NEW k \in 1 .. N, NEW l \in Seq(Nat), Measured(q[k])
                 PROVE  Append(l, q[k].latency) \in Seq(Nat)
      OBVIOUS
    <2>1. q[k] \in Rows
      BY <1>1
    <2>2. q[k].latency \in Nat
      BY <2>1, StatisticsAssumption DEF Rows, Measured
    <2> QED
      BY <2>2, AppendFacts
  <1> HIDE DEF further
  <1>3. 0 \in T
    <2>1. Collects(0, [k \in 0 .. 0 |-> <<>>])
      <3>1. <<>> \in Seq(Nat)
        BY EmptyFacts
      <3> QED
        BY <3>1
    <2> QED
      BY <2>1
  <1>4. ASSUME NEW n \in T
        PROVE  n + 1 \in T
    <2> SUFFICES ASSUME n + 1 <= N PROVE \E g : Collects(n + 1, g)
      <3>1. n + 1 \in Nat
        OBVIOUS
      <3> HIDE DEF Collects
      <3> QED
        BY <3>1
    <2>1. n \in Nat /\ n + 1 \in Nat /\ n <= N
      BY <1>1
    <2>2. PICK f : Collects(n, f)
      BY <2>1
    <2> DEFINE g == [k \in 0 .. (n + 1) |-> IF k = n + 1 THEN further(n + 1, f[n]) ELSE f[k]]
    <2>3. further(n + 1, f[n]) \in Seq(Nat)
      <3>1. f[n] \in Seq(Nat) /\ n + 1 \in 1 .. N
        BY <1>1, <2>1, <2>2
      <3> QED
        BY <1>2, <3>1
    <2>4. g \in [0 .. (n + 1) -> Seq(Nat)]
      BY <2>1, <2>2, <2>3
    <2>5. g[0] = <<>>
      BY <2>1, <2>2
    <2>6. ASSUME NEW k \in 1 .. (n + 1)
          PROVE  g[k] = further(k, g[k - 1])
      <3>1. k - 1 \in 0 .. n /\ g[k - 1] = f[k - 1]
        BY <2>1
      <3>2. CASE k = n + 1
        <4>1. g[k] = further(n + 1, f[n]) /\ k - 1 = n
          BY <2>1, <3>2
        <4> QED
          BY <3>1, <3>2, <4>1
      <3>3. CASE k # n + 1
        <4>1. k \in 1 .. n /\ g[k] = f[k]
          BY <2>1, <3>3
        <4> QED
          BY <2>2, <3>1, <4>1
      <3> QED
        BY <3>2, <3>3
    <2>7. Collects(n + 1, g)
      <3> HIDE DEF g
      <3> QED
        BY <2>4, <2>5, <2>6
    <2> QED
      BY <2>7
  <1>5. T = Nat
    <2>1. T \subseteq Nat
      OBVIOUS
    <2> HIDE DEF T
    <2> QED
      BY <1>3, <1>4, <2>1, SetInduction
  <1>6. PICK f : Collects(N, f)
    <2>1. N \in T
      BY <1>1, <1>5
    <2> QED
      BY <1>1, <2>1
  <1> DEFINE Equation(g) ==
                 g = [n \in 0 .. N |-> IF n = 0 THEN <<>> ELSE further(n, g[n - 1])]
  <1>7. Equation(f)
    <2>1. \A k \in 0 .. N : f[k] = IF k = 0 THEN <<>> ELSE further(k, f[k - 1])
      BY <1>1, <1>6
    <2> QED
      BY <1>6, <2>1
  <1>8. Equation(collected)
    <2>1. collected = CHOOSE g : Equation(g)
      BY <1>1 DEF collected, further
    <2> HIDE DEF Equation
    <2> QED
      BY <1>7, <2>1
  <1>9. PICK g : g = collected /\ Equation(g)
    BY <1>8
  <1> DEFINE Typed == {k \in Nat : k <= N => g[k] \in Seq(Nat)}
  <1>10. 0 \in Typed
    BY <1>1, <1>9, EmptyFacts
  <1>11. ASSUME NEW k \in Typed
         PROVE  k + 1 \in Typed
    <2> SUFFICES ASSUME k + 1 <= N PROVE g[k + 1] \in Seq(Nat)
      OBVIOUS
    <2>1. g[k] \in Seq(Nat) /\ k + 1 \in 1 .. N /\ k + 1 # 0 /\ (k + 1) - 1 = k
      BY <1>1
    <2>2. k + 1 \in 0 .. N
      BY <1>1, <2>1
    <2>3. g[k + 1] = further(k + 1, g[(k + 1) - 1])
      BY <1>9, <2>1, <2>2
    <2> QED
      BY <1>2, <2>1, <2>3
  <1>12. Typed = Nat
    <2>1. Typed \subseteq Nat
      OBVIOUS
    <2> HIDE DEF Typed
    <2> QED
      BY <1>10, <1>11, <2>1, SetInduction
  <1>13. g[N] \in Seq(Nat)
    <2>1. N \in Typed
      BY <1>1, <1>12
    <2> QED
      BY <1>1, <2>1
  <1> QED
    BY <1>1, <1>9, <1>13 DEF latencies

LEMMA InvStatistics == Inv => StatisticsDefined
  <1> SUFFICES ASSUME Inv, Len(latencies) # 0
               PROVE  /\ \A p \in Percents :
                             percentile(latencies, p) = ReferencePercentile(latencies, p)
                      /\ Minimum(latencies) = percentile(latencies, 0)
                      /\ Median(latencies) = percentile(latencies, 50)
                      /\ Maximum(latencies) = percentile(latencies, 100)
    BY DEF StatisticsDefined
  <1>1. PICK s : s = latencies /\ s \in Seq(Nat) /\ Len(s) # 0
    BY CollectedFacts DEF Inv, TypeOK
  <1>2. \A p \in Percents : percentile(s, p) = ReferencePercentile(s, p)
    BY <1>1, StatisticsAssumption, PercentileCorrect
  <1>3. Minimum(s) = percentile(s, 0) /\ Maximum(s) = percentile(s, 100)
    BY <1>1, EndsAre
  <1>4. Median(s) = percentile(s, 50)
    BY <1>1, MiddleIs
  <1> QED
    BY <1>1, <1>2, <1>3, <1>4

\* The statistics of every results file the receiver can leave behind are what they are
\* named for (calculate_statistics.py 10-24 and 60-89).
THEOREM StatisticsDefinedCorrect == Spec => []StatisticsDefined
  BY InvStatistics, InvCorrect, PTL
==============================================================================
