-------------------------- MODULE GooseTunnelProofs --------------------------
(***************************************************************************)
(* Proofs about GooseTunnel, for every set of payloads and sessions, every *)
(* counter width, queue length and set of faults.                          *)
(*                                                                         *)
(* TypeOK needs nothing else.  The other properties hold only while no     *)
(* forwarder is started twice on one session record, which is what each of *)
(* their theorems assumes, and follow from the inductive invariant Inv.    *)
(***************************************************************************)
EXTENDS GooseTunnel, TLAPS

------------------------------------------------------------------------------
(* Sequences: what the TAP queue needs.                                    *)

\* The head of a non-empty queue is a frame and its tail is a queue.
LEMMA QueueHeadTail ==
    ASSUME NEW S, NEW q \in Seq(S), q # <<>>
    PROVE  /\ Head(q) \in S
           /\ Head(q) = q[1]
           /\ Tail(q) \in Seq(S)
           /\ Len(q) \in Nat \ {0}
           /\ DOMAIN q = 1 .. Len(q)
           /\ DOMAIN Tail(q) = 1 .. (Len(q) - 1)
           /\ \A i \in DOMAIN Tail(q) : Tail(q)[i] = q[i + 1]
    OBVIOUS

\* Appending a frame keeps the earlier ones and adds one at the end.
LEMMA QueueAppend ==
    ASSUME NEW S, NEW q \in Seq(S), NEW f \in S
    PROVE  /\ Append(q, f) \in Seq(S)
           /\ Len(q) \in Nat
           /\ DOMAIN q = 1 .. Len(q)
           /\ DOMAIN Append(q, f) = 1 .. (Len(q) + 1)
           /\ \A i \in DOMAIN q : Append(q, f)[i] = q[i]
           /\ Append(q, f)[Len(q) + 1] = f
    OBVIOUS

------------------------------------------------------------------------------
(* Type correctness                                                        *)

\* Initially every variable is in its range.
LEMMA TypeInit == Init => TypeOK
  BY ConstantsAssumption DEF Init, Exchange!Init, TypeOK, InputFrames

\* What the publisher's side queues is a frame.
LEMMA EnqueueType ==
    ASSUME NEW f \in InputFrames, tapEncIn \in Seq(InputFrames), Enqueue(f)
    PROVE  tapEncIn' \in Seq(InputFrames)
  BY QueueAppend DEF Enqueue

\* What the encryptor takes from a non-empty queue is a frame; if it protects it,
\* the frame holds a payload, and the seal and the frame it makes are well-typed.
LEMMA EncryptType ==
    ASSUME TypeOK, tapEncIn # <<>>, Protectable(Head(tapEncIn)),
           encSession # NoSession, packetCounter < MaxCounter
    PROVE  /\ Head(tapEncIn).payload \in Payloads
           /\ NextSeal(Head(tapEncIn).payload) \in Seals
           /\ ProtectedFrame(NextSeal(Head(tapEncIn).payload), Head(tapEncIn).size)
                 \in WireFrames
           /\ ProtectedFrame(NextSeal(Head(tapEncIn).payload), Head(tapEncIn).size).size
                 >= MinimumLength
  <1> DEFINE f == Head(tapEncIn)
  <1>1. f \in InputFrames
    BY QueueHeadTail DEF TypeOK
  <1>2. f.payload \in Payloads /\ f.size \in Nat
    <2>1. f # OtherFrame
      <3>1. f.goose
        BY DEF Protectable
      <3>2. ~OtherFrame.goose
        BY DEF OtherFrame
      <3> QED
        BY <3>1, <3>2
    <2>2. f \in [goose : {TRUE}, size : Nat, payload : Payloads]
      BY <1>1, <2>1 DEF InputFrames
    <2> QED
      BY <2>2
  <1>3. packetCounter + 1 \in 1 .. MaxCounter
    BY ConstantsAssumption DEF TypeOK
  <1>4. NextSeal(f.payload) \in Seals
    BY <1>2, <1>3 DEF TypeOK, NextSeal, Seals
  <1>5. ProtectedFrame(NextSeal(f.payload), f.size) \in WireFrames
    BY <1>2, <1>3, <1>4
    DEF ProtectedFrame, NextSeal, WireFrames, COUNTER_SIZE, GCM_TAG_SIZE
  <1>6. ProtectedFrame(NextSeal(f.payload), f.size).size >= MinimumLength
    <2>1. f.size >= 1
      BY <1>2 DEF Protectable
    <2> QED
      BY <1>2, <2>1 DEF ProtectedFrame, MinimumLength, COUNTER_SIZE, GCM_TAG_SIZE
  <1> QED
    BY <1>2, <1>4, <1>5, <1>6

\* Frames that did not pass the encryptor are frames all the same.
LEMMA ForeignType == ForeignFrames \subseteq WireFrames
  <1> SUFFICES ASSUME NEW f \in ForeignFrames PROVE f \in WireFrames
    OBVIOUS
  <1>1. MinimumLength \in Nat /\ MinimumLength - 1 \in Nat
    BY DEF MinimumLength, COUNTER_SIZE, GCM_TAG_SIZE
  <1>2. 0 \in 0 .. MaxCounter
    BY ConstantsAssumption
  <1>3. CASE f \in [goose : {FALSE}, size : {MinimumLength}, counter : {0},
                   seal : {NoSeal}]
    <2>1. f.goose = FALSE /\ f.size = MinimumLength /\ f.counter = 0 /\ f.seal = NoSeal
      BY <1>3
    <2> QED
      BY <1>1, <1>2, <1>3, <2>1 DEF WireFrames
  <1>4. CASE f \in [goose : {TRUE}, size : {MinimumLength - 1, MinimumLength},
                   counter : 0 .. MaxCounter, seal : {NoSeal}]
    <2>1. f.goose = TRUE /\ f.size \in Nat
      BY <1>1, <1>4
    <2> QED
      BY <1>4, <2>1 DEF WireFrames
  <1> QED
    BY <1>3, <1>4 DEF ForeignFrames

\* Every action keeps every variable in its range.
LEMMA TypeNext == TypeOK /\ [Next]_vars => TypeOK'
  <1> SUFFICES ASSUME TypeOK, [Next]_vars PROVE TypeOK'
    OBVIOUS
  <1> USE ConstantsAssumption DEF TypeOK
  <1>1. CASE KeyExchange /\ Exchange!RetireEncRecord
    BY <1>1 DEF KeyExchange, Exchange!RetireEncRecord, notRecords, encState, decState
  <1>2. CASE KeyExchange /\ Exchange!RetireDecRecord
    BY <1>2 DEF KeyExchange, Exchange!RetireDecRecord, notRecords, encState, decState
  <1>3. ASSUME NEW s \in Sessions, KeyExchange, Exchange!AgreeOnSession(s) PROVE TypeOK'
    BY <1>3 DEF KeyExchange, Exchange!AgreeOnSession, notRecords, encState, decState
  <1>4. CASE KeyExchange /\ Exchange!EncExchangeEnds
    BY <1>4 DEF KeyExchange, Exchange!EncExchangeEnds, notRecords, encState, decState
  <1>5. CASE KeyExchange /\ Exchange!DecExchangeEnds
    BY <1>5 DEF KeyExchange, Exchange!DecExchangeEnds, notRecords, encState, decState
  <1>6. ASSUME NEW p \in Payloads, NEW n \in Sizes, SendGoose(p, n) PROVE TypeOK'
    <2>1. GooseFrame(p, n) \in InputFrames
      BY DEF GooseFrame, InputFrames
    <2> QED
      BY <1>6, <2>1, EnqueueType DEF SendGoose, records, decState
  <1>7. CASE SendOther
    <2>1. OtherFrame \in InputFrames
      BY DEF InputFrames
    <2> QED
      BY <1>7, <2>1, EnqueueType DEF SendOther, records, decState
  <1>8. CASE StartEncryptor
    BY <1>8 DEF StartEncryptor, records, decState
  <1>9. CASE StopEncryptor
    BY <1>9 DEF StopEncryptor, EncryptorEnds, Fault, records, decState
  <1>10. CASE SkipFrame
    BY <1>10, QueueHeadTail DEF SkipFrame, records, decState
  <1>11. CASE ExhaustCounter
    BY <1>11 DEF ExhaustCounter, EncryptorEnds, records, decState
  <1>12. CASE EncryptFrame
    BY <1>12, EncryptType, QueueHeadTail
    DEF EncryptFrame, CanEncrypt, records, decState
  <1>13. CASE EncryptWriteFails
    BY <1>13, EncryptType
    DEF EncryptWriteFails, CanEncrypt, EncryptorEnds, Fault, records, decState
  <1>14. ASSUME NEW f \in wire, LoseFrame(f) PROVE TypeOK'
    BY <1>14 DEF LoseFrame, Fault, records, encState, decState
  <1>15. ASSUME NEW f \in wire, DamageFrame(f) PROVE TypeOK'
    <2>1. f \in WireFrames
      OBVIOUS
    <2>2. /\ \A n \in 0 .. MaxCounter : [f EXCEPT !.counter = n] \in WireFrames
          /\ [f EXCEPT !.seal = NoSeal] \in WireFrames
      BY <2>1 DEF WireFrames
    <2>3. wire' \subseteq WireFrames
      BY <1>15, <2>2 DEF DamageFrame
    <2> QED
      BY <1>15, <2>3 DEF DamageFrame, Fault, records, encState, decState
  <1>16. ASSUME NEW f \in ForeignFrames, ForeignFrame(f) PROVE TypeOK'
    <2>1. f \in WireFrames
      BY ForeignType
    <2> QED
      BY <1>16, <2>1 DEF ForeignFrame, Fault, records, encState, decState
  <1>17. CASE StartDecryptor
    BY <1>17 DEF StartDecryptor, records, encState
  <1>18. CASE StopDecryptor
    BY <1>18 DEF StopDecryptor, DecryptorEnds, Fault, records, encState
  <1>19. ASSUME NEW f \in wire, RejectFrame(f) PROVE TypeOK'
    BY <1>19 DEF RejectFrame, ReadFrame, Fault, records, encState, decState
  <1>20. ASSUME NEW f \in wire, DeliverFrame(f) PROVE TypeOK'
    <2>1. f.counter \in 1 .. MaxCounter /\ f.seal.payload \in Payloads
      BY <1>20 DEF DeliverFrame, Accepts, Authentic, WireFrames, Seals
    <2>2. seenCounters' \subseteq 1 .. MaxCounter
      BY <1>20, <2>1 DEF DeliverFrame
    <2>3. deliveries' \in [Payloads -> Nat]
      BY <1>20, <2>1 DEF DeliverFrame
    <2>4. wire' \subseteq WireFrames /\ faults' \in 0 .. MaxFaults
      BY <1>20 DEF DeliverFrame, ReadFrame, Fault
    <2> QED
      BY <1>20, <2>2, <2>3, <2>4 DEF DeliverFrame, records, encState
  <1>21. ASSUME NEW f \in wire, DeliverWriteFails(f) PROVE TypeOK'
    BY <1>21 DEF DeliverWriteFails, DecryptorEnds, Fault, records, encState
  <1>22. CASE UNCHANGED vars
    BY <1>22 DEF vars, records, encState, decState
  <1> QED
    BY <1>1, <1>2, <1>3, <1>4, <1>5, <1>6, <1>7, <1>8, <1>9, <1>10, <1>11, <1>12,
       <1>13, <1>14, <1>15, <1>16, <1>17, <1>18, <1>19, <1>20, <1>21, <1>22
    DEF Next, KeyExchange, Exchange!Next, Traffic, Encryptor, EncryptorStep, Fabric, Decryptor

\* The variables stay in their ranges: in particular packet_counter never leaves
\* the eight bytes it is written to.
THEOREM TypeCorrect == Spec => []TypeOK
  BY TypeInit, TypeNext, PTL DEF Spec

------------------------------------------------------------------------------
(* The inductive invariant                                                 *)

\* A seal is of a payload the publisher sent, under a session an encryptor ran.
SealOrigin == \A q \in sealed : q.payload \in offered /\ q.session \in encUsed

\* The running encryptor's counter is at least every counter used in its session.
CounterAhead ==
    encSession # NoSession =>
        /\ encSession \in encUsed
        /\ \A q \in sealed : q.session = encSession => q.counter <= packetCounter

\* A payload is sealed once.
SealedOnce == \A q, r \in sealed : q.payload = r.payload => q = r

\* The GOOSE frames queued for the encryptor carry payloads that were sent, were
\* not sealed yet, and differ from each other.
QueueFresh ==
    /\ \A i \in DOMAIN tapEncIn : tapEncIn[i].goose =>
           /\ tapEncIn[i].payload \in offered
           /\ \A q \in sealed : q.payload # tapEncIn[i].payload
    /\ \A i, j \in DOMAIN tapEncIn :
           /\ tapEncIn[i].goose
           /\ tapEncIn[j].goose
           /\ tapEncIn[i].payload = tapEncIn[j].payload
           => i = j

\* Only an encryptor makes seals, and the frame of a seal is never too short.
WireSealed ==
    \A f \in wire :
        f.seal = NoSeal \/ (f.seal \in sealed /\ f.size >= MinimumLength)

\* A delivered payload came out once, of a seal whose session a decryptor ran; a
\* decryptor that still runs that session remembers its counter.
DeliveredOnce ==
    \A p \in Payloads :
        /\ deliveries[p] <= 1
        /\ deliveries[p] > 0 =>
               \E q \in sealed :
                   /\ q.payload = p
                   /\ q.session \in decUsed
                   /\ q.session = decSession => q.counter \in seenCounters

\* The running decryptor remembers only counters whose payloads it delivered.
SeenDelivered ==
    /\ decSession # NoSession => decSession \in decUsed
    /\ \A c \in seenCounters :
           \E q \in sealed :
               /\ q.session = decSession
               /\ q.counter = c
               /\ deliveries[q.payload] > 0

Inv ==
    /\ SealOrigin
    /\ CounterAhead
    /\ NonceUnique
    /\ SealedOnce
    /\ QueueFresh
    /\ WireSealed
    /\ DeliveredOnce
    /\ SeenDelivered

LEMMA InvInit == Init => Inv
  BY ConstantsAssumption
  DEF Init, Inv, SealOrigin, CounterAhead, NonceUnique, SealedOnce, QueueFresh,
      WireSealed, DeliveredOnce, SeenDelivered

\* A new seal of the frame at the head of the queue is of a payload that has been
\* sent and not sealed, and its counter is new to its session.
LEMMA NextSealFresh ==
    ASSUME TypeOK, Inv, CanEncrypt, NEW p, p = Head(tapEncIn).payload
    PROVE  /\ NextSeal(p).payload = p
           /\ NextSeal(p).session = encSession
           /\ NextSeal(p).counter = packetCounter + 1
           /\ p \in offered
           /\ encSession \in encUsed
           /\ \A q \in sealed : q.payload # p
           /\ \A q \in sealed : q.session = encSession => q.counter <= packetCounter
  <1>1. Head(tapEncIn) = tapEncIn[1] /\ 1 \in DOMAIN tapEncIn
    BY QueueHeadTail DEF CanEncrypt, TypeOK
  <1>2. p \in offered /\ \A q \in sealed : q.payload # p
    BY <1>1 DEF CanEncrypt, Protectable, Inv, QueueFresh
  <1> QED
    BY <1>2 DEF NextSeal, CanEncrypt, Inv, CounterAhead

\* Sealing the head of the queue keeps nonces and payloads unique, and the seals
\* that delivered payloads came from are still there.
LEMMA SealStep ==
    ASSUME TypeOK, Inv, CanEncrypt, NEW p, p = Head(tapEncIn).payload,
           sealed' = sealed \union {NextSeal(p)},
           offered' = offered, encUsed' = encUsed, deliveries' = deliveries,
           decSession' = decSession, decUsed' = decUsed,
           seenCounters' = seenCounters
    PROVE  (SealOrigin /\ NonceUnique /\ SealedOnce /\ DeliveredOnce
               /\ SeenDelivered)'
  <1> DEFINE n == NextSeal(p)
  <1>1. /\ n.payload = p
        /\ n.session = encSession
        /\ n.counter = packetCounter + 1
        /\ p \in offered
        /\ encSession \in encUsed
        /\ \A q \in sealed : q.payload # p
        /\ \A q \in sealed : q.session = encSession => q.counter <= packetCounter
    BY NextSealFresh
  <1> HIDE DEF n
  <1>2. SealOrigin'
    BY <1>1 DEF Inv, SealOrigin, n
  <1>3. NonceUnique'
    <2>1. \A q \in sealed : ~(q.session = n.session /\ q.counter = n.counter)
      BY <1>1 DEF TypeOK, Seals
    <2> QED
      BY <2>1 DEF Inv, NonceUnique, n
  <1>4. SealedOnce'
    BY <1>1 DEF Inv, SealedOnce, n
  <1>5. DeliveredOnce'
    BY DEF Inv, DeliveredOnce
  <1>6. SeenDelivered'
    BY DEF Inv, SeenDelivered
  <1> QED
    BY <1>2, <1>3, <1>4, <1>5, <1>6

\* Taking the head off the queue leaves the rest fresh, also when it was sealed.
LEMMA QueueTailFresh ==
    ASSUME TypeOK, QueueFresh, tapEncIn # <<>>, tapEncIn' = Tail(tapEncIn),
           offered' = offered,
           \/ sealed' = sealed
           \/ /\ Head(tapEncIn).goose
              /\ sealed' = sealed \union {NextSeal(Head(tapEncIn).payload)}
    PROVE  QueueFresh'
  <1> DEFINE t == Tail(tapEncIn)
  <1>1. /\ Head(tapEncIn) = tapEncIn[1]
        /\ Len(tapEncIn) \in Nat \ {0}
        /\ DOMAIN tapEncIn = 1 .. Len(tapEncIn)
        /\ DOMAIN t = 1 .. (Len(tapEncIn) - 1)
        /\ \A i \in DOMAIN t : t[i] = tapEncIn[i + 1]
    BY QueueHeadTail DEF TypeOK
  <1> HIDE DEF t
  <1>2. /\ 1 \in DOMAIN tapEncIn
        /\ \A i \in DOMAIN t : i + 1 \in DOMAIN tapEncIn /\ i + 1 # 1 /\ i \in Int
    BY <1>1
  <1>3. ASSUME NEW i \in DOMAIN t, t[i].goose
        PROVE  t[i].payload \in offered /\ \A q \in sealed' : q.payload # t[i].payload
    <2>1. t[i].payload \in offered /\ \A q \in sealed : q.payload # t[i].payload
      BY <1>1, <1>2, <1>3 DEF QueueFresh
    <2>2. Head(tapEncIn).goose => Head(tapEncIn).payload # t[i].payload
      BY <1>1, <1>2, <1>3 DEF QueueFresh
    <2> QED
      BY <2>1, <2>2 DEF NextSeal
  <1>4. ASSUME NEW i \in DOMAIN t, NEW j \in DOMAIN t, t[i].goose, t[j].goose,
               t[i].payload = t[j].payload
        PROVE  i = j
    <2>1. i + 1 = j + 1
      BY <1>1, <1>2, <1>4 DEF QueueFresh
    <2> QED
      BY <1>2, <2>1
  <1> QED
    BY <1>3, <1>4 DEF QueueFresh, t

\* Adding a frame to the queue keeps it fresh if a GOOSE frame's payload is new.
LEMMA QueueAppendFresh ==
    ASSUME TypeOK, QueueFresh, SealOrigin, NEW f \in InputFrames, Enqueue(f),
           sealed' = sealed, offered \subseteq offered',
           f.goose => f.payload \notin offered /\ f.payload \in offered'
    PROVE  QueueFresh'
  <1>1. CASE tapEncIn' = tapEncIn
    BY <1>1 DEF QueueFresh
  <1>2. CASE tapEncIn' = Append(tapEncIn, f)
    <2> DEFINE t == Append(tapEncIn, f)
    <2>1. /\ Len(tapEncIn) \in Nat
          /\ DOMAIN tapEncIn = 1 .. Len(tapEncIn)
          /\ DOMAIN t = 1 .. (Len(tapEncIn) + 1)
          /\ \A i \in DOMAIN tapEncIn : t[i] = tapEncIn[i]
          /\ t[Len(tapEncIn) + 1] = f
      BY QueueAppend DEF TypeOK
    <2> HIDE DEF t
    <2>2. \A i \in DOMAIN t : i \in DOMAIN tapEncIn \/ i = Len(tapEncIn) + 1
      BY <2>1
    <2>3. ASSUME NEW i \in DOMAIN t, t[i].goose
          PROVE  /\ t[i].payload \in offered'
                 /\ \A q \in sealed : q.payload # t[i].payload
      BY <2>1, <2>2, <2>3 DEF QueueFresh, SealOrigin
    <2>4. ASSUME NEW i \in DOMAIN t, NEW j \in DOMAIN t, t[i].goose, t[j].goose,
                 t[i].payload = t[j].payload
          PROVE  i = j
      BY <2>1, <2>2, <2>4 DEF QueueFresh
    <2> QED
      BY <1>2, <2>3, <2>4 DEF QueueFresh, t
  <1> QED
    BY <1>1, <1>2 DEF Enqueue

\* A frame the decryptor accepts is a seal of its session whose payload has been
\* sent and has not come out before.
LEMMA AcceptedIsFresh ==
    ASSUME TypeOK, Inv, NEW f \in wire, Accepts(f)
    PROVE  /\ f.seal \in sealed
           /\ f.seal.session = decSession
           /\ f.seal.counter = f.counter
           /\ f.seal.payload \in Payloads
           /\ f.seal.payload \in offered
           /\ deliveries[f.seal.payload] = 0
  <1> DEFINE q == f.seal
  <1>1. /\ q \in sealed
        /\ q.session = decSession
        /\ q.counter = f.counter
        /\ f.counter \notin seenCounters
    BY DEF Accepts, Authentic, Inv, WireSealed
  <1> HIDE DEF q
  <1>2. q.payload \in Payloads /\ q.payload \in offered
    BY <1>1 DEF TypeOK, Seals, Inv, SealOrigin
  <1>3. ~(deliveries[q.payload] > 0)
    BY <1>1, <1>2 DEF Inv, DeliveredOnce, SealedOnce
  <1>4. deliveries[q.payload] = 0
    BY <1>2, <1>3 DEF TypeOK
  <1> QED
    BY <1>1, <1>2, <1>4 DEF q

\* While no forwarder is started twice on one record, every action keeps Inv.
LEMMA InvNext ==
    ASSUME ReuseSession = FALSE, TypeOK, Inv, [Next]_vars
    PROVE  Inv'
  <1> USE DEF Inv
  <1>1. ASSUME UNCHANGED <<encState, decState, wire, offered, deliveries, sealed>>
        PROVE  Inv'
    BY <1>1
    DEF encState, decState, SealOrigin, CounterAhead, NonceUnique, SealedOnce,
        QueueFresh, WireSealed, DeliveredOnce, SeenDelivered
  <1>2. ASSUME NEW p \in Payloads, NEW n \in Sizes, SendGoose(p, n) PROVE Inv'
    <2>1. GooseFrame(p, n) \in InputFrames
      BY ConstantsAssumption DEF GooseFrame, InputFrames
    <2>2. QueueFresh'
      BY <1>2, <2>1, QueueAppendFresh DEF SendGoose, GooseFrame
    <2>3. SealOrigin'
      BY <1>2 DEF SendGoose, SealOrigin
    <2> QED
      BY <1>2, <2>2, <2>3
      DEF SendGoose, decState, CounterAhead, NonceUnique, SealedOnce, WireSealed,
          DeliveredOnce, SeenDelivered
  <1>3. CASE SendOther
    <2>1. OtherFrame \in InputFrames
      BY DEF InputFrames
    <2>2. QueueFresh'
      BY <1>3, <2>1, QueueAppendFresh DEF SendOther, OtherFrame
    <2> QED
      BY <1>3, <2>2
      DEF SendOther, decState, SealOrigin, CounterAhead, NonceUnique, SealedOnce,
          WireSealed, DeliveredOnce, SeenDelivered
  <1>4. CASE StartEncryptor
    <2>1. \A q \in sealed : q.session # encFile
      BY <1>4 DEF StartEncryptor, SealOrigin
    <2>2. CounterAhead'
      BY <1>4, <2>1 DEF StartEncryptor, CounterAhead
    <2> QED
      BY <1>4, <2>2
      DEF StartEncryptor, decState, SealOrigin, NonceUnique, SealedOnce, QueueFresh,
          WireSealed, DeliveredOnce, SeenDelivered
  <1>5. CASE StopEncryptor \/ ExhaustCounter
    BY <1>5
    DEF StopEncryptor, ExhaustCounter, EncryptorEnds, decState, SealOrigin,
        CounterAhead, NonceUnique, SealedOnce, QueueFresh, WireSealed, DeliveredOnce,
        SeenDelivered
  <1>6. CASE SkipFrame
    <2>1. QueueFresh'
      BY <1>6, QueueTailFresh DEF SkipFrame
    <2> QED
      BY <1>6, <2>1
      DEF SkipFrame, decState, SealOrigin, CounterAhead, NonceUnique, SealedOnce,
          WireSealed, DeliveredOnce, SeenDelivered
  <1>7. CASE EncryptFrame
    <2> DEFINE p == Head(tapEncIn).payload
    <2>1. CanEncrypt /\ sealed' = sealed \union {NextSeal(p)}
      BY <1>7 DEF EncryptFrame
    <2>2. (SealOrigin /\ NonceUnique /\ SealedOnce /\ DeliveredOnce /\ SeenDelivered)'
      BY <1>7, <2>1, SealStep DEF EncryptFrame, decState
    <2>3. CounterAhead'
      BY <1>7, <2>1, NextSealFresh
      DEF EncryptFrame, CounterAhead, TypeOK, Seals
    <2>4. QueueFresh'
      BY <1>7, <2>1, QueueTailFresh DEF EncryptFrame, CanEncrypt, Protectable
    <2>5. WireSealed'
      <3> DEFINE g == ProtectedFrame(NextSeal(p), Head(tapEncIn).size)
      <3>1. g \in WireFrames /\ g.seal = NextSeal(p)
        BY <2>1, EncryptType DEF CanEncrypt, ProtectedFrame
      <3>2. g.size >= MinimumLength
        BY <2>1, EncryptType DEF CanEncrypt
      <3>3. wire' = wire \union {g}
        BY <1>7 DEF EncryptFrame
      <3> QED
        BY <2>1, <3>1, <3>2, <3>3 DEF WireSealed
    <2> QED
      BY <2>2, <2>3, <2>4, <2>5
  <1>8. CASE EncryptWriteFails
    <2> DEFINE p == Head(tapEncIn).payload
    <2>1. CanEncrypt /\ sealed' = sealed \union {NextSeal(p)}
      BY <1>8 DEF EncryptWriteFails
    <2>2. (SealOrigin /\ NonceUnique /\ SealedOnce /\ DeliveredOnce /\ SeenDelivered)'
      BY <1>8, <2>1, SealStep DEF EncryptWriteFails, EncryptorEnds, decState
    <2>3. CounterAhead' /\ QueueFresh' /\ WireSealed'
      BY <1>8
      DEF EncryptWriteFails, EncryptorEnds, CounterAhead, QueueFresh, WireSealed
    <2> QED
      BY <2>2, <2>3
  <1>9. ASSUME NEW f \in wire, LoseFrame(f) \/ DamageFrame(f) PROVE Inv'
    <2>1. WireSealed'
      <3>1. CASE LoseFrame(f)
        BY <3>1 DEF LoseFrame, WireSealed
      <3>2. CASE DamageFrame(f)
        <4>1. f \in WireFrames
          BY DEF TypeOK
        <4>2. /\ \A n \in 0 .. MaxCounter :
                     /\ [f EXCEPT !.counter = n].seal = f.seal
                     /\ [f EXCEPT !.counter = n].size = f.size
              /\ [f EXCEPT !.seal = NoSeal].seal = NoSeal
          BY <4>1 DEF WireFrames
        <4> QED
          BY <3>2, <4>2 DEF DamageFrame, WireSealed
      <3> QED
        BY <1>9, <3>1, <3>2
    <2> QED
      BY <1>9, <2>1
      DEF LoseFrame, DamageFrame, encState, decState, SealOrigin, CounterAhead,
          NonceUnique, SealedOnce, QueueFresh, DeliveredOnce, SeenDelivered
  <1>10. ASSUME NEW f \in ForeignFrames, ForeignFrame(f) PROVE Inv'
    <2>1. f.seal = NoSeal
      BY DEF ForeignFrames
    <2> QED
      BY <1>10, <2>1
      DEF ForeignFrame, encState, decState, SealOrigin, CounterAhead, NonceUnique,
          SealedOnce, QueueFresh, WireSealed, DeliveredOnce, SeenDelivered
  <1>11. CASE StartDecryptor
    <2>1. decFile \notin decUsed
      BY <1>11 DEF StartDecryptor
    <2>2. DeliveredOnce'
      BY <1>11, <2>1 DEF StartDecryptor, DeliveredOnce
    <2>3. SeenDelivered'
      BY <1>11 DEF StartDecryptor, SeenDelivered
    <2> QED
      BY <1>11, <2>2, <2>3
      DEF StartDecryptor, encState, SealOrigin, CounterAhead, NonceUnique, SealedOnce,
          QueueFresh, WireSealed
  <1>12. CASE StopDecryptor \/ \E f \in wire : DeliverWriteFails(f)
    <2>1. /\ UNCHANGED <<encState, offered, deliveries, sealed>>
          /\ wire' \subseteq wire
          /\ DecryptorEnds
      BY <1>12 DEF StopDecryptor, DeliverWriteFails
    <2>2. \A q \in sealed : q.session # decSession'
      BY <2>1, ConstantsAssumption DEF DecryptorEnds, TypeOK, Seals
    <2>3. DeliveredOnce'
      BY <2>1, <2>2 DEF DecryptorEnds, DeliveredOnce
    <2>4. SeenDelivered'
      BY <2>1 DEF DecryptorEnds, SeenDelivered
    <2> QED
      BY <2>1, <2>3, <2>4
      DEF encState, SealOrigin, CounterAhead, NonceUnique, SealedOnce, QueueFresh,
          WireSealed
  <1>13. ASSUME NEW f \in wire, RejectFrame(f) PROVE Inv'
    <2>1. wire' \subseteq wire
      BY <1>13 DEF RejectFrame, ReadFrame
    <2> QED
      BY <1>13, <2>1
      DEF RejectFrame, encState, decState, SealOrigin, CounterAhead, NonceUnique,
          SealedOnce, QueueFresh, WireSealed, DeliveredOnce, SeenDelivered
  <1>14. ASSUME NEW f \in wire, DeliverFrame(f) PROVE Inv'
    <2> DEFINE q == f.seal
    <2>1. /\ q \in sealed
          /\ q.session = decSession
          /\ q.counter = f.counter
          /\ q.payload \in Payloads
          /\ decSession \in decUsed
      BY <1>14, AcceptedIsFresh DEF DeliverFrame, SeenDelivered
    <2>2. deliveries[q.payload] = 0
      BY <1>14, AcceptedIsFresh DEF DeliverFrame
    <2> HIDE DEF q
    <2>3. /\ deliveries'[q.payload] = 1
          /\ \A p \in Payloads : p # q.payload => deliveries'[p] = deliveries[p]
          /\ seenCounters' = seenCounters \union {q.counter}
          /\ wire' \subseteq wire
      BY <1>14, <2>1, <2>2 DEF DeliverFrame, ReadFrame, TypeOK, q
    <2>4. UNCHANGED <<encState, decSession, decUsed, offered, sealed>>
      BY <1>14 DEF DeliverFrame
    <2>5. DeliveredOnce'
      BY <2>1, <2>3, <2>4 DEF DeliveredOnce
    <2>6. SeenDelivered'
      <3> SUFFICES ASSUME NEW c \in seenCounters'
                   PROVE  \E r \in sealed : /\ r.session = decSession
                                            /\ r.counter = c
                                            /\ deliveries'[r.payload] > 0
        BY <2>4 DEF SeenDelivered
      <3>1. CASE c = q.counter
        BY <2>1, <2>3, <3>1
      <3>2. CASE c \in seenCounters
        <4>1. PICK r \in sealed : /\ r.session = decSession
                                  /\ r.counter = c
                                  /\ deliveries[r.payload] > 0
          BY <3>2 DEF SeenDelivered
        <4>2. r.payload \in Payloads
          BY DEF TypeOK, Seals
        <4>3. deliveries'[r.payload] > 0
          BY <2>2, <2>3, <4>1, <4>2
        <4> QED
          BY <4>1, <4>3
      <3> QED
        BY <2>3, <3>1, <3>2
    <2> QED
      BY <2>3, <2>4, <2>5, <2>6
      DEF encState, SealOrigin, CounterAhead, NonceUnique, SealedOnce, QueueFresh,
          WireSealed
  <1>15. CASE KeyExchange \/ UNCHANGED vars
    BY <1>1, <1>15
    DEF KeyExchange, notRecords, vars
  <1> QED
    BY <1>2, <1>3, <1>4, <1>5, <1>6, <1>7, <1>8, <1>9, <1>10, <1>11, <1>12, <1>13,
       <1>14, <1>15
    DEF Next, Traffic, Encryptor, EncryptorStep, Fabric, Decryptor

------------------------------------------------------------------------------
(* What follows from it                                                    *)

LEMMA InvCorrect == ASSUME ReuseSession = FALSE PROVE Spec => [](TypeOK /\ Inv)
  <1>1. Init => TypeOK /\ Inv
    BY TypeInit, InvInit
  <1>2. TypeOK /\ Inv /\ [Next]_vars => (TypeOK /\ Inv)'
    BY TypeNext, InvNext
  <1> QED
    BY <1>1, <1>2, PTL DEF Spec

\* No two payloads are encrypted under one key and nonce, however many encryptors
\* run one after the other, as long as each starts on a record of its own.
THEOREM NonceUniqueCorrect ==
    ASSUME ReuseSession = FALSE PROVE Spec => []NonceUnique
  <1>1. Inv => NonceUnique
    BY DEF Inv
  <1> QED
    BY <1>1, InvCorrect, PTL

\* No payload reaches the subscriber twice, whatever is duplicated on the way.
THEOREM AtMostOnceCorrect ==
    ASSUME ReuseSession = FALSE PROVE Spec => []AtMostOnce
  <1>1. Inv => AtMostOnce
    BY DEF Inv, DeliveredOnce, AtMostOnce
  <1> QED
    BY <1>1, InvCorrect, PTL

\* Only the step that delivers a frame makes a payload come out once more, and the
\* payload is that of the frame.
LEMMA OnlyDeliverFrameDelivers ==
    ASSUME TypeOK, [Next]_vars, NEW p \in Payloads, deliveries'[p] > deliveries[p]
    PROVE  \E f \in wire : DeliverFrame(f) /\ f.seal.payload = p
  <1>1. deliveries[p] \in Nat
    BY DEF TypeOK
  <1>2. deliveries' # deliveries
    BY <1>1
  <1>3. \E f \in wire : DeliverFrame(f)
    BY <1>2
    DEF Next, KeyExchange, notRecords, Traffic, SendGoose, SendOther,
        Encryptor, EncryptorStep, StartEncryptor, StopEncryptor, SkipFrame,
        ExhaustCounter, EncryptFrame, EncryptWriteFails, Fabric, LoseFrame,
        DamageFrame, ForeignFrame, Decryptor, StartDecryptor, StopDecryptor,
        RejectFrame, DeliverWriteFails, vars
  <1>4. PICK f \in wire : DeliverFrame(f)
    BY <1>3
  <1>5. deliveries' = [deliveries EXCEPT ![f.seal.payload] = @ + 1]
    BY <1>4 DEF DeliverFrame
  <1>6. f.seal.payload = p
    BY <1>1, <1>5 DEF TypeOK
  <1> QED
    BY <1>4, <1>6

\* What reaches the subscriber was sent, and comes out of an intact frame that an
\* encryptor sealed under the session the decryptor runs at that moment.
THEOREM OnlyProtectedDeliveredCorrect ==
    ASSUME ReuseSession = FALSE PROVE Spec => OnlyProtectedDelivered
  <1> DEFINE Genuine(p) ==
                 /\ p \in offered
                 /\ \E f \in wire :
                        /\ DeliverFrame(f)
                        /\ f.seal \in sealed
                        /\ f.seal.payload = p
                        /\ f.seal.session = decSession
                        /\ f.seal.counter = f.counter
             A == \A p \in Payloads : deliveries'[p] > deliveries[p] => Genuine(p)
  <1>1. ASSUME TypeOK, Inv, [Next]_vars, NEW p \in Payloads,
               deliveries'[p] > deliveries[p]
        PROVE  Genuine(p)
    <2>1. PICK f \in wire : DeliverFrame(f) /\ f.seal.payload = p
      BY <1>1, OnlyDeliverFrameDelivers
    <2>2. Accepts(f)
      BY <2>1 DEF DeliverFrame
    <2> QED
      BY <1>1, <2>1, <2>2, AcceptedIsFresh
  <1>2. TypeOK /\ Inv /\ [Next]_vars => [A]_vars
    BY <1>1
  <1> QED
    BY <1>2, InvCorrect, PTL DEF Spec, OnlyProtectedDelivered

\* A frame of the session that opens under its own counter is turned away only if
\* its payload came out before.
LEMMA RejectedWasDelivered ==
    ASSUME TypeOK, Inv, NEW f \in wire, f.goose, Authentic(f), ~Accepts(f)
    PROVE  deliveries[f.seal.payload] > 0
  <1> DEFINE q == f.seal
  <1>1. /\ q \in sealed
        /\ q.session = decSession
        /\ q.counter = f.counter
        /\ f.size >= MinimumLength
    BY DEF Authentic, Inv, WireSealed
  <1>2. f.counter # 0
    BY <1>1 DEF TypeOK, Seals
  <1>3. f.counter \in seenCounters
    BY <1>1, <1>2 DEF Accepts
  <1>4. PICK r \in sealed : /\ r.session = decSession
                            /\ r.counter = f.counter
                            /\ deliveries[r.payload] > 0
    BY <1>3 DEF Inv, SeenDelivered
  <1>5. r = q
    BY <1>1, <1>4 DEF Inv, NonceUnique
  <1> QED
    BY <1>4, <1>5

\* The decryptor turns no good frame away, in whatever order the frames arrive and
\* whatever foreign traffic arrives between them.
THEOREM OnlyReplaysRejectedCorrect ==
    ASSUME ReuseSession = FALSE PROVE Spec => OnlyReplaysRejected
  <1> DEFINE A == \A f \in wire : RejectFrame(f) /\ f.goose /\ Authentic(f)
                                     => deliveries[f.seal.payload] > 0
  <1>1. TypeOK /\ Inv => A
    BY RejectedWasDelivered DEF RejectFrame
  <1>2. TypeOK /\ Inv => [A]_vars
    BY <1>1
  <1> QED
    BY <1>2, InvCorrect, PTL DEF OnlyReplaysRejected

\* Every step of the tunnel offers a payload, delivers one for the first time, or
\* is invisible to the application.
LEMMA ChannelStep ==
    ASSUME TypeOK, Inv, [Next]_vars
    PROVE  [Channel!Next]_(Channel!vars)
  <1> USE DEF Channel!Next, Channel!vars
  <1>1. ASSUME NEW p \in Payloads, NEW n \in Sizes, SendGoose(p, n)
        PROVE  Channel!Offer(p)
    BY <1>1 DEF SendGoose, Channel!Offer
  <1>2. ASSUME NEW f \in wire, DeliverFrame(f)
        PROVE  Channel!Deliver(f.seal.payload) /\ f.seal.payload \in Payloads
    <2> DEFINE p == f.seal.payload
    <2>1. p \in Payloads /\ p \in offered /\ deliveries[p] = 0
      BY <1>2, AcceptedIsFresh DEF DeliverFrame
    <2>2. deliveries' = [deliveries EXCEPT ![p] = deliveries[p] + 1]
      BY <1>2 DEF DeliverFrame
    <2>3. offered' = offered
      BY <1>2 DEF DeliverFrame
    <2> HIDE DEF p
    <2>4. deliveries[p] + 1 = 1
      BY <2>1
    <2>5. Channel!Deliver(p)
      BY <2>1, <2>2, <2>3, <2>4 DEF Channel!Deliver
    <2> QED
      BY <2>1, <2>5 DEF p
  <1>3. CASE KeyExchange \/ UNCHANGED vars
    BY <1>3
    DEF KeyExchange, notRecords, vars
  <1>4. CASE SendOther \/ Encryptor
    BY <1>4
    DEF SendOther, Encryptor, EncryptorStep, StartEncryptor, StopEncryptor, SkipFrame,
        ExhaustCounter, EncryptFrame, EncryptWriteFails
  <1>5. CASE Fabric
    BY <1>5 DEF Fabric, LoseFrame, DamageFrame, ForeignFrame
  <1>6. CASE StartDecryptor \/ StopDecryptor
    BY <1>6 DEF StartDecryptor, StopDecryptor
  <1>7. ASSUME NEW f \in wire, RejectFrame(f) \/ DeliverWriteFails(f)
        PROVE  UNCHANGED Channel!vars
    BY <1>7 DEF RejectFrame, DeliverWriteFails
  <1> QED
    BY <1>1, <1>2, <1>3, <1>4, <1>5, <1>6, <1>7 DEF Next, Traffic, Decryptor

\* The tunnel implements the at-most-once channel.
THEOREM ChannelCorrect ==
    ASSUME ReuseSession = FALSE PROVE Spec => ChannelSpec
  <1>1. Init => Channel!Init
    BY DEF Init, Channel!Init
  <1>2. TypeOK /\ Inv /\ [Next]_vars => [Channel!Next]_(Channel!vars)
    BY ChannelStep
  <1> QED
    BY <1>1, <1>2, InvCorrect, PTL DEF Spec, ChannelSpec, Channel!Spec

==============================================================================
