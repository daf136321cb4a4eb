------------------------ MODULE MessageFramingProofs -------------------------
(***************************************************************************)
(* Proofs about MessageFraming, for every base, header size, limit and set *)
(* of messages, and for any stream a peer may send: the header is read     *)
(* back as the length it was made from, and the connection implements      *)
(* MessageChannel.                                                         *)
(***************************************************************************)
EXTENDS MessageFraming, WellFoundedInduction, TLAPS

\* receive_exact never holds more than it was asked for, whose greatest value is the
\* limit on messages: the header is no longer than that.  While it waits, there is a
\* message it expects.
Inv ==
    /\ TypeOK
    /\ receiver = "receiving" => Len(received_data) < Required /\ expected # 0
    /\ Len(received_data) <= Required

------------------------------------------------------------------------------
(* Sequences                                                               *)

LEMMA PrefixFacts ==
    ASSUME NEW S, NEW q \in Seq(S), NEW k \in 1 .. Len(q)
    PROVE  /\ SubSeq(q, 1, k) \in Seq(S) /\ Len(SubSeq(q, 1, k)) = k
           /\ SubSeq(q, k + 1, Len(q)) \in Seq(S)
           /\ Len(SubSeq(q, k + 1, Len(q))) = Len(q) - k
    OBVIOUS

LEMMA ConcatFacts ==
    ASSUME NEW S, NEW q \in Seq(S), NEW r \in Seq(S)
    PROVE  q \o r \in Seq(S) /\ Len(q \o r) = Len(q) + Len(r)
    OBVIOUS

LEMMA HeadTailFacts ==
    ASSUME NEW S, NEW q \in Seq(S), q # <<>>
    PROVE  Head(q) \in S /\ Tail(q) \in Seq(S)
    OBVIOUS

LEMMA AppendFacts ==
    ASSUME NEW S, NEW q \in Seq(S), NEW v \in S
    PROVE  Append(q, v) \in Seq(S)
    OBVIOUS

LEMMA EmptyFacts ==
    ASSUME NEW S
    PROVE  <<>> \in Seq(S) /\ Len(<<>>) = 0
    OBVIOUS

------------------------------------------------------------------------------
(* Induction over the numbers, and the length of a message                 *)

\* A set of numbers has a least one.
LEMMA Least ==
    ASSUME NEW T, T \subseteq Nat, T # {}
    PROVE  \E x \in T : \A y \in T : ~(y < x)
  <1>1. IsWellFoundedOn(OpToRel(<, Nat), Nat)
    BY NatLessThanWellFounded, Zenon
  <1>2. \E x \in T : \A y \in T : ~(<<y, x>> \in OpToRel(<, Nat))
    BY <1>1, WFMin, Zenon
  <1> QED
    BY <1>2 DEF OpToRel

\* A set that has 0, and with a number the next one, has every number.
LEMMA SetInduction ==
    ASSUME NEW T, T \subseteq Nat, 0 \in T, \A n \in T : n + 1 \in T
    PROVE  T = Nat
  <1> SUFFICES ASSUME Nat \ T # {} PROVE FALSE
    OBVIOUS
  <1>1. PICK x \in Nat \ T : \A y \in Nat \ T : ~(y < x)
    BY Least
  <1>2. x # 0 /\ x - 1 \in Nat /\ x - 1 < x /\ (x - 1) + 1 = x
    BY <1>1
  <1>3. x - 1 \in T
    BY <1>1, <1>2
  <1> QED
    BY <1>1, <1>2, <1>3

\* Powers are what they are defined to be.
LEMMA PowerFacts ==
    /\ Power \in [0 .. HeaderSize -> Nat \ {0}]
    /\ Power[0] = 1
    /\ \A k \in 1 .. HeaderSize : Power[k] = Base * Power[k - 1]
  <1> DEFINE Powers(n, f) == /\ f \in [0 .. n -> Nat \ {0}]
                             /\ f[0] = 1
                             /\ \A k \in 1 .. n : f[k] = Base * f[k - 1]
             T == {n \in Nat : \E f : Powers(n, f)}
  <1>1. 0 \in T
    <2>1. Powers(0, [k \in 0 .. 0 |-> 1])
      OBVIOUS
    <2> QED
      BY <2>1
  <1>2. ASSUME NEW n \in T
        PROVE  n + 1 \in T
    <2>1. PICK f : Powers(n, f)
      OBVIOUS
    <2>2. n \in Nat /\ Base \in Nat \ {0}
      BY FramingAssumption
    <2> DEFINE g == [k \in 0 .. (n + 1) |-> IF k = n + 1 THEN Base * f[n] ELSE f[k]]
    <2>3. f[n] \in Nat \ {0} /\ Base * f[n] \in Nat \ {0}
      <3>1. f[n] \in Nat \ {0}
        BY <2>1, <2>2
      <3>2. \A a, b \in Nat \ {0} : a * b \in Nat \ {0}
        OBVIOUS
      <3> QED
        BY <2>2, <3>1, <3>2
    <2>4. g \in [0 .. (n + 1) -> Nat \ {0}]
      BY <2>1, <2>2, <2>3
    <2>5. g[0] = 1
      BY <2>1, <2>2
    <2>6. ASSUME NEW k \in 1 .. (n + 1)
          PROVE  g[k] = Base * g[k - 1]
      <3>1. k - 1 \in 0 .. n /\ g[k - 1] = f[k - 1]
        BY <2>2
      <3>2. CASE k = n + 1
        BY <2>2, <3>1, <3>2
      <3>3. CASE k # n + 1
        <4>1. k \in 1 .. n /\ g[k] = f[k]
          BY <2>2, <3>3
        <4> QED
          BY <2>1, <3>1, <4>1
      <3> QED
        BY <3>2, <3>3
    <2>7. n + 1 \in Nat
      BY <2>2
    <2>8. Powers(n + 1, g)
      <3> HIDE DEF g
      <3> QED
        BY <2>4, <2>5, <2>6
    <2> QED
      BY <2>7, <2>8
  <1> HIDE DEF Powers
  <1>3. T = Nat
    <2> HIDE DEF T
    <2>1. T \subseteq Nat
      BY DEF T
    <2> QED
      BY <1>1, <1>2, <2>1, SetInduction
  <1>4. PICK f : Powers(HeaderSize, f)
    BY <1>3, FramingAssumption
  <1> DEFINE Equation(g) == g = [k \in 0 .. HeaderSize |-> IF k = 0 THEN 1 ELSE Base * g[k - 1]]
  <1>5. Equation(f)
    <2>1. /\ HeaderSize \in Nat
          /\ f \in [0 .. HeaderSize -> Nat \ {0}]
          /\ f[0] = 1
          /\ \A k \in 1 .. HeaderSize : f[k] = Base * f[k - 1]
      BY <1>4, FramingAssumption DEF Powers
    <2>2. \A k \in 0 .. HeaderSize : f[k] = IF k = 0 THEN 1 ELSE Base * f[k - 1]
      BY <2>1
    <2> QED
      BY <2>1, <2>2
  <1>6. Equation(Power)
    <2>1. Power = CHOOSE g : Equation(g)
      BY DEF Power
    <2> HIDE DEF Equation
    <2> QED
      BY <1>5, <2>1
  <1>7. \A k \in 0 .. HeaderSize : Power[k] = IF k = 0 THEN 1 ELSE Base * Power[k - 1]
    BY <1>6
  <1> DEFINE Same == {k \in Nat : k <= HeaderSize => Power[k] = f[k]}
  <1>8. /\ HeaderSize \in Nat
        /\ f \in [0 .. HeaderSize -> Nat \ {0}]
        /\ f[0] = 1
        /\ \A k \in 1 .. HeaderSize : f[k] = Base * f[k - 1]
    BY <1>4, FramingAssumption DEF Powers
  <1>9. Same = Nat
    <2>1. 0 \in Same
      BY <1>7, <1>8
    <2>2. ASSUME NEW k \in Same
          PROVE  k + 1 \in Same
      <3>1. CASE k + 1 <= HeaderSize
        <4>1. Power[k + 1] = Base * Power[k]
          BY <1>7, <1>8, <3>1
        <4>2. f[k + 1] = Base * f[k]
          BY <1>8, <3>1
        <4>3. Power[k] = f[k]
          BY <1>8, <3>1
        <4> QED
          BY <4>1, <4>2, <4>3
      <3>2. CASE ~(k + 1 <= HeaderSize)
        BY <3>2
      <3> QED
        BY <3>1, <3>2
    <2>3. Same \subseteq Nat
      OBVIOUS
    <2> HIDE DEF Same
    <2> QED
      BY <2>1, <2>2, <2>3, SetInduction
  <1>10. ASSUME NEW k \in 0 .. HeaderSize
         PROVE  Power[k] = f[k]
    <2>1. k \in Same
      <3> HIDE DEF Same
      <3> QED
        BY <1>8, <1>9
    <2> QED
      BY <2>1
  <1>11. Power = f
    <2>1. Power = [k \in 0 .. HeaderSize |-> Power[k]]
      BY <1>6
    <2>2. f = [k \in 0 .. HeaderSize |-> f[k]]
      BY <1>8
    <2> QED
      BY <1>10, <2>1, <2>2
  <1> QED
    BY <1>8, <1>11

LEMMA PackIsBytes ==
    ASSUME NEW n \in Nat
    PROVE  Pack(n) \in Seq(Bytes) /\ Len(Pack(n)) = HeaderSize
  <1>1. Base \in Nat \ {0} /\ HeaderSize \in Nat
    BY FramingAssumption
  <1>2. \A a, b : a \in Nat /\ b \in Nat \ {0} => a \div b \in Nat /\ a % b \in 0 .. (b - 1)
    OBVIOUS
  <1>3. ASSUME NEW i \in 1 .. HeaderSize
        PROVE  (n \div Power[HeaderSize - i]) % Base \in Bytes
    <2>1. Power[HeaderSize - i] \in Nat \ {0}
      BY <1>1, PowerFacts
    <2> QED
      BY <1>1, <1>2, <2>1 DEF Bytes
  <1> QED
    BY <1>1, <1>3 DEF Pack

\* There is one function that a definition over the bytes of a length describes.
LEMMA UnpackIs ==
    ASSUME NEW b, NEW w,
           w = [i \in 0 .. HeaderSize |-> IF i = 0 THEN 0 ELSE w[i - 1] * Base + b[i]]
    PROVE  Unpack(b) = w[HeaderSize]
  <1> DEFINE Equation(g) ==
                 g = [i \in 0 .. HeaderSize |-> IF i = 0 THEN 0 ELSE g[i - 1] * Base + b[i]]
             v == CHOOSE g : Equation(g)
  <1>1. Unpack(b) = v[HeaderSize]
    BY DEF Unpack
  <1>2. Equation(v)
    <2>1. Equation(w)
      OBVIOUS
    <2> HIDE DEF Equation
    <2> QED
      BY <2>1
  <1>3. HeaderSize \in Nat
    BY FramingAssumption
  <1>4. \A i \in 0 .. HeaderSize : v[i] = IF i = 0 THEN 0 ELSE v[i - 1] * Base + b[i]
    <2> HIDE DEF v
    <2> QED
      BY <1>2
  <1>5. \A i \in 0 .. HeaderSize : w[i] = IF i = 0 THEN 0 ELSE w[i - 1] * Base + b[i]
    OBVIOUS
  <1> DEFINE Same == {i \in Nat : i <= HeaderSize => v[i] = w[i]}
  <1> HIDE DEF v
  <1>6. Same = Nat
    <2>1. 0 \in Same
      BY <1>3, <1>4, <1>5
    <2>2. ASSUME NEW i \in Same
          PROVE  i + 1 \in Same
      <3>1. CASE i + 1 <= HeaderSize
        <4>1. v[i + 1] = v[i] * Base + b[i + 1]
          BY <1>3, <1>4, <3>1
        <4>2. w[i + 1] = w[i] * Base + b[i + 1]
          BY <1>3, <1>5, <3>1
        <4>3. v[i] = w[i]
          BY <1>3, <3>1
        <4> QED
          BY <4>1, <4>2, <4>3
      <3>2. CASE ~(i + 1 <= HeaderSize)
        BY <3>2
      <3> QED
        BY <3>1, <3>2
    <2>3. Same \subseteq Nat
      OBVIOUS
    <2> HIDE DEF Same
    <2> QED
      BY <2>1, <2>2, <2>3, SetInduction
  <1>7. HeaderSize \in Same
    <2> HIDE DEF Same
    <2> QED
      BY <1>3, <1>6
  <1> QED
    BY <1>1, <1>7

LEMMA DivisionFacts ==
    ASSUME NEW n \in Nat, NEW b \in Nat \ {0}
    PROVE  /\ n \div b \in Nat
           /\ n < b => n \div b = 0
           /\ n \div 1 = n
           /\ (n \div b) * b + (n % b) = n
    OBVIOUS

LEMMA DivisionTwice ==
    ASSUME NEW n \in Nat, NEW b \in Nat \ {0}, NEW p \in Nat \ {0}
    PROVE  n \div (b * p) = (n \div p) \div b
    OBVIOUS

\* The bytes of a length tell the length, if they are enough for it (send_message and
\* receive_message, kem_key_server.py 88-125).
THEOREM UnpackPack ==
    ASSUME NEW n \in Nat, n < Power[HeaderSize]
    PROVE  Unpack(Pack(n)) = n
  <1> DEFINE w == [i \in 0 .. HeaderSize |-> n \div Power[HeaderSize - i]]
  <1>1. HeaderSize \in Nat \ {0} /\ Base \in Nat \ {0}
    BY FramingAssumption
  <1>2. \A i \in 0 .. HeaderSize : Power[HeaderSize - i] \in Nat \ {0}
    BY <1>1, PowerFacts
  <1>3. n \div Power[HeaderSize] = 0
    <2>1. Power[HeaderSize] \in Nat \ {0}
      BY <1>1, PowerFacts
    <2> QED
      BY <1>1, <2>1, DivisionFacts
  <1>4. ASSUME NEW i \in 1 .. HeaderSize
        PROVE  n \div Power[HeaderSize - i]
                   = (n \div Power[HeaderSize - (i - 1)]) * Base + Pack(n)[i]
    <2>1. PICK p \in Nat \ {0} : p = Power[HeaderSize - i]
      BY <1>1, <1>2
    <2>2. Power[HeaderSize - (i - 1)] = Base * p
      <3>1. HeaderSize - (i - 1) \in 1 .. HeaderSize
        BY <1>1
      <3>2. (HeaderSize - (i - 1)) - 1 = HeaderSize - i
        BY <1>1
      <3> QED
        BY <2>1, <3>1, <3>2, PowerFacts
    <2>3. PICK q \in Nat : q = n \div p
      BY <2>1, DivisionFacts
    <2>4. n \div (Base * p) = q \div Base
      <3>1. n \div (Base * p) = (n \div p) \div Base
        BY <1>1, DivisionTwice
      <3> QED
        BY <2>3, <3>1
    <2>5. Pack(n)[i] = q % Base
      BY <2>1, <2>3 DEF Pack
    <2>6. (q \div Base) * Base + (q % Base) = q
      BY <1>1, DivisionFacts
    <2> QED
      BY <2>1, <2>2, <2>3, <2>4, <2>5, <2>6
  <1>5. ASSUME NEW i \in 0 .. HeaderSize
        PROVE  w[i] = IF i = 0 THEN 0 ELSE w[i - 1] * Base + Pack(n)[i]
    <2>1. CASE i = 0
      BY <1>1, <1>3, <2>1
    <2>2. CASE i # 0
      <3>1. i \in 1 .. HeaderSize /\ i - 1 \in 0 .. HeaderSize
        BY <1>1, <2>2
      <3>2. w[i] = n \div Power[HeaderSize - i]
        OBVIOUS
      <3>3. w[i - 1] = n \div Power[HeaderSize - (i - 1)]
        BY <3>1
      <3> QED
        BY <1>4, <2>2, <3>1, <3>2, <3>3
    <2> QED
      BY <2>1, <2>2
  <1>6. w = [i \in 0 .. HeaderSize |-> IF i = 0 THEN 0 ELSE w[i - 1] * Base + Pack(n)[i]]
    BY <1>5
  <1>7. w[HeaderSize] = n
    <2>1. HeaderSize - HeaderSize = 0 /\ HeaderSize \in 0 .. HeaderSize
      BY <1>1
    <2> QED
      BY <2>1, PowerFacts, DivisionFacts
  <1> HIDE DEF w
  <1> QED
    BY <1>6, <1>7, UnpackIs

------------------------------------------------------------------------------
LEMMA InvInit == Init => Inv
  <1> SUFFICES ASSUME Init PROVE Inv
    OBVIOUS
  <1>1. toSend \in Seq(Messages) /\ pending \in Seq(Bytes) /\ broken \in BOOLEAN
    BY FramingAssumption, EmptyFacts DEF Init
  <1>2. expected \in Nat \ {0}
    <2>1. Len(toSend) \in Nat
      BY <1>1
    <2> QED
      BY <2>1 DEF Init
  <1>3. Required = HeaderSize
    BY DEF Init, Required
  <1> QED
    BY <1>1, <1>2, <1>3, FramingAssumption, EmptyFacts DEF Init, Inv, TypeOK

\* The receiver takes a piece no longer than what is missing.
LEMMA ReceiveInv ==
    ASSUME Inv, Receive
    PROVE  Inv'
  <1> USE FramingAssumption
  <1>1. PICK k \in 1 .. Len(stream) :
            LET data == received_data \o SubSeq(stream, 1, k) IN
            /\ k <= Request(Len(received_data))
            /\ stream' = SubSeq(stream, k + 1, Len(stream))
            /\ \/ /\ Len(data) < Required
                  /\ received_data' = data
                  /\ UNCHANGED <<expected, header, receiver, result>>
               \/ Len(data) >= Required /\ header = NoLength /\ HeaderComplete(data)
               \/ Len(data) >= Required /\ header # NoLength /\ MessageComplete(data)
    BY DEF Receive
  <1> DEFINE data == received_data \o SubSeq(stream, 1, k)
  <1>2. stream \in Seq(Bytes) /\ received_data \in Seq(Bytes) /\ Required \in Nat \ {0}
    BY DEF Inv, TypeOK, Required
  <1>3. /\ SubSeq(stream, 1, k) \in Seq(Bytes) /\ Len(SubSeq(stream, 1, k)) = k
        /\ stream' \in Seq(Bytes) /\ Len(stream') = Len(stream) - k
        /\ Len(stream) \in Nat /\ Len(received_data) \in Nat
    BY <1>1, <1>2, PrefixFacts
  <1>4. data \in Seq(Bytes) /\ Len(data) = Len(received_data) + k
    BY <1>2, <1>3, ConcatFacts
  <1>5. Len(data) <= Required
    BY <1>1, <1>2, <1>3, <1>4 DEF Request
  <1>6. Len(stream') <= Capacity
    BY <1>3 DEF Inv, TypeOK
  <1>7. /\ receiver = "receiving"
        /\ UNCHANGED <<peer, toSend, pending, accepted, broken>>
    BY DEF Receive, senderVars
  <1>8. CASE /\ Len(data) < Required
             /\ received_data' = data
             /\ UNCHANGED <<expected, header, receiver, result>>
    <2>1. Required' = Required
      BY <1>8 DEF Required
    <2>2. Len(received_data') < Required' /\ Len(received_data') <= Required'
      BY <1>2, <1>3, <1>4, <1>8, <2>1
    <2> QED
      BY <1>3, <1>4, <1>6, <1>7, <1>8, <2>2 DEF Inv, TypeOK
  <1>9. CASE header = NoLength /\ HeaderComplete(data)
    <2>1. CASE /\ ValidLength(Unpack(data))
               /\ header' = Unpack(data)
               /\ received_data' = <<>>
               /\ UNCHANGED <<expected, receiver, result>>
      <3>1. header' \in 1 .. MaxMessageSize
        BY <2>1 DEF ValidLength
      <3>2. Required' \in Nat \ {0}
        BY <3>1 DEF Required
      <3> QED
        BY <1>3, <1>6, <1>7, <2>1, <3>1, <3>2, EmptyFacts DEF Inv, TypeOK
    <2>2. CASE received_data' = data /\ ReceiverFails
      <3>1. Required' = Required
        BY <2>2 DEF ReceiverFails, Required
      <3> QED
        BY <1>3, <1>4, <1>5, <1>6, <1>7, <2>2, <3>1 DEF ReceiverFails, Inv, TypeOK
    <2> QED
      BY <1>9, <2>1, <2>2 DEF HeaderComplete
  <1>10. CASE header # NoLength /\ MessageComplete(data)
    <2>1. CASE /\ data \in Messages
               /\ result' = Append(result, data)
               /\ expected' = expected - 1
               /\ receiver' = IF expected = 1 THEN "done" ELSE "receiving"
               /\ header' = NoLength
               /\ received_data' = <<>>
      <3>1. Required' = HeaderSize
        BY <2>1 DEF Required
      <3>2. result' \in Seq(Messages)
        BY <2>1, AppendFacts DEF Inv, TypeOK
      <3>3. expected \in Nat \ {0}
        BY <1>7 DEF Inv, TypeOK
      <3>4. expected' \in Nat /\ (receiver' = "receiving" => expected' # 0)
        BY <2>1, <3>3
      <3> QED
        BY <1>3, <1>6, <1>7, <2>1, <3>1, <3>2, <3>4, EmptyFacts DEF Inv, TypeOK
    <2>2. CASE received_data' = data /\ ReceiverFails
      <3>1. Required' = Required
        BY <2>2 DEF ReceiverFails, Required
      <3> QED
        BY <1>3, <1>4, <1>5, <1>6, <1>7, <2>2, <3>1 DEF ReceiverFails, Inv, TypeOK
    <2> QED
      BY <1>10, <2>1, <2>2 DEF MessageComplete
  <1> QED
    BY <1>1, <1>8, <1>9, <1>10

LEMMA SendMessageInv ==
    ASSUME Inv, SendMessage
    PROVE  Inv'
  <1> DEFINE m == Head(toSend)
  <1>1. toSend \in Seq(Messages) /\ toSend # <<>>
    BY DEF SendMessage, Inv, TypeOK
  <1>2. m \in Messages /\ toSend' \in Seq(Messages) /\ Len(m) <= MaxMessageSize
    BY <1>1, HeadTailFacts DEF SendMessage
  <1>3. m \in Seq(Bytes) /\ Len(m) \in Nat
    BY <1>2, FramingAssumption
  <1>4. pending' \in Seq(Bytes)
    BY <1>3, PackIsBytes, ConcatFacts DEF SendMessage
  <1>5. accepted' \in Seq({n \in Messages : Len(n) <= MaxMessageSize})
    BY <1>2, AppendFacts DEF SendMessage, Inv, TypeOK
  <1> QED
    BY <1>2, <1>4, <1>5 DEF SendMessage, receiverVars, Inv, TypeOK, Required

LEMMA WriteInv ==
    ASSUME Inv, Write
    PROVE  Inv'
  <1>1. PICK k \in 1 .. Len(pending) :
            /\ Len(stream) + k <= Capacity
            /\ stream' = stream \o SubSeq(pending, 1, k)
            /\ pending' = SubSeq(pending, k + 1, Len(pending))
    BY DEF Write
  <1>2. pending \in Seq(Bytes) /\ stream \in Seq(Bytes)
    BY DEF Inv, TypeOK
  <1>3. /\ SubSeq(pending, 1, k) \in Seq(Bytes) /\ Len(SubSeq(pending, 1, k)) = k
        /\ pending' \in Seq(Bytes)
    BY <1>1, <1>2, PrefixFacts
  <1>4. stream' \in Seq(Bytes) /\ Len(stream') = Len(stream) + k
    BY <1>1, <1>2, <1>3, ConcatFacts
  <1> QED
    BY <1>1, <1>3, <1>4 DEF Write, receiverVars, Inv, TypeOK, Required

LEMMA InvNext == Inv /\ [Next]_vars => Inv'
  <1> SUFFICES ASSUME Inv, [Next]_vars PROVE Inv'
    OBVIOUS
  <1>1. CASE SendMessage
    BY <1>1, SendMessageInv
  <1>2. CASE SendTooLarge
    BY <1>2 DEF SendTooLarge, senderVars, receiverVars, Inv, TypeOK, Required
  <1>3. CASE Write
    BY <1>3, WriteInv
  <1>4. CASE Close
    BY <1>4 DEF Close, senderVars, receiverVars, Inv, TypeOK, Required
  <1>5. CASE PeerFails
    <2>1. stream' \in Seq(Bytes) /\ Len(stream') <= Capacity
      <3>1. CASE stream' = stream
        BY <3>1 DEF Inv, TypeOK
      <3>2. CASE stream' = <<>>
        <4>1. Capacity \in Nat
          BY FramingAssumption
        <4>2. stream' \in Seq(Bytes) /\ Len(stream') = 0
          BY <3>2, EmptyFacts
        <4> QED
          BY <4>1, <4>2
      <3> QED
        BY <1>5, <3>1, <3>2 DEF PeerFails
    <2> QED
      BY <1>5, <2>1 DEF PeerFails, senderVars, receiverVars, Inv, TypeOK, Required
  <1>6. CASE Stall
    BY <1>6 DEF Stall, senderVars, receiverVars, Inv, TypeOK, Required
  <1>7. CASE Receive
    BY <1>7, ReceiveInv
  <1>8. CASE ReceiveClosed
    BY <1>8 DEF ReceiveClosed, ReceiverFails, senderVars, Inv, TypeOK, Required
  <1>9. CASE ReceiveTimeout
    BY <1>9 DEF ReceiveTimeout, ReceiverFails, senderVars, Inv, TypeOK, Required
  <1>10. CASE UNCHANGED vars
    BY <1>10 DEF vars, Inv, TypeOK, Required
  <1> QED
    BY <1>1, <1>2, <1>3, <1>4, <1>5, <1>6, <1>7, <1>8, <1>9, <1>10 DEF Next

LEMMA InvCorrect == Spec => []Inv
  BY InvInit, InvNext, PTL DEF Spec

------------------------------------------------------------------------------
(* What stands where in the bytes a peer hands to its connection           *)

\* The sequence q is what stands in B behind its first p elements.
At(q, B, p) ==
    /\ p + Len(q) <= Len(B)
    /\ \A j \in 1 .. Len(q) : q[j] = B[p + j]

LEMMA AtPieces ==
    ASSUME NEW S, NEW q \in Seq(S), NEW B \in Seq(S), NEW p \in Nat, At(q, B, p),
           NEW k \in 1 .. Len(q)
    PROVE  At(SubSeq(q, 1, k), B, p) /\ At(SubSeq(q, k + 1, Len(q)), B, p + k)
  <1>1. Len(q) \in Nat /\ Len(B) \in Nat /\ k \in Nat /\ k <= Len(q)
    OBVIOUS
  <1>2. Len(SubSeq(q, 1, k)) = k /\ \A j \in 1 .. k : SubSeq(q, 1, k)[j] = q[j]
    BY <1>1
  <1>3. /\ Len(SubSeq(q, k + 1, Len(q))) = Len(q) - k
        /\ \A j \in 1 .. (Len(q) - k) : SubSeq(q, k + 1, Len(q))[j] = q[k + j]
    BY <1>1
  <1>4. At(SubSeq(q, 1, k), B, p)
    BY <1>1, <1>2 DEF At
  <1>5. ASSUME NEW j \in 1 .. (Len(q) - k)
        PROVE  q[k + j] = B[(p + k) + j]
    <2>1. k + j \in 1 .. Len(q) /\ p + (k + j) = (p + k) + j
      BY <1>1
    <2> QED
      BY <2>1 DEF At
  <1>6. (p + k) + (Len(q) - k) <= Len(B)
    BY <1>1 DEF At
  <1> QED
    BY <1>3, <1>4, <1>5, <1>6 DEF At

LEMMA AtConcat ==
    ASSUME NEW S, NEW q \in Seq(S), NEW r \in Seq(S), NEW B \in Seq(S), NEW p \in Nat
    PROVE  At(q \o r, B, p) <=> At(q, B, p) /\ At(r, B, p + Len(q))
  <1>1. /\ Len(q) \in Nat /\ Len(r) \in Nat /\ Len(B) \in Nat
        /\ Len(q \o r) = Len(q) + Len(r)
        /\ \A j \in 1 .. Len(q) : (q \o r)[j] = q[j]
        /\ \A j \in 1 .. Len(r) : (q \o r)[Len(q) + j] = r[j]
    OBVIOUS
  <1>2. ASSUME At(q \o r, B, p)
        PROVE  At(q, B, p) /\ At(r, B, p + Len(q))
    <2>1. ASSUME NEW j \in 1 .. Len(r)
          PROVE  r[j] = B[(p + Len(q)) + j]
      <3>1. Len(q) + j \in 1 .. Len(q \o r) /\ p + (Len(q) + j) = (p + Len(q)) + j
        BY <1>1
      <3> QED
        BY <1>1, <1>2, <3>1 DEF At
    <2>2. ASSUME NEW j \in 1 .. Len(q)
          PROVE  q[j] = B[p + j]
      <3>1. j \in 1 .. Len(q \o r)
        BY <1>1
      <3> QED
        BY <1>1, <1>2, <3>1 DEF At
    <2> QED
      BY <1>1, <1>2, <2>1, <2>2 DEF At
  <1>3. ASSUME At(q, B, p), At(r, B, p + Len(q))
        PROVE  At(q \o r, B, p)
    <2>1. ASSUME NEW j \in 1 .. Len(q \o r)
          PROVE  (q \o r)[j] = B[p + j]
      <3>1. CASE j <= Len(q)
        <4>1. j \in 1 .. Len(q)
          BY <1>1, <3>1
        <4> QED
          BY <1>1, <1>3, <4>1 DEF At
      <3>2. CASE ~(j <= Len(q))
        <4>1. PICK i \in 1 .. Len(r) : j = Len(q) + i
          <5>1. j - Len(q) \in 1 .. Len(r) /\ j = Len(q) + (j - Len(q))
            BY <1>1, <3>2
          <5> QED
            BY <5>1
        <4>2. p + j = (p + Len(q)) + i
          BY <1>1, <4>1
        <4> QED
          BY <1>1, <1>3, <4>1, <4>2 DEF At
      <3> QED
        BY <3>1, <3>2
    <2> QED
      BY <1>1, <1>3, <2>1 DEF At
  <1> QED
    BY <1>2, <1>3

LEMMA AtSame ==
    ASSUME NEW S, NEW q \in Seq(S), NEW r \in Seq(S), NEW B \in Seq(S), NEW p \in Nat,
           At(q, B, p), At(r, B, p), Len(q) = Len(r)
    PROVE  q = r
  <1>1. \A j \in 1 .. Len(q) : q[j] = r[j]
    BY DEF At
  <1> QED
    BY <1>1

LEMMA AtEmpty ==
    ASSUME NEW S, NEW B \in Seq(S), NEW p \in Nat, p <= Len(B)
    PROVE  At(<<>>, B, p)
  <1>1. Len(<<>>) = 0 /\ Len(B) \in Nat
    OBVIOUS
  <1> QED
    BY <1>1 DEF At

\* What stands in B stands in every continuation of it, which ends with what was added.
LEMMA AtFurther ==
    ASSUME NEW S, NEW q \in Seq(S), NEW B \in Seq(S), NEW C \in Seq(S), NEW p \in Nat
    PROVE  /\ At(q, B, p) => At(q, B \o C, p)
           /\ At(C, B \o C, Len(B))
  <1>1. /\ Len(q) \in Nat /\ Len(B) \in Nat /\ Len(C) \in Nat
        /\ Len(B \o C) = Len(B) + Len(C)
        /\ \A j \in 1 .. Len(B) : (B \o C)[j] = B[j]
        /\ \A j \in 1 .. Len(C) : (B \o C)[Len(B) + j] = C[j]
    OBVIOUS
  <1>2. ASSUME At(q, B, p)
        PROVE  At(q, B \o C, p)
    <2>1. ASSUME NEW j \in 1 .. Len(q)
          PROVE  q[j] = (B \o C)[p + j]
      <3>1. p + j \in 1 .. Len(B)
        BY <1>1, <1>2 DEF At
      <3> QED
        BY <1>1, <1>2, <3>1 DEF At
    <2> QED
      BY <1>1, <1>2, <2>1 DEF At
  <1>3. At(C, B \o C, Len(B))
    BY <1>1 DEF At
  <1> QED
    BY <1>2, <1>3

------------------------------------------------------------------------------
(* The bytes of a connection                                               *)

\* B holds the messages acc one after the other, each behind its length, and nothing
\* else; pos[k] bytes of it come before the k-th.
Frames(B, pos, acc) ==
    /\ pos[1] = 0
    /\ pos[Len(acc) + 1] = Len(B)
    /\ \A k \in 1 .. Len(acc) :
           /\ pos[k + 1] = pos[k] + HeaderSize + Len(acc[k])
           /\ At(Pack(Len(acc[k])), B, pos[k])
           /\ At(acc[k], B, pos[k] + HeaderSize)

\* Where the bytes begin that receive_exact collects, for a message that begins
\* behind the first start bytes.
From(start) == IF header = NoLength THEN start ELSE start + HeaderSize

\* What is collected, on its way and still to be written follows one upon the other
\* in B, up to its end unless the connection broke.
Flow(B, start) ==
    /\ At(received_data, B, From(start))
    /\ At(stream, B, From(start) + Len(received_data))
    /\ peer = "sending" \/ ~broken =>
           /\ At(pending, B, From(start) + Len(received_data) + Len(stream))
           /\ From(start) + Len(received_data) + Len(stream) + Len(pending) = Len(B)

\* A peer of ours has handed over B: the receiver is at the message that follows those
\* it has returned, and there is one for each that it expects.
Own(B, pos) ==
    /\ B \in Seq(Bytes) /\ pos \in [Nat -> Nat]
    /\ Frames(B, pos, accepted)
    /\ Len(result) <= Len(accepted)
    /\ header # NoLength => /\ Len(result) < Len(accepted)
                            /\ header = Len(accepted[Len(result) + 1])
    /\ Flow(B, pos[Len(result) + 1])
    /\ ~broken => Len(result) + expected <= Len(accepted) + Len(toSend)
    /\ ~broken /\ peer = "closed" => Len(pending) = 0 /\ Len(toSend) = 0

\* Another peer sends B, of which no message has come out.
Foreign(B) ==
    /\ B \in ForeignStreams
    /\ broken
    /\ Len(accepted) = 0 /\ Len(toSend) = 0 /\ Len(result) = 0
    /\ header # NoLength => /\ HeaderSize <= Len(B)
                            /\ header = Unpack(SubSeq(B, 1, HeaderSize))
    /\ Flow(B, 0)

ChannelInv ==
    /\ Inv
    /\ (\E B, pos : Own(B, pos)) \/ (\E B : Foreign(B))

LEMMA LengthIsNat ==
    ASSUME NEW S, NEW q \in Seq(S)
    PROVE  Len(q) \in Nat
    OBVIOUS

LEMMA TypeFacts ==
    ASSUME Inv
    PROVE  /\ toSend \in Seq(Messages) /\ Len(toSend) \in Nat
           /\ pending \in Seq(Bytes) /\ Len(pending) \in Nat
           /\ stream \in Seq(Bytes) /\ Len(stream) \in Nat
           /\ received_data \in Seq(Bytes) /\ Len(received_data) \in Nat
           /\ accepted \in Seq({m \in Messages : Len(m) <= MaxMessageSize})
           /\ Len(accepted) \in Nat
           /\ Len(result) \in Nat
           /\ expected \in Nat
           /\ header # NoLength => header \in Nat
           /\ HeaderSize \in Nat \ {0}
           /\ \A start \in Nat : From(start) \in Nat
  <1>1. /\ toSend \in Seq(Messages)
        /\ pending \in Seq(Bytes)
        /\ stream \in Seq(Bytes)
        /\ received_data \in Seq(Bytes)
        /\ accepted \in Seq({m \in Messages : Len(m) <= MaxMessageSize})
        /\ result \in Seq(Messages)
    BY DEF Inv, TypeOK
  <1>2. /\ Len(toSend) \in Nat /\ Len(pending) \in Nat /\ Len(stream) \in Nat
        /\ Len(received_data) \in Nat /\ Len(accepted) \in Nat /\ Len(result) \in Nat
    BY <1>1, LengthIsNat
  <1>3. HeaderSize \in Nat \ {0}
    BY FramingAssumption
  <1>4. expected \in Nat /\ (header # NoLength => header \in Nat)
    BY DEF Inv, TypeOK
  <1>5. \A start \in Nat : From(start) \in Nat
    BY <1>3 DEF From
  <1> QED
    BY <1>1, <1>2, <1>3, <1>4, <1>5

LEMMA ChannelInit == Init => ChannelInv /\ Channel!Init
  <1> SUFFICES ASSUME Init PROVE ChannelInv /\ Channel!Init
    OBVIOUS
  <1>1. Inv
    BY InvInit
  <1>2. Channel!Init
    BY <1>1 DEF Init, Channel!Init, Inv, TypeOK
  <1>3. From(0) = 0 /\ Len(<<>>) = 0
    BY DEF Init, From
  <1>4. CASE toSend \in Programs /\ pending = <<>> /\ broken = FALSE
    <2>1. PICK B, pos : /\ B \in Seq(Bytes) /\ Len(B) = 0
                        /\ pos \in [Nat -> Nat] /\ \A k \in Nat : pos[k] = 0
      <3>1. <<>> \in Seq(Bytes) /\ Len(<<>>) = 0
        BY EmptyFacts
      <3>2. /\ [k \in Nat |-> 0] \in [Nat -> Nat]
            /\ \A k \in Nat : [j \in Nat |-> 0][k] = 0
        OBVIOUS
      <3> QED
        BY <3>1, <3>2
    <2>2. At(<<>>, B, 0)
      <3>1. 0 \in Nat /\ 0 <= Len(B)
        BY <2>1
      <3> QED
        BY <2>1, <3>1, AtEmpty
    <2>3. expected \in 1 .. Len(toSend)
      <3>1. toSend # <<>>
        BY <1>4, FramingAssumption
      <3> QED
        BY <3>1 DEF Init
    <2>4. Flow(B, pos[Len(result) + 1])
      BY <1>3, <1>4, <2>1, <2>2 DEF Init, Flow
    <2>5. Frames(B, pos, accepted)
      BY <1>3, <2>1 DEF Init, Frames
    <2>6. Own(B, pos)
      BY <1>3, <1>4, <2>1, <2>3, <2>4, <2>5 DEF Init, Own
    <2> QED
      BY <1>1, <1>2, <2>6 DEF ChannelInv
  <1>5. CASE toSend = <<>> /\ pending \in ForeignStreams /\ broken = TRUE
    <2>1. pending \in Seq(Bytes)
      BY <1>5, FramingAssumption
    <2>2. At(<<>>, pending, 0)
      BY <2>1, AtEmpty
    <2>3. At(pending, pending, 0) /\ Len(pending) \in Nat
      BY <2>1 DEF At
    <2>4. Flow(pending, 0)
      BY <1>3, <2>2, <2>3 DEF Init, Flow
    <2>5. Foreign(pending)
      BY <1>3, <1>5, <2>4 DEF Init, Foreign
    <2> QED
      BY <1>1, <1>2, <2>5 DEF ChannelInv
  <1> QED
    BY <1>4, <1>5 DEF Init

------------------------------------------------------------------------------
(* The steps of the peer and of the network                                *)

\* A message of ours continues the bytes handed over.
LEMMA ChannelSend ==
    ASSUME ChannelInv, SendMessage
    PROVE  ChannelInv' /\ Channel!Next
  <1>1. Inv
    BY DEF ChannelInv
  <1>2. ~ \E B : Foreign(B)
    BY <1>1 DEF SendMessage, Foreign, Inv, TypeOK
  <1>3. PICK B, pos : B \in Seq(Bytes) /\ pos \in [Nat -> Nat] /\ Own(B, pos)
    BY <1>2 DEF ChannelInv, Own
  <1>4. PICK m : m \in Messages /\ m = Head(toSend)
    BY <1>1, HeadTailFacts DEF SendMessage, Inv, TypeOK
  <1>5. m \in Seq(Bytes) /\ Len(m) \in Nat /\ Len(m) <= MaxMessageSize
    BY <1>4, FramingAssumption DEF SendMessage
  <1>6. Pack(Len(m)) \in Seq(Bytes) /\ Len(Pack(Len(m))) = HeaderSize
    BY <1>5, PackIsBytes
  <1>7. PICK n : n \in Nat /\ n = Len(accepted)
    BY <1>1, TypeFacts
  <1>8. /\ accepted' = Append(accepted, m)
        /\ pending' = Pack(Len(m)) \o m
        /\ toSend' = Tail(toSend) /\ Len(toSend') = Len(toSend) - 1
        /\ Len(toSend) \in Nat
        /\ UNCHANGED <<peer, stream, broken, expected, header, received_data, receiver,
                       result>>
        /\ peer = "sending" /\ Len(pending) = 0
    BY <1>1, <1>4 DEF SendMessage, receiverVars, Inv, TypeOK
  <1>9. /\ Len(accepted') = n + 1
        /\ accepted'[n + 1] = m
        /\ \A k \in 1 .. n : accepted'[k] = accepted[k]
    BY <1>1, <1>7, <1>8 DEF Inv, TypeOK
  <1>10. pending' \in Seq(Bytes) /\ Len(pending') = HeaderSize + Len(m)
    BY <1>5, <1>6, <1>8, ConcatFacts
  <1>11. HeaderSize \in Nat
    BY FramingAssumption
  <1>12. PICK C, D :
             /\ C \in Seq(Bytes) /\ C = pending' /\ Len(C) = HeaderSize + Len(m)
             /\ D \in Seq(Bytes) /\ D = B \o C /\ Len(D) = Len(B) + HeaderSize + Len(m)
             /\ Len(B) \in Nat
    <2>1. Len(B) \in Nat /\ B \o pending' \in Seq(Bytes)
      BY <1>3, <1>10, ConcatFacts
    <2>2. Len(B \o pending') = Len(B) + Len(pending')
      BY <1>3, <1>10, ConcatFacts
    <2>3. Len(B) + (HeaderSize + Len(m)) = Len(B) + HeaderSize + Len(m)
      BY <1>5, <1>11, <2>1
    <2> QED
      BY <1>10, <2>1, <2>2, <2>3
  <1>13. PICK next :
             /\ next \in [Nat -> Nat]
             /\ next[n + 2] = pos[n + 1] + HeaderSize + Len(m)
             /\ \A k \in 1 .. (n + 1) : next[k] = pos[k] /\ pos[k] \in Nat
    <2> DEFINE to == [pos EXCEPT ![n + 2] = pos[n + 1] + HeaderSize + Len(m)]
    <2>1. n + 1 \in Nat /\ n + 2 \in Nat /\ \A k \in 1 .. (n + 1) : k \in Nat /\ k # n + 2
      BY <1>7
    <2>2. pos[n + 1] + HeaderSize + Len(m) \in Nat
      <3>1. pos[n + 1] \in Nat
        BY <1>3, <2>1
      <3> QED
        BY <1>5, <1>11, <3>1
    <2>3. /\ to \in [Nat -> Nat]
          /\ to[n + 2] = pos[n + 1] + HeaderSize + Len(m)
          /\ \A k \in 1 .. (n + 1) : to[k] = pos[k] /\ pos[k] \in Nat
      BY <1>3, <2>1, <2>2
    <2> QED
      BY <2>3
  <1>14. /\ pos[1] = 0 /\ pos[n + 1] = Len(B)
         /\ \A k \in 1 .. n :
                /\ pos[k + 1] = pos[k] + HeaderSize + Len(accepted[k])
                /\ At(Pack(Len(accepted[k])), B, pos[k])
                /\ At(accepted[k], B, pos[k] + HeaderSize)
    BY <1>3, <1>7 DEF Own, Frames
  <1>15. At(C, D, Len(B))
    BY <1>3, <1>12, AtFurther
  <1>16. At(Pack(Len(m)), D, Len(B)) /\ At(m, D, Len(B) + HeaderSize)
    <2>1. C = Pack(Len(m)) \o m
      BY <1>8, <1>12
    <2>2. /\ At(Pack(Len(m)) \o m, D, Len(B))
          /\ D \in Seq(Bytes) /\ Len(B) \in Nat /\ m \in Seq(Bytes)
      BY <1>5, <1>12, <1>15, <2>1
    <2>3. At(Pack(Len(m)), D, Len(B)) /\ At(m, D, Len(B) + Len(Pack(Len(m))))
      BY <1>6, <2>2, AtConcat
    <2> QED
      BY <1>6, <2>3
  <1>18. Frames(D, next, accepted')
    <2>1. next[1] = 0 /\ next[Len(accepted') + 1] = Len(D)
      <3>1. 1 \in 1 .. (n + 1) /\ n + 1 \in 1 .. (n + 1) /\ (n + 1) + 1 = n + 2
        BY <1>7
      <3> QED
        BY <1>9, <1>12, <1>13, <1>14, <3>1
    <2>2. ASSUME NEW k \in 1 .. (n + 1)
          PROVE  /\ next[k + 1] = next[k] + HeaderSize + Len(accepted'[k])
                 /\ At(Pack(Len(accepted'[k])), D, next[k])
                 /\ At(accepted'[k], D, next[k] + HeaderSize)
      <3>1. CASE k = n + 1
        <4>1. n + 1 \in 1 .. (n + 1) /\ (n + 1) + 1 = n + 2
          BY <1>7
        <4> QED
          BY <1>9, <1>13, <1>14, <1>16, <3>1, <4>1
      <3>2. CASE k # n + 1
        <4>1. k \in 1 .. n /\ k + 1 \in 1 .. (n + 1)
          BY <1>7, <3>2
        <4>2. PICK a : a \in Seq(Bytes) /\ a = accepted[k] /\ a = accepted'[k]
          <5>1. accepted[k] \in Seq(Bytes)
            BY <1>1, <1>7, <4>1, FramingAssumption DEF Inv, TypeOK
          <5> QED
            BY <1>9, <4>1, <5>1
        <4>3. Pack(Len(a)) \in Seq(Bytes)
          <5>1. Len(a) \in Nat
            BY <4>2
          <5> QED
            BY <5>1, PackIsBytes
        <4>4. pos[k] \in Nat /\ pos[k] + HeaderSize \in Nat
          <5>1. pos[k] \in Nat
            BY <1>13
          <5> QED
            BY <1>11, <5>1
        <4>5. At(Pack(Len(a)), B, pos[k]) /\ At(a, B, pos[k] + HeaderSize)
          BY <1>14, <4>1, <4>2
        <4>6. At(Pack(Len(a)), D, pos[k]) /\ At(a, D, pos[k] + HeaderSize)
          BY <1>3, <1>12, <4>2, <4>3, <4>4, <4>5, AtFurther
        <4> QED
          BY <1>13, <1>14, <4>1, <4>2, <4>6
      <3> QED
        BY <3>1, <3>2
    <2> QED
      BY <1>9, <2>1, <2>2 DEF Frames
  <1>19. PICK start : /\ start \in Nat
                      /\ start = pos[Len(result) + 1] /\ start = next[Len(result) + 1]
    <2>1. Len(result) + 1 \in 1 .. (n + 1)
      BY <1>1, <1>3, <1>7 DEF Own, Inv, TypeOK
    <2> QED
      BY <1>13, <2>1
  <1>20. Flow(D, start)'
    <2>1. Flow(B, start)
      BY <1>3, <1>19 DEF Own
    <2>2. /\ From(start)' = From(start) /\ From(start) \in Nat
          /\ received_data \in Seq(Bytes) /\ stream \in Seq(Bytes)
          /\ Len(received_data) \in Nat /\ Len(stream) \in Nat
      <3>1. From(start)' = From(start)
        BY <1>8 DEF From
      <3> QED
        BY <1>1, <1>19, <3>1, TypeFacts
    <2>3. /\ At(received_data, B, From(start))
          /\ At(stream, B, From(start) + Len(received_data))
          /\ From(start) + Len(received_data) + Len(stream) = Len(B)
      <3>1. At(received_data, B, From(start)) /\ At(stream, B, From(start) + Len(received_data))
        BY <2>1 DEF Flow
      <3>2. From(start) + Len(received_data) + Len(stream) + Len(pending) = Len(B)
        BY <1>8, <2>1 DEF Flow
      <3>3. From(start) + Len(received_data) + Len(stream) \in Nat /\ Len(pending) = 0
        <4>1. From(start) \in Nat /\ Len(received_data) \in Nat /\ Len(stream) \in Nat
          BY <2>2
        <4> QED
          BY <1>8, <4>1
      <3> QED
        BY <3>1, <3>2, <3>3
    <2>4. From(start) + Len(received_data) \in Nat
      BY <2>2
    <2>5. /\ At(received_data, D, From(start))
          /\ At(stream, D, From(start) + Len(received_data))
      BY <1>3, <1>12, <2>2, <2>3, <2>4, AtFurther
    <2>6. At(C, D, From(start) + Len(received_data) + Len(stream))
      BY <1>15, <2>3
    <2>7. From(start) + Len(received_data) + Len(stream) + Len(C) = Len(D)
      <3>1. \A x, y, z \in Nat : x + y + z = x + (y + z)
        OBVIOUS
      <3>2. From(start) + Len(received_data) + Len(stream) + Len(C) = Len(B) + Len(C)
        BY <2>3
      <3> QED
        BY <1>5, <1>11, <1>12, <3>1, <3>2
    <2> QED
      BY <1>8, <1>12, <2>2, <2>5, <2>6, <2>7 DEF Flow
  <1>21. Own(D, next)'
    <2>1. Len(result) \in Nat /\ expected \in Nat /\ Len(toSend) \in Nat
      BY <1>1, TypeFacts
    <2>2. /\ Len(result) <= n
          /\ header # NoLength => /\ Len(result) < n
                                  /\ header = Len(accepted[Len(result) + 1])
          /\ ~broken => Len(result) + expected <= n + Len(toSend)
      BY <1>3, <1>7 DEF Own
    <2>3. Len(result') <= Len(accepted')
      BY <1>7, <1>8, <1>9, <2>1, <2>2
    <2>4. ASSUME header' # NoLength
          PROVE  /\ Len(result') < Len(accepted')
                 /\ header' = Len(accepted'[Len(result') + 1])
      <3>1. Len(result) + 1 \in 1 .. n
        BY <1>7, <1>8, <2>1, <2>2, <2>4
      <3> QED
        BY <1>7, <1>8, <1>9, <2>1, <2>2, <2>4, <3>1
    <2>5. ~broken' => Len(result') + expected' <= Len(accepted') + Len(toSend')
      <3>1. UNCHANGED <<broken, expected>> /\ Len(result') = Len(result)
        BY <1>8
      <3>2. Len(accepted') + Len(toSend') = n + Len(toSend)
        <4>1. Len(accepted') = n + 1 /\ Len(toSend') = Len(toSend) - 1
          BY <1>8, <1>9
        <4> QED
          BY <1>7, <2>1, <4>1
      <3> QED
        BY <2>2, <3>1, <3>2
    <2>6. peer' # "closed"
      BY <1>8
    <2>7. Flow(D, next[Len(result) + 1])'
      BY <1>8, <1>19, <1>20
    <2> QED
      BY <1>12, <1>13, <1>18, <2>3, <2>4, <2>5, <2>6, <2>7 DEF Own
  <1>22. Channel!Next
    <2>1. Channel!Offer(m)
      BY <1>8 DEF Channel!Offer
    <2> QED
      BY <1>4, <2>1 DEF Channel!Next
  <1> QED
    BY <1>1, <1>21, <1>22, SendMessageInv DEF ChannelInv

\* The steps of the peer and of the network that begin no message.
PeerStep == SendTooLarge \/ Write \/ Close \/ PeerFails \/ Stall

LEMMA PeerFlow ==
    ASSUME Inv, PeerStep, NEW B \in Seq(Bytes), NEW start \in Nat, Flow(B, start)
    PROVE  Flow(B, start)'
  <1>1. UNCHANGED <<received_data, header>> /\ From(start)' = From(start)
    BY DEF PeerStep, SendTooLarge, Write, Close, PeerFails, Stall, receiverVars, From
  <1>2. CASE SendTooLarge \/ Close \/ Stall
    <2>1. UNCHANGED <<stream, pending>>
      BY <1>2 DEF SendTooLarge, Close, Stall, senderVars
    <2>2. peer = "sending"
      BY <1>2 DEF SendTooLarge, Close, Stall
    <2> QED
      BY <1>1, <2>1, <2>2 DEF Flow
  <1>3. CASE PeerFails
    <2>1. peer' # "sending" /\ broken'
      BY <1>3 DEF PeerFails
    <2>2. CASE stream' = stream
      BY <1>1, <2>1, <2>2 DEF Flow
    <2>3. CASE stream' = <<>>
      <3>1. PICK p : p \in Nat /\ p = From(start) + Len(received_data)
        <4>1. From(start) \in Nat /\ Len(received_data) \in Nat
          BY TypeFacts
        <4> QED
          BY <4>1
      <3>2. p <= Len(B)
        BY <3>1 DEF Flow, At
      <3>3. At(<<>>, B, p)
        BY <3>1, <3>2, AtEmpty
      <3> QED
        BY <1>1, <2>1, <2>3, <3>1, <3>3 DEF Flow
    <2> QED
      BY <1>3, <2>2, <2>3 DEF PeerFails
  <1>4. CASE Write
    <2>1. PICK k : /\ k \in 1 .. Len(pending)
                   /\ stream' = stream \o SubSeq(pending, 1, k)
                   /\ pending' = SubSeq(pending, k + 1, Len(pending))
      BY <1>4 DEF Write
    <2>2. peer = "sending"
      BY <1>4 DEF Write
    <2>3. PICK p : p \in Nat /\ p = From(start) + Len(received_data)
      <3>1. From(start) \in Nat /\ Len(received_data) \in Nat
        BY TypeFacts
      <3> QED
        BY <3>1
    <2>4. PICK s, t : s \in Nat /\ s = Len(stream) /\ t \in Nat /\ t = Len(pending)
      BY TypeFacts
    <2>5. At(stream, B, p) /\ At(pending, B, p + s) /\ p + s + t = Len(B)
      BY <2>2, <2>3, <2>4 DEF Flow
    <2>6. PICK q, r : /\ q = SubSeq(pending, 1, k) /\ q \in Seq(Bytes) /\ Len(q) = k
                      /\ r = SubSeq(pending, k + 1, Len(pending)) /\ Len(r) = t - k
      <3>1. /\ SubSeq(pending, 1, k) \in Seq(Bytes) /\ Len(SubSeq(pending, 1, k)) = k
            /\ Len(SubSeq(pending, k + 1, Len(pending))) = Len(pending) - k
        <4>1. pending \in Seq(Bytes)
          BY TypeFacts
        <4> QED
          BY <2>1, <4>1, PrefixFacts
      <3> QED
        BY <2>4, <3>1
    <2>7. At(q, B, p + s) /\ At(r, B, p + s + k)
      <3>1. p + s \in Nat
        BY <2>3, <2>4
      <3> QED
        BY <2>1, <2>5, <2>6, <3>1, TypeFacts, AtPieces
    <2>8. At(stream', B, p) /\ Len(stream') = s + k
      <3>1. At(stream \o q, B, p)
        BY <2>3, <2>4, <2>5, <2>6, <2>7, TypeFacts, AtConcat
      <3>2. Len(stream \o q) = s + k
        BY <2>4, <2>6, TypeFacts, ConcatFacts
      <3> QED
        BY <2>1, <2>6, <3>1, <3>2
    <2>9. p + (s + k) = p + s + k /\ p + s + k + (t - k) = p + s + t
      <3>1. k \in Nat
        BY <2>1, <2>4
      <3>2. p \in Nat /\ s \in Nat /\ t \in Nat
        BY <2>3, <2>4
      <3> QED
        BY <3>1, <3>2
    <2>10. /\ At(pending', B, p + Len(stream'))
           /\ p + Len(stream') + Len(pending') = Len(B)
      BY <2>1, <2>5, <2>6, <2>7, <2>8, <2>9
    <2> QED
      BY <1>1, <2>3, <2>8, <2>10 DEF Flow
  <1> QED
    BY <1>2, <1>3, <1>4 DEF PeerStep

LEMMA ChannelPeer ==
    ASSUME ChannelInv, PeerStep
    PROVE  ChannelInv' /\ [Channel!Next]_(Channel!vars)
  <1>1. Inv
    BY DEF ChannelInv
  <1>2. Inv'
    BY <1>1, InvNext DEF PeerStep, Next
  <1>3. /\ UNCHANGED <<toSend, accepted, expected, header, received_data, receiver, result>>
        /\ broken => broken'
    BY DEF PeerStep, SendTooLarge, Write, Close, PeerFails, Stall, senderVars, receiverVars
  <1>4. ASSUME NEW B, NEW pos, Own(B, pos)
        PROVE  Own(B, pos)'
    <2>1. PICK start : start \in Nat /\ start = pos[Len(result) + 1]
      <3>1. Len(result) + 1 \in Nat
        BY <1>1, TypeFacts
      <3>2. pos \in [Nat -> Nat]
        BY <1>4 DEF Own
      <3> QED
        BY <3>1, <3>2
    <2>2. Flow(B, start) /\ B \in Seq(Bytes)
      BY <1>4, <2>1 DEF Own
    <2>3. Flow(B, start)'
      BY <1>1, <2>1, <2>2, PeerFlow
    <2>4. Flow(B, pos[Len(result) + 1])'
      BY <1>3, <2>1, <2>3
    <2>5. Frames(B, pos, accepted)'
      BY <1>3, <1>4 DEF Own, Frames
    <2>6. ~broken' /\ peer' = "closed" => Len(pending') = 0 /\ Len(toSend') = 0
      <3>1. CASE Close
        <4>1. Len(<<>>) = 0
          BY EmptyFacts
        <4> QED
          BY <3>1, <4>1 DEF Close, senderVars
      <3>2. CASE SendTooLarge \/ PeerFails \/ Stall
        BY <3>2 DEF SendTooLarge, PeerFails, Stall
      <3>3. CASE Write
        BY <3>3 DEF Write
      <3> QED
        BY <3>1, <3>2, <3>3 DEF PeerStep
    <2> QED
      BY <1>3, <1>4, <2>4, <2>5, <2>6 DEF Own
  <1>5. ASSUME NEW B, Foreign(B)
        PROVE  Foreign(B)'
    <2>1. B \in Seq(Bytes) /\ 0 \in Nat
      BY <1>5, FramingAssumption DEF Foreign
    <2>2. Flow(B, 0)'
      BY <1>1, <1>5, <2>1, PeerFlow DEF Foreign
    <2> QED
      BY <1>3, <1>5, <2>2 DEF Foreign
  <1>6. [Channel!Next]_(Channel!vars)
    <2>1. CASE broken' = broken
      BY <1>3, <2>1 DEF Channel!vars
    <2>2. CASE broken' = TRUE
      <3>1. Channel!Break
        BY <1>3, <2>2 DEF Channel!Break
      <3> QED
        BY <3>1 DEF Channel!Next
    <2> QED
      BY <2>1, <2>2 DEF PeerStep, SendTooLarge, Write, Close, PeerFails, Stall
  <1> QED
    BY <1>2, <1>4, <1>5, <1>6 DEF ChannelInv

------------------------------------------------------------------------------
(* The steps of the receiver                                               *)

\* The receiver has collected data, and the rest follows in B.
Follows(data, B, start) ==
    /\ data \in Seq(Bytes) /\ Len(data) \in Nat /\ Len(data) <= Required
    /\ At(data, B, From(start))
    /\ At(stream', B, From(start) + Len(data))
    /\ peer = "sending" \/ ~broken =>
           /\ At(pending, B, From(start) + Len(data) + Len(stream'))
           /\ From(start) + Len(data) + Len(stream') + Len(pending) = Len(B)

\* What the receiver does with data.
Outcome(data) ==
    \/ /\ received_data' = data
       /\ UNCHANGED <<expected, header, receiver, result>>
    \/ Len(data) = HeaderSize /\ header = NoLength /\ HeaderComplete(data)
    \/ Len(data) = header /\ header # NoLength /\ MessageComplete(data)

LEMMA ReceivePiece ==
    ASSUME Inv, Receive, NEW B \in Seq(Bytes), NEW start \in Nat, Flow(B, start)
    PROVE  \E data : Follows(data, B, start) /\ Outcome(data)
  <1>1. PICK k : /\ k \in 1 .. Len(stream)
                 /\ k <= Request(Len(received_data))
                 /\ stream' = SubSeq(stream, k + 1, Len(stream))
                 /\ \/ /\ Len(received_data \o SubSeq(stream, 1, k)) < Required
                       /\ received_data' = received_data \o SubSeq(stream, 1, k)
                       /\ UNCHANGED <<expected, header, receiver, result>>
                    \/ /\ Len(received_data \o SubSeq(stream, 1, k)) >= Required
                       /\ header = NoLength
                       /\ HeaderComplete(received_data \o SubSeq(stream, 1, k))
                    \/ /\ Len(received_data \o SubSeq(stream, 1, k)) >= Required
                       /\ header # NoLength
                       /\ MessageComplete(received_data \o SubSeq(stream, 1, k))
    BY DEF Receive
  <1>2. PICK data : data = received_data \o SubSeq(stream, 1, k)
    OBVIOUS
  <1>3. PICK p : p \in Nat /\ p = From(start)
    BY TypeFacts
  <1>4. PICK n, s, t : /\ n \in Nat /\ n = Len(received_data)
                       /\ s \in Nat /\ s = Len(stream)
                       /\ t \in Nat /\ t = Len(pending)
    BY TypeFacts
  <1>5. k \in Nat
    BY <1>1, <1>4
  <1>6. PICK q, r : /\ q = SubSeq(stream, 1, k) /\ q \in Seq(Bytes) /\ Len(q) = k
                    /\ r = SubSeq(stream, k + 1, Len(stream)) /\ Len(r) = s - k
    <2>1. /\ SubSeq(stream, 1, k) \in Seq(Bytes) /\ Len(SubSeq(stream, 1, k)) = k
          /\ Len(SubSeq(stream, k + 1, Len(stream))) = Len(stream) - k
      <3>1. stream \in Seq(Bytes)
        BY TypeFacts
      <3> QED
        BY <1>1, <3>1, PrefixFacts
    <2> QED
      BY <1>4, <2>1
  <1>7. data \in Seq(Bytes) /\ Len(data) = n + k
    BY <1>2, <1>4, <1>6, TypeFacts, ConcatFacts
  <1>8. Required \in Nat
    BY TypeFacts DEF Required
  <1>9. n + k <= Required
    BY <1>1, <1>4, <1>5, <1>8 DEF Request
  <1>10. At(received_data, B, p) /\ At(stream, B, p + n)
    BY <1>3, <1>4 DEF Flow
  <1>11. At(q, B, p + n) /\ At(r, B, p + n + k)
    <2>1. p + n \in Nat
      BY <1>3, <1>4
    <2> QED
      BY <1>1, <1>6, <1>10, <2>1, TypeFacts, AtPieces
  <1>12. At(data, B, p)
    BY <1>2, <1>3, <1>4, <1>6, <1>10, <1>11, TypeFacts, AtConcat
  <1>13. p + (n + k) = p + n + k /\ p + (n + k) + (s - k) = p + n + s
    <2>1. p \in Nat /\ n \in Nat /\ s \in Nat
      BY <1>3, <1>4
    <2> QED
      BY <1>5, <2>1
  <1>14. At(stream', B, p + Len(data))
    BY <1>1, <1>6, <1>7, <1>11, <1>13
  <1>15. ASSUME peer = "sending" \/ ~broken
         PROVE  /\ At(pending, B, p + Len(data) + Len(stream'))
                /\ p + Len(data) + Len(stream') + Len(pending) = Len(B)
    <2>1. At(pending, B, p + n + s) /\ p + n + s + t = Len(B)
      BY <1>3, <1>4, <1>15 DEF Flow
    <2>2. p + Len(data) + Len(stream') = p + n + s
      BY <1>1, <1>6, <1>7, <1>13
    <2> QED
      BY <1>4, <2>1, <2>2
  <1>16. Follows(data, B, start)
    <2>1. Len(data) \in Nat
      BY <1>4, <1>5, <1>7
    <2> QED
      BY <1>3, <1>7, <1>9, <1>12, <1>14, <1>15, <2>1 DEF Follows
  <1>17. Outcome(data)
    <2>1. Len(data) >= Required => Len(data) = Required
      <3>1. n \in Nat
        BY <1>4
      <3>2. Len(data) \in Nat /\ Len(data) <= Required
        BY <1>5, <1>7, <1>9, <3>1
      <3> QED
        BY <1>8, <3>2
    <2> QED
      BY <1>1, <1>2, <2>1 DEF Outcome, Required
  <1> QED
    BY <1>16, <1>17

\* The bytes are collected as they stood in B, or a new part of B begins behind them.
LEMMA FlowOn ==
    ASSUME Inv, NEW B \in Seq(Bytes), NEW start \in Nat, NEW data, Follows(data, B, start),
           UNCHANGED <<peer, pending, broken>>
    PROVE  /\ received_data' = data /\ header' = header => Flow(B, start)'
           /\ \A next \in Nat :
                  received_data' = <<>> /\ From(next)' = From(start) + Len(data)
                      => Flow(B, next)'
  <1>1. ASSUME received_data' = data, header' = header
        PROVE  Flow(B, start)'
    <2>1. From(start)' = From(start)
      BY <1>1 DEF From
    <2> QED
      BY <1>1, <2>1 DEF Flow, Follows
  <1>2. ASSUME NEW next \in Nat, received_data' = <<>>,
               From(next)' = From(start) + Len(data)
        PROVE  Flow(B, next)'
    <2>1. PICK p : p \in Nat /\ p = From(start) + Len(data) /\ p <= Len(B)
      <3>1. From(start) \in Nat /\ Len(data) \in Nat
        BY TypeFacts DEF Follows
      <3> QED
        BY <3>1 DEF Follows, At
    <2>2. At(<<>>, B, p) /\ Len(<<>>) = 0 /\ p + 0 = p
      BY <2>1, AtEmpty, EmptyFacts
    <2> QED
      BY <1>2, <2>1, <2>2 DEF Flow, Follows
  <1> QED
    BY <1>1, <1>2

\* The receiver of a peer of ours: a length it reads is the length of the next message,
\* and a message it reads is the next message.
LEMMA OwnReceive ==
    ASSUME Inv, Receive, NEW B, NEW pos, Own(B, pos)
    PROVE  Own(B, pos)' /\ [Channel!Next]_(Channel!vars)
  <1>1. PICK n, m : /\ n \in Nat /\ n = Len(result)
                    /\ m \in Nat /\ m = Len(accepted) /\ n <= m
    BY TypeFacts DEF Own
  <1>2. PICK start : start \in Nat /\ start = pos[n + 1]
    <2>1. n + 1 \in Nat
      BY <1>1
    <2>2. pos \in [Nat -> Nat]
      BY DEF Own
    <2> QED
      BY <2>1, <2>2
  <1>3. PICK data : Follows(data, B, start) /\ Outcome(data) /\ B \in Seq(Bytes)
    <2>1. Flow(B, start) /\ B \in Seq(Bytes)
      BY <1>1, <1>2 DEF Own
    <2> QED
      BY <1>2, <2>1, ReceivePiece
  <1>4. UNCHANGED <<peer, toSend, pending, accepted, broken>> /\ receiver = "receiving"
    BY DEF Receive, senderVars
  <1>5. /\ HeaderSize \in Nat /\ HeaderSize > 0 /\ Len(data) \in Nat /\ Len(B) \in Nat
        /\ start + HeaderSize \in Nat /\ n + 1 \in Nat /\ (n + 1) + 1 \in Nat
    <2>1. HeaderSize \in Nat /\ HeaderSize > 0 /\ n \in Nat /\ start \in Nat
      BY <1>1, <1>2, FramingAssumption
    <2>2. Len(data) \in Nat /\ Len(B) \in Nat
      BY <1>3, LengthIsNat DEF Follows
    <2> QED
      BY <2>1, <2>2
  <1>6. /\ pos[m + 1] = Len(B)
        /\ \A k \in 1 .. m :
               /\ pos[k + 1] = pos[k] + HeaderSize + Len(accepted[k])
               /\ At(Pack(Len(accepted[k])), B, pos[k])
               /\ At(accepted[k], B, pos[k] + HeaderSize)
    BY <1>1 DEF Own, Frames
  <1>7. Frames(B, pos, accepted)'
    BY <1>4 DEF Own, Frames
  <1>8. \A k \in 1 .. m : /\ accepted[k] \in Messages /\ accepted[k] \in Seq(Bytes)
                          /\ Len(accepted[k]) \in 1 .. MaxMessageSize
    <2>1. ASSUME NEW k \in 1 .. m
          PROVE  accepted[k] \in Messages /\ Len(accepted[k]) <= MaxMessageSize
      BY <1>1, TypeFacts
    <2>2. ASSUME NEW a \in Messages
          PROVE  a \in Seq(Bytes) /\ Len(a) \in Nat \ {0}
      BY FramingAssumption
    <2> QED
      <3>1. MaxMessageSize \in Nat /\ \A x \in Nat \ {0} : x <= MaxMessageSize => x \in 1 .. MaxMessageSize
        BY FramingAssumption
      <3> QED
        BY <2>1, <2>2, <3>1
  <1>9. CASE /\ received_data' = data
             /\ UNCHANGED <<expected, header, receiver, result>>
    <2>1. Flow(B, start)'
      BY <1>2, <1>3, <1>4, <1>9, FlowOn
    <2>2. Flow(B, pos[Len(result) + 1])'
      BY <1>1, <1>2, <1>9, <2>1
    <2>3. Own(B, pos)'
      BY <1>4, <1>7, <1>9, <2>2 DEF Own
    <2>4. UNCHANGED Channel!vars
      BY <1>4, <1>9 DEF Channel!vars
    <2> QED
      BY <2>3, <2>4
  <1>10. CASE Len(data) = HeaderSize /\ header = NoLength /\ HeaderComplete(data)
    <2>1. From(start) = start
      BY <1>10 DEF From
    <2>2. At(data, B, start)
      BY <1>3, <2>1 DEF Follows
    <2>3. n < m
      <3>1. start + HeaderSize <= Len(B)
        BY <1>10, <2>2 DEF At
      <3>2. n # m
        <4>1. n = m => start = Len(B)
          BY <1>2, <1>6
        <4>2. start \in Nat
          BY <1>2
        <4> QED
          BY <1>5, <3>1, <4>1, <4>2
      <3> QED
        BY <1>1, <3>2
    <2>4. PICK a : a = accepted[n + 1] /\ n + 1 \in 1 .. m
      <3>1. n \in Nat /\ m \in Nat
        BY <1>1
      <3> QED
        BY <2>3, <3>1
    <2>5. /\ a \in Messages /\ a \in Seq(Bytes) /\ Len(a) \in 1 .. MaxMessageSize
          /\ Len(a) \in Nat
      BY <1>8, <2>4
    <2>6. At(Pack(Len(a)), B, start)
      BY <1>2, <1>6, <2>4
    <2>7. Pack(Len(a)) \in Seq(Bytes) /\ Len(Pack(Len(a))) = HeaderSize
      BY <2>5, PackIsBytes
    <2>8. data = Pack(Len(a))
      <3>1. data \in Seq(Bytes)
        BY <1>3 DEF Follows
      <3>2. Len(data) = Len(Pack(Len(a)))
        BY <1>10, <2>7
      <3>3. Pack(Len(a)) \in Seq(Bytes) /\ B \in Seq(Bytes) /\ start \in Nat
        BY <1>2, <1>3, <2>7
      <3> QED
        BY <2>2, <2>6, <3>1, <3>2, <3>3, AtSame
    <2>9. Unpack(data) = Len(a)
      <3>1. Len(a) < Power[HeaderSize]
        <4>1. Power[HeaderSize] \in Nat
          BY <1>5, PowerFacts
        <4>2. MaxMessageSize \in Nat /\ MaxMessageSize < Power[HeaderSize]
          BY FramingAssumption
        <4>3. Len(a) \in Nat /\ Len(a) <= MaxMessageSize
          BY <2>5, <4>2
        <4> QED
          BY <4>1, <4>2, <4>3
      <3> QED
        BY <2>5, <2>8, <3>1, UnpackPack
    <2>10. /\ header' = Len(a) /\ received_data' = <<>>
           /\ UNCHANGED <<expected, receiver, result>>
      BY <1>10, <2>5, <2>9 DEF HeaderComplete, ValidLength
    <2>11. header' # NoLength
      BY <2>5, <2>10, FramingAssumption
    <2>12. Flow(B, start)'
      <3>1. From(start)' = From(start) + Len(data)
        BY <1>10, <2>1, <2>11 DEF From
      <3> QED
        BY <1>2, <1>3, <1>4, <2>10, <3>1, FlowOn
    <2>13. Flow(B, pos[Len(result) + 1])'
      BY <1>1, <1>2, <2>10, <2>12
    <2>14. Len(result') < Len(accepted') /\ header' = Len(accepted'[Len(result') + 1])
      BY <1>1, <1>4, <2>3, <2>4, <2>10
    <2>15. Own(B, pos)'
      BY <1>4, <1>7, <2>10, <2>13, <2>14 DEF Own
    <2>16. UNCHANGED Channel!vars
      BY <1>4, <2>10 DEF Channel!vars
    <2> QED
      BY <2>15, <2>16
  <1>11. CASE Len(data) = header /\ header # NoLength /\ MessageComplete(data)
    <2>1. From(start) = start + HeaderSize
      BY <1>11 DEF From
    <2>2. n < m /\ header = Len(accepted[n + 1])
      BY <1>1, <1>11 DEF Own
    <2>3. PICK a : a = accepted[n + 1] /\ n + 1 \in 1 .. m
      <3>1. n \in Nat /\ m \in Nat
        BY <1>1
      <3> QED
        BY <2>2, <3>1
    <2>4. a \in Messages /\ a \in Seq(Bytes) /\ Len(a) \in Nat
      BY <1>8, <2>3
    <2>5. At(a, B, start + HeaderSize) /\ pos[(n + 1) + 1] = start + HeaderSize + Len(a)
      BY <1>2, <1>6, <2>3
    <2>6. data = a
      <3>1. At(data, B, start + HeaderSize) /\ data \in Seq(Bytes)
        BY <1>3, <2>1 DEF Follows
      <3>2. Len(data) = Len(a)
        BY <1>11, <2>2, <2>3
      <3>3. start + HeaderSize \in Nat /\ B \in Seq(Bytes)
        BY <1>3, <1>5
      <3> QED
        BY <2>4, <2>5, <3>1, <3>2, <3>3, AtSame
    <2>7. /\ result' = Append(result, a) /\ expected' = expected - 1
          /\ header' = NoLength /\ received_data' = <<>>
          /\ receiver' \in {"done", "receiving"}
      BY <1>11, <2>4, <2>6 DEF MessageComplete
    <2>8. Len(result') = n + 1
      <3>1. result \in Seq(Messages)
        BY DEF Inv, TypeOK
      <3> QED
        BY <1>1, <2>7, <3>1
    <2>9. PICK next : next \in Nat /\ next = pos[(n + 1) + 1]
      <3>1. pos \in [Nat -> Nat]
        BY DEF Own
      <3> QED
        BY <1>5, <3>1
    <2>10. Flow(B, next)'
      <3>1. From(next)' = From(start) + Len(data)
        BY <2>1, <2>5, <2>6, <2>7, <2>9 DEF From
      <3> QED
        BY <1>2, <1>3, <1>4, <2>7, <2>9, <3>1, FlowOn
    <2>11. Flow(B, pos[Len(result) + 1])'
      BY <2>8, <2>9, <2>10
    <2>12. Len(result') <= Len(accepted')
      BY <1>1, <1>4, <2>2, <2>8
    <2>13. ~broken' => Len(result') + expected' <= Len(accepted') + Len(toSend')
      <3>1. ~broken => n + expected <= m + Len(toSend)
        BY <1>1 DEF Own
      <3>2. (n + 1) + (expected - 1) = n + expected
        <4>1. expected \in Nat
          BY TypeFacts
        <4> QED
          BY <1>1, <4>1
      <3>3. Len(result') + expected' = n + expected
        BY <2>7, <2>8, <3>2
      <3> QED
        BY <1>1, <1>4, <3>1, <3>3
    <2>14. ~broken' /\ peer' = "closed" => Len(pending') = 0 /\ Len(toSend') = 0
      BY <1>4 DEF Own
    <2>15. Own(B, pos)'
      BY <1>7, <2>7, <2>11, <2>12, <2>13, <2>14 DEF Own
    <2>16. Channel!Take
      <3>1. Len(result) < Len(accepted) /\ result' = Append(result, accepted[Len(result) + 1])
        BY <1>1, <2>2, <2>3, <2>7
      <3>2. receiver # "failed" /\ receiver' # "failed"
        BY <1>4, <2>7
      <3> QED
        BY <1>4, <3>1, <3>2 DEF Channel!Take
    <2> QED
      BY <2>15, <2>16 DEF Channel!Next
  <1> QED
    BY <1>3, <1>9, <1>10, <1>11 DEF Outcome

\* A stream begins with a message a receiver returns: a length it accepts, and as many
\* bytes that are a message.
BeginsWithMessage(s) ==
    \E m \in Messages :
        /\ Len(m) <= MaxMessageSize
        /\ HeaderSize <= Len(s) /\ Unpack(SubSeq(s, 1, HeaderSize)) = Len(m)
        /\ At(m, s, HeaderSize)

LEMMA BeginningIs ==
    ASSUME NEW S, NEW q \in Seq(S), NEW B \in Seq(S), At(q, B, 0)
    PROVE  Len(q) <= Len(B) /\ q = SubSeq(B, 1, Len(q))
  <1>1. Len(q) \in Nat /\ Len(B) \in Nat
    OBVIOUS
  <1>2. Len(q) <= Len(B) /\ \A j \in 1 .. Len(q) : q[j] = B[j]
    BY <1>1 DEF At
  <1>3. /\ SubSeq(B, 1, Len(q)) \in Seq(S) /\ Len(SubSeq(B, 1, Len(q))) = Len(q)
        /\ \A j \in 1 .. Len(q) : SubSeq(B, 1, Len(q))[j] = B[j]
    BY <1>1, <1>2
  <1> QED
    BY <1>2, <1>3

\* The receiver of another peer returns nothing.
LEMMA ForeignReceive ==
    ASSUME Inv, Receive, NEW B, Foreign(B), ~BeginsWithMessage(B)
    PROVE  Foreign(B)' /\ [Channel!Next]_(Channel!vars)
  <1>1. B \in Seq(Bytes) /\ 0 \in Nat /\ Flow(B, 0)
    BY FramingAssumption DEF Foreign
  <1>2. PICK data : Follows(data, B, 0) /\ Outcome(data)
    BY <1>1, ReceivePiece
  <1>3. UNCHANGED <<peer, toSend, pending, accepted, broken>> /\ receiver = "receiving"
    BY DEF Receive, senderVars
  <1>4. data \in Seq(Bytes)
    BY <1>2 DEF Follows
  <1>5. ASSUME received_data' = data, UNCHANGED <<header, result>>
        PROVE  Foreign(B)'
    <2>1. Flow(B, 0)'
      BY <1>1, <1>2, <1>3, <1>5, FlowOn
    <2> QED
      BY <1>3, <1>5, <2>1 DEF Foreign
  <1>6. ASSUME ReceiverFails, received_data' = data
        PROVE  Foreign(B)' /\ Channel!Next
    <2>1. Foreign(B)'
      BY <1>5, <1>6 DEF ReceiverFails
    <2>2. Channel!GiveUp
      BY <1>3, <1>6 DEF ReceiverFails, Channel!GiveUp, Foreign
    <2> QED
      BY <2>1, <2>2 DEF Channel!Next
  <1>7. CASE /\ received_data' = data
             /\ UNCHANGED <<expected, header, receiver, result>>
    <2>1. Foreign(B)'
      BY <1>5, <1>7
    <2>2. UNCHANGED Channel!vars
      BY <1>3, <1>7 DEF Channel!vars
    <2> QED
      BY <2>1, <2>2
  <1>8. CASE Len(data) = HeaderSize /\ header = NoLength /\ HeaderComplete(data)
    <2>1. CASE ValidLength(Unpack(data))
      <3>1. /\ header' = Unpack(data) /\ received_data' = <<>>
            /\ UNCHANGED <<expected, receiver, result>>
        BY <1>8, <2>1 DEF HeaderComplete
      <3>2. At(data, B, 0) /\ From(0) = 0
        BY <1>2, <1>8 DEF Follows, From
      <3>3. HeaderSize <= Len(B) /\ data = SubSeq(B, 1, HeaderSize)
        BY <1>1, <1>4, <1>8, <3>2, BeginningIs
      <3>4. header' # NoLength
        <4>1. Unpack(data) \in Nat
          BY <2>1, FramingAssumption DEF ValidLength
        <4> QED
          BY <3>1, <4>1, FramingAssumption
      <3>5. From(0)' = From(0) + Len(data)
        BY <1>8, <3>2, <3>4 DEF From
      <3>6. Flow(B, 0)'
        BY <1>1, <1>2, <1>3, <3>1, <3>5, FlowOn
      <3>7. Foreign(B)'
        BY <1>3, <3>1, <3>3, <3>6 DEF Foreign
      <3>8. UNCHANGED Channel!vars
        BY <1>3, <3>1 DEF Channel!vars
      <3> QED
        BY <3>7, <3>8
    <2>2. CASE ~ValidLength(Unpack(data))
      BY <1>6, <1>8, <2>2 DEF HeaderComplete
    <2> QED
      BY <2>1, <2>2
  <1>9. CASE Len(data) = header /\ header # NoLength /\ MessageComplete(data)
    <2>1. data \notin Messages
      <3>1. At(data, B, HeaderSize)
        <4>1. HeaderSize \in Nat /\ From(0) = 0 + HeaderSize
          BY <1>9, FramingAssumption DEF From
        <4>2. From(0) = HeaderSize
          BY <4>1
        <4> QED
          BY <1>2, <4>2 DEF Follows
      <3>2. HeaderSize <= Len(B) /\ Unpack(SubSeq(B, 1, HeaderSize)) = Len(data)
        BY <1>9 DEF Foreign
      <3>3. Len(data) <= MaxMessageSize
        BY <1>9, FramingAssumption DEF Inv, TypeOK
      <3> QED
        BY <3>1, <3>2, <3>3 DEF BeginsWithMessage
    <2> QED
      BY <1>6, <1>9, <2>1 DEF MessageComplete
  <1> QED
    BY <1>2, <1>7, <1>8, <1>9 DEF Outcome

LEMMA ChannelReceive ==
    ASSUME \A s \in ForeignStreams : ~BeginsWithMessage(s), ChannelInv, Receive
    PROVE  ChannelInv' /\ [Channel!Next]_(Channel!vars)
  <1>1. Inv /\ Inv'
    BY ReceiveInv DEF ChannelInv
  <1>2. ASSUME NEW B, NEW pos, Own(B, pos)
        PROVE  ChannelInv' /\ [Channel!Next]_(Channel!vars)
    BY <1>1, <1>2, OwnReceive DEF ChannelInv
  <1>3. ASSUME NEW B, Foreign(B)
        PROVE  ChannelInv' /\ [Channel!Next]_(Channel!vars)
    <2>1. ~BeginsWithMessage(B)
      BY <1>3 DEF Foreign
    <2> QED
      BY <1>1, <1>3, <2>1, ForeignReceive DEF ChannelInv
  <1> QED
    BY <1>2, <1>3 DEF ChannelInv

\* While nothing has gone wrong, no message is missing from a closed connection whose
\* bytes have all been received: it would have to end behind the last of them.
LEMMA OwnClosed ==
    ASSUME Inv, ReceiveClosed, NEW B, NEW pos, Own(B, pos)
    PROVE  broken
  <1> SUFFICES ASSUME ~broken
               PROVE  FALSE
    OBVIOUS
  <1>1. PICK n, m, e, c : /\ n \in Nat /\ n = Len(result)
                          /\ m \in Nat /\ m = Len(accepted)
                          /\ e \in Nat /\ e = expected /\ e # 0
                          /\ c \in Nat /\ c = Len(received_data) /\ c < Required
    BY TypeFacts DEF ReceiveClosed, Inv
  <1>2. n + e <= m
    <2>1. Len(toSend) = 0
      BY DEF ReceiveClosed, Own
    <2> QED
      BY <1>1, <2>1 DEF Own
  <1>3. n < m /\ n + 1 \in Nat /\ (n + 1) + 1 \in Nat /\ n + 1 \in 1 .. m
    BY <1>1, <1>2
  <1>4. PICK start, l : /\ start \in Nat /\ start = pos[n + 1]
                        /\ l \in Nat /\ l = Len(accepted[n + 1])
    <2>1. pos \in [Nat -> Nat]
      BY DEF Own
    <2>2. accepted[n + 1] \in Seq(Bytes)
      <3>1. accepted[n + 1] \in Messages
        BY <1>1, <1>3, TypeFacts
      <3> QED
        BY <3>1, FramingAssumption
    <2> QED
      BY <1>3, <2>1, <2>2, LengthIsNat
  <1>5. start + HeaderSize + l <= Len(B)
    BY <1>1, <1>3, <1>4 DEF Own, Frames, At
  <1>6. From(start) + c + Len(stream) + Len(pending) = Len(B)
    BY <1>1, <1>4 DEF Own, Flow
  <1>7. Len(stream) = 0 /\ Len(pending) = 0
    BY EmptyFacts DEF ReceiveClosed, Own
  <1>8. HeaderSize \in Nat
    BY FramingAssumption
  <1>9. From(start) + c < start + HeaderSize + l
    <2>1. CASE header = NoLength
      <3>1. From(start) = start /\ Required = HeaderSize
        BY <2>1 DEF From, Required
      <3>2. c \in Nat /\ start \in Nat /\ l \in Nat /\ c < Required
        BY <1>1, <1>4
      <3> QED
        BY <1>8, <3>1, <3>2
    <2>2. CASE header # NoLength
      <3>1. header = l
        BY <1>1, <1>4, <2>2 DEF Own
      <3>2. From(start) = start + HeaderSize /\ Required = l
        BY <2>2, <3>1 DEF From, Required
      <3>3. c \in Nat /\ start \in Nat /\ l \in Nat /\ c < Required
        BY <1>1, <1>4
      <3> QED
        BY <1>8, <3>2, <3>3
    <2> QED
      BY <2>1, <2>2
  <1>10. From(start) \in Nat
    BY <1>4, TypeFacts
  <1>11. From(start) + c = Len(B)
    BY <1>1, <1>6, <1>7, <1>10
  <1> QED
    <2>1. c \in Nat /\ start \in Nat /\ l \in Nat
      BY <1>1, <1>4
    <2>2. From(start) + c \in Nat /\ start + HeaderSize + l \in Nat
      BY <1>8, <1>10, <2>1
    <2> QED
      BY <1>5, <1>9, <1>11, <2>2

LEMMA ChannelWait ==
    ASSUME ChannelInv, ReceiveClosed \/ ReceiveTimeout
    PROVE  ChannelInv' /\ Channel!Next
  <1>1. Inv
    BY DEF ChannelInv
  <1>2. Inv'
    BY <1>1, InvNext DEF Next
  <1>3. /\ UNCHANGED <<received_data, peer, stream, toSend, pending, accepted, broken>>
        /\ UNCHANGED <<expected, header, result>>
        /\ receiver' = "failed"
    BY DEF ReceiveClosed, ReceiveTimeout, ReceiverFails, senderVars
  <1>4. ASSUME NEW B, NEW start, Flow(B, start)
        PROVE  Flow(B, start)'
    BY <1>3, <1>4 DEF Flow, From
  <1>5. ASSUME NEW B, NEW pos, Own(B, pos)
        PROVE  Own(B, pos)'
    <2>1. Flow(B, pos[Len(result) + 1])
      BY <1>5 DEF Own
    <2>2. Flow(B, pos[Len(result) + 1])'
      BY <1>3, <2>1 DEF Flow, From
    <2>3. Frames(B, pos, accepted)'
      BY <1>3, <1>5 DEF Own, Frames
    <2> QED
      BY <1>3, <1>5, <2>2, <2>3 DEF Own
  <1>6. ASSUME NEW B, Foreign(B)
        PROVE  Foreign(B)'
    BY <1>3, <1>4, <1>6 DEF Foreign
  <1>7. broken
    <2>1. CASE ReceiveTimeout
      BY <2>1 DEF ReceiveTimeout
    <2>2. CASE ReceiveClosed
      BY <1>1, <2>2, OwnClosed DEF ChannelInv, Foreign
    <2> QED
      BY <2>1, <2>2
  <1>8. Channel!GiveUp
    BY <1>3, <1>7 DEF Channel!GiveUp
  <1> QED
    BY <1>2, <1>5, <1>6, <1>8 DEF ChannelInv, Channel!Next

LEMMA ChannelNext ==
    ASSUME \A s \in ForeignStreams : ~BeginsWithMessage(s)
    PROVE  ChannelInv /\ [Next]_vars => ChannelInv' /\ [Channel!Next]_(Channel!vars)
  <1> SUFFICES ASSUME ChannelInv, [Next]_vars
               PROVE  ChannelInv' /\ [Channel!Next]_(Channel!vars)
    OBVIOUS
  <1>1. CASE SendMessage
    BY <1>1, ChannelSend
  <1>2. CASE PeerStep
    BY <1>2, ChannelPeer
  <1>3. CASE Receive
    BY <1>3, ChannelReceive
  <1>4. CASE ReceiveClosed \/ ReceiveTimeout
    BY <1>4, ChannelWait
  <1>5. CASE UNCHANGED vars
    <2>1. Inv'
      BY <1>5, InvNext DEF ChannelInv
    <2>2. ASSUME NEW B, NEW pos, Own(B, pos)
          PROVE  Own(B, pos)'
      <3>1. Flow(B, pos[Len(result) + 1])'
        BY <1>5, <2>2 DEF vars, Own, Flow, From
      <3>2. Frames(B, pos, accepted)'
        BY <1>5, <2>2 DEF vars, Own, Frames
      <3> QED
        BY <1>5, <2>2, <3>1, <3>2 DEF vars, Own
    <2>3. ASSUME NEW B, Foreign(B)
          PROVE  Foreign(B)'
      BY <1>5, <2>3 DEF vars, Foreign, Flow, From
    <2>4. UNCHANGED Channel!vars
      BY <1>5 DEF vars, Channel!vars
    <2> QED
      BY <2>1, <2>2, <2>3, <2>4 DEF ChannelInv
  <1> QED
    BY <1>1, <1>2, <1>3, <1>4, <1>5 DEF Next, PeerStep

------------------------------------------------------------------------------
(* Theorems                                                                *)

\* Type correctness; in particular no message above the limit is ever begun
\* (send_message, kem_key_server.py 93-95).
THEOREM TypeCorrect == Spec => []TypeOK
  <1>1. Inv => TypeOK
    BY DEF Inv
  <1> QED
    BY <1>1, InvCorrect, PTL

\* Whatever length a peer announces and however its bytes arrive, the receiver never
\* holds more than the largest message it accepts (kem_key_server.py 100-125).
THEOREM MemoryBoundedCorrect == Spec => []MemoryBounded
  <1>1. Inv => MemoryBounded
    BY FramingAssumption DEF Inv, TypeOK, Required, MemoryBounded
  <1> QED
    BY <1>1, InvCorrect, PTL

\* However the stream is cut, whatever breaks and whenever the receiver looks, it
\* returns the messages of a peer of ours whole, in order and once each, and it gives
\* up only on a broken connection (send_message, receive_exact and receive_message,
\* kem_key_server.py 88-125).  Of what another peer sends nothing is asked but that it
\* is none of these messages.
THEOREM ChannelCorrect ==
    ASSUME \A s \in ForeignStreams : ~BeginsWithMessage(s)
    PROVE  Spec => ChannelSpec
  <1>1. Init => ChannelInv /\ Channel!Init
    BY ChannelInit
  <1>2. ChannelInv /\ [Next]_vars => ChannelInv' /\ [Channel!Next]_(Channel!vars)
    BY ChannelNext
  <1> QED
    BY <1>1, <1>2, PTL DEF Spec, ChannelSpec, Channel!Spec
==============================================================================
