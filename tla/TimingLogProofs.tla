-------------------------- MODULE TimingLogProofs ----------------------------
(***************************************************************************)
(* Proofs about TimingLog, for any processes and numbers of packets.  One  *)
(* process at a time holds the TAP device, so that while it saves, the     *)
(* file ends with what it has written of its lines, and its remaining      *)
(* lines continue the file; what others left behind is never a row of its. *)
(***************************************************************************)
EXTENDS TimingLog, TLAPS

Busy == {"running", "ending", "saving"}

OneAtATime == \A p, q \in Processes : pc[p] \in Busy /\ pc[q] \in Busy => p = q

\* The lines a process has still to write: rows that end with its last packet, behind
\* the header if and only if the file is empty.
ToWrite ==
    \A p \in Processes : pc[p] = "saving" =>
        /\ exists
        /\ file = <<>> => toWrite[p] # <<>> /\ toWrite[p][1] = Header
        /\ \A k \in DOMAIN toWrite[p] :
               \/ toWrite[p][k] = Header /\ k = 1 /\ file = <<>>
               \/ /\ toWrite[p][k] = <<p, timings[p] - Len(toWrite[p]) + k>>
                  /\ toWrite[p][k] \in Rows

LastIsCut == file # <<>> /\ file[Len(file)] = Cut

\* The rows it has written end with the last line of the file; after a cut line there
\* are none.
Written ==
    \A p \in Processes : pc[p] = "saving" =>
        /\ LastIsCut => Len(toWrite[p]) = timings[p]
        /\ \A i \in DOMAIN file : file[i] \in Rows /\ file[i][1] = p =>
               /\ ~LastIsCut
               /\ file[i][2] = timings[p] - Len(toWrite[p]) - (Len(file) - i)

\* A process that has not opened the file has no row in it.
NotYet ==
    \A p \in Processes : pc[p] \in {"waiting", "running", "ending"} =>
        \A i \in DOMAIN file : file[i] \in Rows => file[i][1] # p

\* Only a kill leaves a cut or a damaged line.
Spoilt == \A i \in DOMAIN file : file[i] \in {Cut, Damaged} => Killed # {}

\* Where the n-th timing of a process is, or why it is missing.
InFile(p, n) == \E i \in DOMAIN file : file[i] = <<p, n>>
SpoiltFirst(n) == n = 1 /\ Killed # {} /\ \E i \in DOMAIN file : file[i] = Damaged
StillToWrite(p, n) == \E k \in DOMAIN toWrite[p] : toWrite[p][k] = <<p, n>>

Accounted ==
    \A p \in Processes, n \in 1 .. MaxPackets : n <= timings[p] =>
        /\ pc[p] = "saving" => InFile(p, n) \/ SpoiltFirst(n) \/ StillToWrite(p, n)
        /\ pc[p] = "saved" => InFile(p, n) \/ SpoiltFirst(n)

Inv ==
    /\ TypeOK
    /\ OneAtATime
    /\ ToWrite
    /\ Written
    /\ NotYet
    /\ Spoilt
    /\ HeaderOnce
    /\ RowsTogether
    /\ Accounted

------------------------------------------------------------------------------
(* Lines                                                                   *)

\* Rows are distinct from the other lines.
LEMMA LineFacts ==
    /\ \A p \in Processes, n \in 1 .. MaxPackets :
           /\ <<p, n>> \in Rows /\ <<p, n>> \in Lines
           /\ <<p, n>> # Header /\ <<p, n>> # Cut /\ <<p, n>> # Damaged
    /\ Header \notin Rows /\ Cut \notin Rows /\ Damaged \notin Rows
    /\ Header \in Lines /\ Cut \in Lines /\ Damaged \in Lines
    /\ Header # Cut /\ Header # Damaged /\ Cut # Damaged
    /\ \A r \in Rows : r = <<r[1], r[2]>> /\ r[1] \in Processes /\ r[2] \in 1 .. MaxPackets
  BY LogAssumption DEF Lines, Rows

LEMMA TailFacts ==
    ASSUME NEW S, NEW q \in Seq(S), q # <<>>
    PROVE  /\ Head(q) \in S /\ Head(q) = q[1]
           /\ Tail(q) \in Seq(S)
           /\ Len(q) \in Nat \ {0} /\ Len(Tail(q)) = Len(q) - 1
           /\ DOMAIN q = 1 .. Len(q)
           /\ DOMAIN Tail(q) = 1 .. (Len(q) - 1)
           /\ \A i \in DOMAIN Tail(q) : i + 1 \in DOMAIN q /\ Tail(q)[i] = q[i + 1]
  <1>1. /\ Head(q) \in S /\ Head(q) = q[1]
        /\ Len(q) \in Nat \ {0} /\ DOMAIN q = 1 .. Len(q)
    OBVIOUS
  <1>2. Tail(q) \in Seq(S) /\ Len(Tail(q)) = Len(q) - 1
    OBVIOUS
  <1>3. DOMAIN Tail(q) = 1 .. (Len(q) - 1)
    BY <1>2
  <1>4. ASSUME NEW i \in DOMAIN Tail(q)
        PROVE  i + 1 \in DOMAIN q /\ Tail(q)[i] = q[i + 1]
    <2> DEFINE n == Len(q)
    <2>1. n \in Nat /\ DOMAIN q = 1 .. n /\ i \in 1 .. (n - 1)
      BY <1>1, <1>3
    <2>2. Tail(q)[i] = q[i + 1]
      BY <2>1
    <2> HIDE DEF n
    <2>3. i + 1 \in 1 .. n
      BY <2>1
    <2> QED
      BY <2>1, <2>2, <2>3, Zenon
  <1> QED
    BY <1>1, <1>2, <1>3, <1>4, Zenon

\* A line is added, or a cut line is spoilt.
LEMMA AfterLineFacts ==
    ASSUME NEW f \in Seq(Lines), NEW l \in Lines
    PROVE  /\ AfterLine(f, l) \in Seq(Lines) /\ AfterLine(f, l) # <<>>
           /\ Len(f) \in Nat /\ DOMAIN f = 1 .. Len(f)
           /\ IF f # <<>> /\ f[Len(f)] = Cut
                THEN /\ Len(f) # 0
                     /\ Len(AfterLine(f, l)) = Len(f)
                     /\ DOMAIN AfterLine(f, l) = 1 .. Len(f)
                     /\ \A i \in 1 .. (Len(f) - 1) : AfterLine(f, l)[i] = f[i]
                     /\ l = Cut => AfterLine(f, l)[Len(f)] = Cut
                     /\ l # Cut => AfterLine(f, l)[Len(f)] = Damaged
                ELSE /\ Len(AfterLine(f, l)) = Len(f) + 1
                     /\ DOMAIN AfterLine(f, l) = 1 .. (Len(f) + 1)
                     /\ \A i \in 1 .. Len(f) : AfterLine(f, l)[i] = f[i]
                     /\ AfterLine(f, l)[Len(f) + 1] = l
  <1>1. CASE f # <<>> /\ f[Len(f)] = Cut
    <2> DEFINE v == IF l = Cut THEN Cut ELSE Damaged
    <2>1. v \in Lines
      BY LineFacts
    <2>2. AfterLine(f, l) = [f EXCEPT ![Len(f)] = v]
      BY <1>1 DEF AfterLine
    <2>3. Len(f) \in DOMAIN f /\ DOMAIN f = 1 .. Len(f) /\ Len(f) \in Nat \ {0}
      BY <1>1
    <2> HIDE DEF v
    <2>4. /\ [f EXCEPT ![Len(f)] = v] \in Seq(Lines)
          /\ Len([f EXCEPT ![Len(f)] = v]) = Len(f)
          /\ DOMAIN [f EXCEPT ![Len(f)] = v] = 1 .. Len(f)
          /\ [f EXCEPT ![Len(f)] = v] # <<>>
      BY <2>1, <2>3
    <2>5. /\ \A i \in 1 .. (Len(f) - 1) : [f EXCEPT ![Len(f)] = v][i] = f[i]
          /\ [f EXCEPT ![Len(f)] = v][Len(f)] = v
      <3> DEFINE n == Len(f)
      <3>1. \A i \in 1 .. (n - 1) : i \in DOMAIN f /\ i # n
        <4>1. n \in Nat \ {0} /\ DOMAIN f = 1 .. n
          BY <2>3
        <4> HIDE DEF n
        <4>2. \A i \in 1 .. (n - 1) : i \in 1 .. n /\ i # n
          BY <4>1
        <4> QED
          BY <4>1, <4>2
      <3>2. [f EXCEPT ![Len(f)] = v] = [i \in DOMAIN f |-> IF i = Len(f) THEN v ELSE f[i]]
        BY <2>3
      <3> QED
        BY <2>3, <3>1, <3>2
    <2>6. (l = Cut => v = Cut) /\ (l # Cut => v = Damaged)
      BY DEF v
    <2> QED
      BY <1>1, <2>2, <2>3, <2>4, <2>5, <2>6, ZenonT(60)
  <1>2. CASE ~(f # <<>> /\ f[Len(f)] = Cut)
    <2>1. AfterLine(f, l) = Append(f, l)
      BY <1>2 DEF AfterLine
    <2>2. /\ Append(f, l) \in Seq(Lines) /\ Append(f, l) # <<>>
          /\ Len(f) \in Nat /\ Len(Append(f, l)) = Len(f) + 1
          /\ DOMAIN f = 1 .. Len(f)
          /\ DOMAIN Append(f, l) = 1 .. (Len(f) + 1)
          /\ \A i \in DOMAIN f : Append(f, l)[i] = f[i]
          /\ Append(f, l)[Len(f) + 1] = l
      OBVIOUS
    <2>3. \A i \in 1 .. Len(f) : Append(f, l)[i] = f[i]
      BY <2>2, Zenon
    <2> QED
      BY <1>2, <2>1, <2>2, <2>3, Zenon
  <1> QED
    BY <1>1, <1>2, ZenonT(60)

\* What a process that opens the file has to write.
LEMMA OpenFacts ==
    ASSUME NEW p \in Processes, NEW T \in 0 .. MaxPackets,
           NEW h, h = <<Header>> \/ h = <<>>
    PROVE  LET w == h \o [i \in 1 .. T |-> <<p, i>>] IN
           /\ w \in Seq(Lines)
           /\ Len(w) = Len(h) + T /\ DOMAIN w = 1 .. (Len(h) + T)
           /\ h = <<Header>> => Len(h) = 1 /\ w # <<>> /\ w[1] = Header
           /\ h = <<>> => Len(h) = 0
           /\ \A i \in 1 .. T : w[Len(h) + i] = <<p, i>>
  <1> DEFINE r == [i \in 1 .. T |-> <<p, i>>]
  <1>1. r \in Seq(Lines) /\ Len(r) = T /\ (\A i \in 1 .. T : r[i] = <<p, i>>)
    <2>1. \A i \in 1 .. T : <<p, i>> \in Lines
      BY LineFacts, LogAssumption
    <2>2. T \in Nat
      BY LogAssumption
    <2> QED
      BY <2>1, <2>2
  <1>2. h \in Seq(Lines) /\ Len(h) \in Nat
    <2>1. <<>> \in Seq(Lines) /\ <<Header>> \in Seq(Lines)
      BY LineFacts
    <2> QED
      BY <2>1
  <1> HIDE DEF r
  <1>3. T \in Nat
    BY LogAssumption
  <1>4. /\ h \o r \in Seq(Lines) /\ Len(h \o r) = Len(h) + T
        /\ DOMAIN (h \o r) = 1 .. (Len(h) + T)
        /\ \A i \in 1 .. T : (h \o r)[Len(h) + i] = r[i]
    BY <1>1, <1>2, <1>3
  <1>5. h = <<Header>> => Len(h) = 1 /\ h \o r # <<>> /\ (h \o r)[1] = Header
    BY <1>1, <1>2, <1>3, LineFacts
  <1>6. h = <<>> => Len(h) = 0
    OBVIOUS
  <1> QED
    BY <1>1, <1>4, <1>5, <1>6 DEF r

------------------------------------------------------------------------------
LEMMA InvInit == Init => Inv
  <1> SUFFICES ASSUME Init PROVE Inv
    OBVIOUS
  <1>1. <<>> \in Seq(Lines) /\ DOMAIN <<>> = {}
    OBVIOUS
  <1>2. TypeOK
    <2>1. 0 \in 0 .. MaxPackets /\ "waiting" \in Places
      BY LogAssumption DEF Places
    <2> QED
      BY <1>1, <2>1 DEF Init, TypeOK
  <1> QED
    BY <1>1, <1>2
    DEF Init, Inv, OneAtATime, Busy, ToWrite, Written, NotYet, Spoilt, HeaderOnce, RowsTogether,
        Accounted

\* A step that leaves the file, the timings and the lines to write alone, and makes no
\* process save or appear not to have opened the file.
LEMMA PlaceInv ==
    ASSUME Inv, NEW p \in Processes, NEW from, NEW to \in Places,
           Step(p, from, to), UNCHANGED <<timings, toWrite, exists, file>>,
           to \in Busy => (to # "saving" /\ (pc[p] \in Busy \/ TapFree(p))),
           to \in {"waiting", "running", "ending"} => pc[p] \in {"waiting", "running", "ending"},
           pc[p] # "killed",
           to = "saved" => timings[p] = 0 \/ (pc[p] = "saving" /\ toWrite[p] = <<>>)
    PROVE  Inv'
  <1>1. pc \in [Processes -> Places] /\ pc' = [pc EXCEPT ![p] = to]
    BY DEF Step, Inv, TypeOK
  <1>2. /\ pc'[p] = to
        /\ \A q \in Processes : q # p => pc'[q] = pc[q]
    BY <1>1
  <1>3. \A q \in Processes : pc[q] = "killed" => pc'[q] = "killed"
    BY <1>2
  <1>4. Killed # {} => Killed' # {}
    BY <1>3 DEF Killed
  <1>5. TypeOK'
    BY <1>1 DEF Inv, TypeOK
  <1>6. OneAtATime'
    BY <1>2 DEF Inv, OneAtATime, TapFree, Busy
  <1>7. ToWrite'
    BY <1>2 DEF Inv, ToWrite, Busy
  <1>8. Written'
    BY <1>2 DEF Inv, Written, LastIsCut, Busy
  <1>9. NotYet'
    BY <1>2 DEF Inv, NotYet
  <1>10. Spoilt' /\ HeaderOnce' /\ RowsTogether'
    BY <1>4 DEF Inv, Spoilt, HeaderOnce, RowsTogether
  <1>11. Accounted'
    <2> SUFFICES ASSUME NEW q \in Processes, NEW n \in 1 .. MaxPackets, n <= timings[q]
                 PROVE  /\ pc'[q] = "saving" =>
                               InFile(q, n)' \/ SpoiltFirst(n)' \/ StillToWrite(q, n)'
                        /\ pc'[q] = "saved" => InFile(q, n)' \/ SpoiltFirst(n)'
      BY DEF Accounted
    <2>1. /\ InFile(q, n) => InFile(q, n)'
          /\ SpoiltFirst(n) => SpoiltFirst(n)'
          /\ StillToWrite(q, n) => StillToWrite(q, n)'
      BY <1>4 DEF InFile, SpoiltFirst, StillToWrite
    <2>2. toWrite[q] = <<>> => ~StillToWrite(q, n)
      BY DEF StillToWrite
    <2>3. CASE q # p
      BY <1>2, <2>1, <2>3 DEF Inv, Accounted
    <2>4. CASE q = p
      <3>1. timings[p] # 0
        BY <2>4 DEF Inv, TypeOK
      <3> QED
        BY <1>2, <2>1, <2>2, <2>4, <3>1 DEF Inv, Accounted, Busy
    <2> QED
      BY <2>3, <2>4
  <1> QED
    BY <1>5, <1>6, <1>7, <1>8, <1>9, <1>10, <1>11 DEF Inv

\* save_results finds the file empty, or ending in something that is no row of its own.
LEMMA OpenResultsInv ==
    ASSUME Inv, NEW p \in Processes, OpenResults(p)
    PROVE  Inv'
  <1> DEFINE h == IF FileEmpty THEN <<Header>> ELSE <<>>
             w == h \o [i \in 1 .. timings[p] |-> <<p, i>>]
  <1>1. /\ pc \in [Processes -> Places] /\ pc[p] = "ending"
        /\ pc' = [pc EXCEPT ![p] = "saving"]
        /\ toWrite' = [toWrite EXCEPT ![p] = w]
        /\ exists' = TRUE
        /\ UNCHANGED <<timings, file>>
    BY DEF OpenResults, Step, Inv, TypeOK
  <1>2. timings[p] \in 0 .. MaxPackets /\ timings[p] \in Int
    BY LogAssumption DEF Inv, TypeOK
  <1>3. (file = <<>> => h = <<Header>>) /\ (file # <<>> => h = <<>>)
    BY DEF FileEmpty, Inv, TypeOK
  <1>4. h = <<Header>> \/ h = <<>>
    OBVIOUS
  <1> HIDE DEF h
  <1>5. /\ w \in Seq(Lines)
        /\ Len(w) = Len(h) + timings[p] /\ DOMAIN w = 1 .. (Len(h) + timings[p])
        /\ h = <<Header>> => Len(h) = 1 /\ w # <<>> /\ w[1] = Header
        /\ h = <<>> => Len(h) = 0
        /\ \A i \in 1 .. timings[p] : w[Len(h) + i] = <<p, i>>
    BY <1>2, <1>4, OpenFacts, ZenonT(60)
  <1> HIDE DEF w
  <1>6. /\ pc'[p] = "saving" /\ toWrite'[p] = w
        /\ \A q \in Processes : q # p => pc'[q] = pc[q] /\ toWrite'[q] = toWrite[q]
    BY <1>1 DEF Inv, TypeOK
  <1>7. Killed' = Killed
    BY <1>1, <1>6 DEF Killed
  <1>8. \A k \in DOMAIN w : \/ w[k] = Header /\ k = 1 /\ file = <<>>
                            \/ w[k] = <<p, timings[p] - Len(w) + k>> /\ w[k] \in Rows
    <2>0. \A i \in 1 .. timings[p] : <<p, i>> \in Rows
      BY <1>2, LogAssumption DEF Rows
    <2> SUFFICES ASSUME NEW k \in DOMAIN w
                 PROVE  \/ w[k] = Header /\ k = 1 /\ file = <<>>
                        \/ w[k] = <<p, timings[p] - Len(w) + k>> /\ w[k] \in Rows
      OBVIOUS
    <2>1. CASE h = <<Header>>
      <3>1. file = <<>> /\ Len(h) = 1
        BY <1>3, <1>5, <2>1
      <3>2. CASE k = 1
        BY <1>5, <2>1, <3>1, <3>2
      <3>3. CASE k # 1
        <4>1. k - 1 \in 1 .. timings[p] /\ k = 1 + (k - 1)
          BY <1>2, <1>5, <3>1, <3>3
        <4>2. w[k] = <<p, k - 1>>
          BY <1>5, <3>1, <4>1
        <4>3. k - 1 = timings[p] - Len(w) + k
          BY <1>2, <1>5, <3>1, <4>1
        <4> QED
          BY <2>0, <4>1, <4>2, <4>3
      <3> QED
        BY <3>2, <3>3
    <2>2. CASE h = <<>>
      <3>1. Len(h) = 0 /\ k \in 1 .. timings[p]
        BY <1>2, <1>5, <2>2
      <3>2. w[k] = <<p, k>> /\ k = timings[p] - Len(w) + k
        BY <1>2, <1>5, <3>1
      <3> QED
        BY <2>0, <3>1, <3>2
    <2> QED
      BY <1>4, <2>1, <2>2
  <1>9. TypeOK'
    BY <1>1, <1>5 DEF Inv, TypeOK, Places
  <1>10. OneAtATime'
    BY <1>1, <1>6 DEF Inv, OneAtATime, Busy
  <1>11. \A q \in Processes : pc'[q] = "saving" => q = p
    BY <1>1, <1>6 DEF Inv, OneAtATime, Busy
  <1>12. ToWrite'
    BY <1>1, <1>3, <1>5, <1>6, <1>8, <1>11 DEF ToWrite
  <1>13. Written'
    <2>1. \A i \in DOMAIN file : file[i] \in Rows => file[i][1] # p
      BY <1>1 DEF Inv, NotYet
    <2>2. LastIsCut => Len(w) = timings[p]
      BY <1>2, <1>3, <1>5 DEF LastIsCut
    <2> QED
      BY <1>1, <1>6, <1>11, <2>1, <2>2 DEF Written, LastIsCut
  <1>14. NotYet'
    BY <1>1, <1>6 DEF Inv, NotYet
  <1>15. Spoilt' /\ HeaderOnce' /\ RowsTogether'
    BY <1>1, <1>7 DEF Inv, Spoilt, HeaderOnce, RowsTogether
  <1>16. Accounted'
    <2> SUFFICES ASSUME NEW q \in Processes, NEW n \in 1 .. MaxPackets, n <= timings[q]
                 PROVE  /\ pc'[q] = "saving" =>
                               InFile(q, n)' \/ SpoiltFirst(n)' \/ StillToWrite(q, n)'
                        /\ pc'[q] = "saved" => InFile(q, n)' \/ SpoiltFirst(n)'
      BY <1>1 DEF Accounted
    <2>1. CASE q = p
      <3>1. n \in 1 .. timings[p]
        BY <1>2, <2>1
      <3>2. w[Len(h) + n] = <<p, n>> /\ Len(h) + n \in DOMAIN w
        BY <1>2, <1>4, <1>5, <3>1
      <3>3. StillToWrite(p, n)'
        BY <1>6, <3>2 DEF StillToWrite
      <3> QED
        BY <1>6, <2>1, <3>3
    <2>2. CASE q # p
      BY <1>1, <1>6, <1>7, <1>11, <2>2 DEF Inv, Accounted, InFile, SpoiltFirst
    <2> QED
      BY <2>1, <2>2
  <1> QED
    BY <1>9, <1>10, <1>12, <1>13, <1>14, <1>15, <1>16 DEF Inv

LEMMA TimeInv ==
    ASSUME Inv, NEW p \in Processes, Time(p)
    PROVE  Inv'
  <1>1. /\ pc[p] = "running" /\ UNCHANGED <<pc, toWrite, exists, file>>
        /\ timings' = [timings EXCEPT ![p] = timings[p] + 1]
        /\ timings \in [Processes -> 0 .. MaxPackets] /\ timings[p] < MaxPackets
    BY DEF Time, Inv, TypeOK
  <1>2. \A q \in Processes : q # p => timings'[q] = timings[q]
    BY <1>1
  <1>3. timings[p] + 1 \in 0 .. MaxPackets
    BY <1>1, LogAssumption
  <1>4. TypeOK'
    BY <1>1, <1>3 DEF Inv, TypeOK
  <1>5. ToWrite' /\ Written'
    BY <1>1, <1>2 DEF Inv, ToWrite, Written, LastIsCut
  <1>6. Accounted'
    <2>1. \A q \in Processes, n \in 1 .. MaxPackets :
              pc[q] # "running" => (n <= timings'[q] <=> n <= timings[q])
      BY <1>1, <1>2
    <2>2. \A q \in Processes, n \in 1 .. MaxPackets :
              /\ InFile(q, n)' <=> InFile(q, n)
              /\ SpoiltFirst(n)' <=> SpoiltFirst(n)
              /\ StillToWrite(q, n)' <=> StillToWrite(q, n)
      BY <1>1 DEF InFile, SpoiltFirst, StillToWrite, Killed
    <2> QED
      BY <1>1, <2>1, <2>2 DEF Inv, Accounted
  <1> QED
    BY <1>1, <1>4, <1>5, <1>6
    DEF Inv, OneAtATime, NotYet, Spoilt, HeaderOnce, RowsTogether, Killed

\* A row continues the rows written before it, or is lost in a line that was cut.
LEMMA WriteLineInv ==
    ASSUME Inv, NEW p \in Processes, WriteLine(p)
    PROVE  Inv'
  <1> DEFINE w == toWrite[p]
             l == Head(w)
             n == Len(file)
  <1>1. /\ pc[p] = "saving" /\ w # <<>> /\ w \in Seq(Lines)
        /\ file' = AfterLine(file, l)
        /\ toWrite' = [toWrite EXCEPT ![p] = Tail(w)]
        /\ UNCHANGED <<pc, timings, exists>>
    BY DEF WriteLine, Inv, TypeOK
  <1>2. /\ l \in Lines /\ l = w[1]
        /\ Tail(w) \in Seq(Lines)
        /\ Len(w) \in Nat \ {0} /\ Len(Tail(w)) = Len(w) - 1
        /\ 1 \in DOMAIN w /\ DOMAIN w = 1 .. Len(w)
        /\ DOMAIN Tail(w) = 1 .. (Len(w) - 1)
        /\ \A k \in DOMAIN Tail(w) : k + 1 \in DOMAIN w /\ k + 1 # 1 /\ Tail(w)[k] = w[k + 1]
    BY <1>1, TailFacts
  <1>3. timings[p] \in Nat
    BY LogAssumption DEF Inv, TypeOK
  <1>4. /\ toWrite'[p] = Tail(w)
        /\ \A q \in Processes : q # p => toWrite'[q] = toWrite[q]
        /\ toWrite' \in [Processes -> Seq(Lines)]
    BY <1>1, <1>2 DEF Inv, TypeOK
  <1>5. \A q \in Processes : pc[q] = "saving" => q = p
    BY <1>1 DEF Inv, OneAtATime, Busy
  <1>6. Killed' = Killed
    BY <1>1 DEF Killed
  <1>7. \/ l = Header /\ file = <<>>
        \/ l = <<p, timings[p] - Len(w) + 1>> /\ l \in Rows
    BY <1>1, <1>2 DEF Inv, ToWrite
  <1>8. l # Cut /\ l # Damaged /\ (l \in Rows => l = <<p, timings[p] - Len(w) + 1>>)
    BY <1>7, LineFacts
  <1>9. file \in Seq(Lines) /\ n \in Nat /\ DOMAIN file = 1 .. n
    BY DEF Inv, TypeOK
  <1>10. TypeOK'
    <2>1. file' \in Seq(Lines)
      BY <1>1, <1>2, <1>9, AfterLineFacts
    <2>2. exists'
      BY <1>1 DEF Inv, ToWrite
    <2> QED
      BY <1>1, <1>4, <2>1, <2>2 DEF Inv, TypeOK
  <1>11. file' # <<>>
    BY <1>1, <1>2, <1>9, AfterLineFacts
  <1>12. OneAtATime'
    BY <1>1 DEF Inv, OneAtATime
  <1>13. ToWrite'
    <2> SUFFICES ASSUME NEW k \in DOMAIN Tail(w)
                 PROVE  /\ Tail(w)[k] = <<p, timings[p] - Len(Tail(w)) + k>>
                        /\ Tail(w)[k] \in Rows
      BY <1>1, <1>4, <1>5, <1>11 DEF Inv, ToWrite
    <2>1. /\ k + 1 \in DOMAIN w /\ k + 1 # 1 /\ Tail(w)[k] = w[k + 1] /\ k \in Nat
      BY <1>2
    <2>2. w[k + 1] = <<p, timings[p] - Len(w) + (k + 1)>> /\ w[k + 1] \in Rows
      BY <1>1, <2>1 DEF Inv, ToWrite
    <2>3. timings[p] - Len(w) + (k + 1) = timings[p] - Len(Tail(w)) + k
      <3>1. timings[p] \in Int /\ Len(w) \in Int /\ k \in Int /\ Len(Tail(w)) = Len(w) - 1
        BY <1>2, <1>3, <2>1
      <3> HIDE DEF w
      <3> QED
        BY <3>1, SMT
    <2> QED
      BY <2>1, <2>2, <2>3
  <1>14. CASE LastIsCut
    <2>1. /\ n # 0 /\ Len(file') = n /\ DOMAIN file' = 1 .. n
          /\ \A i \in 1 .. (n - 1) : file'[i] = file[i]
          /\ file'[n] = Damaged
      BY <1>1, <1>2, <1>8, <1>9, <1>14, AfterLineFacts DEF LastIsCut
    <2>2. \A i \in DOMAIN file' : \/ i \in DOMAIN file /\ file'[i] = file[i]
                                  \/ i = n /\ file'[i] = Damaged
      BY <1>9, <2>1
    <2>3. ~LastIsCut' /\ Killed # {}
      <3>1. n \in DOMAIN file /\ file[n] = Cut
        BY <1>9, <1>14, <2>1 DEF LastIsCut
      <3> QED
        BY <2>1, <3>1, LineFacts DEF LastIsCut, Inv, Spoilt
    <2>4. \A i \in DOMAIN file' : file'[i] \in Rows =>
              i \in DOMAIN file /\ file'[i] = file[i] /\ file[i] \in Rows /\ file[i][1] # p
      <3>1. \A i \in DOMAIN file : file[i] \in Rows => file[i][1] # p
        BY <1>1, <1>14 DEF Inv, Written
      <3> QED
        BY <2>2, <3>1, LineFacts
    <2>5. Written'
      BY <1>1, <1>5, <2>3, <2>4 DEF Written
    <2>6. NotYet'
      BY <1>1, <2>4 DEF Inv, NotYet
    <2>7. Spoilt'
      BY <1>6, <2>3 DEF Spoilt
    <2>8. HeaderOnce'
      BY <1>6, <2>2, <2>3, LineFacts DEF Inv, HeaderOnce
    <2>9. RowsTogether'
      BY <2>4 DEF Inv, RowsTogether
    <2>10. Accounted'
      <3> SUFFICES ASSUME NEW q \in Processes, NEW m \in 1 .. MaxPackets, m <= timings[q]
                   PROVE  /\ pc[q] = "saving" =>
                                 InFile(q, m)' \/ SpoiltFirst(m)' \/ StillToWrite(q, m)'
                          /\ pc[q] = "saved" => InFile(q, m)' \/ SpoiltFirst(m)'
        BY <1>1 DEF Accounted
      <3>1. file[n] = Cut /\ file'[n] = Damaged /\ n \in DOMAIN file'
        BY <1>9, <1>14, <2>1 DEF LastIsCut
      <3>2. \A i \in DOMAIN file : i # n => i \in DOMAIN file' /\ file'[i] = file[i]
        BY <1>9, <2>1
      <3>3. InFile(q, m) => InFile(q, m)'
        BY <3>1, <3>2, LineFacts DEF InFile
      <3>4. SpoiltFirst(m) => SpoiltFirst(m)'
        BY <1>6, <3>1 DEF SpoiltFirst
      <3>5. CASE pc[q] = "saved"
        BY <3>3, <3>4, <3>5 DEF Inv, Accounted
      <3>6. CASE pc[q] = "saving" /\ StillToWrite(q, m)
        <4>1. q = p
          BY <1>5, <3>6
        <4>2. PICK k \in DOMAIN w : w[k] = <<p, m>>
          BY <3>6, <4>1 DEF StillToWrite
        <4>3. CASE k = 1
          <5>1. Len(w) = timings[p] /\ file # <<>>
            BY <1>1, <1>14 DEF Inv, Written, LastIsCut
          <5>2. w[1] = <<p, timings[p] - Len(w) + 1>>
            BY <1>2, <1>7, <5>1
          <5>3. m = 1
            BY <1>3, <4>2, <4>3, <5>1, <5>2
          <5> QED
            BY <1>6, <2>3, <3>1, <5>3 DEF SpoiltFirst
        <4>4. CASE k # 1
          <5>1. k - 1 \in DOMAIN Tail(w) /\ Tail(w)[k - 1] = w[k]
            <6>1. k - 1 \in 1 .. (Len(w) - 1) /\ (k - 1) + 1 = k
              BY <1>2, <4>4
            <6> QED
              BY <1>2, <6>1
          <5> QED
            BY <1>4, <3>6, <4>1, <4>2, <5>1 DEF StillToWrite
        <4> QED
          BY <3>6, <4>3, <4>4
      <3>7. CASE pc[q] = "saving" /\ ~StillToWrite(q, m)
        BY <3>3, <3>4, <3>7 DEF Inv, Accounted
      <3> QED
        BY <3>5, <3>6, <3>7
    <2> QED
      BY <1>10, <1>12, <1>13, <2>5, <2>6, <2>7, <2>8, <2>9, <2>10 DEF Inv
  <1>15. CASE ~LastIsCut
    <2>1. /\ Len(file') = n + 1 /\ DOMAIN file' = 1 .. (n + 1)
          /\ \A i \in 1 .. n : file'[i] = file[i]
          /\ file'[n + 1] = l
      <3>1. ~(file # <<>> /\ file[Len(file)] = Cut)
        BY <1>15 DEF LastIsCut
      <3>2. /\ Len(AfterLine(file, l)) = Len(file) + 1
            /\ DOMAIN AfterLine(file, l) = 1 .. (Len(file) + 1)
            /\ \A i \in 1 .. Len(file) : AfterLine(file, l)[i] = file[i]
            /\ AfterLine(file, l)[Len(file) + 1] = l
        BY <1>2, <1>9, <3>1, AfterLineFacts
      <3> QED
        BY <1>1, <3>2
    <2>2. \A i \in DOMAIN file' : \/ i \in DOMAIN file /\ file'[i] = file[i] /\ i # n + 1
                                  \/ i = n + 1 /\ file'[i] = l
      BY <1>9, <2>1
    <2>3. \A i \in DOMAIN file : i \in DOMAIN file' /\ file'[i] = file[i]
      BY <1>9, <2>1
    <2>4. ~LastIsCut'
      BY <1>8, <2>1 DEF LastIsCut
    <2>5. \A i \in DOMAIN file : file[i] \in Rows /\ file[i][1] = p =>
              file[i][2] = timings[p] - Len(w) - (n - i)
      BY <1>1 DEF Inv, Written
    <2>6. Written'
      <3> SUFFICES ASSUME NEW i \in DOMAIN file', file'[i] \in Rows, file'[i][1] = p
                   PROVE  file'[i][2] = timings[p] - Len(Tail(w)) - (Len(file') - i)
        BY <1>1, <1>4, <1>5, <2>4 DEF Written
      <3>1. CASE i \in DOMAIN file /\ file'[i] = file[i]
        <4>1. file[i][2] = timings[p] - Len(w) - (n - i)
          BY <2>5, <3>1
        <4>2. /\ timings[p] \in Int /\ Len(w) \in Int /\ n \in Int /\ i \in Int
              /\ Len(Tail(w)) = Len(w) - 1 /\ Len(file') = n + 1 /\ file'[i] = file[i]
          BY <1>2, <1>3, <1>9, <2>1, <3>1
        <4> HIDE DEF w, n
        <4>3. timings[p] - Len(w) - (n - i) = timings[p] - (Len(w) - 1) - ((n + 1) - i)
          <5>1. PICK T \in Int, L \in Int : T = timings[p] /\ L = Len(w)
            BY <4>2, Zenon
          <5>2. n \in Int /\ i \in Int
            BY <4>2
          <5>3. T - L - (n - i) = T - (L - 1) - ((n + 1) - i)
            BY <5>2
          <5> QED
            BY <5>1, <5>3, Zenon
        <4> QED
          BY <4>1, <4>2, <4>3 DEF n
      <3>2. CASE i = n + 1 /\ file'[i] = l
        <4>1. l[2] = timings[p] - Len(w) + 1
          BY <1>8, <3>2
        <4> QED
          BY <1>2, <1>3, <1>9, <2>1, <3>2, <4>1
      <3> QED
        BY <2>2, <3>1, <3>2
    <2>7. NotYet'
      <3>1. l \in Rows => l[1] = p
        BY <1>8
      <3> QED
        BY <1>1, <2>2, <3>1 DEF Inv, NotYet
    <2>8. Spoilt'
      BY <1>6, <1>8, <2>2 DEF Inv, Spoilt
    <2>9. HeaderOnce'
      <3>1. file = <<>> => l = Header /\ n = 0
        BY <1>1, <1>2 DEF Inv, ToWrite
      <3>2. file # <<>> => n # 0 /\ l # Header
        BY <1>7, <1>9, LineFacts
      <3>3. \A i \in DOMAIN file' : file'[i] = Header => i = 1
        BY <2>2, <3>1, <3>2 DEF Inv, HeaderOnce
      <3>4. file'[1] = Header \/ (file'[1] \in {Cut, Damaged} /\ Killed # {})
        <4>1. CASE file = <<>>
          BY <2>1, <3>1, <4>1
        <4>2. CASE file # <<>>
          <5>1. 1 \in DOMAIN file
            BY <1>9, <3>2, <4>2
          <5> QED
            BY <2>3, <5>1 DEF Inv, HeaderOnce
        <4> QED
          BY <4>1, <4>2
      <3> QED
        BY <1>6, <3>3, <3>4 DEF HeaderOnce
    <2>10. RowsTogether'
      <3> SUFFICES ASSUME NEW i \in DOMAIN file', NEW j \in DOMAIN file', i < j,
                          file'[i] \in Rows, file'[j] \in Rows, file'[i][1] = file'[j][1]
                   PROVE  file'[j] = <<file'[i][1], file'[i][2] + (j - i)>>
        BY DEF RowsTogether
      <3>1. i \in DOMAIN file /\ file'[i] = file[i]
        BY <1>9, <2>1, <2>2
      <3>2. CASE j \in DOMAIN file /\ file'[j] = file[j]
        BY <3>1, <3>2 DEF Inv, RowsTogether
      <3>3. CASE j = n + 1 /\ file'[j] = l
        <4>1. l = <<p, timings[p] - Len(w) + 1>>
          BY <1>8, <3>3
        <4>2. file[i][2] = timings[p] - Len(w) - (n - i) /\ file[i][1] = p
          BY <2>5, <3>1, <3>3, <4>1
        <4>3. timings[p] - Len(w) + 1 = file[i][2] + (j - i)
          <5>1. timings[p] \in Int /\ Len(w) \in Int /\ n \in Int /\ i \in Int /\ j = n + 1
            BY <1>2, <1>3, <1>9, <3>1, <3>3
          <5>2. file[i][2] = timings[p] - Len(w) - (n - i)
            BY <4>2
          <5> HIDE DEF w, n
          <5> QED
            BY <5>1, <5>2, SMT
        <4> QED
          BY <3>1, <3>3, <4>1, <4>2, <4>3
      <3> QED
        BY <2>2, <3>2, <3>3
    <2>11. Accounted'
      <3> SUFFICES ASSUME NEW q \in Processes, NEW m \in 1 .. MaxPackets, m <= timings[q]
                   PROVE  /\ pc[q] = "saving" =>
                                 InFile(q, m)' \/ SpoiltFirst(m)' \/ StillToWrite(q, m)'
                          /\ pc[q] = "saved" => InFile(q, m)' \/ SpoiltFirst(m)'
        BY <1>1 DEF Accounted
      <3>1. InFile(q, m) => InFile(q, m)'
        BY <2>3 DEF InFile
      <3>2. SpoiltFirst(m) => SpoiltFirst(m)'
        BY <1>6, <2>3 DEF SpoiltFirst
      <3>3. CASE pc[q] = "saved"
        BY <3>1, <3>2, <3>3 DEF Inv, Accounted
      <3>4. CASE pc[q] = "saving" /\ StillToWrite(q, m)
        <4>1. q = p
          BY <1>5, <3>4
        <4>2. PICK k \in DOMAIN w : w[k] = <<p, m>>
          BY <3>4, <4>1 DEF StillToWrite
        <4>3. CASE k = 1
          <5>1. file'[n + 1] = <<p, m>> /\ n + 1 \in DOMAIN file'
            BY <1>2, <1>9, <2>1, <4>2, <4>3
          <5> QED
            BY <4>1, <5>1 DEF InFile
        <4>4. CASE k # 1
          <5>1. k - 1 \in DOMAIN Tail(w) /\ Tail(w)[k - 1] = w[k]
            <6>1. k - 1 \in 1 .. (Len(w) - 1) /\ (k - 1) + 1 = k
              BY <1>2, <4>4
            <6> QED
              BY <1>2, <6>1
          <5> QED
            BY <1>4, <3>4, <4>1, <4>2, <5>1 DEF StillToWrite
        <4> QED
          BY <3>4, <4>3, <4>4
      <3>5. CASE pc[q] = "saving" /\ ~StillToWrite(q, m)
        BY <3>1, <3>2, <3>5 DEF Inv, Accounted
      <3> QED
        BY <3>3, <3>4, <3>5
    <2> QED
      BY <1>10, <1>12, <1>13, <2>6, <2>7, <2>8, <2>9, <2>10, <2>11 DEF Inv
  <1> QED
    BY <1>14, <1>15

\* A process that is killed while it writes leaves its last line cut.
LEMMA CutInv ==
    ASSUME Inv, NEW p \in Processes, Step(p, {"running", "ending", "saving"}, "killed"),
           pc[p] = "saving", toWrite[p] # <<>>, file' = AfterLine(file, Cut),
           UNCHANGED <<timings, toWrite, exists>>
    PROVE  Inv'
  <1> DEFINE n == Len(file)
  <1>1. pc \in [Processes -> Places] /\ pc' = [pc EXCEPT ![p] = "killed"]
    BY DEF Step, Inv, TypeOK
  <1>2. /\ pc'[p] = "killed"
        /\ \A q \in Processes : q # p => pc'[q] = pc[q]
    BY <1>1
  <1>3. \A q \in Processes : pc'[q] # "saving"
    BY <1>2 DEF Inv, OneAtATime, Busy
  <1>4. Killed' # {}
    BY <1>2 DEF Killed
  <1>5. file \in Seq(Lines) /\ n \in Nat /\ DOMAIN file = 1 .. n
    BY DEF Inv, TypeOK
  <1>6. file' \in Seq(Lines) /\ DOMAIN file' \subseteq Nat \ {0}
    <2>1. file' \in Seq(Lines)
      BY <1>5, LineFacts, AfterLineFacts
    <2> QED
      BY <2>1
  <1>7. /\ \A i \in DOMAIN file' : \/ i \in DOMAIN file /\ file'[i] = file[i]
                                   \/ file'[i] = Cut
        /\ \A i \in DOMAIN file : i \in DOMAIN file' /\ (file[i] # Cut => file'[i] = file[i])
    <2>1. CASE LastIsCut
      <3>1. file # <<>> /\ file[n] = Cut /\ Cut \in Lines
        BY <2>1, LineFacts DEF LastIsCut
      <3>2. /\ n # 0 /\ DOMAIN file' = 1 .. n
            /\ \A i \in 1 .. (n - 1) : file'[i] = file[i]
            /\ file'[n] = Cut
        BY <1>5, <3>1, AfterLineFacts
      <3>3. \A i \in 1 .. n : i \in 1 .. (n - 1) \/ i = n
        <4>1. n \in Nat
          BY <1>5
        <4> HIDE DEF n
        <4> QED
          BY <4>1
      <3> QED
        BY <1>5, <3>1, <3>2, <3>3
    <2>2. CASE ~LastIsCut
      <3>1. ~(file # <<>> /\ file[Len(file)] = Cut) /\ Cut \in Lines
        BY <2>2, LineFacts DEF LastIsCut
      <3>2. /\ DOMAIN file' = 1 .. (n + 1)
            /\ \A i \in 1 .. n : file'[i] = file[i]
            /\ file'[n + 1] = Cut
        BY <1>5, <3>1, AfterLineFacts
      <3>3. \A i \in 1 .. (n + 1) : i \in 1 .. n \/ i = n + 1
        BY <1>5
      <3>4. \A i \in 1 .. n : i \in 1 .. (n + 1)
        BY <1>5
      <3> QED
        BY <1>5, <3>2, <3>3, <3>4
    <2> QED
      BY <2>1, <2>2
  <1>8. TypeOK'
    BY <1>1, <1>6 DEF Inv, TypeOK, ToWrite, Places
  <1>9. OneAtATime'
    BY <1>2 DEF Inv, OneAtATime, Busy
  <1>10. ToWrite' /\ Written' /\ Spoilt'
    BY <1>3, <1>4 DEF ToWrite, Written, Spoilt
  <1>11. NotYet' /\ RowsTogether'
    BY <1>2, <1>7, LineFacts DEF Inv, NotYet, RowsTogether
  <1>12. HeaderOnce'
    BY <1>4, <1>7, LineFacts DEF Inv, HeaderOnce
  <1>13. Accounted'
    <2> SUFFICES ASSUME NEW q \in Processes, NEW m \in 1 .. MaxPackets, m <= timings[q],
                        pc'[q] = "saved"
                 PROVE  InFile(q, m)' \/ SpoiltFirst(m)'
      BY <1>3 DEF Accounted
    <2>1. pc[q] = "saved"
      BY <1>2
    <2>2. InFile(q, m) => InFile(q, m)'
      BY <1>7, LineFacts DEF InFile
    <2>3. SpoiltFirst(m) => SpoiltFirst(m)'
      BY <1>4, <1>7, LineFacts DEF SpoiltFirst
    <2> QED
      BY <2>1, <2>2, <2>3 DEF Inv, Accounted
  <1> QED
    BY <1>8, <1>9, <1>10, <1>11, <1>12, <1>13 DEF Inv

LEMMA InvNext == Inv /\ [Next]_vars => Inv'
  <1> SUFFICES ASSUME Inv, [Next]_vars PROVE Inv'
    OBVIOUS
  <1>1. ASSUME NEW p \in Processes, ProcessStep(p)
        PROVE  Inv'
    <2>1. CASE Start(p)
      <3>1. CASE TapFree(p)
        BY <2>1, <3>1, PlaceInv DEF Start, Places, Busy, Step
      <3>2. CASE ~TapFree(p)
        BY <2>1, <3>2, PlaceInv DEF Start, Places, Busy, Step
      <3> QED
        BY <3>1, <3>2
    <2>2. CASE Time(p)
      BY <2>2, TimeInv
    <2>3. CASE End(p)
      <3>1. CASE timings[p] = 0
        BY <2>3, <3>1, PlaceInv DEF End, Places, Busy, Step
      <3>2. CASE timings[p] # 0
        BY <2>3, <3>2, PlaceInv DEF End, Places, Busy, Step
      <3> QED
        BY <3>1, <3>2
    <2>4. CASE OpenResults(p)
      BY <2>4, OpenResultsInv
    <2>5. CASE WriteLine(p)
      BY <2>5, WriteLineInv
    <2>6. CASE CloseResults(p)
      BY <2>6, PlaceInv DEF CloseResults, Places, Busy, Step
    <2>7. CASE InterruptAgain(p)
      BY <2>7, PlaceInv DEF InterruptAgain, Places, Busy, Step
    <2>8. CASE Kill(p)
      <3>1. CASE UNCHANGED file
        BY <2>8, <3>1, PlaceInv DEF Kill, Places, Busy, Step
      <3>2. CASE pc[p] = "saving" /\ toWrite[p] # <<>> /\ file' = AfterLine(file, Cut)
        BY <2>8, <3>2, CutInv DEF Kill
      <3> QED
        BY <2>8, <3>1, <3>2 DEF Kill
    <2> QED
      BY <1>1, <2>1, <2>2, <2>3, <2>4, <2>5, <2>6, <2>7, <2>8 DEF ProcessStep
  <1>2. CASE UNCHANGED vars
    <2>1. UNCHANGED <<pc, timings, toWrite, exists, file>>
      BY <1>2 DEF vars
    <2>2. TypeOK' /\ OneAtATime' /\ NotYet'
      BY <2>1 DEF Inv, TypeOK, OneAtATime, NotYet
    <2>3. ToWrite' /\ Written'
      BY <2>1 DEF Inv, ToWrite, Written, LastIsCut
    <2>4. Spoilt' /\ HeaderOnce' /\ RowsTogether'
      BY <2>1 DEF Inv, Spoilt, HeaderOnce, RowsTogether, Killed
    <2>5. Accounted'
      BY <2>1 DEF Inv, Accounted, InFile, SpoiltFirst, StillToWrite, Killed
    <2> QED
      BY <2>2, <2>3, <2>4, <2>5 DEF Inv
  <1> QED
    BY <1>1, <1>2 DEF Next

LEMMA InvCorrect == Spec => []Inv
  BY InvInit, InvNext, PTL DEF Spec

LEMMA InvSaved == Inv => TimingsSaved
  <1> SUFFICES ASSUME Inv, NEW p \in Processes, NEW n \in 1 .. MaxPackets,
                      pc[p] = "saved", n <= timings[p]
               PROVE  \/ \E i \in DOMAIN file : file[i] = <<p, n>>
                      \/ n = 1 /\ Damaged \in {file[i] : i \in DOMAIN file} /\ Killed # {}
    BY DEF TimingsSaved
  <1>1. InFile(p, n) \/ SpoiltFirst(n)
    BY DEF Inv, Accounted
  <1> QED
    BY <1>1 DEF InFile, SpoiltFirst

------------------------------------------------------------------------------
(* Theorems                                                                *)

\* Type correctness of the processes and the results file.
THEOREM TypeCorrect == Spec => []TypeOK
  <1>1. Inv => TypeOK
    BY DEF Inv
  <1> QED
    BY <1>1, InvCorrect, PTL

\* save_results writes the header once, at the beginning of the file, whatever runs
\* were interrupted or killed before (encrypt_forwarder.py 110-125).
THEOREM HeaderOnceCorrect == Spec => []HeaderOnce
  <1>1. Inv => HeaderOnce
    BY DEF Inv
  <1> QED
    BY <1>1, InvCorrect, PTL

\* The rows of a run stay together and in order, because the TAP device keeps two runs
\* of one forwarder from saving at the same time.
THEOREM RowsTogetherCorrect == Spec => []RowsTogether
  <1>1. Inv => RowsTogether
    BY DEF Inv
  <1> QED
    BY <1>1, InvCorrect, PTL

\* A run that ended by itself has its timings in the file, but for a first row that is
\* lost in the cut line of a killed run.
THEOREM TimingsSavedCorrect == Spec => []TimingsSaved
  BY InvSaved, InvCorrect, PTL
==============================================================================
