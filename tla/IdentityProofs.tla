--------------------------- MODULE IdentityProofs ----------------------------
(***************************************************************************)
(* Proofs about Identity, for any number of runs.  While runs of one side  *)
(* do not overlap, the place of the run at work says what its side's files *)
(* hold, and a public key file never holds a key before the private key    *)
(* file holds its other half.                                              *)
(***************************************************************************)
EXTENDS Identity, TLAPS

\* What the files of a side hold at each place of its run.
FilesAt(place, r, a, b) ==
    /\ place = "checked" => a = Missing /\ b = Missing
    /\ place = "private open" => a = Empty /\ b = Missing
    /\ place = "private written" => a = r /\ b = Missing
    /\ place = "public open" => a = r /\ b = Empty

FilesOf(r) == FilesAt(pc[r], r, private[side[r]], public[side[r]])

OneAtWork ==
    \A q, r \in Runs :
        pc[q] \in Working /\ pc[r] \in Working /\ side[q] = side[r] => q = r

PairedFiles ==
    \A s \in Sides :
        /\ public[s] \in Runs => private[s] = public[s]
        /\ trusted[s] \in Runs => public[s] = trusted[s]

Inv ==
    /\ TypeOK
    /\ OneAtWork
    /\ \A r \in Runs : FilesOf(r)
    /\ PairedFiles

LEMMA InvInit == Init => Inv
  BY IdentityAssumption
  DEF Init, Inv, TypeOK, OwnContents, Contents, Places, Working, OneAtWork, FilesOf, FilesAt,
      PairedFiles

\* A run at work may bring its side's files to a and b.
LEMMA FilesStep ==
    ASSUME Inv, NEW r \in Runs, pc[r] \in Working,
           NEW to \in Places, NEW a, NEW b,
           a = private[side[r]] \/ a = Empty \/ a = r,
           b = public[side[r]] \/ b = Empty \/ b = r,
           FilesAt(to, r, a, b),
           b \in Runs => a = b,
           private[side[r]] \in Runs => a = private[side[r]],
           public[side[r]] \in Runs => b = public[side[r]],
           pc' = [pc EXCEPT ![r] = to],
           private' = [private EXCEPT ![side[r]] = a],
           public' = [public EXCEPT ![side[r]] = b],
           UNCHANGED <<side, trusted>>
    PROVE  /\ Inv'
           /\ \A s \in Sides :
                  /\ private[s] \in Runs => private'[s] = private[s]
                  /\ public[s] \in Runs => public'[s] = public[s]
  <1>1. side[r] \in Sides /\ TypeOK
    BY DEF Inv, TypeOK
  <1>2. a \in OwnContents(side[r]) /\ b \in OwnContents(side[r])
    BY <1>1 DEF TypeOK, OwnContents
  <1>3. \A s \in Sides :
            /\ private'[s] = IF s = side[r] THEN a ELSE private[s]
            /\ public'[s] = IF s = side[r] THEN b ELSE public[s]
    BY <1>1 DEF TypeOK
  <1>4. \A q \in Runs : pc'[q] = IF q = r THEN to ELSE pc[q]
    BY <1>1 DEF TypeOK
  <1>5. TypeOK'
    <2>1. OwnContents(side[r]) \subseteq Contents
      BY DEF OwnContents, Contents
    <2>2. \A s \in Sides : OwnContents(s)' = OwnContents(s)
      BY DEF OwnContents
    <2>3. private' \in [Sides -> Contents] /\ public' \in [Sides -> Contents]
      BY <1>1, <1>2, <2>1 DEF TypeOK
    <2>4. pc' \in [Runs -> Places]
      BY <1>1 DEF TypeOK
    <2>5. \A s \in Sides : private'[s] \in OwnContents(s) /\ public'[s] \in OwnContents(s)
      BY <1>1, <1>2, <1>3 DEF TypeOK
    <2> QED
      BY <1>1, <2>2, <2>3, <2>4, <2>5 DEF TypeOK
  <1>6. OneAtWork'
    BY <1>4 DEF Inv, OneAtWork
  <1>7. ASSUME NEW q \in Runs
        PROVE  FilesOf(q)'
    <2>1. CASE q = r
      BY <2>1, <1>1, <1>3, <1>4 DEF FilesOf
    <2>2. CASE q # r /\ side[q] = side[r]
      <3>1. pc'[q] \notin Working
        BY <2>2, <1>4 DEF Inv, OneAtWork
      <3> QED
        BY <3>1 DEF FilesOf, FilesAt, Working
    <2>3. CASE q # r /\ side[q] # side[r]
      <3>1. side[q] \in Sides
        BY <1>1 DEF TypeOK
      <3>2. pc'[q] = pc[q] /\ private'[side[q]] = private[side[q]]
                /\ public'[side[q]] = public[side[q]]
        BY <2>3, <3>1, <1>3, <1>4
      <3> QED
        BY <3>2 DEF FilesOf, Inv
    <2> QED
      BY <2>1, <2>2, <2>3
  <1>8. PairedFiles'
    <2> SUFFICES ASSUME NEW s \in Sides
                 PROVE  /\ public'[s] \in Runs => private'[s] = public'[s]
                        /\ trusted[s] \in Runs => public'[s] = trusted[s]
      BY DEF PairedFiles
    <2> QED
      BY <1>3 DEF Inv, PairedFiles
  <1> QED
    BY <1>3, <1>5, <1>6, <1>7, <1>8 DEF Inv

\* A step of a run keeps the invariant, and no key that a file holds is replaced.
LEMMA RunStepInv ==
    ASSUME Overlap = FALSE, Inv, NEW r \in Runs, RunStep(r)
    PROVE  /\ Inv'
           /\ \A s \in Sides :
                  /\ private[s] \in Runs => private'[s] = private[s]
                  /\ public[s] \in Runs => public'[s] = public[s]
  <1> DEFINE a == private[side[r]]
             b == public[side[r]]
  <1>1. /\ side[r] \in Sides /\ private \in [Sides -> Contents] /\ public \in [Sides -> Contents]
        /\ pc \in [Runs -> Places] /\ FilesOf(r)
        /\ b \in Runs => a = b
    BY DEF Inv, TypeOK, PairedFiles
  <1>2. /\ private = [private EXCEPT ![side[r]] = a]
        /\ public = [public EXCEPT ![side[r]] = b]
    BY <1>1
  <1>3. CASE Create(r) \/ Refuse(r)
    <2>1. UNCHANGED <<private, public, trusted, side>>
      BY <1>3 DEF Create, Refuse, Step
    <2>2. PICK to \in {"checked", "refused"} :
              /\ pc' = [pc EXCEPT ![r] = to]
              /\ to = "checked" => Create(r)
      BY <1>3 DEF Create, Refuse, Step
    <2>3. \A q \in Runs : pc'[q] = IF q = r THEN to ELSE pc[q]
      BY <1>1, <2>2
    <2>4. to = "checked" => \A q \in Runs : side[q] = side[r] => pc[q] \notin Working
      BY <2>2 DEF Create, MayStart
    <2>5. to = "checked" => a = Missing /\ b = Missing
      BY <2>2 DEF Create, Exists
    <2>6. TypeOK'
      BY <1>1, <2>1, <2>2 DEF Inv, TypeOK, OwnContents, Places, Working
    <2>7. OneAtWork'
      BY <2>1, <2>3, <2>4 DEF Inv, OneAtWork, Working
    <2>8. \A q \in Runs : FilesOf(q)'
      BY <2>1, <2>3, <2>5 DEF Inv, FilesOf, FilesAt
    <2> QED
      BY <2>1, <2>6, <2>7, <2>8 DEF Inv, PairedFiles
  <1>4. CASE OpenPrivate(r)
    <2>1. a = Missing /\ b = Missing
      BY <1>1, <1>4 DEF FilesOf, FilesAt, OpenPrivate, Step
    <2>2. FilesAt("private open", r, Empty, b)
      BY <2>1 DEF FilesAt
    <2> QED
      BY <1>1, <1>2, <1>4, <2>1, <2>2, FilesStep, IdentityAssumption
      DEF OpenPrivate, Step, Working, Places
  <1>5. CASE WritePrivate(r)
    <2>1. a = Empty /\ b = Missing
      BY <1>1, <1>5 DEF FilesOf, FilesAt, WritePrivate, Step
    <2>2. FilesAt("private written", r, r, b)
      BY <2>1 DEF FilesAt
    <2>3. /\ pc[r] \in Working /\ "private written" \in Places
          /\ pc' = [pc EXCEPT ![r] = "private written"]
          /\ private' = [private EXCEPT ![side[r]] = r]
          /\ public' = [public EXCEPT ![side[r]] = b]
          /\ UNCHANGED <<side, trusted>>
      BY <1>2, <1>5 DEF WritePrivate, Step, Working, Places
    <2>4. a \notin Runs /\ b \notin Runs
      BY <2>1, IdentityAssumption
    <2> QED
      BY <2>2, <2>3, <2>4, FilesStep
  <1>6. CASE OpenPublic(r)
    <2>1. a = r /\ b = Missing
      BY <1>1, <1>6 DEF FilesOf, FilesAt, OpenPublic, Step
    <2>2. FilesAt("public open", r, a, Empty)
      BY <2>1 DEF FilesAt
    <2> QED
      BY <1>1, <1>2, <1>6, <2>1, <2>2, FilesStep, IdentityAssumption
      DEF OpenPublic, Step, Working, Places
  <1>7. CASE WritePublic(r)
    <2>1. a = r /\ b = Empty
      BY <1>1, <1>7 DEF FilesOf, FilesAt, WritePublic, Step
    <2>2. FilesAt("done", r, a, r)
      BY DEF FilesAt
    <2> QED
      BY <1>1, <1>2, <1>7, <2>1, <2>2, FilesStep, IdentityAssumption
      DEF WritePublic, Step, Working, Places
  <1>8. CASE Kill(r)
    <2>1. FilesAt("killed", r, a, b)
      BY DEF FilesAt
    <2>2. /\ pc[r] \in Working /\ "killed" \in Places
          /\ pc' = [pc EXCEPT ![r] = "killed"]
          /\ private' = [private EXCEPT ![side[r]] = a]
          /\ public' = [public EXCEPT ![side[r]] = b]
          /\ UNCHANGED <<side, trusted>>
      BY <1>2, <1>8 DEF Kill, Places
    <2>3. b \in Runs => a = b
      BY <1>1
    <2> HIDE DEF a, b
    <2> QED
      BY <2>1, <2>2, <2>3, FilesStep DEF a, b
  <1> QED
    BY <1>3, <1>4, <1>5, <1>6, <1>7, <1>8 DEF RunStep

\* Copying a public key file keeps the invariant.
LEMMA TrustInv ==
    ASSUME Inv, NEW s \in Sides, Trust(s)
    PROVE  Inv' /\ UNCHANGED <<private, public>>
  BY IdentityAssumption
  DEF Trust, Inv, TypeOK, OwnContents, Contents, OneAtWork, FilesOf, FilesAt, PairedFiles

LEMMA InvNext ==
    ASSUME Overlap = FALSE
    PROVE  Inv /\ [Next]_vars => Inv'
  <1> SUFFICES ASSUME Inv, [Next]_vars PROVE Inv'
    OBVIOUS
  <1>1. CASE \E r \in Runs : RunStep(r)
    BY <1>1, RunStepInv
  <1>2. CASE \E s \in Sides : Trust(s)
    BY <1>2, TrustInv
  <1>3. CASE UNCHANGED vars
    BY <1>3 DEF vars, Inv, TypeOK, OwnContents, OneAtWork, FilesOf, FilesAt,
              PairedFiles
  <1> QED
    BY <1>1, <1>2, <1>3 DEF Next

LEMMA InvCorrect ==
    ASSUME Overlap = FALSE
    PROVE  Spec => []Inv
  BY InvInit, InvNext, PTL DEF Spec

\* Type correctness, overlapping runs included: a key pair of one side never turns
\* up in the files of the other, nor as the public key trusted for it.
THEOREM TypeCorrect == Spec => []TypeOK
  <1>1. Init => TypeOK
    BY DEF Init, TypeOK, Contents, OwnContents, Places
  <1>2. TypeOK /\ [Next]_vars => TypeOK'
    <2> SUFFICES ASSUME TypeOK, [Next]_vars PROVE TypeOK'
      OBVIOUS
    <2> USE DEF TypeOK, Contents, OwnContents, Places, Working, Step
    <2>1. ASSUME NEW r \in Runs, RunStep(r)
          PROVE  TypeOK'
      <3>1. side[r] \in Sides
        OBVIOUS
      <3>2. CASE Create(r)
        BY <3>2 DEF Create
      <3>3. CASE Refuse(r)
        BY <3>3 DEF Refuse
      <3>4. CASE OpenPrivate(r)
        BY <3>1, <3>4 DEF OpenPrivate
      <3>5. CASE WritePrivate(r)
        BY <3>1, <3>5 DEF WritePrivate
      <3>6. CASE OpenPublic(r)
        BY <3>1, <3>6 DEF OpenPublic
      <3>7. CASE WritePublic(r)
        BY <3>1, <3>7 DEF WritePublic
      <3>8. CASE Kill(r)
        BY <3>8 DEF Kill
      <3> QED
        BY <2>1, <3>2, <3>3, <3>4, <3>5, <3>6, <3>7, <3>8 DEF RunStep
    <2>2. ASSUME NEW s \in Sides, Trust(s)
          PROVE  TypeOK'
      BY <2>2 DEF Trust
    <2>3. CASE UNCHANGED vars
      BY <2>3 DEF vars
    <2> QED
      BY <2>1, <2>2, <2>3 DEF Next
  <1> QED
    BY <1>1, <1>2, PTL DEF Spec

\* While runs of one side do not overlap, a public key the other side trusts always has
\* its private key in place, however many runs there are and wherever they are killed.
THEOREM TrustedHasPrivateCorrect ==
    ASSUME Overlap = FALSE
    PROVE  Spec => []TrustedHasPrivate
  <1>1. Inv => TrustedHasPrivate
    BY DEF Inv, PairedFiles, TrustedHasPrivate
  <1> QED
    BY <1>1, InvCorrect, PTL

\* ... and no run replaces a key that a file holds.
THEOREM KeysKeptCorrect ==
    ASSUME Overlap = FALSE
    PROVE  Spec => KeysKept
  <1> DEFINE Kept == \A s \in Sides :
                         /\ private[s] \in Runs => private'[s] = private[s]
                         /\ public[s] \in Runs => public'[s] = public[s]
  <1>1. Inv /\ [Next]_vars => [Kept]_vars
    <2> SUFFICES ASSUME Inv, [Next]_vars PROVE [Kept]_vars
      OBVIOUS
    <2>1. CASE \E r \in Runs : RunStep(r)
      BY <2>1, RunStepInv
    <2>2. CASE \E s \in Sides : Trust(s)
      BY <2>2, TrustInv
    <2>3. CASE UNCHANGED vars
      BY <2>3
    <2> QED
      BY <2>1, <2>2, <2>3 DEF Next
  <1> QED
    BY <1>1, InvCorrect, PTL DEF Spec, KeysKept
==============================================================================
