-------------------------- MODULE EdgeFabricProofs ---------------------------
(***************************************************************************)
(* Proofs about EdgeFabric, for every set of messages and every size of    *)
(* the learning tables: the publisher's GOOSE crosses the core only        *)
(* encrypted, nothing is encrypted twice, and the subscriber gets each     *)
(* publication at most once.  These follow from where a frame can be: the  *)
(* redirections leave each kind of frame only a few of the queues,         *)
(* whatever the tables say.                                                *)
(*                                                                         *)
(* What the tables say is the last part: they are true if they are large   *)
(* enough and hosts address hosts.                                         *)
(***************************************************************************)
EXTENDS EdgeFabric, FiniteSetTheorems, TLAPS

\* Where a frame may wait at a port: the publisher's, in the clear, only where it
\* enters and where it leaves; encrypted ones only on the way between.
MayWait(x, f) ==
    /\ f.seals > 0 =>
           f.seals = 1 /\ f.msg.goose /\ x \in {<<"s2", TapOut>>, <<"s3", Core>>}
    /\ Published(f.msg) =>
           \/ x \in {<<"s2", 0>>, <<"s3", TapOut>>}
           \/ x \in {<<"s2", TapOut>>, <<"s3", Core>>} /\ f.seals > 0

\* ... and on the way to the core and to a forwarder.
MayCross(e, f) ==
    /\ f.seals > 0 => f.seals = 1 /\ f.msg.goose /\ e = "s2"
    /\ Published(f.msg) => e = "s2" /\ f.seals > 0

MayTap(e, f) == f.seals > 0 => f.seals = 1 /\ f.msg.goose /\ e = "s3"

Places ==
    /\ \A x \in EdgePorts : \A f \in Range(input[x]) : MayWait(x, f)
    /\ \A e \in Edges : \A f \in Range(core[e]) : MayCross(e, f)
    /\ \A e \in Edges : \A f \in Range(tap[e]) : MayTap(e, f)
    /\ \A m \in Messages, x \in HostPorts :
           Published(m) /\ received[x][m] > 0 => x = HostPort["h_2_1"]

Inv == TypeOK /\ Places

------------------------------------------------------------------------------
(* Queues                                                                  *)

\* Appending adds one element.
LEMMA AppendRange ==
    ASSUME NEW S, NEW q \in Seq(S), NEW f \in S
    PROVE  /\ Append(q, f) \in Seq(S)
           /\ \A g \in Range(Append(q, f)) : g \in Range(q) \/ g = f
  <1>1. /\ Append(q, f) \in Seq(S)
        /\ Len(q) \in Nat
        /\ DOMAIN q = 1 .. Len(q)
        /\ DOMAIN Append(q, f) = 1 .. (Len(q) + 1)
        /\ \A i \in DOMAIN q : Append(q, f)[i] = q[i]
        /\ Append(q, f)[Len(q) + 1] = f
    OBVIOUS
  <1>2. ASSUME NEW i \in DOMAIN Append(q, f)
        PROVE  i \in DOMAIN q \/ i = Len(q) + 1
    BY <1>1
  <1> QED
    BY <1>1, <1>2 DEF Range

\* The head of a non-empty queue is one of its elements, and so is what remains.
LEMMA TailRange ==
    ASSUME NEW S, NEW q \in Seq(S), q # <<>>
    PROVE  /\ Head(q) \in S
           /\ Head(q) \in Range(q)
           /\ Tail(q) \in Seq(S)
           /\ Range(Tail(q)) \subseteq Range(q)
  <1>1. /\ Head(q) \in S
        /\ Head(q) = q[1]
        /\ Tail(q) \in Seq(S)
        /\ Len(q) \in Nat \ {0}
        /\ DOMAIN q = 1 .. Len(q)
        /\ DOMAIN Tail(q) = 1 .. (Len(q) - 1)
        /\ \A i \in DOMAIN Tail(q) : Tail(q)[i] = q[i + 1]
    OBVIOUS
  <1>2. 1 \in DOMAIN q
    BY <1>1
  <1>3. ASSUME NEW i \in DOMAIN Tail(q)
        PROVE  i + 1 \in DOMAIN q
    BY <1>1
  <1> QED
    BY <1>1, <1>2, <1>3 DEF Range

\* Nothing waits in an empty queue.
LEMMA EmptyRange ==
    ASSUME NEW S
    PROVE  << >> \in Seq(S) /\ Range(<< >>) = {}
  BY DEF Range

------------------------------------------------------------------------------
(* What the programs decide                                                *)

\* A frame of a TAP, and GOOSE of the redirected port, leaves by one port or none.
LEMMA OutputPorts ==
    ASSUME TypeOK, NEW e \in Edges, NEW p \in Ports, NEW f \in Frames
    PROVE  /\ p = TapIn => Output(e, p, f) = {}
           /\ p = TapOut => Output(e, p, f) = {ReturnPort[e]}
           /\ p = RedirectPort[e] /\ f.msg.goose => Output(e, p, f) = {TapIn}
  BY DEF Output, Redirects, TapIn, TapOut, RedirectPort, Core, Edges

\* A table stays a table.
LEMMA TableType ==
    ASSUME TypeOK, NEW e \in Edges, NEW p \in Ports, NEW f \in Frames
    PROVE  TableAfter(e, p, f) \in [Addresses -> {0, 1, 2, 3, 4, NoPort}]
  <1>1. inports[e] \in [Addresses -> {0, 1, 2, 3, 4, NoPort}]
    BY DEF TypeOK
  <1>2. p \in {0, 1, 2, 3, 4, NoPort}
    BY DEF Ports
  <1> QED
    BY <1>1, <1>2 DEF TableAfter, LearnSource, Learned

------------------------------------------------------------------------------
(* The invariant                                                           *)

LEMMA InvInit == Init => Inv
  <1> SUFFICES ASSUME Init PROVE Inv
    OBVIOUS
  <1>1. TypeOK
    BY EmptyRange DEF Init, TypeOK, Many
  <1>2. Places
    BY EmptyRange DEF Init, Places
  <1> QED
    BY <1>1, <1>2 DEF Inv

\* A frame enters where its sender is attached, unencrypted.
LEMMA SendInv ==
    ASSUME Inv, NEW m \in Messages, Send(m)
    PROVE  Inv'
  <1> DEFINE f == [msg |-> m, seals |-> 0]
  <1>1. m.at \in EdgePorts /\ f \in Frames
    BY FabricAssumption DEF Frames
  <1>2. input[m.at] \in Seq(Frames)
    BY <1>1 DEF Inv, TypeOK
  <1>3. /\ Append(input[m.at], f) \in Seq(Frames)
        /\ \A g \in Range(Append(input[m.at], f)) : g \in Range(input[m.at]) \/ g = f
    BY <1>1, <1>2, AppendRange
  <1>4. TypeOK'
    BY <1>1, <1>3 DEF Inv, TypeOK, Send
  <1>5. MayWait(m.at, f)
    BY DEF MayWait, Published, HostPort
  <1>6. \A x \in EdgePorts : \A g \in Range(input'[x]) : MayWait(x, g)
    <2> SUFFICES ASSUME NEW x \in EdgePorts, NEW g \in Range(input'[x])
                 PROVE  MayWait(x, g)
      OBVIOUS
    <2>1. input' = [input EXCEPT ![m.at] = Append(@, f)] /\ input \in [EdgePorts -> Seq(Frames)]
      BY DEF Send, Inv, TypeOK
    <2>2. CASE x = m.at
      <3>1. input'[x] = Append(input[m.at], f)
        BY <2>1, <2>2, <1>1
      <3>2. g \in Range(input[m.at]) \/ g = f
        BY <3>1, <1>3
      <3> QED
        BY <3>2, <2>2, <1>5 DEF Inv, Places
    <2>3. CASE x # m.at
      <3>1. input'[x] = input[x]
        BY <2>1, <2>3
      <3> QED
        BY <3>1 DEF Inv, Places
    <2> QED
      BY <2>2, <2>3
  <1>7. UNCHANGED <<core, tap, received>>
    BY DEF Send
  <1> QED
    BY <1>4, <1>6, <1>7 DEF Inv, Places

\* What a program sends somewhere may be there, whatever its table says.
LEMMA OutputPlaces ==
    ASSUME TypeOK, NEW e \in Edges, NEW p \in Ports, NEW f \in Frames, MayWait(<<e, p>>, f)
    PROVE  /\ Core \in Output(e, p, f) => MayCross(e, f)
           /\ TapIn \in Output(e, p, f) => MayTap(e, f)
           /\ \A h \in {0, 1} :
                  h \in Output(e, p, f) /\ Published(f.msg) => <<e, h>> = HostPort["h_2_1"]
  <1>0. p \in {0, 1, 2, 3, 4} /\ e \in {"s2", "s3"} /\ f.seals \in Nat
    BY DEF Ports, Edges, Frames
  <1>1. CASE p = TapIn
    BY <1>1, OutputPorts
  <1>2. CASE p = TapOut
    <2>1. Output(e, p, f) = {ReturnPort[e]}
      BY <1>2, OutputPorts
    <2>2. CASE e = "s2"
      BY <1>2, <2>1, <2>2 DEF ReturnPort, Core, TapIn, TapOut, MayWait, MayCross
    <2>3. CASE e = "s3"
      BY <1>2, <2>1, <2>3 DEF ReturnPort, Core, TapIn, TapOut, HostPort
    <2> QED
      BY <1>0, <2>2, <2>3
  <1>3. CASE p = RedirectPort[e] /\ f.msg.goose
    <2>1. Output(e, p, f) = {TapIn}
      BY <1>3, OutputPorts
    <2>2. p # TapOut
      BY <1>0, <1>3 DEF RedirectPort, TapOut, Core
    <2>3. MayTap(e, f)
      BY <2>2 DEF MayWait, MayTap
    <2> QED
      BY <2>1, <2>3 DEF Core, TapIn
  <1>4. CASE p \notin {TapIn, TapOut} /\ ~(p = RedirectPort[e] /\ f.msg.goose)
    <2>1. f.msg.goose => <<e, p>> # <<"s3", Core>> /\ <<e, p>> # <<"s2", 0>>
      BY <1>4 DEF RedirectPort
    <2>2. ~(f.seals > 0) /\ ~Published(f.msg)
      BY <1>4, <2>1 DEF MayWait, Published
    <2> QED
      BY <2>2 DEF MayCross, MayTap
  <1> QED
    BY <1>1, <1>2, <1>3, <1>4

\* A switch moves a frame only to where it may be.
LEMMA SwitchInv ==
    ASSUME Inv, NEW e \in Edges, NEW p \in Ports, Switch(e, p)
    PROVE  Inv'
  <1> DEFINE x == <<e, p>>
             f == Head(input[x])
             out == Output(e, p, f)
  <1>1. /\ x \in EdgePorts
        /\ input \in [EdgePorts -> Seq(Frames)]
        /\ core \in [Edges -> Seq(Frames)]
        /\ tap \in [Edges -> Seq(Frames)]
        /\ inports \in [Edges -> [Addresses -> {0, 1, 2, 3, 4, NoPort}]]
        /\ received \in [HostPorts -> [Messages -> 0 .. Many]]
        /\ sent \subseteq Messages
        /\ TypeOK
    BY DEF Inv, TypeOK, EdgePorts
  <1>2. /\ f \in Frames /\ f \in Range(input[x])
        /\ Tail(input[x]) \in Seq(Frames)
        /\ Range(Tail(input[x])) \subseteq Range(input[x])
    BY <1>1, TailRange DEF Switch
  <1>3. MayWait(x, f)
    BY <1>1, <1>2 DEF Inv, Places
  <1>4. /\ Core \in out => MayCross(e, f)
        /\ TapIn \in out => MayTap(e, f)
        /\ \A h \in {0, 1} : h \in out /\ Published(f.msg) => <<e, h>> = HostPort["h_2_1"]
    BY <1>1, <1>2, <1>3, OutputPlaces
  <1>5. input' = [input EXCEPT ![x] = Tail(@)]
    BY DEF Switch
  <1>6. core' = IF Core \in out THEN [core EXCEPT ![e] = Append(@, f)] ELSE core
    BY DEF Switch
  <1>7. tap' = IF TapIn \in out THEN [tap EXCEPT ![e] = Append(@, f)] ELSE tap
    BY DEF Switch
  <1>8. received' =
            [y \in HostPorts |->
                IF y[1] = e /\ y[2] \in out
                  THEN [received[y] EXCEPT ![f.msg] = IF @ < Many THEN @ + 1 ELSE @]
                  ELSE received[y]]
    BY DEF Switch
  <1>9. inports' = [inports EXCEPT ![e] = TableAfter(e, p, f)] /\ sent' = sent
    BY DEF Switch
  <1>10. /\ core[e] \in Seq(Frames) /\ tap[e] \in Seq(Frames)
         /\ Append(core[e], f) \in Seq(Frames)
         /\ \A g \in Range(Append(core[e], f)) : g \in Range(core[e]) \/ g = f
         /\ Append(tap[e], f) \in Seq(Frames)
         /\ \A g \in Range(Append(tap[e], f)) : g \in Range(tap[e]) \/ g = f
    BY <1>1, <1>2, AppendRange
  <1>11. TypeOK'
    <2>1. input' \in [EdgePorts -> Seq(Frames)]
      BY <1>1, <1>2, <1>5
    <2>2. core' \in [Edges -> Seq(Frames)]
      BY <1>1, <1>6, <1>10
    <2>3. tap' \in [Edges -> Seq(Frames)]
      BY <1>1, <1>7, <1>10
    <2>4. inports' \in [Edges -> [Addresses -> {0, 1, 2, 3, 4, NoPort}]]
      BY <1>1, <1>2, <1>9, TableType
    <2>5. received' \in [HostPorts -> [Messages -> 0 .. Many]]
      <3> SUFFICES ASSUME NEW y \in HostPorts
                   PROVE  received'[y] \in [Messages -> 0 .. Many]
        BY <1>8
      <3>1. received[y] \in [Messages -> 0 .. Many] /\ f.msg \in Messages
        BY <1>1, <1>2 DEF Frames
      <3>2. [received[y] EXCEPT ![f.msg] = IF @ < Many THEN @ + 1 ELSE @]
                \in [Messages -> 0 .. Many]
        BY <3>1 DEF Many
      <3> QED
        BY <3>1, <3>2, <1>8
    <2> QED
      BY <1>1, <1>9, <2>1, <2>2, <2>3, <2>4, <2>5 DEF TypeOK
  <1>12. \A y \in EdgePorts : \A g \in Range(input'[y]) : MayWait(y, g)
    <2> SUFFICES ASSUME NEW y \in EdgePorts, NEW g \in Range(input'[y])
                 PROVE  MayWait(y, g)
      OBVIOUS
    <2>1. g \in Range(input[y])
      <3>1. CASE y = x
        BY <1>1, <1>2, <1>5, <3>1
      <3>2. CASE y # x
        BY <1>1, <1>5, <3>2
      <3> QED
        BY <3>1, <3>2
    <2> QED
      BY <2>1 DEF Inv, Places
  <1>13. \A d \in Edges : \A g \in Range(core'[d]) : MayCross(d, g)
    <2> SUFFICES ASSUME NEW d \in Edges, NEW g \in Range(core'[d])
                 PROVE  MayCross(d, g)
      OBVIOUS
    <2>1. g \in Range(core[d]) \/ (Core \in out /\ d = e /\ g = f)
      <3>1. CASE Core \in out /\ d = e
        <4>1. core'[d] = Append(core[e], f)
          BY <1>1, <1>6, <3>1
        <4> QED
          BY <4>1, <1>10, <3>1
      <3>2. CASE ~(Core \in out /\ d = e)
        <4>1. core'[d] = core[d]
          BY <1>1, <1>6, <3>2
        <4> QED
          BY <4>1
      <3> QED
        BY <3>1, <3>2
    <2> QED
      BY <2>1, <1>4 DEF Inv, Places
  <1>14. \A d \in Edges : \A g \in Range(tap'[d]) : MayTap(d, g)
    <2> SUFFICES ASSUME NEW d \in Edges, NEW g \in Range(tap'[d])
                 PROVE  MayTap(d, g)
      OBVIOUS
    <2>1. g \in Range(tap[d]) \/ (TapIn \in out /\ d = e /\ g = f)
      <3>1. CASE TapIn \in out /\ d = e
        <4>1. tap'[d] = Append(tap[e], f)
          BY <1>1, <1>7, <3>1
        <4> QED
          BY <4>1, <1>10, <3>1
      <3>2. CASE ~(TapIn \in out /\ d = e)
        <4>1. tap'[d] = tap[d]
          BY <1>1, <1>7, <3>2
        <4> QED
          BY <4>1
      <3> QED
        BY <3>1, <3>2
    <2> QED
      BY <2>1, <1>4 DEF Inv, Places
  <1>15. \A m \in Messages, y \in HostPorts :
             Published(m) /\ received'[y][m] > 0 => y = HostPort["h_2_1"]
    <2> SUFFICES ASSUME NEW m \in Messages, NEW y \in HostPorts,
                        Published(m), received'[y][m] > 0
                 PROVE  y = HostPort["h_2_1"]
      OBVIOUS
    <2>1. CASE y[1] = e /\ y[2] \in out /\ m = f.msg
      <3>1. y = <<e, y[2]>> /\ y[2] \in {0, 1}
        BY <2>1 DEF HostPorts
      <3> QED
        BY <2>1, <3>1, <1>4
    <2>2. CASE ~(y[1] = e /\ y[2] \in out /\ m = f.msg)
      <3>1. received'[y][m] = received[y][m]
        BY <2>2, <1>1, <1>8
      <3> QED
        BY <3>1 DEF Inv, Places
    <2> QED
      BY <2>1, <2>2
  <1> QED
    BY <1>11, <1>12, <1>13, <1>14, <1>15 DEF Inv, Places

\* What a queue takes from another may be there.
LEMMA InputAppend ==
    ASSUME Inv, NEW x \in EdgePorts, NEW f \in Frames, MayWait(x, f),
           input' = [input EXCEPT ![x] = Append(@, f)]
    PROVE  /\ input' \in [EdgePorts -> Seq(Frames)]
           /\ \A y \in EdgePorts : \A g \in Range(input'[y]) : MayWait(y, g)
  <1>1. input \in [EdgePorts -> Seq(Frames)]
    BY DEF Inv, TypeOK
  <1>2. /\ Append(input[x], f) \in Seq(Frames)
        /\ \A g \in Range(Append(input[x], f)) : g \in Range(input[x]) \/ g = f
    BY <1>1, AppendRange
  <1>3. ASSUME NEW y \in EdgePorts, NEW g \in Range(input'[y])
        PROVE  MayWait(y, g)
    <2>1. CASE y = x
      <3>1. input'[y] = Append(input[x], f)
        BY <1>1, <2>1
      <3>2. g \in Range(input[x]) \/ g = f
        BY <3>1, <1>2, <1>3
      <3> QED
        BY <3>2, <2>1 DEF Inv, Places
    <2>2. CASE y # x
      <3>1. input'[y] = input[y]
        BY <1>1, <2>2
      <3> QED
        BY <3>1, <1>3 DEF Inv, Places
    <2> QED
      BY <2>1, <2>2
  <1> QED
    BY <1>1, <1>2, <1>3

\* The core switch passes a frame on as it is.
LEMMA CoreSwitchInv ==
    ASSUME Inv, NEW e \in Edges, CoreSwitch(e)
    PROVE  Inv'
  <1> DEFINE f == Head(core[e])
             x == <<OtherEdge(e), Core>>
  <1>1. core \in [Edges -> Seq(Frames)] /\ x \in EdgePorts
    BY DEF Inv, TypeOK, EdgePorts, OtherEdge, Edges, Core, Ports
  <1>2. /\ f \in Frames /\ f \in Range(core[e])
        /\ Tail(core[e]) \in Seq(Frames)
        /\ Range(Tail(core[e])) \subseteq Range(core[e])
    BY <1>1, TailRange DEF CoreSwitch
  <1>3. MayWait(x, f)
    <2>1. MayCross(e, f)
      BY <1>2 DEF Inv, Places
    <2> QED
      BY <2>1 DEF MayCross, MayWait, OtherEdge
  <1>4. core' = [core EXCEPT ![e] = Tail(@)]
    BY DEF CoreSwitch
  <1>5. /\ input' \in [EdgePorts -> Seq(Frames)]
        /\ \A y \in EdgePorts : \A g \in Range(input'[y]) : MayWait(y, g)
    <2>1. CASE input' = [input EXCEPT ![x] = Append(@, f)]
      BY <2>1, <1>1, <1>2, <1>3, InputAppend
    <2>2. CASE UNCHANGED input
      BY <2>2 DEF Inv, TypeOK, Places
    <2> QED
      BY <2>1, <2>2 DEF CoreSwitch
  <1>6. core' \in [Edges -> Seq(Frames)]
    BY <1>1, <1>2, <1>4
  <1>7. \A d \in Edges : \A g \in Range(core'[d]) : MayCross(d, g)
    <2> SUFFICES ASSUME NEW d \in Edges, NEW g \in Range(core'[d])
                 PROVE  g \in Range(core[d])
      BY DEF Inv, Places
    <2>1. CASE d = e
      BY <2>1, <1>1, <1>2, <1>4
    <2>2. CASE d # e
      BY <2>2, <1>1, <1>4
    <2> QED
      BY <2>1, <2>2
  <1>8. UNCHANGED <<sent, tap, inports, received>>
    BY DEF CoreSwitch
  <1> QED
    BY <1>5, <1>6, <1>7, <1>8 DEF Inv, TypeOK, Places

\* A forwarder seals what is in the clear and opens what is sealed.
LEMMA ForwarderInv ==
    ASSUME Inv, NEW e \in Edges, Forwarder(e)
    PROVE  Inv'
  <1> DEFINE f == Head(tap[e])
             x == <<e, TapOut>>
             sealed == [f EXCEPT !.seals = @ + 1]
             opened == [f EXCEPT !.seals = @ - 1]
  <1>1. tap \in [Edges -> Seq(Frames)] /\ x \in EdgePorts
    BY DEF Inv, TypeOK, EdgePorts, TapOut, Ports
  <1>2. /\ f \in Frames /\ f \in Range(tap[e])
        /\ Tail(tap[e]) \in Seq(Frames)
        /\ Range(Tail(tap[e])) \subseteq Range(tap[e])
    BY <1>1, TailRange DEF Forwarder
  <1>3. MayTap(e, f)
    BY <1>2 DEF Inv, Places
  <1>4. tap' = [tap EXCEPT ![e] = Tail(@)]
    BY DEF Forwarder
  <1>5. /\ input' \in [EdgePorts -> Seq(Frames)]
        /\ \A y \in EdgePorts : \A g \in Range(input'[y]) : MayWait(y, g)
    <2>1. CASE e = "s2" /\ f.msg.goose
      <3>1. f.seals = 0
        BY <1>2, <1>3, <2>1 DEF MayTap, Frames
      <3>2. sealed \in Frames /\ sealed.msg = f.msg /\ sealed.seals = 1
        BY <1>2, <3>1 DEF Frames
      <3>3. MayWait(x, sealed)
        BY <2>1, <3>2 DEF MayWait
      <3>4. input' = [input EXCEPT ![x] = Append(@, sealed)]
        BY <2>1 DEF Forwarder
      <3> QED
        BY <1>1, <3>2, <3>3, <3>4, InputAppend
    <2>2. CASE e = "s3" /\ f.msg.goose /\ f.seals > 0
      <3>1. f.seals = 1
        BY <1>3, <2>2 DEF MayTap
      <3>2. opened \in Frames /\ opened.msg = f.msg /\ opened.seals = 0
        BY <1>2, <3>1 DEF Frames
      <3>3. MayWait(x, opened)
        BY <2>2, <3>2 DEF MayWait
      <3>4. input' = [input EXCEPT ![x] = Append(@, opened)]
        BY <2>2 DEF Forwarder
      <3> QED
        BY <1>1, <3>2, <3>3, <3>4, InputAppend
    <2>3. CASE ~(e = "s2" /\ f.msg.goose) /\ ~(e = "s3" /\ f.msg.goose /\ f.seals > 0)
      <3>1. UNCHANGED input
        BY <2>3 DEF Forwarder
      <3> QED
        BY <3>1 DEF Inv, TypeOK, Places
    <2> QED
      BY <2>1, <2>2, <2>3
  <1>6. tap' \in [Edges -> Seq(Frames)]
    BY <1>1, <1>2, <1>4
  <1>7. \A d \in Edges : \A g \in Range(tap'[d]) : MayTap(d, g)
    <2> SUFFICES ASSUME NEW d \in Edges, NEW g \in Range(tap'[d])
                 PROVE  g \in Range(tap[d])
      BY DEF Inv, Places
    <2>1. CASE d = e
      BY <2>1, <1>1, <1>2, <1>4
    <2>2. CASE d # e
      BY <2>2, <1>1, <1>4
    <2> QED
      BY <2>1, <2>2
  <1>8. UNCHANGED <<sent, core, inports, received>>
    BY DEF Forwarder
  <1> QED
    BY <1>5, <1>6, <1>7, <1>8 DEF Inv, TypeOK, Places

\* Every step keeps the invariant.
LEMMA InvNext == Inv /\ [Next]_vars => Inv'
  <1> SUFFICES ASSUME Inv, [Next]_vars PROVE Inv'
    OBVIOUS
  <1>1. CASE \E m \in Messages : Send(m)
    BY <1>1, SendInv
  <1>2. CASE \E e \in Edges : EdgeStep(e)
    BY <1>2, SwitchInv, CoreSwitchInv, ForwarderInv DEF EdgeStep
  <1>3. CASE UNCHANGED vars
    BY <1>3 DEF vars, Inv, TypeOK, Places
  <1> QED
    BY <1>1, <1>2, <1>3 DEF Next

LEMMA InvCorrect == Spec => []Inv
  BY InvInit, InvNext, PTL DEF Spec

------------------------------------------------------------------------------
(* The properties                                                          *)

\* Every variable of the fabric stays in its range: in particular the decryptor never
\* opens what was not protected, whatever the programs flood to it.
THEOREM TypeCorrect == Spec => []TypeOK
  <1>1. Inv => TypeOK
    BY DEF Inv
  <1> QED
    BY <1>1, InvCorrect, PTL

\* The publisher's GOOSE never crosses the core in the clear and reaches no host but
\* the subscriber, whatever other traffic there is and however small the tables are.
THEOREM PublisherProtectedCorrect == Spec => []PublisherProtected
  <1>1. Inv => PublisherProtected
    <2> SUFFICES ASSUME Inv PROVE PublisherProtected
      OBVIOUS
    <2>1. ASSUME NEW e \in Edges, NEW f \in Range(core[e])
          PROVE  ~Exposed(f)
      BY <2>1 DEF Inv, Places, MayCross, Exposed
    <2>2. ASSUME NEW e \in Edges, NEW f \in Range(input[<<e, Core>>])
          PROVE  ~Exposed(f)
      <3>1. <<e, Core>> \in EdgePorts
        BY DEF EdgePorts, Ports, Core
      <3>2. MayWait(<<e, Core>>, f)
        BY <2>2, <3>1 DEF Inv, Places
      <3> QED
        BY <3>2 DEF MayWait, Exposed, Core, TapOut
    <2> QED
      BY <2>1, <2>2 DEF PublisherProtected, Inv, Places
  <1> QED
    BY <1>1, InvCorrect, PTL

\* No frame is encrypted a second time.
THEOREM NeverSealedTwiceCorrect == Spec => []NeverSealedTwice
  <1>1. Inv => NeverSealedTwice
    <2> SUFFICES ASSUME Inv, NEW e \in Edges,
                        NEW f \in Range(tap[e]) \union Range(input[<<e, TapOut>>])
                 PROVE  f.seals <= 1
      BY DEF NeverSealedTwice
    <2>1. CASE f \in Range(tap[e])
      <3>1. f \in Frames
        BY <2>1 DEF Inv, TypeOK, Range
      <3> QED
        BY <2>1, <3>1 DEF Inv, Places, MayTap, Frames
    <2>2. CASE f \in Range(input[<<e, TapOut>>])
      <3>1. <<e, TapOut>> \in EdgePorts
        BY DEF EdgePorts, Ports, TapOut
      <3>2. f \in Frames
        BY <2>2, <3>1 DEF Inv, TypeOK, Range
      <3> QED
        BY <2>2, <3>1, <3>2 DEF Inv, Places, MayWait, Frames
    <2> QED
      BY <2>1, <2>2
  <1> QED
    BY <1>1, InvCorrect, PTL

------------------------------------------------------------------------------
(* Each publication once                                                   *)

\* All queues of the fabric under one roof: c takes the name of a queue to what is
\* in it.
Queues ==
    ({"input"} \X EdgePorts) \union ({"core"} \X Edges) \union ({"tap"} \X Edges)

Content(i, c, t) ==
    [k \in Queues |->
        IF k[1] = "input" THEN i[k[2]] ELSE IF k[1] = "core" THEN c[k[2]] ELSE t[k[2]]]

\* Where the copies of a message are.
Copies(c, m) == {x \in Queues \X Nat : x[2] \in DOMAIN c[x[1]] /\ c[x[1]][x[2]].msg = m}

AtMostOneCopy(c, m) == \A x, y \in Copies(c, m) : x = y

Absent(c, m) == Copies(c, m) = {}

Contents == [Queues -> Seq(Frames)]

Subscriber == HostPort["h_2_1"]

\* There is at most one copy of a publication on its way, and none of one that has
\* not been sent or has arrived.
Once(c, s, n, m) ==
    /\ AtMostOneCopy(c, m)
    /\ ~Absent(c, m) => m \in s /\ n = 0
    /\ n > 0 => m \in s
    /\ n <= 1

OnceOnly ==
    \A m \in Publications :
        Once(Content(input, core, tap), sent, received[Subscriber][m], m)

\* A queue changes, and the names of the queues.  (Operators of their own: the provers
\* do not find EXCEPT and tuples in the facts they instantiate.)
Put(c, k, q) == [c EXCEPT ![k] = q]

AtPort(x) == <<"input", x>>
ToCore(e) == <<"core", e>>
ToTap(e) == <<"tap", e>>

\* What is in a queue, by its name.
LEMMA ContentAt ==
    ASSUME NEW i, NEW c, NEW t
    PROVE  /\ \A x \in EdgePorts : AtPort(x) \in Queues /\ Content(i, c, t)[AtPort(x)] = i[x]
           /\ \A e \in Edges : ToCore(e) \in Queues /\ Content(i, c, t)[ToCore(e)] = c[e]
           /\ \A e \in Edges : ToTap(e) \in Queues /\ Content(i, c, t)[ToTap(e)] = t[e]
  BY DEF Content, Queues, AtPort, ToCore, ToTap

\* Changing a queue changes the contents at its name.
LEMMA ContentInput ==
    ASSUME NEW i, NEW c, NEW t, NEW x \in EdgePorts, x \in DOMAIN i, NEW q
    PROVE  Content(Put(i, x, q), c, t) = Put(Content(i, c, t), AtPort(x), q)
  <1> DEFINE n == AtPort(x)
             old == Content(i, c, t)
             new == Content(Put(i, x, q), c, t)
  <1>1. n \in Queues /\ new[n] = q
    BY DEF Content, Queues, Put, AtPort
  <1>2. ASSUME NEW k \in Queues, k # n
        PROVE  new[k] = old[k]
    <2>1. CASE k[1] = "input"
      <3>1. k[2] \in EdgePorts /\ k[2] # x
        BY <1>2, <2>1 DEF Queues, AtPort
      <3> QED
        BY <2>1, <3>1 DEF Content, Put
    <2>2. CASE k[1] # "input"
      BY <2>2 DEF Content, Queues
    <2> QED
      BY <2>1, <2>2
  <1>3. old = [k \in Queues |-> old[k]] /\ new = [k \in Queues |-> new[k]]
    BY DEF Content
  <1> QED
    BY <1>1, <1>2, <1>3 DEF Put

LEMMA ContentCore ==
    ASSUME NEW i, NEW c, NEW t, NEW e \in Edges, e \in DOMAIN c, NEW q
    PROVE  Content(i, Put(c, e, q), t) = Put(Content(i, c, t), ToCore(e), q)
  <1> DEFINE n == ToCore(e)
             old == Content(i, c, t)
             new == Content(i, Put(c, e, q), t)
  <1>1. n \in Queues /\ new[n] = q
    BY DEF Content, Queues, Put, ToCore
  <1>2. ASSUME NEW k \in Queues, k # n
        PROVE  new[k] = old[k]
    <2>1. CASE k[1] = "core"
      <3>1. k[2] \in Edges /\ k[2] # e
        BY <1>2, <2>1 DEF Queues, ToCore
      <3> QED
        BY <2>1, <3>1 DEF Content, Put
    <2>2. CASE k[1] # "core"
      BY <2>2 DEF Content, Queues
    <2> QED
      BY <2>1, <2>2
  <1>3. old = [k \in Queues |-> old[k]] /\ new = [k \in Queues |-> new[k]]
    BY DEF Content
  <1> QED
    BY <1>1, <1>2, <1>3 DEF Put

LEMMA ContentTap ==
    ASSUME NEW i, NEW c, NEW t, NEW e \in Edges, e \in DOMAIN t, NEW q
    PROVE  Content(i, c, Put(t, e, q)) = Put(Content(i, c, t), ToTap(e), q)
  <1> DEFINE n == ToTap(e)
             old == Content(i, c, t)
             new == Content(i, c, Put(t, e, q))
  <1>1. n \in Queues /\ new[n] = q
    BY DEF Content, Queues, Put, ToTap
  <1>2. ASSUME NEW k \in Queues, k # n
        PROVE  new[k] = old[k]
    <2>1. CASE k[1] = "tap"
      <3>1. k[2] \in Edges /\ k[2] # e
        BY <1>2, <2>1 DEF Queues, ToTap
      <3> QED
        BY <2>1, <3>1 DEF Content, Put
    <2>2. CASE k[1] # "tap"
      BY <2>2 DEF Content, Queues
    <2> QED
      BY <2>1, <2>2
  <1>3. old = [k \in Queues |-> old[k]] /\ new = [k \in Queues |-> new[k]]
    BY DEF Content
  <1> QED
    BY <1>1, <1>2, <1>3 DEF Put

LEMMA ContentType ==
    ASSUME TypeOK
    PROVE  Content(input, core, tap) \in Contents
  BY DEF TypeOK, Content, Contents, Queues

\* A queue that gives up its head loses that copy and no other.
LEMMA Dequeued ==
    ASSUME NEW c \in Contents, NEW k \in Queues, Len(c[k]) # 0,
           NEW d, d = Put(c, k, Tail(c[k])),
           NEW m, AtMostOneCopy(c, m)
    PROVE  /\ d \in Contents
           /\ AtMostOneCopy(d, m)
           /\ ~Absent(d, m) => ~Absent(c, m)
           /\ Head(c[k]).msg = m => Absent(d, m) /\ ~Absent(c, m)
  <1> DEFINE Back(x) == IF x[1] = k THEN <<k, x[2] + 1>> ELSE x
  <1>1. /\ c[k] \in Seq(Frames) /\ Len(c[k]) \in Nat \ {0}
        /\ DOMAIN c[k] = 1 .. Len(c[k]) /\ Head(c[k]) = c[k][1]
        /\ Tail(c[k]) \in Seq(Frames)
        /\ DOMAIN Tail(c[k]) = 1 .. (Len(c[k]) - 1)
        /\ \A i \in DOMAIN Tail(c[k]) : Tail(c[k])[i] = c[k][i + 1]
    BY DEF Contents, Put
  <1>2. d \in Contents
    BY <1>1 DEF Contents, Put
  <1>3. d[k] = Tail(c[k]) /\ \A l \in Queues \ {k} : d[l] = c[l]
    BY DEF Contents, Put
  <1>4. ASSUME NEW x \in Copies(d, m)
        PROVE  Back(x) \in Copies(c, m) /\ x[2] > 0
    <2>1. x \in Queues \X Nat /\ x[2] \in DOMAIN d[x[1]] /\ d[x[1]][x[2]].msg = m
      BY DEF Copies
    <2>2. CASE x[1] = k
      <3>1. x[2] \in DOMAIN Tail(c[k]) /\ Tail(c[k])[x[2]].msg = m
        BY <1>3, <2>1, <2>2
      <3>2. c[k][x[2] + 1].msg = m
        BY <1>1, <3>1
      <3>3. x[2] \in 1 .. (Len(c[k]) - 1) /\ Len(c[k]) \in Nat /\ DOMAIN c[k] = 1 .. Len(c[k])
        BY <1>1, <3>1
      <3>4. x[2] + 1 \in DOMAIN c[k] /\ x[2] + 1 \in Nat /\ x[2] > 0
        BY <3>3
      <3> QED
        BY <3>2, <3>4, <2>2 DEF Copies
    <2>3. CASE x[1] # k
      <3>1. x[1] \in Queues /\ d[x[1]] = c[x[1]]
        BY <1>3, <2>1, <2>3
      <3>2. c[x[1]] \in Seq(Frames)
        BY <3>1 DEF Contents, Put
      <3>3. x[2] > 0
        BY <2>1, <3>1, <3>2
      <3> QED
        BY <2>1, <2>3, <3>1, <3>3 DEF Copies
    <2> QED
      BY <2>2, <2>3
  <1>5. ASSUME NEW x \in Copies(d, m), NEW y \in Copies(d, m)
        PROVE  x = y
    <2>1. Back(x) = Back(y)
      BY <1>4 DEF AtMostOneCopy
    <2>2. /\ x = <<x[1], x[2]>> /\ x[2] \in Nat
          /\ y = <<y[1], y[2]>> /\ y[2] \in Nat
      BY DEF Copies
    <2>3. x[1] = y[1] /\ x[2] = y[2]
      BY <2>1, <2>2
    <2> QED
      BY <2>2, <2>3
  <1>6. ASSUME Head(c[k]).msg = m
        PROVE  Absent(d, m) /\ <<k, 1>> \in Copies(c, m)
    <2>1. <<k, 1>> \in Copies(c, m)
      BY <1>1, <1>6 DEF Copies
    <2>2. ASSUME NEW x \in Copies(d, m)
          PROVE  FALSE
      <3>1. Back(x) = <<k, 1>> /\ x[2] \in Nat /\ x[2] > 0
        BY <1>4, <2>1 DEF AtMostOneCopy, Copies
      <3>2. CASE x[1] = k
        <4>1. x[2] + 1 = 1
          BY <3>1, <3>2
        <4> QED
          BY <3>1, <4>1
      <3>3. CASE x[1] # k
        BY <3>1, <3>3
      <3> QED
        BY <3>2, <3>3
    <2> QED
      BY <2>1, <2>2 DEF Absent
  <1> QED
    BY <1>2, <1>4, <1>5, <1>6 DEF AtMostOneCopy, Absent

\* A queue that takes a frame gains the copy of its message, and none of another.
LEMMA Enqueued ==
    ASSUME NEW c \in Contents, NEW k \in Queues, NEW f \in Frames,
           NEW d, d = Put(c, k, Append(c[k], f)),
           NEW m, AtMostOneCopy(c, m), f.msg = m => Absent(c, m)
    PROVE  /\ d \in Contents
           /\ AtMostOneCopy(d, m)
           /\ f.msg # m => (Absent(d, m) <=> Absent(c, m))
  <1> DEFINE n == Len(c[k]) + 1
  <1>1. /\ c[k] \in Seq(Frames) /\ Len(c[k]) \in Nat
        /\ DOMAIN c[k] = 1 .. Len(c[k])
        /\ Append(c[k], f) \in Seq(Frames)
        /\ DOMAIN Append(c[k], f) = 1 .. n
        /\ \A i \in DOMAIN c[k] : Append(c[k], f)[i] = c[k][i]
        /\ Append(c[k], f)[n] = f
    BY DEF Contents, Put
  <1>2. d \in Contents
    BY <1>1 DEF Contents, Put
  <1>3. d[k] = Append(c[k], f) /\ \A l \in Queues \ {k} : d[l] = c[l]
    BY DEF Contents, Put
  <1>4. ASSUME NEW x \in Copies(d, m)
        PROVE  x \in Copies(c, m) \/ (x = <<k, n>> /\ f.msg = m)
    <2>1. /\ x \in Queues \X Nat /\ x[2] \in DOMAIN d[x[1]] /\ d[x[1]][x[2]].msg = m
          /\ x = <<x[1], x[2]>>
      BY DEF Copies
    <2>2. CASE x[1] # k
      BY <1>3, <2>1, <2>2 DEF Copies
    <2>3. CASE x[1] = k /\ x[2] = n
      BY <1>1, <1>3, <2>1, <2>3
    <2>4. CASE x[1] = k /\ x[2] # n
      <3>1. x[2] \in DOMAIN c[k]
        BY <1>1, <1>3, <2>1, <2>4
      <3>2. c[k][x[2]].msg = m
        BY <1>1, <1>3, <2>1, <2>4, <3>1
      <3> QED
        BY <2>1, <2>4, <3>1, <3>2 DEF Copies
    <2> QED
      BY <2>2, <2>3, <2>4
  <1>5. ASSUME NEW x \in Copies(c, m)
        PROVE  x \in Copies(d, m)
    <2>1. /\ x \in Queues \X Nat /\ x[2] \in DOMAIN c[x[1]] /\ c[x[1]][x[2]].msg = m
      BY DEF Copies
    <2>2. CASE x[1] # k
      BY <1>3, <2>1, <2>2 DEF Copies
    <2>3. CASE x[1] = k
      <3>1. x[2] \in 1 .. n /\ d[k][x[2]].msg = m
        BY <1>1, <1>3, <2>1, <2>3
      <3> QED
        BY <1>1, <1>3, <2>1, <2>3, <3>1 DEF Copies
    <2> QED
      BY <2>2, <2>3
  <1>6. AtMostOneCopy(d, m)
    BY <1>4 DEF AtMostOneCopy, Absent
  <1> QED
    BY <1>2, <1>4, <1>5, <1>6 DEF Absent

\* The program of an edge sends a publication to one place at most, and to the
\* subscriber from the decryptor only.
LEMMA PublishedOutput ==
    ASSUME TypeOK, NEW e \in Edges, NEW p \in Ports, NEW f \in Frames,
           MayWait(<<e, p>>, f), Published(f.msg)
    PROVE  \/ Output(e, p, f) = {Core}
           \/ Output(e, p, f) = {TapIn}
           \/ e = "s3" /\ Output(e, p, f) = {0}
  <1>1. f.msg.goose
    BY DEF Published
  <1>2. CASE <<e, p>> \in {<<"s2", 0>>, <<"s3", Core>>}
    <2>1. p = RedirectPort[e]
      BY <1>2 DEF RedirectPort
    <2> QED
      BY <1>1, <2>1, OutputPorts
  <1>3. CASE <<e, p>> \in {<<"s2", TapOut>>, <<"s3", TapOut>>}
    <2>1. Output(e, p, f) = {ReturnPort[e]}
      BY <1>3, OutputPorts
    <2> QED
      BY <1>3, <2>1 DEF ReturnPort
  <1> QED
    BY <1>2, <1>3 DEF MayWait

LEMMA OnceInit == Init => OnceOnly
  <1> SUFFICES ASSUME Init, NEW m \in Publications
               PROVE  Once(Content(input, core, tap), sent, received[Subscriber][m], m)
    BY DEF OnceOnly
  <1>1. \A k \in Queues : Content(input, core, tap)[k] = <<>>
    BY DEF Init, Content, Queues
  <1>2. Absent(Content(input, core, tap), m)
    BY <1>1 DEF Copies, Absent
  <1>3. Subscriber \in HostPorts /\ m \in Messages
    BY DEF Subscriber, HostPort, HostPorts, Edges, Publications
  <1>4. received[Subscriber][m] = 0
    BY <1>3 DEF Init
  <1> QED
    BY <1>2, <1>4 DEF Once, AtMostOneCopy, Absent

\* The counter of the subscriber is a number.
LEMMA CountType ==
    ASSUME TypeOK, NEW m \in Publications
    PROVE  received[Subscriber][m] \in Nat /\ Subscriber \in HostPorts /\ m \in Messages
  BY DEF TypeOK, Subscriber, HostPort, HostPorts, Edges, Publications, Many

\* A host sends a message once.
LEMMA OnceSend ==
    ASSUME Inv, OnceOnly, NEW n \in Messages, Send(n)
    PROVE  OnceOnly'
  <1> DEFINE f == [msg |-> n, seals |-> 0]
             c == Content(input, core, tap)
             d == Content(input', core', tap')
             k == AtPort(n.at)
  <1>1. n.at \in EdgePorts /\ f \in Frames /\ f.msg = n
    BY FabricAssumption DEF Frames
  <1>2. DOMAIN input = EdgePorts /\ TypeOK
    BY DEF Inv, TypeOK
  <1>3. /\ input' = [input EXCEPT ![n.at] = Append(input[n.at], f)]
        /\ sent' = sent \union {n} /\ n \notin sent
        /\ core' = core /\ tap' = tap /\ received' = received
    BY DEF Send
  <1> HIDE DEF f
  <1>4. k \in Queues /\ d = Put(c, k, Append(c[k], f))
    <2> DEFINE q == Append(input[n.at], f)
    <2>1. input' = Put(input, n.at, q)
      BY <1>3 DEF Put
    <2>2. c[k] = input[n.at] /\ k \in Queues /\ Content(input', core, tap) = Put(c, k, q)
      BY <1>1, <1>2, <2>1, ContentInput, ContentAt
    <2> QED
      BY <1>3, <2>2
  <1>5. c \in Contents
    BY <1>2, ContentType
  <1> HIDE DEF c, d, k
  <1> SUFFICES ASSUME NEW m \in Publications
               PROVE  Once(d, sent', received'[Subscriber][m], m)
    BY DEF OnceOnly, d
  <1>6. Once(c, sent, received[Subscriber][m], m)
    BY DEF OnceOnly, c
  <1>7. f.msg = m => Absent(c, m)
    BY <1>1, <1>3, <1>6 DEF Once
  <1>8. AtMostOneCopy(d, m) /\ (f.msg # m => (Absent(d, m) <=> Absent(c, m)))
    BY <1>1, <1>4, <1>5, <1>6, <1>7, Enqueued DEF Once
  <1>9. received[Subscriber][m] \in Nat
    BY <1>2, CountType
  <1>10. m \notin sent => received[Subscriber][m] = 0
    BY <1>6, <1>9 DEF Once
  <1> QED
    BY <1>1, <1>3, <1>6, <1>8, <1>10 DEF Once

\* A switch moves the only copy of a publication, or delivers it.
LEMMA OnceSwitch ==
    ASSUME Inv, OnceOnly, NEW e \in Edges, NEW p \in Ports, Switch(e, p)
    PROVE  OnceOnly'
  <1> DEFINE x == <<e, p>>
             f == Head(input[x])
             out == Output(e, p, f)
             c == Content(input, core, tap)
             c1 == Content(input', core, tap)
             c2 == Content(input', core', tap)
             d == Content(input', core', tap')
  <1>1. /\ x \in EdgePorts /\ TypeOK
        /\ DOMAIN input = EdgePorts /\ DOMAIN core = Edges /\ DOMAIN tap = Edges
    BY DEF Inv, TypeOK, EdgePorts
  <1>2. f \in Frames /\ f \in Range(input[x]) /\ Len(input[x]) # 0
    <2>1. input[x] \in Seq(Frames) /\ input[x] # <<>>
      BY <1>1 DEF TypeOK, Switch
    <2> QED
      BY <2>1, TailRange
  <1>3. MayWait(x, f)
    BY <1>1, <1>2 DEF Inv, Places
  <1>4. Published(f.msg) => out = {Core} \/ out = {TapIn} \/ (e = "s3" /\ out = {0})
    BY <1>1, <1>2, <1>3, PublishedOutput
  <1>5. input' = Put(input, x, Tail(input[x])) /\ sent' = sent
    BY DEF Switch, Put
  <1>6. core' = IF Core \in out THEN Put(core, e, Append(core[e], f)) ELSE core
    BY DEF Switch, Put
  <1>7. tap' = IF TapIn \in out THEN Put(tap, e, Append(tap[e], f)) ELSE tap
    BY DEF Switch, Put
  <1>8. received' =
            [y \in HostPorts |->
                IF y[1] = e /\ y[2] \in out
                  THEN [received[y] EXCEPT ![f.msg] = IF @ < Many THEN @ + 1 ELSE @]
                  ELSE received[y]]
    BY DEF Switch
  <1> HIDE DEF out, f, x
  <1>9. c \in Contents
    BY <1>1, ContentType
  <1>10. /\ AtPort(x) \in Queues /\ c[AtPort(x)] = input[x]
         /\ c1 = Put(c, AtPort(x), Tail(c[AtPort(x)]))
    BY <1>1, <1>5, ContentInput, ContentAt
  <1>11. /\ ToCore(e) \in Queues
         /\ c2 = IF Core \in out THEN Put(c1, ToCore(e), Append(c1[ToCore(e)], f)) ELSE c1
    <2>1. ToCore(e) \in Queues /\ c1[ToCore(e)] = core[e]
      BY ContentAt
    <2>2. CASE Core \in out
      <3>1. core' = Put(core, e, Append(core[e], f))
        BY <1>6, <2>2
      <3>2. c2 = Put(c1, ToCore(e), Append(core[e], f))
        BY <1>1, <3>1, ContentCore
      <3> QED
        BY <2>1, <2>2, <3>2
    <2>3. CASE Core \notin out
      BY <1>6, <2>1, <2>3
    <2> QED
      BY <2>2, <2>3
  <1>12. /\ ToTap(e) \in Queues
         /\ d = IF TapIn \in out THEN Put(c2, ToTap(e), Append(c2[ToTap(e)], f)) ELSE c2
    <2>1. ToTap(e) \in Queues /\ c2[ToTap(e)] = tap[e]
      BY ContentAt
    <2>2. CASE TapIn \in out
      <3>1. tap' = Put(tap, e, Append(tap[e], f))
        BY <1>7, <2>2
      <3>2. d = Put(c2, ToTap(e), Append(tap[e], f))
        BY <1>1, <3>1, ContentTap
      <3> QED
        BY <2>1, <2>2, <3>2
    <2>3. CASE TapIn \notin out
      BY <1>7, <2>1, <2>3
    <2> QED
      BY <2>2, <2>3
  <1> HIDE DEF c, c1, c2, d
  <1> SUFFICES ASSUME NEW m \in Publications
               PROVE  Once(d, sent', received'[Subscriber][m], m)
    BY DEF OnceOnly, d
  <1>13. Once(c, sent, received[Subscriber][m], m)
    BY DEF OnceOnly, c
  <1>14. /\ c1 \in Contents /\ AtMostOneCopy(c1, m)
         /\ ~Absent(c1, m) => ~Absent(c, m)
         /\ f.msg = m => Absent(c1, m) /\ ~Absent(c, m)
    BY <1>2, <1>9, <1>10, <1>13, Dequeued DEF Once, f
  <1>15. /\ c2 \in Contents /\ AtMostOneCopy(c2, m)
         /\ f.msg # m \/ Core \notin out => (Absent(c2, m) <=> Absent(c1, m))
    <2>1. CASE Core \in out
      BY <1>2, <1>11, <1>14, <2>1, Enqueued
    <2>2. CASE Core \notin out
      BY <1>11, <1>14, <2>2
    <2> QED
      BY <2>1, <2>2
  <1>16. f.msg = m => Published(f.msg)
    BY DEF Publications
  <1>17. /\ AtMostOneCopy(d, m)
         /\ f.msg # m \/ TapIn \notin out => (Absent(d, m) <=> Absent(c2, m))
    <2>1. CASE TapIn \in out
      <3>1. f.msg = m => Core \notin out
        BY <1>4, <1>16, <2>1 DEF Core, TapIn
      <3>2. f.msg = m => Absent(c2, m)
        BY <3>1, <1>14, <1>15
      <3> QED
        BY <1>2, <1>12, <1>15, <2>1, <3>2, Enqueued
    <2>2. CASE TapIn \notin out
      BY <1>12, <1>15, <2>2
    <2> QED
      BY <2>1, <2>2
  <1>18. received[Subscriber][m] \in Nat /\ Subscriber \in HostPorts /\ m \in Messages
    BY <1>1, CountType
  <1>19. CASE f.msg # m
    <2>1. received'[Subscriber][m] = received[Subscriber][m]
      <3>1. received[Subscriber] \in [Messages -> 0 .. Many]
        BY <1>1, <1>18 DEF TypeOK
      <3> QED
        BY <3>1, <1>8, <1>18, <1>19
    <2> QED
      BY <1>5, <1>13, <1>14, <1>15, <1>17, <1>19, <2>1 DEF Once
  <1>20. CASE f.msg = m
    <2>1. m \in sent /\ received[Subscriber][m] = 0 /\ Absent(c1, m)
      BY <1>13, <1>14, <1>20 DEF Once
    <2>2. CASE out = {Core} \/ out = {TapIn}
      <3>1. Subscriber[2] \notin out
        BY <2>2 DEF Subscriber, HostPort, Core, TapIn
      <3>2. received'[Subscriber][m] = 0
        BY <1>8, <1>18, <2>1, <3>1
      <3> QED
        BY <1>5, <1>17, <2>1, <3>2 DEF Once
    <2>3. CASE e = "s3" /\ out = {0}
      <3>1. received'[Subscriber][m] = 1
        <4>1. Subscriber[1] = e /\ Subscriber[2] \in out
          BY <2>3 DEF Subscriber, HostPort
        <4>2. received'[Subscriber] =
                  [received[Subscriber] EXCEPT ![m] = IF @ < Many THEN @ + 1 ELSE @]
          BY <1>8, <1>18, <1>20, <4>1
        <4>3. received[Subscriber] \in [Messages -> 0 .. Many]
          BY <1>1, <1>18 DEF TypeOK
        <4> QED
          BY <4>2, <4>3, <1>18, <2>1 DEF Many
      <3>2. Core \notin out /\ TapIn \notin out
        BY <2>3 DEF Core, TapIn
      <3>3. Absent(d, m)
        BY <1>15, <1>17, <2>1, <3>2
      <3> QED
        BY <1>5, <1>17, <2>1, <3>1, <3>3 DEF Once
    <2> QED
      BY <1>4, <1>16, <1>20, <2>2, <2>3
  <1> QED
    BY <1>19, <1>20

\* The core switch and the forwarders move a copy or drop it.
LEMMA OnceMoved ==
    ASSUME Inv, OnceOnly, NEW k \in Queues,
           LET c == Content(input, core, tap)
               d == Content(input', core', tap')
           IN  /\ Len(c[k]) # 0
               /\ \/ d = Put(c, k, Tail(c[k]))
                  \/ \E l \in Queues, f \in Frames :
                         LET c1 == Put(c, k, Tail(c[k]))
                         IN  /\ f.msg = Head(c[k]).msg
                             /\ d = Put(c1, l, Append(c1[l], f)),
           UNCHANGED <<sent, received>>
    PROVE  OnceOnly'
  <1> DEFINE c == Content(input, core, tap)
             c1 == Put(c, k, Tail(c[k]))
             d == Content(input', core', tap')
  <1>1. Len(c[k]) # 0 /\ sent' = sent /\ received' = received
    OBVIOUS
  <1>2. \/ d = c1
        \/ \E l \in Queues, f \in Frames :
               f.msg = Head(c[k]).msg /\ d = Put(c1, l, Append(c1[l], f))
    OBVIOUS
  <1>3. c \in Contents
    BY ContentType DEF Inv
  <1> HIDE DEF c, d
  <1> SUFFICES ASSUME NEW m \in Publications
               PROVE  Once(d, sent', received'[Subscriber][m], m)
    BY DEF OnceOnly, d
  <1>4. Once(c, sent, received[Subscriber][m], m)
    BY DEF OnceOnly, c
  <1>5. /\ c1 \in Contents /\ AtMostOneCopy(c1, m)
        /\ ~Absent(c1, m) => ~Absent(c, m)
        /\ Head(c[k]).msg = m => Absent(c1, m) /\ ~Absent(c, m)
    BY <1>1, <1>3, <1>4, Dequeued DEF Once
  <1> HIDE DEF c1
  <1>6. AtMostOneCopy(d, m) /\ (~Absent(d, m) => ~Absent(c, m))
    <2>1. CASE d = c1
      BY <1>5, <2>1
    <2>2. ASSUME NEW l \in Queues, NEW f \in Frames,
                 f.msg = Head(c[k]).msg, d = Put(c1, l, Append(c1[l], f))
          PROVE  AtMostOneCopy(d, m) /\ (~Absent(d, m) => ~Absent(c, m))
      BY <1>5, <2>2, Enqueued
    <2> QED
      BY <1>2, <2>1, <2>2
  <1> QED
    BY <1>1, <1>4, <1>6 DEF Once

LEMMA OnceCoreSwitch ==
    ASSUME Inv, OnceOnly, NEW e \in Edges, CoreSwitch(e)
    PROVE  OnceOnly'
  <1> DEFINE f == Head(core[e])
             x == <<OtherEdge(e), Core>>
             c == Content(input, core, tap)
             c1 == Content(input, core', tap)
             d == Content(input', core', tap')
  <1>1. x \in EdgePorts /\ DOMAIN input = EdgePorts /\ DOMAIN core = Edges
    BY DEF Inv, TypeOK, EdgePorts, OtherEdge, Edges, Core, Ports
  <1>2. f \in Frames /\ Len(core[e]) # 0
    <2>1. core[e] \in Seq(Frames) /\ core[e] # <<>>
      BY DEF Inv, TypeOK, CoreSwitch
    <2> QED
      BY <2>1, TailRange
  <1>3. /\ core' = Put(core, e, Tail(core[e]))
        /\ input' = input \/ input' = Put(input, x, Append(input[x], f))
        /\ UNCHANGED <<sent, tap, received>>
    BY DEF CoreSwitch, Put
  <1>4. /\ ToCore(e) \in Queues /\ c[ToCore(e)] = core[e]
        /\ c1 = Put(c, ToCore(e), Tail(core[e]))
    BY <1>1, <1>3, ContentCore, ContentAt
  <1>5. AtPort(x) \in Queues /\ c1[AtPort(x)] = input[x]
    BY <1>1, ContentAt
  <1>6. d = c1 \/ d = Put(c1, AtPort(x), Append(c1[AtPort(x)], f))
    <2>1. CASE input' = input
      BY <1>3, <2>1
    <2>2. CASE input' = Put(input, x, Append(input[x], f))
      <3>1. Content(input', core', tap) = Put(c1, AtPort(x), Append(input[x], f))
        BY <1>1, <2>2, ContentInput
      <3> QED
        BY <1>3, <1>5, <3>1
    <2> QED
      BY <1>3, <2>1, <2>2
  <1> HIDE DEF c1, x
  <1> QED
    BY <1>1, <1>2, <1>3, <1>4, <1>5, <1>6, OnceMoved

LEMMA OnceForwarder ==
    ASSUME Inv, OnceOnly, NEW e \in Edges, Forwarder(e)
    PROVE  OnceOnly'
  <1> DEFINE f == Head(tap[e])
             x == <<e, TapOut>>
             c == Content(input, core, tap)
             c1 == Content(input, core, tap')
             d == Content(input', core', tap')
  <1>1. x \in EdgePorts /\ DOMAIN input = EdgePorts /\ DOMAIN tap = Edges
    BY DEF Inv, TypeOK, EdgePorts, TapOut, Ports
  <1>2. f \in Frames /\ Len(tap[e]) # 0
    <2>1. tap[e] \in Seq(Frames) /\ tap[e] # <<>>
      BY DEF Inv, TypeOK, Forwarder
    <2> QED
      BY <2>1, TailRange
  <1>3. /\ tap' = Put(tap, e, Tail(tap[e]))
        /\ UNCHANGED <<sent, core, received>>
    BY DEF Forwarder, Put
  <1>4. \/ input' = input
        \/ \E g \in Frames : g.msg = f.msg /\ input' = Put(input, x, Append(input[x], g))
    <2> DEFINE sealed == [f EXCEPT !.seals = @ + 1]
               opened == [f EXCEPT !.seals = @ - 1]
    <2>1. CASE e = "s2" /\ f.msg.goose
      <3>1. sealed \in Frames /\ sealed.msg = f.msg
        BY <1>2 DEF Frames
      <3>2. input' = Put(input, x, Append(input[x], sealed))
        BY <2>1 DEF Forwarder, Put
      <3> QED
        BY <3>1, <3>2
    <2>2. CASE e = "s3" /\ f.msg.goose /\ f.seals > 0
      <3>1. opened \in Frames /\ opened.msg = f.msg
        BY <1>2, <2>2 DEF Frames
      <3>2. input' = Put(input, x, Append(input[x], opened))
        BY <2>2 DEF Forwarder, Put
      <3> QED
        BY <3>1, <3>2
    <2>3. CASE ~(e = "s2" /\ f.msg.goose) /\ ~(e = "s3" /\ f.msg.goose /\ f.seals > 0)
      BY <2>3 DEF Forwarder
    <2> QED
      BY <2>1, <2>2, <2>3
  <1>5. /\ ToTap(e) \in Queues /\ c[ToTap(e)] = tap[e]
        /\ c1 = Put(c, ToTap(e), Tail(tap[e]))
    BY <1>1, <1>3, ContentTap, ContentAt
  <1>6. AtPort(x) \in Queues /\ c1[AtPort(x)] = input[x]
    BY <1>1, ContentAt
  <1>7. \/ d = c1
        \/ \E g \in Frames : g.msg = f.msg /\ d = Put(c1, AtPort(x), Append(c1[AtPort(x)], g))
    <2>1. CASE input' = input
      BY <1>3, <2>1
    <2>2. ASSUME NEW g \in Frames, g.msg = f.msg,
                 input' = Put(input, x, Append(input[x], g))
          PROVE  d = Put(c1, AtPort(x), Append(c1[AtPort(x)], g))
      <3>1. Content(input', core, tap') = Put(c1, AtPort(x), Append(input[x], g))
        BY <1>1, <2>2, ContentInput
      <3> QED
        BY <1>3, <1>6, <3>1
    <2> QED
      BY <1>4, <2>1, <2>2
  <1> HIDE DEF c1, x
  <1> QED
    BY <1>2, <1>3, <1>5, <1>6, <1>7, OnceMoved

LEMMA OnceNext == Inv /\ OnceOnly /\ [Next]_vars => OnceOnly'
  <1> SUFFICES ASSUME Inv, OnceOnly, [Next]_vars PROVE OnceOnly'
    OBVIOUS
  <1>1. CASE \E m \in Messages : Send(m)
    BY <1>1, OnceSend
  <1>2. CASE \E e \in Edges : EdgeStep(e)
    BY <1>2, OnceSwitch, OnceCoreSwitch, OnceForwarder DEF EdgeStep
  <1>3. CASE UNCHANGED vars
    BY <1>3 DEF vars, OnceOnly
  <1> QED
    BY <1>1, <1>2, <1>3 DEF Next

\* What a switch takes has been sent and has not arrived.
LEMMA HeadNotArrived ==
    ASSUME Inv, OnceOnly, NEW x \in EdgePorts, input[x] # <<>>,
           Head(input[x]).msg \in Publications
    PROVE  /\ Head(input[x]).msg \in sent
           /\ received[Subscriber][Head(input[x]).msg] = 0
  <1> DEFINE c == Content(input, core, tap)
             m == Head(input[x]).msg
  <1>1. c \in Contents
    BY ContentType DEF Inv
  <1>2. AtPort(x) \in Queues /\ c[AtPort(x)] = input[x]
    BY ContentAt
  <1>3. Len(input[x]) # 0
    BY DEF Inv, TypeOK
  <1>4. Once(c, sent, received[Subscriber][m], m)
    BY DEF OnceOnly
  <1> HIDE DEF c
  <1>5. ~Absent(c, m)
    BY <1>1, <1>2, <1>3, <1>4, Dequeued DEF Once
  <1> QED
    BY <1>4, <1>5 DEF Once

LEMMA ChannelSend ==
    ASSUME NEW m \in Messages, Send(m)
    PROVE  [Channel!Next]_(Channel!vars)
  <1>1. sent' = sent \union {m} /\ m \notin sent /\ received' = received
    BY DEF Send
  <1>2. UNCHANGED [n \in Publications |-> received[HostPort["h_2_1"]][n]]
    BY <1>1
  <1>3. CASE m \in Publications
    <2>1. Channel!Offer(m)
      BY <1>1, <1>2, <1>3 DEF Channel!Offer
    <2> QED
      BY <1>3, <2>1 DEF Channel!Next
  <1>4. CASE m \notin Publications
    BY <1>1, <1>2, <1>4 DEF Channel!vars
  <1> QED
    BY <1>3, <1>4

\* A switch delivers a publication to the subscriber, or the application sees nothing.
LEMMA ChannelSwitch ==
    ASSUME Inv, OnceOnly, NEW e \in Edges, NEW p \in Ports, Switch(e, p)
    PROVE  [Channel!Next]_(Channel!vars)
  <1> DEFINE x == <<e, p>>
             f == Head(input[x])
             out == Output(e, p, f)
             delivered == received[HostPort["h_2_1"]]
             before == [n \in Publications |-> delivered[n]]
             after == [n \in Publications |-> received'[HostPort["h_2_1"]][n]]
  <1>1. x \in EdgePorts /\ TypeOK /\ input[x] # <<>> /\ sent' = sent
    BY DEF Inv, EdgePorts, Switch
  <1>2. f \in Frames /\ f \in Range(input[x])
    <2>1. input[x] \in Seq(Frames)
      BY <1>1 DEF TypeOK
    <2> QED
      BY <1>1, <2>1, TailRange
  <1>3. MayWait(x, f)
    BY <1>1, <1>2 DEF Inv, Places
  <1>4. Published(f.msg) => out = {Core} \/ out = {TapIn} \/ (e = "s3" /\ out = {0})
    BY <1>1, <1>2, <1>3, PublishedOutput
  <1>5. received' =
            [y \in HostPorts |->
                IF y[1] = e /\ y[2] \in out
                  THEN [received[y] EXCEPT ![f.msg] = IF @ < Many THEN @ + 1 ELSE @]
                  ELSE received[y]]
    BY DEF Switch
  <1>6. HostPort["h_2_1"] \in HostPorts /\ delivered \in [Messages -> 0 .. Many]
    BY <1>1 DEF TypeOK, HostPort, HostPorts, Edges
  <1>7. f.msg \in Publications => f.msg \in sent /\ delivered[f.msg] = 0
    BY <1>1, HeadNotArrived DEF Subscriber
  <1> HIDE DEF out, f
  <1>8. CASE f.msg \in Publications /\ e = "s3" /\ out = {0}
    <2>1. received'[HostPort["h_2_1"]] = [delivered EXCEPT ![f.msg] = 1]
      <3>1. HostPort["h_2_1"][1] = e /\ HostPort["h_2_1"][2] \in out
        BY <1>8 DEF HostPort
      <3>2. received'[HostPort["h_2_1"]] =
                [delivered EXCEPT ![f.msg] = IF @ < Many THEN @ + 1 ELSE @]
        BY <1>5, <1>6, <3>1
      <3> QED
        BY <3>2, <1>6, <1>7, <1>8 DEF Many
    <2>2. PICK m \in Publications : m = f.msg
      BY <1>8
    <2>3. after = [before EXCEPT ![m] = 1]
      BY <2>1, <2>2, <1>6 DEF Publications
    <2>4. Channel!Deliver(m)
      BY <1>1, <1>7, <2>2, <2>3 DEF Channel!Deliver
    <2> QED
      BY <2>4 DEF Channel!Next
  <1>9. CASE ~(f.msg \in Publications /\ e = "s3" /\ out = {0})
    <2>1. ASSUME NEW n \in Publications
          PROVE  received'[HostPort["h_2_1"]][n] = delivered[n]
      <3>1. CASE n # f.msg
        BY <3>1, <1>5, <1>6
      <3>2. CASE n = f.msg
        <4>1. out = {Core} \/ out = {TapIn}
          BY <3>2, <1>4, <1>9 DEF Publications
        <4>2. HostPort["h_2_1"][2] \notin out
          BY <4>1 DEF HostPort, Core, TapIn
        <4> QED
          BY <4>2, <1>5, <1>6
      <3> QED
        BY <3>1, <3>2
    <2>2. after = before
      BY <2>1
    <2> QED
      BY <1>1, <2>2 DEF Channel!vars
  <1> QED
    BY <1>8, <1>9

\* The fabric carries the publisher's GOOSE as AtMostOnceChannel promises, whatever
\* other traffic there is and whatever the tables learn from it: only what was sent
\* reaches the subscriber, and it reaches it once.
THEOREM ChannelCorrect == Spec => ChannelSpec
  <1>1. Init => Channel!Init
    <2> SUFFICES ASSUME Init PROVE Channel!Init
      OBVIOUS
    <2>1. HostPort["h_2_1"] \in HostPorts
      BY DEF HostPort, HostPorts, Edges
    <2>2. \A m \in Publications : received[HostPort["h_2_1"]][m] = 0
      BY <2>1 DEF Init, Publications
    <2> QED
      BY <2>2 DEF Init, Channel!Init
  <1>2. Inv /\ OnceOnly /\ [Next]_vars => [Channel!Next]_(Channel!vars)
    <2> SUFFICES ASSUME Inv, OnceOnly, [Next]_vars PROVE [Channel!Next]_(Channel!vars)
      OBVIOUS
    <2>1. ASSUME NEW e \in Edges, CoreSwitch(e) \/ Forwarder(e)
          PROVE  UNCHANGED Channel!vars
      BY <2>1 DEF CoreSwitch, Forwarder, Channel!vars
    <2>2. CASE UNCHANGED vars
      BY <2>2 DEF vars, Channel!vars
    <2> QED
      BY <2>1, <2>2, ChannelSend, ChannelSwitch DEF Next, EdgeStep
  <1>3. Spec => []OnceOnly
    BY OnceInit, OnceNext, InvCorrect, PTL DEF Spec
  <1> QED
    BY <1>1, <1>2, <1>3, InvCorrect, PTL DEF Spec, ChannelSpec, Channel!Spec

------------------------------------------------------------------------------
(* What the tables teach                                                   *)

\* Two facts about the traffic under which the tables stay true.  There is an entry
\* for every address (256 of them, for a handful of hosts): a full table forgets
\* nothing, but no longer learns the host whose frame it floods.
TablesSuffice == IsFiniteSet(Addresses) /\ Cardinality(Addresses) <= MaxEntries

\* And hosts address hosts or groups: a frame to an address that moves, or to one of
\* the kernel's own, may be sent back over the core and be learned from there.
HostsAddressHosts ==
    \A m \in Messages : m.src \in Hosts => m.dst \in Hosts \union Multicast

Home(h) == HostPort[h][1]

\* Where an edge's frames arrive that the core switch passes on.
FarPort(e) == <<OtherEdge(e), Core>>

\* A frame from an edge the other edge learns a host from: not GOOSE sent to s3.
Ordinary(e, f) == e = "s2" => ~f.msg.goose
Teaches(e, f, h) == Ordinary(e, f) /\ f.msg.src = h
FromHost(e, f) == Ordinary(e, f) /\ f.msg.src \in Hosts

\* A frame flooded to the core although its destination is at the edge it comes from:
\* the other edge would send it back if it knew the destination.
Stray(e, f) ==
    /\ FromHost(e, f)
    /\ f.msg.dst \in Hosts \ Multicast
    /\ Home(f.msg.dst) = e

\* What is on its way from an edge to the other, out of the edge (c) and in front of
\* the other (q), beside the tables of the two: it comes from hosts of the edge, which
\* the edge knows; the other edge does not know where a stray frame belongs, and will
\* not learn it before the frame arrives.
Way(e, c, q, home, far) ==
    /\ \A f \in Range(c) \union Range(q) :
           FromHost(e, f) =>
               /\ Home(f.msg.src) = e
               /\ f.msg.src \notin Multicast => home[f.msg.src] # NoPort
    /\ \A f \in Range(c) \union Range(q) : Stray(e, f) => far[f.msg.dst] = NoPort
    /\ \A s \in {c, q} : \A i \in DOMAIN s, j \in DOMAIN s :
           Stray(e, s[i]) /\ j <= i => ~Teaches(e, s[j], s[i].msg.dst)
    /\ \A f \in Range(c), g \in Range(q) : Stray(e, f) => ~Teaches(e, g, f.msg.dst)

\* A host's frames enter where it is attached; what the encryptor returns is GOOSE.
Entrances ==
    /\ \A x \in HostPorts : \A f \in Range(input[x]) :
           f.msg.src \in Hosts => HostPort[f.msg.src] = x
    /\ \A f \in Range(input[<<"s2", TapOut>>]) : f.msg.src \in Hosts => f.msg.goose

\* A host that the other edge knows is known at home.
HomeFirst ==
    \A e \in Edges, h \in Hosts \intersect Addresses :
        Home(h) = e /\ inports[OtherEdge(e)][h] # NoPort => inports[e][h] # NoPort

Learning ==
    /\ LearnedTrue
    /\ Entrances
    /\ HomeFirst
    /\ \A e \in Edges :
           Way(e, core[e], input[FarPort(e)], inports[e], inports[OtherEdge(e)])

\* The queues of a way change at their ends only; what changes must keep the way.
LEMMA WayEmpty ==
    ASSUME NEW e, NEW home, NEW far
    PROVE  Way(e, << >>, << >>, home, far)
  BY DEF Way, Range

\* The positions of a queue that has taken a frame.
LEMMA AppendAt ==
    ASSUME NEW s \in Seq(Frames), NEW f \in Frames
    PROVE  /\ Range(Append(s, f)) = Range(s) \union {f}
           /\ \A i \in DOMAIN Append(s, f) :
                  \/ i \in DOMAIN s /\ Append(s, f)[i] = s[i]
                  \/ i = Len(s) + 1 /\ Append(s, f)[i] = f
           /\ \A i \in DOMAIN s : i < Len(s) + 1 /\ s[i] \in Range(s)
  <1>1. /\ Len(s) \in Nat
        /\ DOMAIN s = 1 .. Len(s)
        /\ DOMAIN Append(s, f) = 1 .. (Len(s) + 1)
        /\ \A i \in DOMAIN s : Append(s, f)[i] = s[i]
        /\ Append(s, f)[Len(s) + 1] = f
    OBVIOUS
  <1>2. \A i \in DOMAIN s : i < Len(s) + 1 /\ i \in DOMAIN Append(s, f) /\ s[i] \in Range(s)
    BY <1>1 DEF Range
  <1>3. \A i \in DOMAIN Append(s, f) : i \in DOMAIN s \/ i = Len(s) + 1
    BY <1>1
  <1>4. Len(s) + 1 \in DOMAIN Append(s, f)
    BY <1>1
  <1> QED
    BY <1>1, <1>2, <1>3, <1>4 DEF Range

\* ... and that has given up its head.
LEMMA TailAt ==
    ASSUME NEW s \in Seq(Frames), s # <<>>
    PROVE  /\ Range(s) = Range(Tail(s)) \union {Head(s)}
           /\ 1 \in DOMAIN s /\ s[1] = Head(s)
           /\ \A i \in DOMAIN Tail(s) :
                  i + 1 \in DOMAIN s /\ 1 <= i + 1 /\ Tail(s)[i] = s[i + 1]
           /\ \A i, j \in DOMAIN Tail(s) : j <= i => j + 1 <= i + 1
           /\ \A f \in Range(Tail(s)) : \E i \in DOMAIN s : 1 <= i /\ s[i] = f
  <1>1. /\ Head(s) = s[1]
        /\ Len(s) \in Nat \ {0}
        /\ DOMAIN s = 1 .. Len(s)
        /\ DOMAIN Tail(s) = 1 .. (Len(s) - 1)
        /\ \A i \in DOMAIN Tail(s) : Tail(s)[i] = s[i + 1]
    OBVIOUS
  <1>2. \A i \in DOMAIN Tail(s) : i \in Nat /\ i + 1 \in DOMAIN s /\ 1 <= i + 1
    BY <1>1
  <1>3. \A i \in DOMAIN s : i # 1 => i - 1 \in DOMAIN Tail(s) /\ (i - 1) + 1 = i
    BY <1>1
  <1>4. 1 \in DOMAIN s
    BY <1>1
  <1>5. \A f \in Range(Tail(s)) : \E i \in DOMAIN s : 1 <= i /\ s[i] = f
    BY <1>1, <1>2 DEF Range
  <1>6. Range(s) = Range(Tail(s)) \union {Head(s)}
    <2>1. ASSUME NEW f \in Range(s)
          PROVE  f \in Range(Tail(s)) \union {Head(s)}
      BY <1>1, <1>3 DEF Range
    <2>2. ASSUME NEW f \in Range(Tail(s)) \union {Head(s)}
          PROVE  f \in Range(s)
      BY <1>1, <1>4, <1>5 DEF Range
    <2> QED
      BY <2>1, <2>2
  <1>7. \A i, j \in DOMAIN Tail(s) : j <= i => j + 1 <= i + 1
    BY <1>1
  <1> QED
    BY <1>1, <1>2, <1>4, <1>5, <1>6, <1>7

\* The edge sends a frame to the core.
LEMMA WayExtended ==
    ASSUME NEW e, NEW c \in Seq(Frames), NEW q \in Seq(Frames), NEW home, NEW far,
           NEW f \in Frames, Way(e, c, q, home, far),
           FromHost(e, f) => /\ Home(f.msg.src) = e
                             /\ f.msg.src \notin Multicast => home[f.msg.src] # NoPort,
           Stray(e, f) => home[f.msg.dst] = NoPort /\ far[f.msg.dst] = NoPort
    PROVE  Way(e, Append(c, f), q, home, far)
  <1> DEFINE d == Append(c, f)
  <1>1. /\ Range(d) = Range(c) \union {f}
        /\ \A i \in DOMAIN d :
               (i \in DOMAIN c /\ d[i] = c[i]) \/ (i = Len(c) + 1 /\ d[i] = f)
        /\ \A i \in DOMAIN c : i < Len(c) + 1 /\ c[i] \in Range(c)
    BY AppendAt
  <1>2. DOMAIN d \subseteq Nat /\ DOMAIN c \subseteq Nat /\ Len(c) \in Nat
    OBVIOUS
  <1> HIDE DEF d
  <1>3. \A g \in Range(d) \union Range(q) :
            FromHost(e, g) =>
                /\ Home(g.msg.src) = e
                /\ g.msg.src \notin Multicast => home[g.msg.src] # NoPort
    BY <1>1 DEF Way
  <1>4. \A g \in Range(d) \union Range(q) : Stray(e, g) => far[g.msg.dst] = NoPort
    BY <1>1 DEF Way
  <1>5. \A g \in Range(d) \union Range(q) : Stray(e, f) => ~Teaches(e, g, f.msg.dst)
    BY <1>3 DEF Stray, Teaches, FromHost
  <1>6. \A i \in DOMAIN d, j \in DOMAIN d :
            Stray(e, d[i]) /\ j <= i => ~Teaches(e, d[j], d[i].msg.dst)
    <2> SUFFICES ASSUME NEW i \in DOMAIN d, NEW j \in DOMAIN d, Stray(e, d[i]), j <= i
                 PROVE  ~Teaches(e, d[j], d[i].msg.dst)
      OBVIOUS
    <2>1. CASE d[i] = f
      BY <2>1, <1>1, <1>5
    <2>2. CASE i \in DOMAIN c /\ d[i] = c[i]
      <3>1. j \in DOMAIN c /\ d[j] = c[j]
        BY <1>1, <1>2, <2>2
      <3> QED
        BY <2>2, <3>1 DEF Way
    <2> QED
      BY <1>1, <2>1, <2>2
  <1>7. \A i \in DOMAIN q, j \in DOMAIN q :
            Stray(e, q[i]) /\ j <= i => ~Teaches(e, q[j], q[i].msg.dst)
    BY DEF Way
  <1>8. \A g \in Range(d), h \in Range(q) : Stray(e, g) => ~Teaches(e, h, g.msg.dst)
    BY <1>1, <1>5 DEF Way
  <1>9. \A s \in {d, q} : \A i \in DOMAIN s, j \in DOMAIN s :
            Stray(e, s[i]) /\ j <= i => ~Teaches(e, s[j], s[i].msg.dst)
    BY <1>6, <1>7
  <1> QED
    BY <1>3, <1>4, <1>8, <1>9 DEF Way, d

\* The kernel sends a frame in front of the other edge: it is no host's.
LEMMA WayIntruded ==
    ASSUME NEW e, NEW c \in Seq(Frames), NEW q \in Seq(Frames), NEW home, NEW far,
           NEW f \in Frames, Way(e, c, q, home, far), f.msg.src \notin Hosts
    PROVE  Way(e, c, Append(q, f), home, far)
  <1> DEFINE d == Append(q, f)
  <1>1. /\ Range(d) = Range(q) \union {f}
        /\ \A i \in DOMAIN d :
               (i \in DOMAIN q /\ d[i] = q[i]) \/ (i = Len(q) + 1 /\ d[i] = f)
        /\ \A i \in DOMAIN q : i < Len(q) + 1 /\ q[i] \in Range(q)
    BY AppendAt
  <1>2. ~FromHost(e, f) /\ ~Stray(e, f)
    BY DEF FromHost, Stray
  <1>3. \A g \in Frames : Stray(e, g) => ~Teaches(e, f, g.msg.dst)
    BY DEF Stray, Teaches
  <1>4. \A i \in DOMAIN q : q[i] \in Frames
    OBVIOUS
  <1>5. Range(c) \subseteq Frames
    BY DEF Range
  <1> HIDE DEF d
  <1>6. \A g \in Range(c) \union Range(d) :
            FromHost(e, g) =>
                /\ Home(g.msg.src) = e
                /\ g.msg.src \notin Multicast => home[g.msg.src] # NoPort
    BY <1>1, <1>2 DEF Way
  <1>7. \A g \in Range(c) \union Range(d) : Stray(e, g) => far[g.msg.dst] = NoPort
    BY <1>1, <1>2 DEF Way
  <1>8. \A i \in DOMAIN d, j \in DOMAIN d :
            Stray(e, d[i]) /\ j <= i => ~Teaches(e, d[j], d[i].msg.dst)
    BY <1>1, <1>2, <1>3, <1>4 DEF Way
  <1>9. \A i \in DOMAIN c, j \in DOMAIN c :
            Stray(e, c[i]) /\ j <= i => ~Teaches(e, c[j], c[i].msg.dst)
    BY DEF Way
  <1>10. \A g \in Range(c), h \in Range(d) : Stray(e, g) => ~Teaches(e, h, g.msg.dst)
    BY <1>1, <1>3, <1>5 DEF Way
  <1>11. \A s \in {c, d} : \A i \in DOMAIN s, j \in DOMAIN s :
            Stray(e, s[i]) /\ j <= i => ~Teaches(e, s[j], s[i].msg.dst)
    BY <1>8, <1>9
  <1> QED
    BY <1>6, <1>7, <1>10, <1>11 DEF Way, d

\* A queue whose head is gone is a way still.
LEMMA WayShortened ==
    ASSUME NEW e, NEW c \in Seq(Frames), NEW q \in Seq(Frames), NEW home, NEW far,
           Way(e, c, q, home, far)
    PROVE  /\ c # <<>> => Way(e, Tail(c), q, home, far)
           /\ q # <<>> => Way(e, c, Tail(q), home, far)
  <1> DEFINE Ordered(s) == \A i \in DOMAIN s, j \in DOMAIN s :
                               Stray(e, s[i]) /\ j <= i => ~Teaches(e, s[j], s[i].msg.dst)
  <1>1. ASSUME NEW s \in {c, q}, s # <<>>
        PROVE  Ordered(Tail(s)) /\ Range(Tail(s)) \subseteq Range(s)
    <2>1. s \in Seq(Frames) /\ Ordered(s)
      BY DEF Way
    <2>2. /\ Range(s) = Range(Tail(s)) \union {Head(s)}
          /\ \A i \in DOMAIN Tail(s) :
                 i + 1 \in DOMAIN s /\ 1 <= i + 1 /\ Tail(s)[i] = s[i + 1]
          /\ \A i, j \in DOMAIN Tail(s) : j <= i => j + 1 <= i + 1
      BY <1>1, <2>1, TailAt
    <2> QED
      BY <2>1, <2>2
  <1>2. Ordered(c) /\ Ordered(q)
    BY DEF Way
  <1>3. ASSUME c # <<>>
        PROVE  Way(e, Tail(c), q, home, far)
    <2> DEFINE d == Tail(c)
    <2>1. Range(d) \subseteq Range(c) /\ Ordered(d)
      BY <1>1, <1>3
    <2> HIDE DEF d
    <2>2. \A s \in {d, q} : Ordered(s)
      BY <1>2, <2>1
    <2> QED
      BY <2>1, <2>2 DEF Way, d
  <1>4. ASSUME q # <<>>
        PROVE  Way(e, c, Tail(q), home, far)
    <2> DEFINE d == Tail(q)
    <2>1. Range(d) \subseteq Range(q) /\ Ordered(d)
      BY <1>1, <1>4
    <2> HIDE DEF d
    <2>2. \A s \in {c, d} : Ordered(s)
      BY <1>2, <2>1
    <2> QED
      BY <2>1, <2>2 DEF Way, d
  <1> QED
    BY <1>3, <1>4

\* The core switch passes a frame on.
LEMMA WayMoved ==
    ASSUME NEW e, NEW c \in Seq(Frames), NEW q \in Seq(Frames), NEW home, NEW far,
           Way(e, c, q, home, far), c # <<>>
    PROVE  Way(e, Tail(c), Append(q, Head(c)), home, far)
  <1> DEFINE f == Head(c)
             b == Tail(c)
             d == Append(q, f)
  <1>1. f \in Frames
    BY TailRange
  <1>2. /\ Range(d) = Range(q) \union {f}
        /\ \A i \in DOMAIN d :
               (i \in DOMAIN q /\ d[i] = q[i]) \/ (i = Len(q) + 1 /\ d[i] = f)
        /\ \A i \in DOMAIN q : i < Len(q) + 1 /\ q[i] \in Range(q)
    BY <1>1, AppendAt
  <1>3. /\ Range(c) = Range(b) \union {f}
        /\ 1 \in DOMAIN c /\ c[1] = f
        /\ \A g \in Range(b) : \E i \in DOMAIN c : 1 <= i /\ c[i] = g
    BY TailAt
  <1>4. DOMAIN d \subseteq Nat /\ DOMAIN q \subseteq Nat /\ Len(q) \in Nat
    BY <1>1
  <1>5. Way(e, b, q, home, far)
    BY WayShortened
  <1> HIDE DEF b, d, f
  <1>6. \A g \in Range(b) \union Range(d) :
            FromHost(e, g) =>
                /\ Home(g.msg.src) = e
                /\ g.msg.src \notin Multicast => home[g.msg.src] # NoPort
    BY <1>2, <1>3 DEF Way
  <1>7. \A g \in Range(b) \union Range(d) : Stray(e, g) => far[g.msg.dst] = NoPort
    BY <1>2, <1>3 DEF Way
  <1>8. \A g \in Range(q) \union {f} : Stray(e, f) => ~Teaches(e, g, f.msg.dst)
    BY <1>3 DEF Way
  <1>9. \A i \in DOMAIN d, j \in DOMAIN d :
            Stray(e, d[i]) /\ j <= i => ~Teaches(e, d[j], d[i].msg.dst)
    <2> SUFFICES ASSUME NEW i \in DOMAIN d, NEW j \in DOMAIN d, Stray(e, d[i]), j <= i
                 PROVE  ~Teaches(e, d[j], d[i].msg.dst)
      OBVIOUS
    <2>1. CASE d[i] = f
      BY <2>1, <1>2, <1>8
    <2>2. CASE i \in DOMAIN q /\ d[i] = q[i]
      <3>1. j \in DOMAIN q /\ d[j] = q[j]
        BY <1>2, <1>4, <2>2
      <3> QED
        BY <2>2, <3>1 DEF Way
    <2> QED
      BY <1>2, <2>1, <2>2
  <1>10. \A i \in DOMAIN b, j \in DOMAIN b :
            Stray(e, b[i]) /\ j <= i => ~Teaches(e, b[j], b[i].msg.dst)
    BY <1>5 DEF Way
  <1>11. \A g \in Range(b) : Stray(e, g) => ~Teaches(e, f, g.msg.dst)
    BY <1>3 DEF Way
  <1>12. \A g \in Range(b), h \in Range(d) : Stray(e, g) => ~Teaches(e, h, g.msg.dst)
    BY <1>2, <1>5, <1>11 DEF Way
  <1>13. \A s \in {b, d} : \A i \in DOMAIN s, j \in DOMAIN s :
            Stray(e, s[i]) /\ j <= i => ~Teaches(e, s[j], s[i].msg.dst)
    BY <1>9, <1>10
  <1> QED
    BY <1>6, <1>7, <1>12, <1>13 DEF Way, b, d, f

\* The tables learn: what is known at home stays known, and the other edge learns
\* nothing that a stray frame is meant for.
LEMMA WayLearned ==
    ASSUME NEW e, NEW c \in Seq(Frames), NEW q \in Seq(Frames), NEW home, NEW far,
           NEW home2, NEW far2, Way(e, c, q, home, far),
           \A f \in Frames : home[f.msg.src] # NoPort => home2[f.msg.src] # NoPort,
           \A f \in Range(c) \union Range(q) :
               Stray(e, f) /\ far[f.msg.dst] = NoPort => far2[f.msg.dst] = NoPort
    PROVE  Way(e, c, q, home2, far2)
  <1>1. Range(c) \subseteq Frames /\ Range(q) \subseteq Frames
    BY DEF Range
  <1> QED
    BY <1>1 DEF Way

\* The two edges.
LEMMA EdgesOpposed ==
    ASSUME NEW e \in Edges
    PROVE  /\ OtherEdge(e) \in Edges /\ OtherEdge(e) # e /\ OtherEdge(OtherEdge(e)) = e
           /\ FarPort(e) \in EdgePorts /\ FarPort(e) = <<OtherEdge(e), Core>>
           /\ FarPort(OtherEdge(e)) = <<e, Core>>
           /\ \A h \in Hosts : /\ Home(h) \in Edges
                               /\ HostPort[h] \in HostPorts
                               /\ Home(h) = e => Towards(e, h) \in {0, 1}
                               /\ Home(h) # e => Towards(e, h) = Core
  BY DEF Edges, OtherEdge, FarPort, EdgePorts, Core, Ports, Hosts, Home, HostPort, HostPorts,
         Towards

\* The tables have a place for the addresses of every frame in a queue.
LEMMA FrameAddresses ==
    ASSUME NEW s \in Seq(Frames), NEW f \in Range(s)
    PROVE  f \in Frames /\ f.msg.src \in Addresses /\ f.msg.dst \in Addresses
  <1>1. f \in Frames
    BY DEF Range
  <1> QED
    BY <1>1 DEF Frames, Addresses

\* A table that suffices learns every source that is no group.
LEMMA SourceLearned ==
    ASSUME TypeOK, TablesSuffice, NEW e \in Edges, NEW p \in Ports, NEW f \in Frames
    PROVE  LET t == inports[e]
               t2 == LearnSource(p, f, t)
           IN  /\ \A a \in Addresses : a # f.msg.src => t2[a] = t[a]
               /\ f.msg.src \in Multicast => t2 = t
               /\ f.msg.src \notin Multicast => t2[f.msg.src] = p
  <1> DEFINE t == inports[e]
             a == f.msg.src
             known == {b \in DOMAIN t : t[b] # NoPort}
  <1>1. t \in [Addresses -> {0, 1, 2, 3, 4, NoPort}]
    BY DEF TypeOK
  <1>2. a \in Addresses
    BY DEF Frames, Addresses
  <1>3. ASSUME t[a] = NoPort
        PROVE  ~(Cardinality(known) >= MaxEntries)
    <2>1. known \subseteq Addresses \ {a}
      BY <1>1, <1>3
    <2> DEFINE others == Addresses \ {a}
    <2>2. IsFiniteSet(Addresses) /\ Cardinality(Addresses) <= MaxEntries
      BY DEF TablesSuffice
    <2>3. IsFiniteSet(others) /\ Cardinality(others) = Cardinality(Addresses) - 1
      BY <1>2, <2>2, FS_RemoveElement
    <2> HIDE DEF known, others
    <2>4. IsFiniteSet(known) /\ Cardinality(known) <= Cardinality(others)
      <3>1. known \in SUBSET others
        BY <2>1 DEF others
      <3> QED
        BY <3>1, <2>3, FS_Subset
    <2>5. Cardinality(known) \in Nat /\ Cardinality(Addresses) \in Nat
      BY <2>2, <2>4, FS_CardinalityType
    <2> QED
      BY <2>2, <2>3, <2>4, <2>5, FabricAssumption
  <1>4. Learned(t, a, p) = [t EXCEPT ![a] = p]
    BY <1>3 DEF Learned
  <1> QED
    BY <1>1, <1>2, <1>4 DEF LearnSource

\* What a switch learns from f, where it sends it and what it leaves of the other edge's
\* frames, when all of that keeps the tables true.
Sound(e, f, out, t2, rest) ==
    LET o == OtherEdge(e)
    IN  /\ \A h \in Hosts \intersect Addresses : t2[h] \in {Towards(e, h), NoPort}
        /\ \A a \in Addresses : inports[e][a] # NoPort => t2[a] # NoPort
        /\ \A h \in Hosts \intersect Addresses :
               Home(h) = o /\ t2[h] # NoPort => inports[o][h] # NoPort
        /\ \A g \in Range(core[o]) \union Range(rest) :
               Stray(o, g) /\ inports[e][g.msg.dst] = NoPort => t2[g.msg.dst] = NoPort
        /\ Core \in out =>
               /\ FromHost(e, f) =>
                      /\ Home(f.msg.src) = e
                      /\ f.msg.src \notin Multicast => t2[f.msg.src] # NoPort
               /\ Stray(e, f) => t2[f.msg.dst] = NoPort /\ inports[o][f.msg.dst] = NoPort

\* The switch learns nothing from a frame it redirects, or gets from a TAP.
LEMMA SoundAside ==
    ASSUME TypeOK, Learning, NEW e \in Edges, NEW p \in Ports, NEW f \in Frames,
           NEW rest \in Seq(Frames),
           f \in Range(input[<<e, p>>]), ~IsLayer2(e, p, f)
    PROVE  Sound(e, f, Output(e, p, f), TableAfter(e, p, f), rest)
  <1>1. TableAfter(e, p, f) = inports[e]
    BY DEF TableAfter
  <1>2. OtherEdge(e) \in Edges /\ OtherEdge(OtherEdge(e)) = e
    BY EdgesOpposed
  <1>3. Core \in Output(e, p, f) => ~FromHost(e, f) /\ ~Stray(e, f)
    <2> SUFFICES ASSUME Core \in Output(e, p, f) PROVE ~FromHost(e, f)
      BY DEF Stray
    <2>1. p = TapOut
      BY OutputPorts DEF IsLayer2, Redirects, Core, TapIn
    <2>2. e = "s2"
      BY <2>1, OutputPorts DEF ReturnPort, Edges, Core
    <2> QED
      BY <2>1, <2>2 DEF Learning, Entrances, FromHost, Ordinary
  <1>4. \A h \in Hosts \intersect Addresses :
            /\ inports[e][h] \in {Towards(e, h), NoPort}
            /\ Home(h) = OtherEdge(e) /\ inports[e][h] # NoPort => inports[OtherEdge(e)][h] # NoPort
    BY <1>2 DEF Learning, LearnedTrue, HomeFirst
  <1> QED
    BY <1>1, <1>3, <1>4 DEF Sound

\* A host's frame is learned where the host is attached.  It crosses to the core only
\* if its destination is behind the core, or known nowhere.
LEMMA SoundFromHost ==
    ASSUME TypeOK, Learning, TablesSuffice,
           NEW e \in Edges, NEW p \in {0, 1}, NEW f \in Frames,
           NEW rest \in Seq(Frames),
           f \in Range(input[<<e, p>>]), IsLayer2(e, p, f)
    PROVE  Sound(e, f, Output(e, p, f), TableAfter(e, p, f), rest)
  <1> DEFINE o == OtherEdge(e)
             t == inports[e]
             t2 == TableAfter(e, p, f)
             src == f.msg.src
             dst == f.msg.dst
  <1>1. o \in Edges /\ o # e /\ OtherEdge(o) = e /\ p \in Ports /\ p # Core /\ p # NoPort
    BY EdgesOpposed, FabricAssumption DEF Ports, Core
  <1>2. src \in Addresses /\ dst \in Addresses
    BY DEF Frames, Addresses
  <1>3. src \in Hosts => Home(src) = e /\ Towards(e, src) = p
    <2>1. <<e, p>> \in HostPorts
      BY DEF HostPorts
    <2>2. src \in Hosts => HostPort[src] = <<e, p>>
      BY <2>1 DEF Learning, Entrances
    <2> QED
      BY <2>2 DEF Home, Towards
  <1>4. t2 = LearnSource(p, f, t)
    BY DEF TableAfter
  <1>5. /\ \A a \in Addresses : a # src => t2[a] = t[a]
        /\ src \in Multicast => t2 = t
        /\ src \notin Multicast => t2[src] = p
    BY <1>1, <1>4, SourceLearned
  <1>6. Core \in Output(e, p, f) => dst \in Multicast \/ t2[dst] = NoPort \/ t2[dst] = Core
    BY DEF Output, Layer2, IsLayer2
  <1>7. \A h \in Hosts \intersect Addresses :
            /\ t[h] \in {Towards(e, h), NoPort}
            /\ Home(h) = o /\ t[h] # NoPort => inports[o][h] # NoPort
            /\ Home(h) = e /\ inports[o][h] # NoPort => t[h] # NoPort
    BY <1>1 DEF Learning, LearnedTrue, HomeFirst
  <1> HIDE DEF t2, t, src, dst, o
  <1>8. \A h \in Hosts \intersect Addresses : t2[h] \in {Towards(e, h), NoPort}
    BY <1>3, <1>5, <1>7
  <1>9. \A a \in Addresses : t[a] # NoPort => t2[a] # NoPort
    BY <1>1, <1>5
  <1>10. \A h \in Hosts \intersect Addresses : Home(h) = o /\ t2[h] # NoPort => inports[o][h] # NoPort
    BY <1>1, <1>3, <1>5, <1>7
  <1>11. ASSUME NEW g, Stray(o, g), t[g.msg.dst] = NoPort, g.msg.dst \in Addresses
         PROVE  t2[g.msg.dst] = NoPort
    <2>1. g.msg.dst \in Hosts /\ Home(g.msg.dst) = o
      BY <1>11 DEF Stray
    <2> QED
      BY <2>1, <1>1, <1>3, <1>5, <1>11
  <1>12. ASSUME Core \in Output(e, p, f), FromHost(e, f)
         PROVE  Home(src) = e /\ (src \notin Multicast => t2[src] # NoPort)
    <2>1. src \in Hosts
      BY <1>12 DEF FromHost, src
    <2> QED
      BY <2>1, <1>1, <1>3, <1>5
  <1>13. ASSUME Core \in Output(e, p, f), Stray(e, f)
         PROVE  t2[dst] = NoPort /\ inports[o][dst] = NoPort
    <2>1. dst \in Hosts /\ dst \notin Multicast /\ Home(dst) = e
      BY <1>13 DEF Stray, dst
    <2>2. Towards(e, dst) # Core
      <3>1. Towards(e, dst) \in {0, 1}
        BY <2>1, EdgesOpposed
      <3> QED
        BY <3>1 DEF Core
    <2>3. t2[dst] = NoPort
      BY <1>2, <1>6, <1>8, <1>13, <2>1, <2>2
    <2>4. t[dst] = NoPort
      BY <1>2, <1>9, <2>3
    <2> QED
      BY <1>2, <1>7, <2>1, <2>3, <2>4
  <1>14. \A g \in Range(core[o]) \union Range(rest) :
            Stray(o, g) /\ t[g.msg.dst] = NoPort => t2[g.msg.dst] = NoPort
    <2>1. core[o] \in Seq(Frames)
      BY <1>1 DEF TypeOK
    <2>2. \A g \in Range(core[o]) \union Range(rest) : g.msg.dst \in Addresses
      BY <2>1, FrameAddresses
    <2> QED
      BY <1>11, <2>2
  <1> QED
    BY <1>8, <1>9, <1>10, <1>12, <1>13, <1>14 DEF Sound, t2, t, src, dst, o

\* A frame from the core teaches the way it came, which is where its host is.  A
\* host's frame does not return to the core: the switch does not know a destination
\* there, for if it did the frame would be stray.
LEMMA SoundFromCore ==
    ASSUME TypeOK, Learning, TablesSuffice, HostsAddressHosts,
           NEW e \in Edges, input[<<e, Core>>] # <<>>,
           IsLayer2(e, Core, Head(input[<<e, Core>>]))
    PROVE  LET f == Head(input[<<e, Core>>])
           IN  Sound(e, f, Output(e, Core, f), TableAfter(e, Core, f),
                     Tail(input[<<e, Core>>]))
  <1> DEFINE o == OtherEdge(e)
             q == input[<<e, Core>>]
             f == Head(q)
             t == inports[e]
             t2 == TableAfter(e, Core, f)
             src == f.msg.src
             dst == f.msg.dst
  <1>1. o \in Edges /\ o # e /\ OtherEdge(o) = e /\ FarPort(o) = <<e, Core>> /\ <<e, Core>> \in EdgePorts
    BY EdgesOpposed DEF EdgePorts, Core, Ports
  <1>2. Core \in Ports /\ Core # NoPort
    BY FabricAssumption DEF Ports, Core
  <1>3. q \in Seq(Frames) /\ q # <<>> /\ core[o] \in Seq(Frames)
    BY <1>1 DEF TypeOK
  <1>4. f \in Frames /\ f \in Range(q) /\ Tail(q) \in Seq(Frames)
    BY <1>3, TailRange
  <1>5. src \in Addresses /\ dst \in Addresses /\ f.msg \in Messages
    BY <1>4 DEF Frames, Addresses
  <1>6. Way(o, core[o], q, inports[o], t)
    BY <1>1 DEF Learning
  <1>7. Ordinary(o, f)
    BY DEF IsLayer2, Redirects, RedirectPort, Ordinary, OtherEdge, Edges
  <1>8. t2 = LearnSource(Core, f, t)
    BY DEF TableAfter
  <1>9. /\ \A a \in Addresses : a # src => t2[a] = t[a]
        /\ src \in Multicast => t2 = t
        /\ src \notin Multicast => t2[src] = Core
    BY <1>2, <1>4, <1>8, SourceLearned
  <1>10. Core \in Output(e, Core, f) => dst \notin Multicast /\ t2[dst] = Core
    <2>1. Output(e, Core, f) = Layer2(Core, f, t2)
      BY DEF Output, IsLayer2, Core, TapIn, TapOut
    <2>2. Core \notin Flood(Core)
      BY DEF Flood
    <2> QED
      BY <2>1, <2>2 DEF Layer2
  <1>11. /\ \A g \in Range(core[o]) : Stray(o, g) => ~Teaches(o, f, g.msg.dst)
         /\ \A g \in Range(Tail(q)) : Stray(o, g) => ~Teaches(o, f, g.msg.dst)
         /\ Stray(o, f) => ~Teaches(o, f, dst)
    <2>1. /\ 1 \in DOMAIN q /\ q[1] = f
          /\ \A g \in Range(Tail(q)) : \E i \in DOMAIN q : 1 <= i /\ q[i] = g
      BY <1>3, TailAt
    <2> HIDE DEF q, f
    <2> QED
      BY <1>4, <1>6, <2>1 DEF Way
  <1>12. \A h \in Hosts \intersect Addresses :
            /\ t[h] \in {Towards(e, h), NoPort}
            /\ Home(h) = o /\ t[h] # NoPort => inports[o][h] # NoPort
    BY <1>1 DEF Learning, LearnedTrue, HomeFirst
  <1>13. src \in Hosts => /\ Home(src) = o /\ Towards(e, src) = Core
                          /\ src \notin Multicast => inports[o][src] # NoPort
    <2>1. src \in Hosts => /\ Home(src) = o
                           /\ src \notin Multicast => inports[o][src] # NoPort
      <3> HIDE DEF q, f
      <3> QED
        BY <1>4, <1>6, <1>7 DEF Way, FromHost
    <2> QED
      BY <1>1, <2>1, EdgesOpposed
  <1>14. /\ Stray(o, f) => t[dst] = NoPort
         /\ Range(Tail(q)) \subseteq Range(q)
    <2>1. Range(Tail(q)) \subseteq Range(q)
      BY <1>3, TailRange
    <2> HIDE DEF q, f
    <2> QED
      BY <1>4, <1>6, <2>1 DEF Way
  <1>15. \A g \in Range(core[o]) \union Range(Tail(q)) : g.msg.dst \in Addresses
    BY <1>3, <1>4, FrameAddresses
  <1>16. src \in Hosts => dst \in Hosts \union Multicast
    BY <1>5 DEF HostsAddressHosts
  <1> DEFINE rest == Tail(q)
  <1>17. \A g \in Range(core[o]) \union Range(rest) :
            Stray(o, g) => ~Teaches(o, f, g.msg.dst) /\ g.msg.dst \in Addresses
    BY <1>11, <1>15
  <1> HIDE DEF t2, t, src, dst, o, q, f, rest
  <1>18. \A h \in Hosts \intersect Addresses : t2[h] \in {Towards(e, h), NoPort}
    BY <1>9, <1>12, <1>13
  <1>19. \A a \in Addresses : t[a] # NoPort => t2[a] # NoPort
    BY <1>2, <1>9
  <1>20. \A h \in Hosts \intersect Addresses : Home(h) = o /\ t2[h] # NoPort => inports[o][h] # NoPort
    BY <1>9, <1>12, <1>13
  <1>21. \A g \in Range(core[o]) \union Range(rest) :
            Stray(o, g) /\ t[g.msg.dst] = NoPort => t2[g.msg.dst] = NoPort
    <2> SUFFICES ASSUME NEW g \in Range(core[o]) \union Range(rest),
                        Stray(o, g), t[g.msg.dst] = NoPort
                 PROVE  t2[g.msg.dst] = NoPort
      OBVIOUS
    <2>1. g.msg.dst # src
      BY <1>7, <1>17 DEF Teaches, src
    <2> QED
      BY <1>9, <1>17, <2>1
  <1>22. Core \in Output(e, Core, f) => ~FromHost(e, f)
    <2> SUFFICES ASSUME Core \in Output(e, Core, f), FromHost(e, f) PROVE FALSE
      OBVIOUS
    <2>1. src \in Hosts /\ dst \in Hosts /\ dst \notin Multicast /\ t2[dst] = Core
      BY <1>10, <1>16 DEF FromHost, src
    <2>2. Home(dst) = o
      <3>1. Towards(e, dst) = Core
        BY <1>2, <1>5, <1>18, <2>1
      <3>2. Home(dst) = e => Towards(e, dst) \in {0, 1}
        BY <2>1, EdgesOpposed
      <3>3. Home(dst) # e
        BY <3>1, <3>2 DEF Core
      <3>4. Home(dst) \in Edges
        BY <2>1, EdgesOpposed
      <3> QED
        BY <3>3, <3>4 DEF o, OtherEdge, Edges
    <2>3. Stray(o, f)
      BY <1>7, <2>1, <2>2 DEF Stray, FromHost, src, dst
    <2>4. t[dst] = NoPort /\ dst # src
      BY <1>7, <1>11, <1>14, <2>3 DEF Teaches, src
    <2> QED
      BY <1>2, <1>5, <1>9, <2>1, <2>4
  <1>23. Sound(e, f, Output(e, Core, f), t2, rest)
    BY <1>18, <1>19, <1>20, <1>21, <1>22 DEF Sound, t, o, Stray
  <1> QED
    BY <1>23 DEF t2, rest, f, q

\* Every step of a switch keeps the tables true.
LEMMA LearningSwitch ==
    ASSUME TypeOK, Learning, TablesSuffice, HostsAddressHosts,
           NEW e \in Edges, NEW p \in Ports, Switch(e, p)
    PROVE  Learning'
  <1> DEFINE o == OtherEdge(e)
             x == <<e, p>>
             f == Head(input[x])
             out == Output(e, p, f)
             t2 == TableAfter(e, p, f)
             q == input'[<<e, Core>>]
  <1>1. /\ o \in Edges /\ o # e /\ OtherEdge(o) = e
        /\ FarPort(o) = <<e, Core>> /\ FarPort(e) = <<o, Core>>
        /\ x \in EdgePorts /\ FarPort(e) \in EdgePorts /\ FarPort(o) \in EdgePorts
    BY EdgesOpposed DEF EdgePorts
  <1>2. /\ input \in [EdgePorts -> Seq(Frames)]
        /\ core \in [Edges -> Seq(Frames)]
        /\ inports \in [Edges -> [Addresses -> {0, 1, 2, 3, 4, NoPort}]]
    BY DEF TypeOK
  <1>3. input[x] \in Seq(Frames) /\ input[x] # <<>>
    BY <1>1, <1>2 DEF Switch
  <1>4. f \in Frames /\ f \in Range(input[x]) /\ Tail(input[x]) \in Seq(Frames)
        /\ Range(Tail(input[x])) \subseteq Range(input[x])
    BY <1>3, TailRange
  <1>5. input' = [input EXCEPT ![x] = Tail(@)]
    BY DEF Switch
  <1>6. core' = IF Core \in out THEN [core EXCEPT ![e] = Append(@, f)] ELSE core
    BY DEF Switch
  <1>7. inports' = [inports EXCEPT ![e] = t2]
    BY DEF Switch
  <1>8. q \in Seq(Frames) /\ (p = Core => q = Tail(input[x]))
    BY <1>1, <1>2, <1>4, <1>5
  <1>9. Sound(e, f, out, t2, q)
    <2>1. CASE ~IsLayer2(e, p, f)
      BY <1>4, <1>8, <2>1, SoundAside
    <2>2. CASE IsLayer2(e, p, f) /\ p \in {0, 1}
      BY <1>4, <1>8, <2>2, SoundFromHost
    <2>3. CASE IsLayer2(e, p, f) /\ p = Core
      BY <1>3, <1>8, <2>3, SoundFromCore
    <2>4. p \in {0, 1, Core, TapIn, TapOut}
      BY DEF Ports, Core, TapIn, TapOut
    <2> QED
      BY <2>1, <2>2, <2>3, <2>4 DEF IsLayer2
  <1> HIDE DEF out, t2
  <1>10. /\ inports'[e] = t2 /\ inports'[o] = inports[o]
         /\ core'[o] = core[o]
         /\ core'[e] = IF Core \in out THEN Append(core[e], f) ELSE core[e]
         /\ input'[FarPort(e)] = input[FarPort(e)]
    BY <1>1, <1>2, <1>5, <1>6, <1>7
  <1>11. \A y \in EdgePorts : Range(input'[y]) \subseteq Range(input[y])
    BY <1>1, <1>2, <1>4, <1>5
  <1>12. Edges = {e, o}
    BY DEF Edges, OtherEdge
  <1>13. LearnedTrue'
    <2>1. \A h \in Hosts \intersect Addresses : inports'[e][h] \in {Towards(e, h), NoPort}
      BY <1>9, <1>10 DEF Sound
    <2>2. \A h \in Hosts \intersect Addresses : inports'[o][h] \in {Towards(o, h), NoPort}
      BY <1>1, <1>10 DEF Learning, LearnedTrue
    <2> QED
      BY <1>12, <2>1, <2>2 DEF LearnedTrue
  <1>14. Entrances'
    <2>1. HostPorts \subseteq EdgePorts /\ <<"s2", TapOut>> \in EdgePorts
      BY DEF HostPorts, EdgePorts, Ports, TapOut, Edges
    <2> QED
      BY <1>11, <2>1 DEF Learning, Entrances
  <1>15. HomeFirst'
    <2>1. ASSUME NEW h \in Hosts \intersect Addresses
          PROVE  /\ Home(h) = e /\ inports'[o][h] # NoPort => inports'[e][h] # NoPort
                 /\ Home(h) = o /\ inports'[e][h] # NoPort => inports'[o][h] # NoPort
      <3>1. Home(h) = e /\ inports[o][h] # NoPort => inports[e][h] # NoPort
        BY DEF Learning, HomeFirst
      <3>2. inports[e][h] # NoPort => t2[h] # NoPort
        BY <1>9 DEF Sound
      <3>3. Home(h) = o /\ t2[h] # NoPort => inports[o][h] # NoPort
        BY <1>9 DEF Sound
      <3> QED
        BY <1>10, <3>1, <3>2, <3>3
    <2> QED
      BY <1>1, <1>12, <2>1 DEF HomeFirst
  <1>16. \A g \in Frames : inports[e][g.msg.src] # NoPort => t2[g.msg.src] # NoPort
    <2>1. \A g \in Frames : g.msg.src \in Addresses
      BY DEF Frames, Addresses
    <2> QED
      BY <1>9, <2>1 DEF Sound
  <1>17. Way(e, core[e], input[FarPort(e)], t2, inports[o])
    <2>1. Way(e, core[e], input[FarPort(e)], inports[e], inports[o])
      BY DEF Learning
    <2>2. core[e] \in Seq(Frames) /\ input[FarPort(e)] \in Seq(Frames)
      BY <1>1, <1>2
    <2> QED
      BY <1>16, <2>1, <2>2, WayLearned
  <1>18. Way(e, core'[e], input'[FarPort(e)], inports'[e], inports'[o])
    <2>1. core[e] \in Seq(Frames) /\ input[FarPort(e)] \in Seq(Frames)
      BY <1>1, <1>2
    <2>2. CASE Core \in out
      <3>1. /\ FromHost(e, f) => /\ Home(f.msg.src) = e
                                 /\ f.msg.src \notin Multicast => t2[f.msg.src] # NoPort
            /\ Stray(e, f) => t2[f.msg.dst] = NoPort /\ inports[o][f.msg.dst] = NoPort
        BY <1>9, <2>2 DEF Sound
      <3>2. Way(e, Append(core[e], f), input[FarPort(e)], t2, inports[o])
        BY <1>4, <1>17, <2>1, <3>1, WayExtended
      <3> QED
        BY <1>10, <2>2, <3>2
    <2>3. CASE Core \notin out
      BY <1>10, <1>17, <2>3
    <2> QED
      BY <2>2, <2>3
  <1>19. Way(o, core'[o], input'[FarPort(o)], inports'[o], inports'[e])
    <2>1. core[o] \in Seq(Frames) /\ input[FarPort(o)] \in Seq(Frames)
      BY <1>1, <1>2
    <2>2. Way(o, core[o], input[FarPort(o)], inports[o], inports[e])
      BY <1>1 DEF Learning
    <2>3. Way(o, core[o], q, inports[o], inports[e])
      <3>1. CASE p = Core
        BY <1>1, <1>3, <1>8, <2>1, <2>2, <3>1, WayShortened
      <3>2. CASE p # Core
        <4>1. q = input[FarPort(o)]
          BY <1>1, <1>2, <1>5, <3>2
        <4> QED
          BY <2>2, <4>1
      <3> QED
        BY <3>1, <3>2
    <2>4. \A g \in Range(core[o]) \union Range(q) :
              Stray(o, g) /\ inports[e][g.msg.dst] = NoPort => t2[g.msg.dst] = NoPort
      BY <1>9 DEF Sound
    <2> HIDE DEF q
    <2>5. Way(o, core[o], q, inports[o], t2)
      BY <1>8, <2>1, <2>3, <2>4, WayLearned
    <2> QED
      BY <1>1, <1>10, <2>5 DEF q
  <1> QED
    BY <1>1, <1>12, <1>13, <1>14, <1>15, <1>18, <1>19 DEF Learning

LEMMA LearningInit == Init => Learning
  <1> SUFFICES ASSUME Init PROVE Learning
    OBVIOUS
  <1>1. LearnedTrue /\ HomeFirst
    BY EdgesOpposed DEF Init, LearnedTrue, HomeFirst
  <1>2. Entrances
    BY EmptyRange DEF Init, Entrances, HostPorts, EdgePorts, Ports, Edges, TapOut
  <1>3. ASSUME NEW e \in Edges
        PROVE  Way(e, core[e], input[FarPort(e)], inports[e], inports[OtherEdge(e)])
    <2>1. core[e] = <<>> /\ input[FarPort(e)] = <<>>
      BY EdgesOpposed DEF Init
    <2> QED
      BY <2>1, WayEmpty
  <1> QED
    BY <1>1, <1>2, <1>3 DEF Learning

\* A frame added to a port disturbs neither the tables nor, unless it is a host's, the
\* ways.
LEMMA LearningAdded ==
    ASSUME TypeOK, Learning, NEW x \in EdgePorts, NEW f \in Frames,
           input' = [input EXCEPT ![x] = Append(@, f)],
           x \in HostPorts /\ f.msg.src \in Hosts => HostPort[f.msg.src] = x,
           x = <<"s2", TapOut>> /\ f.msg.src \in Hosts => f.msg.goose,
           x[2] = Core => f.msg.src \notin Hosts,
           UNCHANGED <<core, inports>>
    PROVE  Learning'
  <1>1. input \in [EdgePorts -> Seq(Frames)] /\ core \in [Edges -> Seq(Frames)]
    BY DEF TypeOK
  <1>2. input'[x] = Append(input[x], f) /\ \A y \in EdgePorts \ {x} : input'[y] = input[y]
    BY <1>1
  <1>3. \A g \in Range(Append(input[x], f)) : g \in Range(input[x]) \/ g = f
    BY <1>1, AppendRange
  <1>4. Entrances'
    <2>1. \A y \in EdgePorts : \A g \in Range(input'[y]) :
              g \in Range(input[y]) \/ (y = x /\ g = f)
      BY <1>2, <1>3
    <2>2. HostPorts \subseteq EdgePorts /\ <<"s2", TapOut>> \in EdgePorts
      BY DEF HostPorts, EdgePorts, Ports, TapOut, Edges
    <2> QED
      BY <2>1, <2>2 DEF Learning, Entrances
  <1>5. ASSUME NEW e \in Edges
        PROVE  Way(e, core[e], input'[FarPort(e)], inports[e], inports[OtherEdge(e)])
    <2>1. Way(e, core[e], input[FarPort(e)], inports[e], inports[OtherEdge(e)])
      BY DEF Learning
    <2>2. /\ FarPort(e) \in EdgePorts /\ core[e] \in Seq(Frames)
          /\ input[FarPort(e)] \in Seq(Frames)
      BY <1>1, EdgesOpposed
    <2>3. CASE x = FarPort(e)
      <3>1. f.msg.src \notin Hosts
        BY <2>3 DEF FarPort
      <3> QED
        BY <1>2, <2>1, <2>2, <2>3, <3>1, WayIntruded
    <2>4. CASE x # FarPort(e)
      BY <1>2, <2>1, <2>2, <2>4
    <2> QED
      BY <2>3, <2>4
  <1>6. LearnedTrue' /\ HomeFirst'
    BY DEF Learning, LearnedTrue, HomeFirst
  <1> QED
    BY <1>4, <1>5, <1>6 DEF Learning

LEMMA LearningSend ==
    ASSUME TypeOK, Learning, NEW m \in Messages, Send(m)
    PROVE  Learning'
  <1> DEFINE f == [msg |-> m, seals |-> 0]
  <1>1. /\ m.at \in EdgePorts /\ f \in Frames /\ f.msg = m
        /\ m.src \in Hosts => m.at = HostPort[m.src]
    BY FabricAssumption DEF Frames
  <1>2. m.src \in Hosts => m.at # <<"s2", TapOut>> /\ m.at[2] # Core
    BY <1>1 DEF Hosts, HostPort, TapOut, Core
  <1>3. input' = [input EXCEPT ![m.at] = Append(@, f)] /\ UNCHANGED <<core, inports>>
    BY DEF Send
  <1> HIDE DEF f
  <1> QED
    BY <1>1, <1>2, <1>3, LearningAdded

\* The core switch keeps the order of what it passes on.
LEMMA LearningCoreSwitch ==
    ASSUME TypeOK, Learning, NEW e \in Edges, CoreSwitch(e)
    PROVE  Learning'
  <1> DEFINE f == Head(core[e])
             o == OtherEdge(e)
  <1>1. /\ o \in Edges /\ o # e /\ OtherEdge(o) = e /\ FarPort(e) = <<o, Core>>
        /\ FarPort(o) = <<e, Core>> /\ FarPort(e) \in EdgePorts /\ FarPort(o) \in EdgePorts
    BY EdgesOpposed
  <1>2. /\ input \in [EdgePorts -> Seq(Frames)] /\ core \in [Edges -> Seq(Frames)]
        /\ core[e] # <<>>
    BY DEF TypeOK, CoreSwitch
  <1>3. /\ core' = [core EXCEPT ![e] = Tail(@)]
        /\ UNCHANGED inports
        /\ \/ input' = [input EXCEPT ![FarPort(e)] = Append(@, f)]
           \/ UNCHANGED input
    BY <1>1 DEF CoreSwitch
  <1>4. LearnedTrue' /\ HomeFirst'
    BY <1>3 DEF Learning, LearnedTrue, HomeFirst
  <1>5. \A y \in EdgePorts \ {FarPort(e)} : input'[y] = input[y]
    BY <1>2, <1>3
  <1>6. Entrances'
    <2>1. HostPorts \subseteq EdgePorts /\ <<"s2", TapOut>> \in EdgePorts
      BY DEF HostPorts, EdgePorts, Ports, TapOut, Edges
    <2>2. FarPort(e) \notin HostPorts /\ FarPort(e) # <<"s2", TapOut>>
      BY <1>1 DEF HostPorts, Core, TapOut
    <2> QED
      BY <1>5, <2>1, <2>2 DEF Learning, Entrances
  <1>7. Way(e, core'[e], input'[FarPort(e)], inports'[e], inports'[o])
    <2>1. Way(e, core[e], input[FarPort(e)], inports[e], inports[o])
      BY DEF Learning
    <2>2. core[e] \in Seq(Frames) /\ input[FarPort(e)] \in Seq(Frames)
      BY <1>1, <1>2
    <2>3. core'[e] = Tail(core[e]) /\ inports' = inports
      BY <1>2, <1>3
    <2>4. CASE input' = [input EXCEPT ![FarPort(e)] = Append(@, f)]
      <3>1. input'[FarPort(e)] = Append(input[FarPort(e)], f)
        BY <1>1, <1>2, <2>4
      <3> QED
        BY <1>2, <2>1, <2>2, <2>3, <3>1, WayMoved
    <2>5. CASE UNCHANGED input
      BY <1>2, <2>1, <2>2, <2>3, <2>5, WayShortened
    <2> QED
      BY <1>3, <2>4, <2>5
  <1>8. Way(o, core'[o], input'[FarPort(o)], inports'[o], inports'[e])
    <2>1. Way(o, core[o], input[FarPort(o)], inports[o], inports[e])
      BY <1>1 DEF Learning
    <2>2. core'[o] = core[o] /\ inports' = inports
      BY <1>1, <1>2, <1>3
    <2>3. FarPort(o) # FarPort(e)
      BY <1>1
    <2> QED
      BY <1>1, <1>5, <2>1, <2>2, <2>3
  <1>9. Edges = {e, o}
    BY DEF Edges, OtherEdge
  <1> QED
    BY <1>1, <1>4, <1>6, <1>7, <1>8, <1>9 DEF Learning

\* A forwarder writes GOOSE only, to a port nothing is learned from.
LEMMA LearningForwarder ==
    ASSUME Inv, Learning, NEW e \in Edges, Forwarder(e)
    PROVE  Learning'
  <1> DEFINE f == Head(tap[e])
             x == <<e, TapOut>>
             sealed == [f EXCEPT !.seals = @ + 1]
             opened == [f EXCEPT !.seals = @ - 1]
  <1>1. /\ x \in EdgePorts /\ x \notin HostPorts /\ x[2] # Core /\ TypeOK
        /\ UNCHANGED <<core, inports>>
    BY DEF Inv, EdgePorts, HostPorts, TapOut, Core, Ports, Forwarder
  <1>2. f \in Frames
    <2>1. tap[e] \in Seq(Frames) /\ tap[e] # <<>>
      BY <1>1 DEF TypeOK, Forwarder
    <2> QED
      BY <2>1, TailRange
  <1>3. ASSUME NEW g \in Frames, g.msg.goose, input' = [input EXCEPT ![x] = Append(@, g)]
        PROVE  Learning'
    <2> HIDE DEF x
    <2> QED
      BY <1>1, <1>3, LearningAdded
  <1>4. CASE e = "s2" /\ f.msg.goose
    <2>1. sealed \in Frames /\ sealed.msg.goose
      BY <1>2, <1>4 DEF Frames
    <2>2. input' = [input EXCEPT ![x] = Append(@, sealed)]
      BY <1>4 DEF Forwarder
    <2> QED
      BY <1>3, <2>1, <2>2
  <1>5. CASE e = "s3" /\ f.msg.goose /\ f.seals > 0
    <2>1. opened \in Frames /\ opened.msg.goose
      BY <1>2, <1>5 DEF Frames
    <2>2. input' = [input EXCEPT ![x] = Append(@, opened)]
      BY <1>5 DEF Forwarder
    <2> QED
      BY <1>3, <2>1, <2>2
  <1>6. CASE ~(e = "s2" /\ f.msg.goose) /\ ~(e = "s3" /\ f.msg.goose /\ f.seals > 0)
    <2>1. UNCHANGED <<input, core, inports>>
      BY <1>1, <1>6 DEF Forwarder
    <2> QED
      BY <2>1 DEF Learning, LearnedTrue, Entrances, HomeFirst
  <1> QED
    BY <1>4, <1>5, <1>6

LEMMA LearningNext ==
    ASSUME TablesSuffice, HostsAddressHosts
    PROVE  Inv /\ Learning /\ [Next]_vars => Learning'
  <1> SUFFICES ASSUME Inv, Learning, [Next]_vars PROVE Learning'
    OBVIOUS
  <1>1. TypeOK
    BY DEF Inv
  <1>2. CASE \E m \in Messages : Send(m)
    BY <1>1, <1>2, LearningSend
  <1>3. CASE \E e \in Edges : EdgeStep(e)
    BY <1>1, <1>3, LearningSwitch, LearningCoreSwitch, LearningForwarder DEF EdgeStep
  <1>4. CASE UNCHANGED vars
    BY <1>4 DEF vars, Learning, LearnedTrue, Entrances, HomeFirst
  <1> QED
    BY <1>2, <1>3, <1>4 DEF Next

\* Every table maps a host to the port through which it is reached, provided that the
\* tables have a place for every address and that hosts address hosts or groups: then
\* neither the copies a forwarder returns nor the flooded ones mislead an edge.
THEOREM LearnedTrueCorrect ==
    ASSUME TablesSuffice, HostsAddressHosts PROVE Spec => []LearnedTrue
  <1>1. Inv /\ Learning /\ [Next]_vars => Learning'
    BY LearningNext
  <1>2. Learning => LearnedTrue
    BY DEF Learning
  <1> QED
    BY <1>1, <1>2, LearningInit, InvCorrect, PTL DEF Spec
==============================================================================
