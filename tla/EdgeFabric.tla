----------------------------- MODULE EdgeFabric ------------------------------
(***************************************************************************)
(* The switches around the two forwarders: the eBPF programs of            *)
(* bpfabric/goose_forwarder.c on edge switch s2 and                        *)
(* bpfabric/goose_decrypt_forwarder.c on s3, wired as                      *)
(* bpfabric/goose_integration_topo.py wires them, with the core switch s1  *)
(* between them (external: it carries frames from one edge to the other).  *)
(*                                                                         *)
(* Ports of both edges, in the order the programs count them: 0 and 1 the  *)
(* hosts, 2 the core, 3 the TAP a forwarder reads, 4 the TAP it writes.    *)
(* The forwarders are reduced to what they do to a frame's protection;     *)
(* GooseTunnel has the rest of them.                                       *)
(***************************************************************************)
EXTENDS Naturals, Sequences, FiniteSets, Functions

CONSTANTS
    Messages,          \* frames to be sent: [at, src, dst, goose], each once
    Multicast,         \* group addresses, as source or destination
    MaxEntries,        \* max_entries of the map inports, 256 in the code
    NoPort             \* an address that is not in the table

Edges == {"s2", "s3"}
Core == 2
TapIn == 3
TapOut == 4
Ports == 0 .. 4
EdgePorts == Edges \X Ports
HostPorts == Edges \X {0, 1}

HostPort ==
    [h_1_1 |-> <<"s2", 0>>, h_1_2 |-> <<"s2", 1>>,
     h_2_1 |-> <<"s3", 0>>, h_2_2 |-> <<"s3", 1>>]
Hosts == DOMAIN HostPort

OtherEdge(e) == IF e = "s2" THEN "s3" ELSE "s2"

\* The port of an edge through which a host is reached.
Towards(e, h) == IF HostPort[h][1] = e THEN HostPort[h][2] ELSE Core

Addresses == {m.src : m \in Messages} \union {m.dst : m \in Messages}

ASSUME FabricAssumption ==
    /\ \A m \in Messages :
           /\ m.at \in EdgePorts
           /\ m.goose \in BOOLEAN
           /\ m.src \in Hosts => m.at = HostPort[m.src]
    /\ MaxEntries \in Nat
    /\ NoPort \notin Ports

VARIABLES
    sent,              \* messages sent so far
    input,             \* frames waiting at each port of each edge
    core,              \* frames each edge has sent to the core switch
    tap,               \* frames each edge has sent to its forwarder
    inports,           \* the learning table of each edge
    received           \* how often each message reached each host port

vars == <<sent, input, core, tap, inports, received>>

\* Deliveries are counted up to Many.
Many == 2

\* A frame is a message and the number of times it is encrypted.
Frames == [msg : Messages, seals : Nat]

------------------------------------------------------------------------------
(* The programs: the ports a frame leaves by.                              *)

\* bpf_map_update_elem: an unknown address is not added to a full table.
Learned(t, a, p) ==
    IF t[a] = NoPort /\ Cardinality({b \in DOMAIN t : t[b] # NoPort}) >= MaxEntries
      THEN t
      ELSE [t EXCEPT ![a] = p]

FloodAll(p) == Ports           \* mutant of Flood: back out of the port it came from

Flood(p) == Ports \ {p}

\* Layer 2 learning and forwarding.
LearnSource(p, f, t) ==
    IF f.msg.src \in Multicast THEN t ELSE Learned(t, f.msg.src, p)

Layer2DropsUnknown(p, f, t) == \* mutant of Layer2: unknown destinations are dropped
    IF f.msg.dst \in Multicast THEN Flood(p) ELSE {t[f.msg.dst]} \ {NoPort}

Layer2(p, f, t) ==
    IF f.msg.dst \in Multicast \/ t[f.msg.dst] = NoPort
      THEN Flood(p)
      ELSE {t[f.msg.dst]}

\* Whether a frame is handled before layer 2: it comes from a TAP, or it is GOOSE
\* from the port whose GOOSE the program redirects.
RedirectPort == [s2 |-> 0, s3 |-> Core]
ReturnPort == [s2 |-> Core, s3 |-> 0]

RedirectsToNobody(e, p, f) == FALSE   \* mutant of Redirects: GOOSE is forwarded

Redirects(e, p, f) == p = RedirectPort[e] /\ f.msg.goose

IsLayer2(e, p, f) == p \notin {TapIn, TapOut} /\ ~Redirects(e, p, f)

TableLearnsFirst(e, p, f) ==   \* mutant of TableAfter: learning before the TAP checks
    LearnSource(p, f, inports[e])

TableAfter(e, p, f) ==
    IF IsLayer2(e, p, f) THEN LearnSource(p, f, inports[e]) ELSE inports[e]

OutputTapAsHost(e, p, f) ==    \* mutant of Output: the TAP's frames are not special
    CASE p = TapIn -> {}
      [] Redirects(e, p, f) -> {TapIn}
      [] OTHER -> Layer2(p, f, TableAfter(e, p, f))

OutputHairpin(e, p, f) ==      \* mutant of Output: encrypted frames return to port 0
    CASE p = TapIn -> {}
      [] p = TapOut -> {0}
      [] Redirects(e, p, f) -> {TapIn}
      [] OTHER -> Layer2(p, f, TableAfter(e, p, f))

Output(e, p, f) ==
    CASE p = TapIn -> {}
      [] p = TapOut -> {ReturnPort[e]}
      [] Redirects(e, p, f) -> {TapIn}
      [] OTHER -> Layer2(p, f, TableAfter(e, p, f))

------------------------------------------------------------------------------
Init ==
    /\ sent = {}
    /\ input = [x \in EdgePorts |-> <<>>]
    /\ core = [e \in Edges |-> <<>>]
    /\ tap = [e \in Edges |-> <<>>]
    /\ inports = [e \in Edges |-> [a \in Addresses |-> NoPort]]
    /\ received = [x \in HostPorts |-> [m \in Messages |-> 0]]

\* A host sends a frame, or the kernel sends one through a TAP device.
Send(m) ==
    /\ m \notin sent
    /\ sent' = sent \union {m}
    /\ input' = [input EXCEPT ![m.at] = Append(@, [msg |-> m, seals |-> 0])]
    /\ UNCHANGED <<core, tap, inports, received>>

\* An edge switch runs its program on the next frame of a port.  What it sends to
\* the TAP a forwarder only writes to is read by nobody.
Switch(e, p) ==
    /\ input[<<e, p>>] # <<>>
    /\ LET f == Head(input[<<e, p>>])
           out == Output(e, p, f)
       IN  /\ inports' = [inports EXCEPT ![e] = TableAfter(e, p, f)]
           /\ core' = IF Core \in out THEN [core EXCEPT ![e] = Append(@, f)] ELSE core
           /\ tap' = IF TapIn \in out THEN [tap EXCEPT ![e] = Append(@, f)] ELSE tap
           /\ received' =
                  [x \in HostPorts |->
                      IF x[1] = e /\ x[2] \in out
                        THEN [received[x] EXCEPT ![f.msg] = IF @ < Many THEN @ + 1 ELSE @]
                        ELSE received[x]]
    /\ input' = [input EXCEPT ![<<e, p>>] = Tail(@)]
    /\ UNCHANGED sent

\* The core switch passes a frame to the other edge, or keeps a unicast frame from
\* returning to where its destination is.  Its program is not in the repository: that it
\* never sends a frame out of the port it came from is assumed, and what is said of the
\* tables and of unicast frames rests on it.
CoreSwitch(e) ==
    /\ core[e] # <<>>
    /\ LET f == Head(core[e])
           x == <<OtherEdge(e), Core>>
       IN  \/ input' = [input EXCEPT ![x] = Append(@, f)]
           \/ f.msg.dst \in Hosts /\ HostPort[f.msg.dst][1] = e /\ UNCHANGED input
    /\ core' = [core EXCEPT ![e] = Tail(@)]
    /\ UNCHANGED <<sent, tap, inports, received>>

ForwarderOpensAll(e) ==        \* mutant of Forwarder: unprotected GOOSE is opened too
    /\ tap[e] # <<>>
    /\ LET f == Head(tap[e])
           x == <<e, TapOut>>
           n == IF e = "s2" THEN f.seals + 1 ELSE f.seals - 1
       IN  input' = IF f.msg.goose
                      THEN [input EXCEPT ![x] = Append(@, [f EXCEPT !.seals = n])]
                      ELSE input
    /\ tap' = [tap EXCEPT ![e] = Tail(@)]
    /\ UNCHANGED <<sent, core, inports, received>>

\* The forwarder of an edge writes what it makes of a frame to the edge's port 4:
\* the encryptor protects GOOSE, the decryptor restores protected GOOSE; both
\* leave everything else.
Forwarder(e) ==
    /\ tap[e] # <<>>
    /\ LET f == Head(tap[e])
           x == <<e, TapOut>>
       IN  CASE e = "s2" /\ f.msg.goose ->
                    input' = [input EXCEPT ![x] = Append(@, [f EXCEPT !.seals = @ + 1])]
             [] e = "s3" /\ f.msg.goose /\ f.seals > 0 ->
                    input' = [input EXCEPT ![x] = Append(@, [f EXCEPT !.seals = @ - 1])]
             [] OTHER -> UNCHANGED input
    /\ tap' = [tap EXCEPT ![e] = Tail(@)]
    /\ UNCHANGED <<sent, core, inports, received>>

EdgeStep(e) ==
    \/ \E p \in Ports : Switch(e, p)
    \/ CoreSwitch(e)
    \/ Forwarder(e)

Next ==
    \/ \E m \in Messages : Send(m)
    \/ \E e \in Edges : EdgeStep(e)

Spec == Init /\ [][Next]_vars

\* Switches and forwarders poll their ports for ever.  Hosts may send or not.
Fairness ==
    \A e \in Edges :
        /\ \A p \in Ports : WF_vars(Switch(e, p))
        /\ WF_vars(CoreSwitch(e))
        /\ WF_vars(Forwarder(e))

FairSpec == Spec /\ Fairness

------------------------------------------------------------------------------
(* Properties                                                              *)

TypeOK ==
    /\ sent \subseteq Messages
    /\ input \in [EdgePorts -> Seq(Frames)]
    /\ core \in [Edges -> Seq(Frames)]
    /\ tap \in [Edges -> Seq(Frames)]
    /\ inports \in [Edges -> [Addresses -> {0, 1, 2, 3, 4, NoPort}]]
    /\ received \in [HostPorts -> [Messages -> 0 .. Many]]

\* The publisher's GOOSE: what h_1_1 sends.  The program redirects GOOSE of port 0
\* alone; GOOSE of h_1_2 is ordinary traffic to it.
Published(m) == m.goose /\ m.at = HostPort["h_1_1"]

Exposed(f) == Published(f.msg) /\ f.seals = 0

\* The publisher's GOOSE never crosses the core, nor reaches any host but the
\* subscriber, other than encrypted, whatever other traffic teaches the switches.
PublisherProtected ==
    /\ \A e \in Edges :
           \A f \in Range(core[e]) \union Range(input[<<e, Core>>]) : ~Exposed(f)
    /\ \A m \in Messages, x \in HostPorts :
           Published(m) /\ received[x][m] > 0 => x = HostPort["h_2_1"]

\* No frame is encrypted again: what a forwarder returned to its switch does not
\* come back to it ("Handle traffic entering and returning").
NeverSealedTwice ==
    \A e \in Edges :
        \A f \in Range(tap[e]) \union Range(input[<<e, TapOut>>]) : f.seals <= 1

\* Every table maps a host to the port through which it is reached: neither copies
\* that return from a forwarder nor flooded copies of its frames mislead it, as long as
\* the core switch returns none.
LearnedTrue ==
    \A e \in Edges, h \in Hosts \intersect Addresses :
        inports[e][h] \in {Towards(e, h), NoPort}

\* The fabric with its forwarders carries the publisher's GOOSE to the subscriber
\* as the application expects: only what was sent, and at most once.
Publications == {m \in Messages : Published(m)}

Channel == INSTANCE AtMostOnceChannel WITH
    Payloads <- Publications,
    offered <- sent \intersect Publications,
    deliveries <- [m \in Publications |-> received[HostPort["h_2_1"]][m]]

ChannelSpec == Channel!Spec

\* Every GOOSE frame of the publisher reaches the subscriber.
PublicationDelivered ==
    \A m \in Publications : m \in sent ~> received[HostPort["h_2_1"]][m] = 1

Unicasts ==
    {m \in Messages : ~m.goose /\ m.src \in Hosts /\ m.dst \in Hosts \ {m.src}}

\* Ordinary unicast traffic between hosts still reaches its destination.
UnicastDelivered ==
    \A m \in Unicasts : m \in sent ~> received[HostPort[m.dst]][m] > 0

\* Nothing circulates: once the hosts stop sending, the fabric falls silent.
FallsSilent ==
    <>[](\A e \in Edges :
            /\ core[e] = <<>> /\ tap[e] = <<>>
            /\ \A p \in Ports : input[<<e, p>>] = <<>>)
==============================================================================
