------------------------- MODULE KemHandshakeProofs --------------------------
(***************************************************************************)
(* Proofs about KemHandshake, for any number of runs, any profiles, any    *)
(* listen queue and any set of faults.                                     *)
(*                                                                         *)
(* Links says how the runs, their connections, messages and session        *)
(* material hang together; it needs no assumption on how the operator      *)
(* starts runs, and gives type correctness and RecordsAdmitted.            *)
(* InTurn says what holds besides when runs of one side do not overlap,    *)
(* and gives NoFallback and PairedRecords.                                 *)
(***************************************************************************)
EXTENDS KemHandshake, FiniteSetTheorems, TLAPS

------------------------------------------------------------------------------
(* The inductive invariant                                                 *)

\* A run that has started has a profile.
Profiled ==
    /\ \A s \in Servers : serverPc[s] # "idle" => serverProfile[s] \in ServerProfiles
    /\ \A c \in Clients : clientPc[c] # "idle" => clientProfile[c] \in ClientProfiles

\* The port is held by the run that listens or serves, and by no other.
PortHeld ==
    \A s \in Servers : port = s <=> serverPc[s] \in {"listening", "offered", "confirmed"}

\* A client run is connected, once it is, to a server run that has listened.
Hosted ==
    /\ \A c \in Clients :
           /\ clientPc[c] \in {"idle", "starting"} =>
                  host[c] = NoServer /\ clientKey[c] = NoKey
           /\ clientPc[c] \in {"connected", "responded", "confirmed"} =>
                  host[c] \in Servers
           /\ host[c] \in Servers => serverPc[host[c]] \notin {"idle", "starting"}
    /\ \A c \in backlog : port \in Servers /\ host[c] = port

\* A server run serves the one client it has accepted.
Served ==
    \A s \in Servers :
        /\ serverPc[s] \in {"idle", "starting", "listening"} =>
               peer[s] = NoClient /\ serverKey[s] = NoKey
        /\ serverPc[s] \in {"offered", "confirmed"} => peer[s] \in Clients
        /\ peer[s] \in Clients => host[peer[s]] = s

\* A message in flight is what the other end of the connection sent.
Sent ==
    /\ \A c \in Clients : toClient[c] # NoMessage =>
           /\ host[c] \in Servers
           /\ peer[host[c]] = c
           /\ \/ toClient[c] = Offer(host[c])
              \/ /\ toClient[c] = Final(host[c], c)
                 /\ serverKey[host[c]] = Material(host[c], c)
    /\ \A s \in Servers : toServer[s] # NoMessage =>
           /\ peer[s] \in Clients
           /\ toServer[s] = Response(peer[s], s)
           /\ clientKey[peer[s]] = Material(s, peer[s])

\* A client derives a session only from an offer it has accepted.
ClientDerived ==
    \A c \in Clients :
        /\ clientKey[c] # NoKey =>
               /\ host[c] \in Servers
               /\ clientKey[c] = Material(host[c], c)
               /\ AcceptsOffer(c, Offer(host[c]))
        /\ clientPc[c] = "responded" => clientKey[c] # NoKey
        /\ clientPc[c] = "confirmed" =>
               clientKey[c] # NoKey /\ serverKey[host[c]] = Material(host[c], c)

\* A server derives a session only with a client it admits and that has derived it.
ServerDerived ==
    \A s \in Servers :
        /\ serverKey[s] # NoKey =>
               /\ peer[s] \in Clients
               /\ serverKey[s] = Material(s, peer[s])
               /\ clientKey[peer[s]] = Material(s, peer[s])
               /\ Compatible(s, peer[s])
        /\ serverPc[s] = "confirmed" => serverKey[s] # NoKey

\* A record on disk is the record of a run that derived and confirmed its session.
Stored ==
    /\ IsRecord(serverFile) =>
           \E s \in Servers : serverKey[s] # NoKey /\ serverFile = ServerRecord(s)
    /\ IsRecord(clientFile) =>
           \E c \in Clients :
               /\ clientKey[c] # NoKey
               /\ clientFile = ClientRecord(c)
               /\ serverKey[host[c]] = Material(host[c], c)

Links ==
    /\ Profiled
    /\ PortHeld
    /\ Hosted
    /\ Served
    /\ Sent
    /\ ClientDerived
    /\ ServerDerived
    /\ Stored

\* At most one run of each side is running.
Sole ==
    /\ \A r, s \in Servers : ServerRunning(r) /\ ServerRunning(s) => r = s
    /\ \A c, d \in Clients : ClientRunning(c) /\ ClientRunning(d) => c = d

\* Once a client has connected to the server run that is running, no client is
\* connected, and no client record belongs, to an earlier one.
ServerInTurn ==
    \A s \in Servers, c \in Clients : ServerRunning(s) /\ host[c] = s =>
        /\ \A d \in Clients :
               ClientRunning(d) => clientPc[d] = "starting" \/ host[d] = s
        /\ IsRecord(clientFile) => clientFile.session = s

\* While a client is connected, the server's record is of no other run.
ClientInTurn ==
    \A c \in Clients : ClientRunning(c) /\ host[c] \in Servers =>
        (IsRecord(serverFile) => serverFile.session = host[c])

\* Two complete records are of one session.
SameSession ==
    IsRecord(serverFile) /\ IsRecord(clientFile) =>
        serverFile.session = clientFile.session

\* What holds when runs of one side follow one another.
InTurn ==
    /\ Sole
    /\ NoFallback
    /\ ServerInTurn
    /\ ClientInTurn
    /\ SameSession

\* A step never changes the session material a run has derived, nor anything that
\* the run's record is made of.
Settled ==
    /\ \A s \in Servers : serverKey[s] # NoKey =>
           serverKey'[s] = serverKey[s] /\ ServerRecord(s)' = ServerRecord(s)
    /\ \A c \in Clients : clientKey[c] # NoKey =>
           clientKey'[c] = clientKey[c] /\ ClientRecord(c)' = ClientRecord(c)

\* What every step does, whatever it does to the files.
Kept ==
    /\ TypeOK'
    /\ Profiled' /\ PortHeld' /\ Hosted' /\ Served' /\ Sent'
    /\ ClientDerived' /\ ServerDerived'
    /\ Settled

------------------------------------------------------------------------------
(* Types of what the actions build                                         *)

\* Every message the runs send is of a declared type.
LEMMA MessageTypes ==
    ASSUME NEW s \in Servers, NEW c \in Clients
    PROVE  /\ Material(s, c) \in Materials
           /\ Offer(s) \in Offers
           /\ Response(c, s) \in Responses
           /\ Final(s, c) \in Finals
  BY DEF Material, Materials, Offer, Offers, Response, Responses, Final, Finals

\* Leaving the listening socket's queue, and joining it while it has a place,
\* respects its bound.
LEMMA BacklogTypes ==
    ASSUME TypeOK, HandshakeAssumption
    PROVE  /\ IsFiniteSet({}) /\ Cardinality({}) <= Backlog
           /\ \A c \in backlog : /\ IsFiniteSet(backlog \ {c})
                                 /\ Cardinality(backlog \ {c}) <= Backlog
           /\ \A c \in Clients : Cardinality(backlog) < Backlog
                 => /\ IsFiniteSet(backlog \union {c})
                    /\ Cardinality(backlog \union {c}) <= Backlog
  <1> USE DEF TypeOK, HandshakeAssumption
  <1>0. Cardinality(backlog) \in Nat
    BY FS_CardinalityType
  <1>1. IsFiniteSet({}) /\ Cardinality({}) <= Backlog
    BY FS_EmptySet
  <1>2. ASSUME NEW c \in backlog
        PROVE  IsFiniteSet(backlog \ {c}) /\ Cardinality(backlog \ {c}) <= Backlog
    <2>1. Cardinality(backlog \ {c}) = Cardinality(backlog) - 1
      BY FS_RemoveElement
    <2> QED
      BY <1>0, <2>1, FS_RemoveElement
  <1>3. ASSUME NEW c \in Clients, Cardinality(backlog) < Backlog
        PROVE  /\ IsFiniteSet(backlog \union {c})
               /\ Cardinality(backlog \union {c}) <= Backlog
    <2>1. Cardinality(backlog \union {c}) \in {Cardinality(backlog), Cardinality(backlog) + 1}
      BY FS_AddElement
    <2> QED
      BY <1>0, <1>3, <2>1, FS_AddElement
  <1> QED
    BY <1>1, <1>2, <1>3

------------------------------------------------------------------------------
(* Every action keeps the links                                            *)

\* A server run starts.
LEMMA ServerStartStep ==
    ASSUME TypeOK, Links, NEW s \in Servers, NEW prof \in ServerProfiles,
        ServerStart(s, prof)
    PROVE  Kept
  <1> USE HandshakeAssumption DEF TypeOK, Links, ServerStart, serverVars,
      clientVars, wires, files
  <1>1. TypeOK'
    BY DEF Files
  <1>2. Profiled'
    BY DEF Profiled
  <1>3. PortHeld'
    BY DEF PortHeld
  <1>4. Hosted'
    BY DEF Hosted
  <1>5. Served'
    BY DEF Served
  <1>6. Sent'
    BY DEF Sent
  <1>7. ClientDerived'
    BY DEF ClientDerived, Hosted, AcceptsOffer, Offer
  <1>8. ServerDerived'
    BY DEF ServerDerived, Served, Compatible
  <1>9. Settled
    BY DEF Settled, Hosted, Served, ServerRecord, ClientRecord
  <1> QED
    BY <1>1, <1>2, <1>3, <1>4, <1>5, <1>6, <1>7, <1>8, <1>9 DEF Kept

\* A server run listens: nothing was queued while nobody held the port.
LEMMA ServerListenStep ==
    ASSUME TypeOK, Links, NEW s \in Servers, ServerListen(s)
    PROVE  Kept
  <1> USE HandshakeAssumption DEF TypeOK, Links, ServerListen, serverVars,
      clientVars, wires, files
  <1>1. TypeOK'
    OBVIOUS
  <1>2. Profiled'
    BY DEF Profiled
  <1>3. PortHeld'
    BY DEF PortHeld
  <1>4. Hosted'
    BY DEF Hosted
  <1>5. Served'
    BY DEF Served
  <1>6. Sent'
    BY DEF Sent
  <1>7. ClientDerived'
    BY DEF ClientDerived, AcceptsOffer
  <1>8. ServerDerived'
    BY DEF ServerDerived, Compatible
  <1>9. Settled
    BY DEF Settled, ServerRecord, ClientRecord
  <1> QED
    BY <1>1, <1>2, <1>3, <1>4, <1>5, <1>6, <1>7, <1>8, <1>9 DEF Kept

\* A server run accepts a client, which was connected to it.
LEMMA ServerAcceptStep ==
    ASSUME TypeOK, Links, NEW s \in Servers, NEW c \in Clients, ServerAccept(s, c)
    PROVE  Kept
  <1> USE HandshakeAssumption DEF TypeOK, Links, ServerAccept, serverVars,
      clientVars, wires, files
  <1>1. TypeOK'
    BY BacklogTypes, MessageTypes
  <1>2. Profiled'
    BY DEF Profiled
  <1>3. PortHeld'
    BY DEF PortHeld
  <1>4. Hosted'
    BY DEF Hosted
  <1>5. Served'
    BY DEF Served, Hosted, PortHeld
  <1>6. Sent'
    <2>1. serverPc[s] = "listening" /\ port = s /\ host[c] = s
      BY DEF PortHeld, Hosted
    <2>2. peer[s] = NoClient /\ peer' = [peer EXCEPT ![s] = c]
      BY DEF Served
    <2>3. ASSUME NEW d \in Clients, toClient'[d] # NoMessage
          PROVE  /\ host[d] \in Servers
                 /\ peer'[host[d]] = d
                 /\ \/ toClient'[d] = Offer(host[d])
                    \/ /\ toClient'[d] = Final(host[d], d)
                       /\ serverKey[host[d]] = Material(host[d], d)
      <3>1. CASE d = c
        BY <2>1, <3>1
      <3>2. CASE d # c
        <4>1. toClient[d] # NoMessage
          BY <2>3, <3>2
        <4> QED
          BY <2>2, <3>2, <4>1 DEF Sent
      <3> QED
        BY <3>1, <3>2
    <2>4. ASSUME NEW r \in Servers, toServer[r] # NoMessage
          PROVE  /\ peer'[r] \in Clients
                 /\ toServer[r] = Response(peer'[r], r)
                 /\ clientKey[peer'[r]] = Material(r, peer'[r])
      BY <2>2, <2>4 DEF Sent
    <2> QED
      BY <2>3, <2>4 DEF Sent
  <1>7. ClientDerived'
    BY DEF ClientDerived, AcceptsOffer
  <1>8. ServerDerived'
    BY DEF ServerDerived, Served, Compatible
  <1>9. Settled
    BY DEF Settled, Served, ServerRecord, ClientRecord
  <1> QED
    BY <1>1, <1>2, <1>3, <1>4, <1>5, <1>6, <1>7, <1>8, <1>9 DEF Kept

\* A server run derives a session from the response of the client it accepted.
LEMMA ServerConfirmStep ==
    ASSUME TypeOK, Links, NEW s \in Servers, ServerConfirm(s)
    PROVE  Kept
  <1> USE HandshakeAssumption DEF TypeOK, Links, ServerConfirm, ServerReads,
      AcceptsResponse, serverVars, clientVars, wires, files
  <1>1. TypeOK'
    BY MessageTypes DEF Sent
  <1>2. Profiled'
    BY DEF Profiled
  <1>3. PortHeld'
    BY DEF PortHeld
  <1>4. Hosted'
    BY DEF Hosted
  <1>5. Served'
    BY DEF Served
  <1>6. Sent'
    BY DEF Sent, Served
  <1>7. ClientDerived'
    BY DEF ClientDerived, ServerDerived, AcceptsOffer
  <1>8. ServerDerived'
    BY DEF ServerDerived, ClientDerived, Served, Sent, Compatible, AcceptsOffer,
        Offer, Response, Material
  <1>9. Settled
    BY DEF Settled, ServerDerived, ServerRecord, ClientRecord
  <1> QED
    BY <1>1, <1>2, <1>3, <1>4, <1>5, <1>6, <1>7, <1>8, <1>9 DEF Kept

\* A server run ends, however it ends, whatever it leaves on disk.
LEMMA ServerEndingStep ==
    ASSUME TypeOK, Links, NEW s \in Servers, NEW pc \in {"done", "failed", "stopped"},
        serverPc[s] # "idle", ServerEnds(s, pc),
        UNCHANGED <<peer, serverKey, clientVars, wires, clientFile>>,
        activated' \subseteq Servers, serverFile' \in Files
    PROVE  Kept
  <1> USE HandshakeAssumption DEF TypeOK, Links, ServerEnds, serverVars,
      clientVars, wires, files
  <1>1. TypeOK'
    BY BacklogTypes
  <1>2. Profiled'
    BY DEF Profiled
  <1>3. PortHeld'
    BY DEF PortHeld
  <1>4. Hosted'
    BY DEF Hosted
  <1>5. Served'
    BY DEF Served
  <1>6. Sent'
    BY DEF Sent
  <1>7. ClientDerived'
    BY DEF ClientDerived, AcceptsOffer
  <1>8. ServerDerived'
    BY DEF ServerDerived, Compatible
  <1>9. Settled
    BY DEF Settled, ServerRecord, ClientRecord
  <1> QED
    BY <1>1, <1>2, <1>3, <1>4, <1>5, <1>6, <1>7, <1>8, <1>9 DEF Kept

\* A client run starts.
LEMMA ClientStartStep ==
    ASSUME TypeOK, Links, NEW c \in Clients, NEW prof \in ClientProfiles,
        ClientStart(c, prof)
    PROVE  Kept
  <1> USE HandshakeAssumption DEF TypeOK, Links, ClientStart, serverVars,
      clientVars, wires, files
  <1>1. TypeOK'
    BY DEF Files
  <1>2. Profiled'
    BY DEF Profiled
  <1>3. PortHeld'
    BY DEF PortHeld
  <1>4. Hosted'
    BY DEF Hosted
  <1>5. Served'
    BY DEF Served
  <1>6. Sent'
    BY DEF Sent
  <1>7. ClientDerived'
    BY DEF ClientDerived, Hosted, AcceptsOffer
  <1>8. ServerDerived'
    BY DEF ServerDerived, Hosted, Compatible
  <1>9. Settled
    BY DEF Settled, Hosted, Served, ServerRecord, ClientRecord
  <1> QED
    BY <1>1, <1>2, <1>3, <1>4, <1>5, <1>6, <1>7, <1>8, <1>9 DEF Kept

\* A client run connects to the run that holds the port.
LEMMA ClientConnectStep ==
    ASSUME TypeOK, Links, NEW c \in Clients, ClientConnect(c)
    PROVE  Kept
  <1> USE HandshakeAssumption DEF TypeOK, Links, ClientConnect, ClientMoves,
      serverVars, clientVars, wires, files
  <1>1. TypeOK'
    BY BacklogTypes
  <1>2. Profiled'
    BY DEF Profiled
  <1>3. PortHeld'
    BY DEF PortHeld
  <1>4. Hosted'
    BY DEF Hosted, PortHeld
  <1>5. Served'
    BY DEF Served, Hosted
  <1>6. Sent'
    <2>1. host[c] = NoServer /\ host' = [host EXCEPT ![c] = port]
      BY DEF Hosted
    <2>2. toClient[c] = NoMessage
      BY <2>1 DEF Sent
    <2>3. ASSUME NEW d \in Clients, toClient[d] # NoMessage
          PROVE  /\ host'[d] \in Servers
                 /\ peer[host'[d]] = d
                 /\ \/ toClient[d] = Offer(host'[d])
                    \/ /\ toClient[d] = Final(host'[d], d)
                       /\ serverKey[host'[d]] = Material(host'[d], d)
      BY <2>2, <2>3 DEF Sent
    <2> QED
      BY <2>3 DEF Sent
  <1>7. ClientDerived'
    BY DEF ClientDerived, Hosted, AcceptsOffer
  <1>8. ServerDerived'
    BY DEF ServerDerived, Compatible
  <1>9. Settled
    BY DEF Settled, Hosted, ServerRecord, ClientRecord
  <1> QED
    BY <1>1, <1>2, <1>3, <1>4, <1>5, <1>6, <1>7, <1>8, <1>9 DEF Kept

\* A client run derives a session from the offer of the server it connected to.
LEMMA ClientRespondStep ==
    ASSUME TypeOK, Links, NEW c \in Clients, ClientRespond(c)
    PROVE  Kept
  <1> USE HandshakeAssumption DEF TypeOK, Links, ClientRespond, ClientMoves,
      ClientReads, ClientAccepts, serverVars, clientVars, wires, files
  <1>1. TypeOK'
    BY MessageTypes DEF Hosted
  <1>2. Profiled'
    BY DEF Profiled
  <1>3. PortHeld'
    BY DEF PortHeld
  <1>4. Hosted'
    BY DEF Hosted
  <1>5. Served'
    BY DEF Served
  <1>6. Sent'
    BY DEF Sent, ServerDerived, ClientDerived, Material
  <1>7. ClientDerived'
    BY DEF ClientDerived, Sent, AcceptsOffer, Final, Material
  <1>8. ServerDerived'
    BY DEF ServerDerived, Served, Compatible
  <1>9. Settled
    BY DEF Settled, ClientDerived, ServerRecord, ClientRecord
  <1> QED
    BY <1>1, <1>2, <1>3, <1>4, <1>5, <1>6, <1>7, <1>8, <1>9 DEF Kept

\* A client run checks the final message: its server has derived the session.
LEMMA ClientConfirmStep ==
    ASSUME TypeOK, Links, NEW c \in Clients, ClientConfirm(c)
    PROVE  Kept
  <1> USE HandshakeAssumption DEF TypeOK, Links, ClientConfirm, ClientMoves,
      ClientReads, ClientAccepts, AcceptsFinal, serverVars, clientVars, wires,
      files
  <1>1. TypeOK'
    OBVIOUS
  <1>2. Profiled'
    BY DEF Profiled
  <1>3. PortHeld'
    BY DEF PortHeld
  <1>4. Hosted'
    BY DEF Hosted
  <1>5. Served'
    BY DEF Served
  <1>6. Sent'
    BY DEF Sent
  <1>7. ClientDerived'
    BY DEF ClientDerived, Sent, AcceptsOffer
  <1>8. ServerDerived'
    BY DEF ServerDerived, Compatible
  <1>9. Settled
    BY DEF Settled, ServerRecord, ClientRecord
  <1> QED
    BY <1>1, <1>2, <1>3, <1>4, <1>5, <1>6, <1>7, <1>8, <1>9 DEF Kept

\* A client run ends, however it ends, whatever it leaves on disk.
LEMMA ClientEndingStep ==
    ASSUME TypeOK, Links, NEW c \in Clients, NEW pc \in {"done", "failed", "stopped"},
        clientPc[c] # "idle", ClientMoves(c, pc),
        UNCHANGED <<host, clientKey, serverVars, wires, serverFile, activated>>,
        clientFile' \in Files
    PROVE  Kept
  <1> USE HandshakeAssumption DEF TypeOK, Links, ClientMoves, serverVars,
      clientVars, wires, files
  <1>1. TypeOK'
    OBVIOUS
  <1>2. Profiled'
    BY DEF Profiled
  <1>3. PortHeld'
    BY DEF PortHeld
  <1>4. Hosted'
    BY DEF Hosted
  <1>5. Served'
    BY DEF Served
  <1>6. Sent'
    BY DEF Sent
  <1>7. ClientDerived'
    BY DEF ClientDerived, AcceptsOffer
  <1>8. ServerDerived'
    BY DEF ServerDerived, Compatible
  <1>9. Settled
    BY DEF Settled, ServerRecord, ClientRecord
  <1> QED
    BY <1>1, <1>2, <1>3, <1>4, <1>5, <1>6, <1>7, <1>8, <1>9 DEF Kept

\* A connection goes silent.
LEMMA CutConnectionStep ==
    ASSUME TypeOK, Links, NEW c \in Clients, CutConnection(c)
    PROVE  Kept
  <1> USE HandshakeAssumption DEF TypeOK, Links, CutConnection, serverVars,
      clientVars, wires, files
  <1>1. TypeOK'
    OBVIOUS
  <1>2. Profiled'
    BY DEF Profiled
  <1>3. PortHeld'
    BY DEF PortHeld
  <1>4. Hosted'
    BY DEF Hosted
  <1>5. Served'
    BY DEF Served
  <1>6. Sent'
    BY DEF Sent
  <1>7. ClientDerived'
    BY DEF ClientDerived, AcceptsOffer
  <1>8. ServerDerived'
    BY DEF ServerDerived, Compatible
  <1>9. Settled
    BY DEF Settled, ServerRecord, ClientRecord
  <1> QED
    BY <1>1, <1>2, <1>3, <1>4, <1>5, <1>6, <1>7, <1>8, <1>9 DEF Kept

------------------------------------------------------------------------------
(* Records                                                                 *)

\* The record of a server run that has derived a session is well-typed and of an
\* admitted session.
LEMMA ServerRecordAdmitted ==
    ASSUME TypeOK, Links, NEW s \in Servers, serverKey[s] # NoKey
    PROVE  ServerRecord(s) \in Records /\ Admitted(ServerRecord(s))
  <1> DEFINE c == peer[s]
  <1>1. /\ c \in Clients
        /\ serverKey[s] = Material(s, c)
        /\ clientKey[c] = Material(s, c)
        /\ Compatible(s, c)
        /\ Material(s, c) \in Materials
    BY MessageTypes DEF Links, ServerDerived
  <1>2. host[c] = s
    BY <1>1 DEF Links, Served
  <1>3. serverPc[s] # "idle" /\ clientPc[c] # "idle"
    BY <1>1, <1>2, HandshakeAssumption DEF Links, Served, Hosted
  <1>4. serverProfile[s] \in ServerProfiles /\ clientProfile[c] \in ClientProfiles
    BY <1>1, <1>3 DEF Links, Profiled
  <1>5. ServerRecord(s) \in Records
    BY <1>1, <1>4 DEF ServerRecord, Records
  <1>6. Admitted(ServerRecord(s))
    BY <1>1 DEF ServerRecord, Admitted, Material, Compatible
  <1> QED
    BY <1>5, <1>6

\* A client run whose session its server has derived too: the two records agree.
LEMMA RecordsAgree ==
    ASSUME TypeOK, Links, NEW c \in Clients, clientKey[c] # NoKey,
           serverKey[host[c]] = Material(host[c], c)
    PROVE  /\ host[c] \in Servers
           /\ serverKey[host[c]] # NoKey
           /\ ClientRecord(c) = ServerRecord(host[c])
  <1> DEFINE s == host[c]
  <1>1. s \in Servers /\ clientKey[c] = Material(s, c)
    BY DEF Links, ClientDerived
  <1>2. serverKey[s] # NoKey
    BY <1>1, MessageTypes, HandshakeAssumption DEF Materials
  <1>3. peer[s] \in Clients /\ Material(s, peer[s]) = Material(s, c)
    BY <1>1, <1>2 DEF Links, ServerDerived
  <1>4. peer[s] = c
    BY <1>3 DEF Material
  <1>5. Compatible(s, c)
    BY <1>1, <1>2, <1>4 DEF Links, ServerDerived
  <1>6. ClientRecord(c) = ServerRecord(s)
    BY <1>1, <1>4, <1>5 DEF ClientRecord, ServerRecord, Compatible
  <1> QED
    BY <1>1, <1>2, <1>6

\* What the action does to a file leaves Stored true.
LEMMA StoredKept ==
    ASSUME TypeOK, Links, Kept,
           \/ serverFile' = serverFile
           \/ ~IsRecord(serverFile')
           \/ \E s \in Servers : serverKey'[s] # NoKey /\ serverFile' = ServerRecord(s)',
           \/ clientFile' = clientFile
           \/ ~IsRecord(clientFile')
           \/ \E c \in Clients : /\ clientKey'[c] # NoKey
                                 /\ clientFile' = ClientRecord(c)'
                                 /\ serverKey'[host'[c]] = Material(host'[c], c)
    PROVE  Stored'
  <1>1. IsRecord(serverFile') =>
            \E s \in Servers : serverKey'[s] # NoKey /\ serverFile' = ServerRecord(s)'
    <2>1. CASE serverFile' = serverFile /\ IsRecord(serverFile)
      <3>1. PICK s \in Servers : serverKey[s] # NoKey /\ serverFile = ServerRecord(s)
        BY <2>1 DEF Links, Stored
      <3> QED
        BY <2>1, <3>1 DEF Kept, Settled
    <2> QED
      BY <2>1 DEF IsRecord
  <1>2. IsRecord(clientFile') =>
            \E c \in Clients : /\ clientKey'[c] # NoKey
                               /\ clientFile' = ClientRecord(c)'
                               /\ serverKey'[host'[c]] = Material(host'[c], c)
    <2>1. CASE clientFile' = clientFile /\ IsRecord(clientFile)
      <3>1. PICK c \in Clients :
                /\ clientKey[c] # NoKey
                /\ clientFile = ClientRecord(c)
                /\ serverKey[host[c]] = Material(host[c], c)
        BY <2>1 DEF Links, Stored
      <3>2. /\ clientKey'[c] = clientKey[c]
            /\ ClientRecord(c)' = ClientRecord(c)
        BY <3>1 DEF Kept, Settled
      <3>3. host'[c] = host[c]
        BY <3>2 DEF ClientRecord
      <3>4. host[c] \in Servers /\ serverKey[host[c]] # NoKey
        BY <3>1, RecordsAgree
      <3>5. serverKey'[host[c]] = serverKey[host[c]]
        BY <3>4 DEF Kept, Settled
      <3> QED
        BY <2>1, <3>1, <3>2, <3>3, <3>5
    <2> QED
      BY <2>1 DEF IsRecord
  <1> QED
    BY <1>1, <1>2 DEF Stored, IsRecord, ServerRecord, ClientRecord, Material

------------------------------------------------------------------------------
(* The invariant Links                                                     *)

\* Initially every variable is in its range.
LEMMA TypeInit == Init => TypeOK
  BY HandshakeAssumption, FS_EmptySet DEF Init, TypeOK, Files

\* Initially no run has started and nothing is linked.
LEMMA LinksInit == Init => Links
  BY HandshakeAssumption
  DEF Init, Links, Profiled, PortHeld, Hosted, Served, Sent, ClientDerived,
      ServerDerived, Stored, IsRecord

\* Every step of the system keeps types and links, and settles what was derived.
LEMMA LinksNext ==
    ASSUME TypeOK, Links, [Next]_vars
    PROVE  TypeOK' /\ Links' /\ Settled
  <1>1. SUFFICES Kept /\ Stored'
    BY DEF Kept, Links
  <1>2. ASSUME NEW s \in Servers, NEW prof \in ServerProfiles, ServerStart(s, prof)
        PROVE  Kept /\ Stored'
    BY <1>2, ServerStartStep, StoredKept DEF ServerStart, IsRecord
  <1>3. ASSUME NEW s \in Servers, ServerListen(s) PROVE Kept /\ Stored'
    BY <1>3, ServerListenStep, StoredKept DEF ServerListen, files
  <1>4. ASSUME NEW s \in Servers, NEW c \in Clients, ServerAccept(s, c)
        PROVE  Kept /\ Stored'
    BY <1>4, ServerAcceptStep, StoredKept DEF ServerAccept, files
  <1>5. ASSUME NEW s \in Servers, ServerConfirm(s) PROVE Kept /\ Stored'
    BY <1>5, ServerConfirmStep, StoredKept DEF ServerConfirm, files
  <1>6. ASSUME NEW s \in Servers, serverPc[s] # "idle",
               NEW pc \in {"failed", "stopped"}, ServerFails(s, pc)
        PROVE  Kept /\ Stored'
    <2>1. /\ ServerEnds(s, pc)
          /\ UNCHANGED <<peer, serverKey, clientVars, wires, clientFile>>
          /\ activated' \subseteq Servers
          /\ serverFile' \in Files
          /\ serverFile' = serverFile
      BY <1>6 DEF ServerFails, files, TypeOK
    <2> QED
      BY <1>6, <2>1, ServerEndingStep, StoredKept
  <1>7. ASSUME NEW s \in Servers, ServerStore(s) PROVE Kept /\ Stored'
    <2>1. serverKey[s] # NoKey /\ serverPc[s] # "idle"
      BY <1>7 DEF ServerStore, Links, ServerDerived
    <2>2. /\ ServerEnds(s, "done")
          /\ UNCHANGED <<peer, serverKey, clientVars, wires, clientFile>>
          /\ activated' \subseteq Servers
          /\ serverFile' = ServerRecord(s)
      BY <1>7 DEF ServerStore, TypeOK
    <2>3. serverFile' \in Files
      BY <2>1, <2>2, ServerRecordAdmitted DEF Files
    <2>4. Kept
      BY <2>1, <2>2, <2>3, ServerEndingStep
    <2>5. serverKey'[s] # NoKey /\ serverFile' = ServerRecord(s)'
      BY <2>1, <2>2, <2>4 DEF Kept, Settled
    <2> QED
      BY <2>2, <2>4, <2>5, StoredKept
  <1>8. ASSUME NEW s \in Servers, ServerCrash(s) PROVE Kept /\ Stored'
    <2>1. /\ serverPc[s] # "idle"
          /\ ServerEnds(s, "stopped")
          /\ UNCHANGED <<peer, serverKey, clientVars, wires, clientFile>>
          /\ activated' \subseteq Servers
          /\ serverFile' \in {serverFile, TornRecord}
      BY <1>8 DEF ServerCrash, ServerRunning, TypeOK
    <2>2. Kept
      BY <2>1, ServerEndingStep DEF TypeOK, Files
    <2> QED
      BY <2>1, <2>2, StoredKept DEF IsRecord
  <1>9. ASSUME NEW c \in Clients, NEW prof \in ClientProfiles, ClientStart(c, prof)
        PROVE  Kept /\ Stored'
    BY <1>9, ClientStartStep, StoredKept DEF ClientStart, IsRecord
  <1>10. ASSUME NEW c \in Clients, ClientConnect(c) PROVE Kept /\ Stored'
    BY <1>10, ClientConnectStep, StoredKept DEF ClientConnect, files
  <1>11. ASSUME NEW c \in Clients, ClientRespond(c) PROVE Kept /\ Stored'
    BY <1>11, ClientRespondStep, StoredKept DEF ClientRespond, files
  <1>12. ASSUME NEW c \in Clients, ClientConfirm(c) PROVE Kept /\ Stored'
    BY <1>12, ClientConfirmStep, StoredKept DEF ClientConfirm, files
  <1>13. ASSUME NEW c \in Clients, clientPc[c] # "idle",
                NEW pc \in {"failed", "stopped"}, ClientFails(c, pc)
         PROVE  Kept /\ Stored'
    <2>1. /\ ClientMoves(c, pc)
          /\ UNCHANGED <<host, clientKey, serverVars, wires, serverFile, activated>>
          /\ clientFile' \in Files
          /\ clientFile' = clientFile
          /\ serverFile' = serverFile
      BY <1>13 DEF ClientFails, files, TypeOK
    <2> QED
      BY <1>13, <2>1, ClientEndingStep, StoredKept
  <1>14. ASSUME NEW c \in Clients, ClientStore(c) PROVE Kept /\ Stored'
    <2>1. /\ clientKey[c] # NoKey
          /\ serverKey[host[c]] = Material(host[c], c)
          /\ clientPc[c] # "idle"
      BY <1>14 DEF ClientStore, Links, ClientDerived
    <2>2. /\ ClientMoves(c, "done")
          /\ UNCHANGED <<host, clientKey, serverVars, wires, serverFile, activated>>
          /\ serverFile' = serverFile
          /\ serverKey' = serverKey
          /\ clientFile' = ClientRecord(c)
      BY <1>14 DEF ClientStore, serverVars
    <2>3. clientFile' \in Files
      BY <2>1, <2>2, RecordsAgree, ServerRecordAdmitted DEF Files
    <2>4. Kept
      BY <2>1, <2>2, <2>3, ClientEndingStep
    <2>5. clientKey'[c] # NoKey /\ clientFile' = ClientRecord(c)'
      BY <2>1, <2>2, <2>4 DEF Kept, Settled
    <2>6. host'[c] = host[c] /\ serverKey'[host'[c]] = Material(host'[c], c)
      BY <2>1, <2>2
    <2> QED
      BY <2>2, <2>4, <2>5, <2>6, StoredKept
  <1>15. ASSUME NEW c \in Clients, ClientCrash(c) PROVE Kept /\ Stored'
    <2>1. /\ clientPc[c] # "idle"
          /\ ClientMoves(c, "stopped")
          /\ UNCHANGED <<host, clientKey, serverVars, wires, serverFile, activated>>
          /\ serverFile' = serverFile
          /\ clientFile' \in {clientFile, TornRecord}
      BY <1>15 DEF ClientCrash, ClientRunning
    <2>2. Kept
      BY <2>1, ClientEndingStep DEF TypeOK, Files
    <2> QED
      BY <2>1, <2>2, StoredKept DEF IsRecord
  <1>16. ASSUME NEW c \in Clients, CutConnection(c) PROVE Kept /\ Stored'
    BY <1>16, CutConnectionStep, StoredKept DEF CutConnection, files
  <1>17. ASSUME NEW s \in Servers, ServerStep(s) PROVE Kept /\ Stored'
    <2>1. ASSUME ServerBindFails(s) \/ ServerReject(s) \/ ServerSendFails(s)
                   \/ ServerHangup(s) \/ ServerTimeout(s)
          PROVE  /\ serverPc[s] # "idle"
                 /\ \E pc \in {"failed", "stopped"} : ServerFails(s, pc)
      BY <2>1
      DEF ServerBindFails, ServerReject, ServerSendFails, ServerHangup,
          ServerTimeout, ServerReads
    <2> QED
      BY <1>3, <1>4, <1>5, <1>6, <1>7, <1>17, <2>1 DEF ServerStep
  <1>18. ASSUME NEW c \in Clients, ClientStep(c) PROVE Kept /\ Stored'
    <2>1. ASSUME ClientRefused(c) \/ ClientReject(c) \/ ClientHangup(c)
                   \/ ClientTimeout(c)
          PROVE  /\ clientPc[c] # "idle"
                 /\ \E pc \in {"failed", "stopped"} : ClientFails(c, pc)
      BY <2>1
      DEF ClientRefused, ClientReject, ClientHangup, ClientTimeout, ClientReads
    <2> QED
      BY <1>10, <1>11, <1>12, <1>13, <1>14, <1>18, <2>1 DEF ClientStep
  <1>19. CASE UNCHANGED vars
    <2> USE <1>19 DEF vars, serverVars, clientVars, wires, files
    <2>1. TypeOK'
      BY DEF TypeOK
    <2>2. Links'
      BY DEF Links, Profiled, PortHeld, Hosted, Served, Sent, ClientDerived,
          ServerDerived, Stored, ServerRecord, ClientRecord, AcceptsOffer, Compatible
    <2>3. Settled
      BY DEF Settled, ServerRecord, ClientRecord
    <2> QED
      BY <2>1, <2>2, <2>3 DEF Kept, Links
  <1> QED
    BY <1>2, <1>8, <1>9, <1>15, <1>16, <1>17, <1>18, <1>19
    DEF Next, Server, Client

\* Types and links hold in every reachable state.
THEOREM LinksCorrect == Spec => [](TypeOK /\ Links)
  <1>1. Init => TypeOK /\ Links
    BY TypeInit, LinksInit
  <1>2. TypeOK /\ Links /\ [Next]_vars => (TypeOK /\ Links)'
    BY LinksNext
  <1> QED
    BY <1>1, <1>2, PTL DEF Spec

\* Every variable stays in its range; the listening socket never queues more
\* connections than its bound.
THEOREM TypeCorrect == Spec => []TypeOK
  BY LinksCorrect, PTL

\* A record on either side is of a session that both runs derived, with a member
\* the server admits, however runs are configured, overlap, crash or hang.
THEOREM RecordsAdmittedCorrect == Spec => []RecordsAdmitted
  <1>1. TypeOK /\ Links => RecordsAdmitted
    <2> SUFFICES ASSUME TypeOK, Links,
                        NEW r \in {serverFile, clientFile}, IsRecord(r)
                 PROVE  Admitted(r)
      BY DEF RecordsAdmitted
    <2>1. CASE r = serverFile
      BY <2>1, ServerRecordAdmitted DEF Links, Stored
    <2>2. CASE r = clientFile
      BY <2>2, RecordsAgree, ServerRecordAdmitted DEF Links, Stored
    <2> QED
      BY <2>1, <2>2
  <1> QED
    BY <1>1, LinksCorrect, PTL

------------------------------------------------------------------------------
(* Runs of one side in turn                                                *)

\* Two records of one session are the same record.
LEMMA SameSessionSameRecord ==
    ASSUME TypeOK, Links, SameSession
    PROVE  PairedRecords
  <1> SUFFICES ASSUME IsRecord(serverFile), IsRecord(clientFile)
               PROVE  serverFile = clientFile
    BY DEF PairedRecords
  <1>1. PICK s \in Servers : serverKey[s] # NoKey /\ serverFile = ServerRecord(s)
    BY DEF Links, Stored
  <1>2. PICK c \in Clients :
            /\ clientKey[c] # NoKey
            /\ clientFile = ClientRecord(c)
            /\ serverKey[host[c]] = Material(host[c], c)
    BY DEF Links, Stored
  <1>3. s = host[c]
    BY <1>1, <1>2 DEF SameSession, ServerRecord, ClientRecord
  <1> QED
    BY <1>1, <1>2, <1>3, RecordsAgree

\* Initially no run is running and no record exists.
LEMMA InTurnInit == Init => InTurn
  BY HandshakeAssumption
  DEF Init, InTurn, Sole, NoFallback, ServerInTurn, ClientInTurn, SameSession,
      ServerRunning, ClientRunning, IsRecord

\* A server run that starts finds no other running, and removes the old record.
LEMMA ServerStartInTurn ==
    ASSUME TypeOK, Links, InTurn, Overlap = FALSE, NEW s \in Servers,
           NEW prof \in ServerProfiles, ServerStart(s, prof)
    PROVE  InTurn'
  <1>1. \A c \in Clients : host[c] # s
    BY DEF Links, Hosted, ServerStart
  <1> QED
    BY <1>1
    DEF InTurn, Sole, NoFallback, ServerInTurn, ClientInTurn, SameSession, TypeOK,
        ServerRunning, ClientRunning, IsRecord, ServerStart, clientVars

\* A run of the server that goes on, or ends without storing, brings no record.
LEMMA ServerMovesInTurn ==
    ASSUME TypeOK, Links, InTurn, NEW s \in Servers, ServerRunning(s),
           NEW pc, serverPc' = [serverPc EXCEPT ![s] = pc],
           UNCHANGED <<clientPc, host, clientFile>>,
           serverFile' = serverFile \/ ~IsRecord(serverFile')
    PROVE  InTurn'
  BY DEF InTurn, Sole, NoFallback, ServerInTurn, ClientInTurn, SameSession, TypeOK,
         ServerRunning, ClientRunning, IsRecord

\* A server run stores a session: the client it served was connected to it, so
\* nothing on the client's side belongs to another run.
LEMMA ServerStoreInTurn ==
    ASSUME TypeOK, Links, InTurn, NEW s \in Servers, ServerStore(s)
    PROVE  InTurn'
  <1>1. peer[s] \in Clients /\ host[peer[s]] = s
    BY DEF ServerStore, Links, Served
  <1>2. ServerRunning(s)
    BY DEF ServerStore, ServerRunning
  <1>3. serverFile'.session = s
    BY DEF ServerStore, ServerRecord
  <1>4. /\ serverPc' = [serverPc EXCEPT ![s] = "done"]
        /\ UNCHANGED <<clientPc, host, clientFile>>
    BY DEF ServerStore, ServerEnds, clientVars
  <1>5. IsRecord(clientFile) => clientFile.session = s
    BY <1>1, <1>2 DEF InTurn, ServerInTurn
  <1>6. \A c \in Clients : ClientRunning(c) /\ host[c] \in Servers => host[c] = s
    BY <1>1, <1>2, HandshakeAssumption DEF InTurn, ServerInTurn, Links, Hosted
  <1>7. \A r \in Servers : ~ServerRunning(r)'
    BY <1>2, <1>4 DEF InTurn, Sole, TypeOK, ServerRunning
  <1>8. Sole' /\ NoFallback'
    BY <1>4, <1>7
    DEF InTurn, Sole, NoFallback, ClientRunning, IsRecord
  <1>9. ServerInTurn' /\ ClientInTurn' /\ SameSession'
    BY <1>3, <1>4, <1>5, <1>6, <1>7
    DEF ServerInTurn, ClientInTurn, SameSession, ClientRunning, IsRecord
  <1> QED
    BY <1>8, <1>9 DEF InTurn

\* A client run that starts finds no other running, and removes the old record.
LEMMA ClientStartInTurn ==
    ASSUME TypeOK, Links, InTurn, Overlap = FALSE, NEW c \in Clients,
           NEW prof \in ClientProfiles, ClientStart(c, prof)
    PROVE  InTurn'
  <1>1. host[c] = NoServer
    BY DEF Links, Hosted, ClientStart
  <1> QED
    BY <1>1, HandshakeAssumption
    DEF InTurn, Sole, NoFallback, ServerInTurn, ClientInTurn, SameSession, TypeOK,
        ServerRunning, ClientRunning, IsRecord, ClientStart, serverVars

\* A client run connects to the running server run: both sides' records are gone.
LEMMA ClientConnectInTurn ==
    ASSUME TypeOK, Links, InTurn, NEW c \in Clients, ClientConnect(c)
    PROVE  InTurn'
  <1>1. ClientRunning(c) /\ port \in Servers /\ ServerRunning(port)
    BY DEF ClientConnect, ClientRunning, TypeOK, Links, PortHeld, ServerRunning
  <1>2. ~IsRecord(serverFile) /\ ~IsRecord(clientFile)
    BY <1>1 DEF InTurn, NoFallback
  <1>3. /\ clientPc' = [clientPc EXCEPT ![c] = "connected"]
        /\ host' = [host EXCEPT ![c] = port]
        /\ UNCHANGED <<serverPc, serverFile, clientFile>>
    BY DEF ClientConnect, ClientMoves, files
  <1>4. \A d \in Clients : ClientRunning(d) => d = c
    BY <1>1 DEF InTurn, Sole
  <1> QED
    BY <1>1, <1>2, <1>3, <1>4
    DEF InTurn, Sole, NoFallback, ServerInTurn, ClientInTurn, SameSession, TypeOK,
        ServerRunning, ClientRunning, IsRecord

\* A connected client run that goes on, or a run that ends without storing, brings
\* no record.
LEMMA ClientMovesInTurn ==
    ASSUME TypeOK, Links, InTurn, NEW c \in Clients, ClientRunning(c), NEW pc,
           clientPc[c] # "starting" \/ pc \in {"failed", "stopped"},
           clientPc' = [clientPc EXCEPT ![c] = pc],
           UNCHANGED <<serverPc, host, serverFile>>,
           clientFile' = clientFile \/ ~IsRecord(clientFile')
    PROVE  InTurn'
  BY DEF InTurn, Sole, NoFallback, ServerInTurn, ClientInTurn, SameSession, TypeOK,
         ServerRunning, ClientRunning, IsRecord

\* A client run stores a session: the server's record is of no other run.
LEMMA ClientStoreInTurn ==
    ASSUME TypeOK, Links, InTurn, NEW c \in Clients, ClientStore(c)
    PROVE  InTurn'
  <1>1. host[c] \in Servers /\ ClientRunning(c)
    BY DEF ClientStore, ClientRunning, Links, Hosted
  <1>2. clientFile'.session = host[c]
    BY DEF ClientStore, ClientRecord
  <1>3. /\ clientPc' = [clientPc EXCEPT ![c] = "done"]
        /\ UNCHANGED <<serverPc, host, serverFile>>
    BY DEF ClientStore, ClientMoves, serverVars
  <1>4. IsRecord(serverFile) => serverFile.session = host[c]
    BY <1>1 DEF InTurn, ClientInTurn
  <1>5. \A s \in Servers, d \in Clients :
            ServerRunning(s) /\ host[d] = s => host[c] = s
    BY <1>1 DEF ClientStore, InTurn, ServerInTurn
  <1>6. \A d \in Clients : ~ClientRunning(d)'
    BY <1>1, <1>3 DEF InTurn, Sole, TypeOK, ClientRunning
  <1>7. Sole' /\ NoFallback'
    BY <1>3, <1>6 DEF InTurn, Sole, NoFallback, ServerRunning, IsRecord
  <1>8. ServerInTurn' /\ ClientInTurn' /\ SameSession'
    BY <1>2, <1>3, <1>4, <1>5, <1>6
    DEF ServerInTurn, ClientInTurn, SameSession, ServerRunning, IsRecord
  <1> QED
    BY <1>7, <1>8 DEF InTurn

\* Every step keeps InTurn while runs of one side do not overlap.
LEMMA InTurnNext ==
    ASSUME TypeOK, Links, InTurn, Overlap = FALSE, [Next]_vars
    PROVE  InTurn'
  <1>1. ASSUME NEW s \in Servers, ServerStep(s) \/ ServerCrash(s) PROVE InTurn'
    <2>1. CASE ServerStore(s)
      BY <2>1, ServerStoreInTurn
    <2>2. CASE ServerCrash(s)
      <3>1. /\ serverPc' = [serverPc EXCEPT ![s] = "stopped"]
            /\ UNCHANGED <<clientPc, host, clientFile>>
            /\ ServerRunning(s)
            /\ serverFile' = serverFile \/ ~IsRecord(serverFile')
        BY <2>2 DEF ServerCrash, ServerEnds, clientVars, IsRecord
      <3> QED
        BY <3>1, ServerMovesInTurn
    <2>3. CASE /\ ~ServerStore(s)
               /\ ServerStep(s)
      <3>1. /\ \E pc : serverPc' = [serverPc EXCEPT ![s] = pc]
            /\ UNCHANGED <<clientPc, host, clientFile, serverFile>>
            /\ ServerRunning(s)
        BY <2>3
        DEF ServerStep, ServerListen, ServerBindFails, ServerAccept, ServerReject,
            ServerConfirm, ServerSendFails, ServerHangup, ServerTimeout, ServerReads,
            ServerFails, ServerEnds, ServerRunning, clientVars, files
      <3> QED
        BY <3>1, ServerMovesInTurn
    <2> QED
      BY <1>1, <2>1, <2>2, <2>3
  <1>2. ASSUME NEW c \in Clients, ClientStep(c) \/ ClientCrash(c) PROVE InTurn'
    <2>1. CASE ClientStore(c)
      BY <2>1, ClientStoreInTurn
    <2>2. CASE ClientConnect(c)
      BY <2>2, ClientConnectInTurn
    <2>3. CASE ClientCrash(c)
      <3>1. /\ clientPc' = [clientPc EXCEPT ![c] = "stopped"]
            /\ UNCHANGED <<serverPc, host, serverFile>>
            /\ ClientRunning(c)
            /\ clientFile' = clientFile \/ ~IsRecord(clientFile')
        BY <2>3 DEF ClientCrash, ClientMoves, serverVars, IsRecord
      <3> QED
        BY <3>1, ClientMovesInTurn
    <2>4. CASE /\ ~ClientStore(c)
               /\ ~ClientConnect(c)
               /\ ClientStep(c)
      <3>1. /\ \E pc : /\ clientPc' = [clientPc EXCEPT ![c] = pc]
                       /\ clientPc[c] # "starting" \/ pc \in {"failed", "stopped"}
            /\ UNCHANGED <<serverPc, host, clientFile, serverFile>>
            /\ ClientRunning(c)
        BY <2>4
        DEF ClientStep, ClientRefused, ClientReject, ClientRespond, ClientConfirm,
            ClientHangup, ClientTimeout, ClientReads, ClientFails, ClientMoves,
            ClientRunning, serverVars, files
      <3> QED
        BY <3>1, ClientMovesInTurn
    <2> QED
      BY <1>2, <2>1, <2>2, <2>3, <2>4
  <1>3. CASE (\E c \in Clients : CutConnection(c)) \/ UNCHANGED vars
    BY <1>3
    DEF CutConnection, vars, serverVars, clientVars, files, InTurn, Sole, NoFallback,
        ServerInTurn, ClientInTurn, SameSession, ServerRunning, ClientRunning, IsRecord
  <1> QED
    BY <1>1, <1>2, <1>3, ServerStartInTurn, ClientStartInTurn
    DEF Next, Server, Client

\* While runs of one side do not overlap, what InTurn says holds.
THEOREM InTurnCorrect ==
    ASSUME Overlap = FALSE
    PROVE  Spec => [](TypeOK /\ Links /\ InTurn)
  <1>1. Init => TypeOK /\ Links /\ InTurn
    BY TypeInit, LinksInit, InTurnInit
  <1>2. TypeOK /\ Links /\ InTurn /\ [Next]_vars => (TypeOK /\ Links /\ InTurn)'
    BY LinksNext, InTurnNext
  <1> QED
    BY <1>1, <1>2, PTL DEF Spec

\* No run of either side leaves its forwarder an old session while it negotiates.
THEOREM NoFallbackCorrect ==
    ASSUME Overlap = FALSE
    PROVE  Spec => []NoFallback
  <1>1. InTurn => NoFallback
    BY DEF InTurn
  <1> QED
    BY <1>1, InTurnCorrect, PTL

\* Two complete records are one record: the forwarders never hold two sessions.
THEOREM PairedRecordsCorrect ==
    ASSUME Overlap = FALSE
    PROVE  Spec => []PairedRecords
  <1>1. TypeOK /\ Links /\ InTurn => PairedRecords
    BY SameSessionSameRecord DEF InTurn
  <1> QED
    BY <1>1, InTurnCorrect, PTL

==============================================================================
