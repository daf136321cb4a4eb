-------------------------- MODULE KemServiceProofs ---------------------------
(***************************************************************************)
(* The key exchange provides what the forwarders rely on, for any number   *)
(* of runs, any profiles and any faults: a session id names one record     *)
(* (SessionMeansRecordCorrect), and while runs of one side follow one      *)
(* another KemHandshake implements SessionRecords (ServiceCorrect).        *)
(***************************************************************************)
EXTENDS KemHandshakeProofs

------------------------------------------------------------------------------
(* A session is one record                                                 *)

\* A client run that has stored a record holds material its server has derived.
DoneDerived ==
    \A c \in Clients : clientPc[c] = "done" =>
        clientKey[c] # NoKey /\ serverKey[host[c]] = Material(host[c], c)

\* A client run is done only by storing; what it stored rests on stays.
LEMMA DoneDerivedNext ==
    ASSUME TypeOK, Links, DoneDerived, [Next]_vars
    PROVE  DoneDerived'
  <1> SUFFICES ASSUME NEW c \in Clients, clientPc'[c] = "done"
               PROVE  clientKey'[c] # NoKey /\ serverKey'[host'[c]] = Material(host'[c], c)
    BY DEF DoneDerived, Material
  <1>1. Settled
    BY LinksNext
  <1>2. clientPc[c] \in {"confirmed", "done"}
    BY DEF Next, Server, Client, ServerStart, ServerStep, ServerCrash, ServerListen,
           ServerBindFails, ServerAccept, ServerReject, ServerConfirm, ServerSendFails,
           ServerStore, ServerHangup, ServerTimeout, ServerFails, ServerEnds,
           ClientStart, ClientStep, ClientCrash, ClientConnect, ClientRefused,
           ClientReject, ClientRespond, ClientConfirm, ClientStore, ClientHangup,
           ClientTimeout, ClientFails, ClientMoves, CutConnection,
           vars, clientVars, TypeOK
  <1>3. clientKey[c] # NoKey /\ serverKey[host[c]] = Material(host[c], c)
    BY <1>2 DEF DoneDerived, Links, ClientDerived
  <1>4. host[c] \in Servers
    BY <1>3 DEF Links, ClientDerived
  <1>5. serverKey[host[c]] # NoKey
    BY <1>3, <1>4, HandshakeAssumption DEF Material
  <1>6. host'[c] = host[c]
    BY <1>1, <1>3 DEF Settled, ClientRecord
  <1> QED
    BY <1>1, <1>3, <1>4, <1>5, <1>6 DEF Settled, Material

\* All records ever stored for one session are one record, whatever runs overlap.
THEOREM SessionMeansRecordCorrect == Spec => []SessionMeansRecord
  <1>1. Init => DoneDerived
    BY DEF Init, DoneDerived
  <1>2. TypeOK /\ Links /\ DoneDerived /\ [Next]_vars => DoneDerived'
    BY DoneDerivedNext
  <1>3. TypeOK /\ Links /\ DoneDerived => SessionMeansRecord
    BY RecordsAgree DEF DoneDerived, SessionMeansRecord
  <1> QED
    BY <1>1, <1>2, <1>3, LinksCorrect, PTL DEF Spec

------------------------------------------------------------------------------
(* Where an exchange stands                                                *)

\* A server run derives no session before it confirms one.
Unkeyed == \A s \in Servers : serverPc[s] = "offered" => serverKey[s] = NoKey

\* A queued client has not been accepted, and so has answered nothing.
Waiting ==
    \A c \in backlog : peer[host[c]] # c /\ clientPc[c] \notin {"responded", "confirmed"}

\* A client that has answered waits for the final message.
FinalNext ==
    \A c \in Clients : clientPc[c] = "responded" =>
        toClient[c] = NoMessage \/ serverKey[host[c]] = Material(host[c], c)

Progress == Unkeyed /\ Waiting /\ FinalNext

\* Every step keeps Progress.
LEMMA ProgressNext ==
    ASSUME TypeOK, Links, Progress, [Next]_vars
    PROVE  Progress'
  <1> USE HandshakeAssumption DEF TypeOK, serverVars, clientVars, wires, files
  <1>1. ASSUME NEW s \in Servers, ServerStep(s) \/ ServerCrash(s)
        PROVE  Progress'
    <2>1. CASE ServerListen(s)
      BY <2>1 DEF ServerListen, Progress, Unkeyed, Waiting, FinalNext
    <2>2. ASSUME NEW c \in Clients, ServerAccept(s, c) PROVE Progress'
      <3>1. host[c] = s /\ port = s /\ peer[s] = NoClient /\ serverKey[s] = NoKey
        BY <2>2 DEF ServerAccept, Links, PortHeld, Hosted, Served
      <3>2. Unkeyed'
        BY <2>2, <3>1 DEF ServerAccept, Progress, Unkeyed
      <3>3. Waiting'
        BY <2>2, <3>1 DEF ServerAccept, Progress, Waiting
      <3>4. FinalNext'
        BY <2>2, <3>1 DEF ServerAccept, Progress, Waiting, FinalNext
      <3> QED
        BY <3>2, <3>3, <3>4 DEF Progress
    <2>3. CASE ServerConfirm(s)
      <3>1. peer[s] \in Clients /\ host[peer[s]] = s
        BY <2>3 DEF ServerConfirm, ServerReads, Links, Served
      <3>2. Unkeyed' /\ Waiting'
        BY <2>3, <3>1 DEF ServerConfirm, ServerReads, Progress, Unkeyed, Waiting
      <3>3. serverKey[s] = NoKey
        BY <2>3 DEF ServerConfirm, ServerReads, Progress, Unkeyed
      <3>4. \A d \in Clients : Material(s, d) # NoKey
        BY MessageTypes DEF Materials
      <3>5. /\ serverKey' = [serverKey EXCEPT ![s] = Material(s, peer[s])]
            /\ toClient' = [toClient EXCEPT ![peer[s]] = Final(s, peer[s])]
            /\ UNCHANGED <<clientPc, host>>
        BY <2>3 DEF ServerConfirm
      <3>6. ASSUME NEW d \in Clients, clientPc'[d] = "responded"
            PROVE  toClient'[d] = NoMessage \/ serverKey'[host'[d]] = Material(host'[d], d)
        <4>1. CASE d = peer[s]
          BY <3>1, <3>5, <4>1
        <4>2. CASE d # peer[s] /\ toClient[d] # NoMessage
          <5>1. serverKey[host[d]] = Material(host[d], d)
            BY <3>5, <3>6, <4>2 DEF Progress, FinalNext
          <5>2. host[d] # s
            BY <3>3, <3>4, <5>1
          <5> QED
            BY <3>5, <5>1, <5>2
        <4>3. CASE d # peer[s] /\ toClient[d] = NoMessage
          BY <3>1, <3>5, <4>3
        <4> QED
          BY <4>1, <4>2, <4>3
      <3>7. FinalNext'
        BY <3>6 DEF FinalNext, Material
      <3> QED
        BY <3>2, <3>7 DEF Progress
    <2>4. ASSUME NEW pc \in {"done", "failed", "stopped"}, ServerEnds(s, pc),
                 UNCHANGED <<peer, serverKey, clientVars, wires>>
          PROVE  Progress'
      BY <2>4 DEF ServerEnds, Progress, Unkeyed, Waiting, FinalNext
    <2> QED
      BY <1>1, <2>1, <2>2, <2>3, <2>4
      DEF ServerStep, ServerCrash, ServerBindFails, ServerReject, ServerSendFails,
          ServerStore, ServerHangup, ServerTimeout, ServerFails
  <1>2. ASSUME NEW c \in Clients, ClientStep(c) \/ ClientCrash(c)
        PROVE  Progress'
    <2>1. CASE ClientConnect(c)
      <3>1. /\ host[c] = NoServer /\ clientPc[c] = "starting"
            /\ \A s \in Servers : peer[s] # c
        BY <2>1 DEF ClientConnect, Links, Hosted, Served
      <3> QED
        BY <2>1, <3>1
        DEF ClientConnect, ClientMoves, Progress, Unkeyed, Waiting, FinalNext
    <2>2. CASE ClientRespond(c)
      <3>1. peer[host[c]] = c
        BY <2>2 DEF ClientRespond, ClientReads, Links, Sent
      <3> QED
        BY <2>2, <3>1
        DEF ClientRespond, ClientMoves, Progress, Unkeyed, Waiting, FinalNext
    <2>3. CASE ClientConfirm(c)
      <3>1. peer[host[c]] = c
        BY <2>3 DEF ClientConfirm, ClientReads, Links, Sent
      <3> QED
        BY <2>3, <3>1
        DEF ClientConfirm, ClientMoves, Progress, Unkeyed, Waiting, FinalNext
    <2>4. ASSUME NEW pc \in {"done", "failed", "stopped"}, ClientMoves(c, pc),
                 UNCHANGED <<host, clientKey, serverVars, wires>>
          PROVE  Progress'
      BY <2>4 DEF ClientMoves, Progress, Unkeyed, Waiting, FinalNext
    <2> QED
      BY <1>2, <2>1, <2>2, <2>3, <2>4
      DEF ClientStep, ClientCrash, ClientRefused, ClientReject, ClientStore,
          ClientHangup, ClientTimeout, ClientFails
  <1>3. ASSUME NEW s \in Servers, NEW prof \in ServerProfiles, ServerStart(s, prof)
        PROVE  Progress'
    BY <1>3 DEF ServerStart, Progress, Unkeyed, Waiting, FinalNext
  <1>4. ASSUME NEW c \in Clients, NEW prof \in ClientProfiles, ClientStart(c, prof)
        PROVE  Progress'
    BY <1>4 DEF ClientStart, Progress, Unkeyed, Waiting, FinalNext
  <1>5. CASE (\E c \in Clients : CutConnection(c)) \/ UNCHANGED vars
    BY <1>5 DEF CutConnection, vars, Progress, Unkeyed, Waiting, FinalNext
  <1> QED
    BY <1>1, <1>2, <1>3, <1>4, <1>5 DEF Next, Server, Client


\* The sessions the service sees on each side are those of the one run that is
\* confirmed, and of the one client whose final message is on its way or read.
Agreed ==
    /\ \A s \in Servers : serverPc[s] = "confirmed" => ServerAgreed = s
    /\ (\A s \in Servers : serverPc[s] # "confirmed") => ServerAgreed = NoServer
    /\ \A c \in Clients : Told(c) => ClientAgreed = host[c]
    /\ (\A c \in Clients : ~Told(c)) => ClientAgreed = NoServer

\* While at most one run of each side is running, these are well defined.
LEMMA AgreedSessions == TypeOK /\ Sole => Agreed
  <1> SUFFICES ASSUME TypeOK, Sole PROVE Agreed
    OBVIOUS
  <1>1. ASSUME NEW s \in Servers, serverPc[s] = "confirmed"
        PROVE  ServerAgreed = s
    <2>1. \A r \in Servers : serverPc[r] = "confirmed" => r = s
      BY <1>1 DEF Sole, ServerRunning
    <2> QED
      BY <1>1, <2>1 DEF ServerAgreed
  <1>2. ASSUME NEW c \in Clients, Told(c)
        PROVE  ClientAgreed = host[c]
    <2>1. \A d \in Clients : Told(d) => d = c
      BY <1>2 DEF Sole, Told, ClientRunning
    <2>2. (CHOOSE d \in Clients : Told(d)) = c
      BY <1>2, <2>1
    <2> QED
      BY <1>2, <2>2 DEF ClientAgreed
  <1> QED
    BY <1>1, <1>2 DEF Agreed, ServerAgreed, ClientAgreed

------------------------------------------------------------------------------
(* Every step is a step of the service, or none                            *)

\* A server run that starts removes a record while no server has a session agreed.
LEMMA ServerStartServes ==
    ASSUME TypeOK, InTurn, Agreed, Agreed', Overlap = FALSE,
           NEW s \in Servers, NEW prof \in ServerProfiles, ServerStart(s, prof)
    PROVE  Service!Next \/ UNCHANGED Service!vars
  <1>1. /\ ServerAgreed = NoServer
        /\ ServerAgreed' = NoServer
    BY DEF ServerStart, Agreed, ServerRunning, TypeOK
  <1>2. /\ ClientAgreed' = ClientAgreed
        /\ RecordSession(clientFile)' = RecordSession(clientFile)
        /\ {r \in Servers : serverKey[r] # NoKey}' = {r \in Servers : serverKey[r] # NoKey}
    BY DEF ServerStart, clientVars, wires, ClientAgreed, Told, RecordSession, IsRecord
  <1>3. RecordSession(serverFile)' = NoServer
    BY DEF ServerStart, RecordSession, IsRecord
  <1>4. CASE RecordSession(serverFile) # NoServer
    BY <1>1, <1>2, <1>3, <1>4 DEF Service!Next, Service!RetireDecRecord
  <1>5. CASE RecordSession(serverFile) = NoServer
    BY <1>1, <1>2, <1>3, <1>5 DEF Service!vars
  <1> QED
    BY <1>4, <1>5

\* So does a client run.
LEMMA ClientStartServes ==
    ASSUME TypeOK, InTurn, Agreed, Agreed', Overlap = FALSE,
           NEW c \in Clients, NEW prof \in ClientProfiles, ClientStart(c, prof)
    PROVE  Service!Next \/ UNCHANGED Service!vars
  <1>1. /\ ClientAgreed = NoServer
        /\ ClientAgreed' = NoServer
    BY DEF ClientStart, Agreed, Told, ClientRunning, TypeOK, wires
  <1>2. /\ ServerAgreed' = ServerAgreed
        /\ RecordSession(serverFile)' = RecordSession(serverFile)
        /\ {r \in Servers : serverKey[r] # NoKey}' = {r \in Servers : serverKey[r] # NoKey}
    BY DEF ClientStart, serverVars, ServerAgreed, RecordSession, IsRecord
  <1>3. RecordSession(clientFile)' = NoServer
    BY DEF ClientStart, RecordSession, IsRecord
  <1>4. CASE RecordSession(clientFile) # NoServer
    BY <1>1, <1>2, <1>3, <1>4 DEF Service!Next, Service!RetireEncRecord
  <1>5. CASE RecordSession(clientFile) = NoServer
    BY <1>1, <1>2, <1>3, <1>5 DEF Service!vars
  <1> QED
    BY <1>4, <1>5

\* A server run confirms a session: it is a fresh one, and neither side holds or is
\* about to store any other.
LEMMA ServerConfirmServes ==
    ASSUME TypeOK, Links, InTurn, Progress, Agreed, Agreed',
           NEW s \in Servers, ServerConfirm(s)
    PROVE  Service!AgreeOnSession(s)
  <1> DEFINE c == peer[s]
  <1>1. /\ serverPc[s] = "offered" /\ ServerRunning(s) /\ serverKey[s] = NoKey
        /\ c \in Clients /\ host[c] = s
    BY DEF ServerConfirm, ServerReads, ServerRunning, Progress, Unkeyed, Links, Served
  <1>2. /\ serverKey' = [serverKey EXCEPT ![s] = Material(s, c)]
        /\ serverPc' = [serverPc EXCEPT ![s] = "confirmed"]
        /\ UNCHANGED <<clientPc, host, serverFile, clientFile>>
        /\ \A d \in Clients : d # c => toClient'[d] = toClient[d]
    BY <1>1 DEF ServerConfirm, clientVars, files, TypeOK
  <1>3. \A d \in Clients : Material(s, d) # NoKey
    BY MessageTypes, HandshakeAssumption DEF Materials
  <1>4. ServerAgreed = NoServer /\ ServerAgreed' = s
    BY <1>1, <1>2 DEF Agreed, InTurn, Sole, ServerRunning, TypeOK
  <1>5. \A d \in Clients : ~Told(d)
    <2> SUFFICES ASSUME NEW d \in Clients, Told(d) PROVE FALSE
      OBVIOUS
    <2>1. host[d] = s
      BY <1>1 DEF Told, InTurn, ServerInTurn, ClientRunning
    <2>2. serverKey[s] = Material(s, d)
      BY <2>1 DEF Told, Links, ClientDerived, Progress, FinalNext
    <2> QED
      BY <1>1, <1>3, <2>2
  <1>6. ClientAgreed = NoServer
    BY <1>5 DEF Agreed
  <1>7. ClientAgreed' \in {s, NoServer}
    <2>1. \A d \in Clients : Told(d)' => d = c
      BY <1>2, <1>5 DEF Told
    <2> QED
      BY <1>1, <1>2, <2>1 DEF Agreed
  <1>8. ~IsRecord(serverFile)
    BY <1>1 DEF InTurn, NoFallback
  <1>9. ~IsRecord(clientFile)
    <2> SUFFICES ASSUME IsRecord(clientFile) PROVE FALSE
      OBVIOUS
    <2>1. clientFile.session = s
      BY <1>1 DEF InTurn, ServerInTurn
    <2>2. PICK d \in Clients :
              clientFile = ClientRecord(d) /\ serverKey[host[d]] = Material(host[d], d)
      BY DEF Links, Stored
    <2> QED
      BY <1>1, <1>3, <2>1, <2>2 DEF ClientRecord
  <1>10. /\ RecordSession(serverFile) = NoServer /\ RecordSession(serverFile)' = NoServer
         /\ RecordSession(clientFile) = NoServer /\ RecordSession(clientFile)' = NoServer
    BY <1>2, <1>8, <1>9 DEF RecordSession, IsRecord
  <1>11. {r \in Servers : serverKey[r] # NoKey}'
            = {r \in Servers : serverKey[r] # NoKey} \union {s}
    BY <1>1, <1>2, <1>3 DEF TypeOK
  <1> QED
    BY <1>1, <1>4, <1>6, <1>7, <1>10, <1>11 DEF Service!AgreeOnSession

\* A server run ends with the session stored that it has confirmed, or with none.
LEMMA ServerEndServes ==
    ASSUME TypeOK, Links, InTurn, Agreed, Agreed',
           NEW s \in Servers, ServerRunning(s),
           NEW pc \in {"done", "failed", "stopped"}, serverPc' = [serverPc EXCEPT ![s] = pc],
           UNCHANGED <<serverKey, clientVars, wires, clientFile>>,
           \/ serverFile' = serverFile
           \/ ~IsRecord(serverFile')
           \/ serverPc[s] = "confirmed" /\ serverFile' = ServerRecord(s)
    PROVE  Service!Next \/ UNCHANGED Service!vars
  <1>1. \A r \in Servers : serverPc'[r] # "confirmed"
    BY DEF InTurn, Sole, ServerRunning, TypeOK
  <1>2. ServerAgreed' = NoServer
    BY <1>1 DEF Agreed
  <1>3. /\ ClientAgreed' = ClientAgreed
        /\ RecordSession(clientFile)' = RecordSession(clientFile)
        /\ {r \in Servers : serverKey[r] # NoKey}' = {r \in Servers : serverKey[r] # NoKey}
    BY DEF clientVars, wires, ClientAgreed, Told, RecordSession, IsRecord
  <1>4. ~IsRecord(serverFile)
    BY DEF InTurn, NoFallback
  <1>5. RecordSession(serverFile) = NoServer
    BY <1>4 DEF RecordSession
  <1>6. CASE serverPc[s] = "confirmed"
    <2>1. ServerAgreed = s /\ s # NoServer
      BY <1>6, HandshakeAssumption DEF Agreed
    <2>2. RecordSession(serverFile)' \in {s, NoServer}
      BY <1>4 DEF RecordSession, IsRecord, ServerRecord
    <2> QED
      BY <1>2, <1>3, <2>1, <2>2 DEF Service!Next, Service!DecExchangeEnds
  <1>7. CASE serverPc[s] # "confirmed"
    <2>1. ServerAgreed = NoServer
      BY <1>1, <1>7 DEF Agreed, TypeOK
    <2>2. RecordSession(serverFile)' = NoServer
      BY <1>4, <1>7 DEF RecordSession, IsRecord
    <2> QED
      BY <1>2, <1>3, <1>5, <2>1, <2>2 DEF Service!vars
  <1> QED
    BY <1>6, <1>7

\* A client run ends with the session stored that its server has confirmed, or none.
LEMMA ClientEndServes ==
    ASSUME TypeOK, Links, InTurn, Agreed, Agreed',
           NEW c \in Clients, ClientRunning(c),
           NEW pc \in {"done", "failed", "stopped"}, clientPc' = [clientPc EXCEPT ![c] = pc],
           UNCHANGED <<host, serverVars, wires, serverFile>>,
           \/ clientFile' = clientFile
           \/ ~IsRecord(clientFile')
           \/ clientPc[c] = "confirmed" /\ clientFile' = ClientRecord(c)
    PROVE  Service!Next \/ UNCHANGED Service!vars
  <1>1. \A d \in Clients : ~Told(d)'
    BY DEF InTurn, Sole, ClientRunning, TypeOK, Told
  <1>2. ClientAgreed' = NoServer
    BY <1>1 DEF Agreed
  <1>3. /\ ServerAgreed' = ServerAgreed
        /\ RecordSession(serverFile)' = RecordSession(serverFile)
        /\ {r \in Servers : serverKey[r] # NoKey}' = {r \in Servers : serverKey[r] # NoKey}
    BY DEF serverVars, ServerAgreed, RecordSession, IsRecord
  <1>4. ~IsRecord(clientFile)
    BY DEF InTurn, NoFallback
  <1>5. RecordSession(clientFile) = NoServer
    BY <1>4 DEF RecordSession
  <1>6. CASE Told(c)
    <2>1. host[c] \in Servers
      BY <1>6 DEF Told, Links, Hosted
    <2>2. ClientAgreed = host[c] /\ host[c] # NoServer
      BY <1>6, <2>1, HandshakeAssumption DEF Agreed
    <2>3. RecordSession(clientFile)' \in {host[c], NoServer}
      BY <1>4 DEF RecordSession, IsRecord, ClientRecord
    <2> QED
      BY <1>2, <1>3, <2>2, <2>3 DEF Service!Next, Service!EncExchangeEnds
  <1>7. CASE ~Told(c)
    <2>1. ClientAgreed = NoServer
      BY <1>7 DEF Agreed, InTurn, Sole, Told, ClientRunning
    <2>2. RecordSession(clientFile)' = NoServer
      BY <1>4, <1>7 DEF RecordSession, IsRecord, Told
    <2> QED
      BY <1>2, <1>3, <1>5, <2>1, <2>2 DEF Service!vars
  <1> QED
    BY <1>6, <1>7

\* What is neither a start, a confirmation nor an end is invisible to the forwarders.
LEMMA QuietServes ==
    ASSUME TypeOK, Agreed, Agreed', UNCHANGED <<serverKey, serverFile, clientFile>>,
           \A s \in Servers : (serverPc[s] = "confirmed")' <=> serverPc[s] = "confirmed",
           \A c \in Clients : Told(c)' <=> Told(c),
           \A c \in Clients : Told(c) => host'[c] = host[c]
    PROVE  UNCHANGED Service!vars
  <1>1. ServerAgreed' = ServerAgreed
    <2>1. CASE \E s \in Servers : serverPc[s] = "confirmed"
      BY <2>1 DEF Agreed
    <2>2. CASE \A s \in Servers : serverPc[s] # "confirmed"
      BY <2>2 DEF Agreed
    <2> QED
      BY <2>1, <2>2
  <1>2. ClientAgreed' = ClientAgreed
    <2>1. CASE \E c \in Clients : Told(c)
      BY <2>1 DEF Agreed
    <2>2. CASE \A c \in Clients : ~Told(c)
      BY <2>2 DEF Agreed
    <2> QED
      BY <2>1, <2>2
  <1>3. /\ RecordSession(serverFile)' = RecordSession(serverFile)
        /\ RecordSession(clientFile)' = RecordSession(clientFile)
        /\ {r \in Servers : serverKey[r] # NoKey}' = {r \in Servers : serverKey[r] # NoKey}
    BY DEF RecordSession, IsRecord
  <1> QED
    BY <1>1, <1>2, <1>3 DEF Service!vars

\* The steps of a server run.
LEMMA ServerServes ==
    ASSUME TypeOK, Links, InTurn, Progress, Agreed, Agreed', NEW s \in Servers,
           ServerStep(s) \/ ServerCrash(s)
    PROVE  Service!Next \/ UNCHANGED Service!vars
  <1> USE DEF serverVars, clientVars, wires, files
  <1>1. CASE ServerConfirm(s)
    BY <1>1, ServerConfirmServes DEF Service!Next
  <1>2. CASE ServerListen(s)
    <2>1. \A r \in Servers : (serverPc[r] = "confirmed")' <=> serverPc[r] = "confirmed"
      BY <1>2 DEF ServerListen, TypeOK
    <2>2. \A c \in Clients : (Told(c)' <=> Told(c)) /\ host'[c] = host[c]
      BY <1>2 DEF ServerListen, Told
    <2> QED
      BY <1>2, <2>1, <2>2, QuietServes DEF ServerListen
  <1>3. ASSUME NEW c \in Clients, ServerAccept(s, c)
        PROVE  UNCHANGED Service!vars
    <2>1. \A r \in Servers : (serverPc[r] = "confirmed")' <=> serverPc[r] = "confirmed"
      BY <1>3 DEF ServerAccept, TypeOK
    <2>2. clientPc[c] \notin {"responded", "confirmed"}
      BY <1>3 DEF ServerAccept, Progress, Waiting
    <2>3. \A d \in Clients : (Told(d)' <=> Told(d)) /\ host'[d] = host[d]
      BY <1>3, <2>2 DEF ServerAccept, Told, TypeOK
    <2> QED
      BY <1>3, <2>1, <2>3, QuietServes DEF ServerAccept
  <1>4. CASE ServerStore(s)
    <2>1. ServerRunning(s) /\ serverPc' = [serverPc EXCEPT ![s] = "done"]
      BY <1>4 DEF ServerStore, ServerRunning, ServerEnds
    <2> QED
      BY <1>4, <2>1, ServerEndServes DEF ServerStore
  <1>5. CASE ServerCrash(s)
    <2>1. ServerRunning(s) /\ serverPc' = [serverPc EXCEPT ![s] = "stopped"]
      BY <1>5 DEF ServerCrash, ServerEnds
    <2>2. serverFile' = serverFile \/ ~IsRecord(serverFile')
      BY <1>5 DEF ServerCrash, IsRecord
    <2> QED
      BY <1>5, <2>1, <2>2, ServerEndServes DEF ServerCrash
  <1>6. ASSUME ServerRunning(s), NEW pc \in {"failed", "stopped"}, ServerFails(s, pc)
        PROVE  Service!Next \/ UNCHANGED Service!vars
    <2>1. serverPc' = [serverPc EXCEPT ![s] = pc]
      BY <1>6 DEF ServerFails, ServerEnds
    <2> QED
      BY <1>6, <2>1, ServerEndServes DEF ServerFails
  <1> QED
    BY <1>1, <1>2, <1>3, <1>4, <1>5, <1>6
    DEF ServerStep, ServerBindFails, ServerReject, ServerSendFails, ServerHangup,
        ServerTimeout, ServerReads, ServerRunning

\* The steps of a client run.
LEMMA ClientServes ==
    ASSUME TypeOK, Links, InTurn, Agreed, Agreed', NEW c \in Clients,
           ClientStep(c) \/ ClientCrash(c)
    PROVE  Service!Next \/ UNCHANGED Service!vars
  <1> USE DEF serverVars, clientVars, wires, files
  <1>1. CASE ClientConnect(c) \/ ClientRespond(c) \/ ClientConfirm(c)
    <2>1. UNCHANGED <<serverPc, serverKey, serverFile, clientFile>>
      BY <1>1 DEF ClientConnect, ClientRespond, ClientConfirm
    <2>2. \A d \in Clients : Told(d)' <=> Told(d)
      BY <1>1
      DEF ClientConnect, ClientRespond, ClientConfirm, ClientReads, ClientMoves, Told,
          TypeOK
    <2>3. \A d \in Clients : Told(d) => host'[d] = host[d]
      BY <1>1 DEF ClientConnect, ClientRespond, ClientConfirm, Told, TypeOK
    <2> QED
      BY <2>1, <2>2, <2>3, QuietServes
  <1>2. CASE ClientStore(c)
    <2>1. ClientRunning(c) /\ clientPc' = [clientPc EXCEPT ![c] = "done"]
      BY <1>2 DEF ClientStore, ClientRunning, ClientMoves
    <2> QED
      BY <1>2, <2>1, ClientEndServes DEF ClientStore
  <1>3. CASE ClientCrash(c)
    <2>1. ClientRunning(c) /\ clientPc' = [clientPc EXCEPT ![c] = "stopped"]
      BY <1>3 DEF ClientCrash, ClientMoves
    <2>2. clientFile' = clientFile \/ ~IsRecord(clientFile')
      BY <1>3 DEF ClientCrash, IsRecord
    <2> QED
      BY <1>3, <2>1, <2>2, ClientEndServes DEF ClientCrash
  <1>4. ASSUME ClientRunning(c), NEW pc \in {"failed", "stopped"}, ClientFails(c, pc)
        PROVE  Service!Next \/ UNCHANGED Service!vars
    <2>1. clientPc' = [clientPc EXCEPT ![c] = pc]
      BY <1>4 DEF ClientFails, ClientMoves
    <2> QED
      BY <1>4, <2>1, ClientEndServes DEF ClientFails
  <1> QED
    BY <1>1, <1>2, <1>3, <1>4
    DEF ClientStep, ClientRefused, ClientReject, ClientHangup, ClientTimeout,
        ClientReads, ClientRunning

\* While runs of one side follow one another, the key exchange implements the
\* session records that the tunnel is built on.
THEOREM ServiceCorrect ==
    ASSUME Overlap = FALSE PROVE Spec => ServiceSpec
  <1>1. Init => Service!Init /\ Progress
    <2> SUFFICES ASSUME Init PROVE Service!Init /\ Progress
      OBVIOUS
    <2>1. Progress
      BY DEF Init, Progress, Unkeyed, Waiting, FinalNext
    <2>2. ServerAgreed = NoServer /\ ClientAgreed = NoServer
      BY DEF Init, ServerAgreed, ClientAgreed, Told
    <2> QED
      BY <2>1, <2>2 DEF Init, Service!Init, RecordSession, IsRecord
  <1>2. TypeOK /\ Links /\ Progress /\ [Next]_vars => Progress'
    BY ProgressNext
  <1>3. TypeOK /\ Links /\ InTurn => Agreed
    BY AgreedSessions DEF InTurn
  <1>4. /\ TypeOK /\ Links /\ InTurn /\ Progress /\ Agreed
        /\ Agreed'
        /\ [Next]_vars
        => [Service!Next]_(Service!vars)
    <2> SUFFICES ASSUME TypeOK, Links, InTurn, Progress, Agreed, Agreed', [Next]_vars
                 PROVE  Service!Next \/ UNCHANGED Service!vars
      OBVIOUS
    <2>1. ASSUME NEW c \in Clients, CutConnection(c) PROVE UNCHANGED Service!vars
      <3>1. \A d \in Clients : (Told(d)' <=> Told(d)) /\ host'[d] = host[d]
        BY <2>1 DEF CutConnection, Told, clientVars
      <3> QED
        BY <2>1, <3>1, QuietServes DEF CutConnection, serverVars, files
    <2>2. CASE UNCHANGED vars
      <3>1. \A d \in Clients : (Told(d)' <=> Told(d)) /\ host'[d] = host[d]
        BY <2>2 DEF vars, Told, clientVars, wires
      <3> QED
        BY <2>2, <3>1, QuietServes DEF vars, serverVars, files
    <2> QED
      BY <2>1, <2>2, ServerServes, ClientServes, ServerStartServes, ClientStartServes
      DEF Next, Server, Client
  <1> QED
    BY <1>1, <1>2, <1>3, <1>4, InTurnCorrect, PTL DEF Spec, ServiceSpec, Service!Spec
==============================================================================
