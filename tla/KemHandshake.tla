---------------------------- MODULE KemHandshake -----------------------------
(***************************************************************************)
(* The authenticated key exchange: scripts/kem_key_server.py on the        *)
(* decryption endpoint and scripts/kem_key_client.py on the encryption     *)
(* endpoint, over one TCP connection, and the session record each leaves   *)
(* behind for its forwarder.                                               *)
(*                                                                         *)
(* run_server and run_client perform one exchange and return, so a process *)
(* here is one run.  Everything a run draws at random (session id, server  *)
(* challenge, ML-KEM key pair and key id; client challenge and ciphertext) *)
(* is fresh, so the run's own name stands for it.  The keys and the module *)
(* constants a run reads when it starts are its profile: the operator may  *)
(* have changed them since the run before.                                 *)
(***************************************************************************)
EXTENDS Naturals, FiniteSets

CONSTANTS
    Servers,           \* runs of kem_key_server.py
    Clients,           \* runs of kem_key_client.py
    NoServer, NoClient,
    ServerProfiles,    \* what a server run may have been configured with
    ClientProfiles,    \* what a client run may have been configured with
    NoProfile,         \* the profile of a run that has not started
    NoKey,             \* no session material derived yet
    NoMessage,         \* nothing to read on a connection
    NoRecord,          \* active_session.json does not exist
    TornRecord,        \* active_session.json was truncated, then not written
    Backlog,           \* connections the listening socket queues
    Overlap,           \* may a run start while another of its side still runs?
    Faults             \* the faults a run includes, a subset of FaultKinds

FaultKinds == {"timeout", "crash", "cut"}

ASSUME HandshakeAssumption ==
    /\ NoServer \notin Servers
    /\ NoClient \notin Clients
    /\ NoKey \notin [offer : Servers, response : Clients]
    /\ Backlog \in Nat \ {0}
    /\ Overlap \in BOOLEAN
    /\ Faults \subseteq FaultKinds

VARIABLES
    serverPc, clientPc,            \* where each run is
    serverProfile, clientProfile,  \* what it read when it started
    port,                          \* the server run that holds TCP port 9000
    backlog,                       \* clients its listening socket has queued
    peer,                          \* the client each server run has accepted
    host,                          \* the server run each client is connected to
    toServer, toClient,            \* the message in flight to each run
    cut,                           \* clients whose connection has gone silent
    serverKey, clientKey,          \* session material each run has derived
    serverFile, clientFile,        \* the two active_session.json files
    activated                      \* history: server runs that stored a record

serverVars == <<serverPc, serverProfile, port, backlog, peer, serverKey>>
clientVars == <<clientPc, clientProfile, host, clientKey>>
wires == <<toServer, toClient, cut>>
files == <<serverFile, clientFile, activated>>
vars == <<serverVars, clientVars, wires, files>>

ServerRunning(s) == serverPc[s] \in {"starting", "listening", "offered", "confirmed"}
ClientRunning(c) == clientPc[c] \in {"starting", "connected", "responded", "confirmed"}
\* A run ends with a record stored, by itself without one, or by a timeout or a kill.
ServerEnded(s) == serverPc[s] \in {"done", "failed", "stopped"}
ClientEnded(c) == clientPc[c] \in {"done", "failed", "stopped"}

------------------------------------------------------------------------------
(* Session material and messages.                                          *)

\* HKDF of the shared secret and the transcript: only the run whose KEM key was
\* used and the run that encapsulated to it can derive it, from the same offer
\* and response.
Material(s, c) == [offer |-> s, response |-> c]

Offer(s) == [type |-> "KEM_OFFER", from |-> s]
Response(c, s) ==
    [type |-> "KEM_RESPONSE", from |-> c, session |-> s,
     confirmation |-> Material(s, c)]
Final(s, c) ==
    [type |-> "KEM_COMPLETE", from |-> s, session |-> s, challenge |-> c,
     confirmation |-> Material(s, c)]

\* What the client checks of an offer: signature, version, algorithms, group.
AcceptsOffer(c, m) ==
    LET mine == clientProfile[c]
        theirs == serverProfile[m.from]
    IN  /\ m.type = "KEM_OFFER"
        /\ theirs.identity = mine.trusted
        /\ theirs.version = mine.version
        /\ theirs.suite = mine.suite
        /\ theirs.group = mine.group

AcceptsRevoked(s, m) ==    \* mutant of AcceptsResponse: no look at the revoked members
    LET mine == serverProfile[s]
        theirs == clientProfile[m.from]
    IN  /\ m.type = "KEM_RESPONSE"
        /\ theirs.identity = mine.trusted
        /\ theirs.version = mine.version
        /\ m.session = s
        /\ theirs.group = mine.group
        /\ theirs.member \in mine.authorised
        /\ m.confirmation = Material(s, m.from)

\* What the server checks of a response: signature, version, session, group,
\* membership, key confirmation.
AcceptsResponse(s, m) ==
    LET mine == serverProfile[s]
        theirs == clientProfile[m.from]
    IN  /\ m.type = "KEM_RESPONSE"
        /\ theirs.identity = mine.trusted
        /\ theirs.version = mine.version
        /\ m.session = s
        /\ theirs.group = mine.group
        /\ theirs.member \notin mine.revoked
        /\ theirs.member \in mine.authorised
        /\ m.confirmation = Material(s, m.from)

\* What the client checks of the final message.
AcceptsFinal(c, m) ==
    LET mine == clientProfile[c]
        theirs == serverProfile[m.from]
    IN  /\ m.type = "KEM_COMPLETE"
        /\ theirs.identity = mine.trusted
        /\ m.session = host[c]
        /\ theirs.group = mine.group
        /\ m.challenge = c
        /\ m.confirmation = clientKey[c]

\* The fields of the two records that the forwarders use.
ServerRecord(s) ==
    [session |-> s, key |-> serverKey[s], group |-> serverProfile[s].group,
     member |-> clientProfile[peer[s]].member,
     keyVersion |-> serverProfile[s].keyVersion]
ClientRecordOwnVersion(c) ==   \* mutant of ClientRecord: the client's own key version
    [session |-> host[c], key |-> clientKey[c], group |-> clientProfile[c].group,
     member |-> clientProfile[c].member,
     keyVersion |-> 2]
ClientRecord(c) ==
    [session |-> host[c], key |-> clientKey[c], group |-> clientProfile[c].group,
     member |-> clientProfile[c].member,
     keyVersion |-> serverProfile[host[c]].keyVersion]

------------------------------------------------------------------------------
(* kem_key_server.py: run_server                                           *)

\* Every return and every exception closes the sockets: a listener that is closed
\* resets what is still queued on it.
ServerEnds(s, pc) ==
    /\ serverPc' = [serverPc EXCEPT ![s] = pc]
    /\ port' = IF port = s THEN NoServer ELSE port
    /\ backlog' = IF port = s THEN {} ELSE backlog
    /\ UNCHANGED serverProfile

ServerFails(s, pc) ==
    /\ ServerEnds(s, pc)
    /\ UNCHANGED <<peer, serverKey, clientVars, wires, files>>

ServerStartKeeps(s, prof) ==   \* mutant of ServerStart: leaves the old session
    /\ serverPc[s] = "idle"
    /\ Overlap \/ ~\E r \in Servers : ServerRunning(r)
    /\ serverPc' = [serverPc EXCEPT ![s] = "starting"]
    /\ serverProfile' = [serverProfile EXCEPT ![s] = prof]
    /\ UNCHANGED <<port, backlog, peer, serverKey, clientVars, wires, files>>

\* Reads its keys, removes the old session, prepares the offer.
ServerStart(s, prof) ==
    /\ serverPc[s] = "idle"
    /\ Overlap \/ ~\E r \in Servers : ServerRunning(r)
    /\ serverPc' = [serverPc EXCEPT ![s] = "starting"]
    /\ serverProfile' = [serverProfile EXCEPT ![s] = prof]
    /\ serverFile' = NoRecord
    /\ UNCHANGED <<port, backlog, peer, serverKey, clientVars, wires, clientFile,
                   activated>>

ServerListen(s) ==
    /\ serverPc[s] = "starting"
    /\ port = NoServer
    /\ port' = s
    /\ serverPc' = [serverPc EXCEPT ![s] = "listening"]
    /\ UNCHANGED <<serverProfile, backlog, peer, serverKey, clientVars, wires, files>>

ServerBindFails(s) ==
    /\ serverPc[s] = "starting"
    /\ port # NoServer
    /\ ServerFails(s, "failed")

\* A queued client may have ended already: sending to it still succeeds, or fails
\* with the same effect as the hangup that follows.
ServerAccept(s, c) ==
    /\ serverPc[s] = "listening"
    /\ c \in backlog
    /\ backlog' = backlog \ {c}
    /\ peer' = [peer EXCEPT ![s] = c]
    /\ toClient' = [toClient EXCEPT ![c] = Offer(s)]
    /\ serverPc' = [serverPc EXCEPT ![s] = "offered"]
    /\ UNCHANGED <<serverProfile, port, serverKey, clientVars, toServer, cut, files>>

ServerReads(s) ==
    /\ serverPc[s] = "offered"
    /\ toServer[s] # NoMessage
    /\ peer[s] \notin cut

ServerReject(s) ==
    /\ ServerReads(s)
    /\ ~AcceptsResponse(s, toServer[s])
    /\ ServerFails(s, "failed")

ServerConfirmSilently(s) ==    \* mutant of ServerConfirm: no final message
    /\ ServerReads(s)
    /\ AcceptsResponse(s, toServer[s])
    /\ serverKey' = [serverKey EXCEPT ![s] = Material(s, peer[s])]
    /\ toServer' = [toServer EXCEPT ![s] = NoMessage]
    /\ serverPc' = [serverPc EXCEPT ![s] = "confirmed"]
    /\ UNCHANGED <<serverProfile, port, backlog, peer, clientVars, toClient, cut,
                   files>>

\* Decapsulates, checks the confirmation, signs and sends the final message.
ServerConfirm(s) ==
    /\ ServerReads(s)
    /\ AcceptsResponse(s, toServer[s])
    /\ serverKey' = [serverKey EXCEPT ![s] = Material(s, peer[s])]
    /\ toServer' = [toServer EXCEPT ![s] = NoMessage]
    /\ toClient' = [toClient EXCEPT ![peer[s]] = Final(s, peer[s])]
    /\ serverPc' = [serverPc EXCEPT ![s] = "confirmed"]
    /\ UNCHANGED <<serverProfile, port, backlog, peer, clientVars, cut, files>>

\* Sending to a client that has closed its end may also fail.
ServerSendFails(s) ==
    /\ ServerReads(s)
    /\ AcceptsResponse(s, toServer[s])
    /\ ClientEnded(peer[s])
    /\ ServerFails(s, "failed")

\* The record is written after the client has been told ACTIVE.
ServerStore(s) ==
    /\ serverPc[s] = "confirmed"
    /\ serverFile' = ServerRecord(s)
    /\ activated' = activated \union {s}
    /\ ServerEnds(s, "done")
    /\ UNCHANGED <<peer, serverKey, clientVars, wires, clientFile>>

ServerHangup(s) ==
    /\ serverPc[s] = "offered"
    /\ toServer[s] = NoMessage
    /\ peer[s] \notin cut
    /\ ClientEnded(peer[s])
    /\ ServerFails(s, "failed")

ServerTimeoutBeforeAccept(s) ==    \* mutant of ServerTimeout: set on the listener
    /\ "timeout" \in Faults
    /\ serverPc[s] = "listening"
    /\ ServerFails(s, "stopped")

\* connection.settimeout(30.0), on the accepted connection only: the listener
\* has no timeout.
ServerTimeout(s) ==
    /\ "timeout" \in Faults
    /\ serverPc[s] = "offered"
    /\ ServerFails(s, "stopped")

\* Killed, or a write that fails; while storing, the file may be left truncated.
ServerCrash(s) ==
    /\ "crash" \in Faults
    /\ ServerRunning(s)
    /\ \/ UNCHANGED serverFile
       \/ serverPc[s] = "confirmed" /\ serverFile' = TornRecord
    /\ ServerEnds(s, "stopped")
    /\ UNCHANGED <<peer, serverKey, clientVars, wires, clientFile, activated>>

ServerStep(s) ==
    \/ ServerListen(s) \/ ServerBindFails(s)
    \/ \E c \in Clients : ServerAccept(s, c)
    \/ ServerReject(s) \/ ServerConfirm(s) \/ ServerSendFails(s)
    \/ ServerStore(s) \/ ServerHangup(s) \/ ServerTimeout(s)

------------------------------------------------------------------------------
(* kem_key_client.py: run_client                                           *)

ClientMoves(c, pc) ==
    /\ clientPc' = [clientPc EXCEPT ![c] = pc]
    /\ UNCHANGED clientProfile

ClientFails(c, pc) ==
    /\ ClientMoves(c, pc)
    /\ UNCHANGED <<host, clientKey, serverVars, wires, files>>

ClientStartKeeps(c, prof) ==   \* mutant of ClientStart: leaves the old session
    /\ clientPc[c] = "idle"
    /\ Overlap \/ ~\E d \in Clients : ClientRunning(d)
    /\ clientPc' = [clientPc EXCEPT ![c] = "starting"]
    /\ clientProfile' = [clientProfile EXCEPT ![c] = prof]
    /\ UNCHANGED <<host, clientKey, serverVars, wires, files>>

\* Reads its keys and removes the old session, before it tries to connect.
ClientStart(c, prof) ==
    /\ clientPc[c] = "idle"
    /\ Overlap \/ ~\E d \in Clients : ClientRunning(d)
    /\ clientPc' = [clientPc EXCEPT ![c] = "starting"]
    /\ clientProfile' = [clientProfile EXCEPT ![c] = prof]
    /\ clientFile' = NoRecord
    /\ UNCHANGED <<host, clientKey, serverVars, wires, serverFile, activated>>

ClientConnect(c) ==
    /\ clientPc[c] = "starting"
    /\ port # NoServer
    /\ Cardinality(backlog) < Backlog
    /\ backlog' = backlog \union {c}
    /\ host' = [host EXCEPT ![c] = port]
    /\ ClientMoves(c, "connected")
    /\ UNCHANGED <<clientKey, serverPc, serverProfile, port, peer, serverKey, wires,
                   files>>

ClientRefused(c) ==
    /\ clientPc[c] = "starting"
    /\ port = NoServer
    /\ ClientFails(c, "failed")

ClientReads(c) ==
    /\ clientPc[c] \in {"connected", "responded"}
    /\ toClient[c] # NoMessage
    /\ c \notin cut

ClientAccepts(c, m) ==
    IF clientPc[c] = "connected" THEN AcceptsOffer(c, m) ELSE AcceptsFinal(c, m)

ClientReject(c) ==
    /\ ClientReads(c)
    /\ ~ClientAccepts(c, toClient[c])
    /\ ClientFails(c, "failed")

\* Encapsulates to the offered key, derives the session, sends the response.
ClientRespond(c) ==
    /\ ClientReads(c)
    /\ clientPc[c] = "connected"
    /\ ClientAccepts(c, toClient[c])
    /\ clientKey' = [clientKey EXCEPT ![c] = Material(host[c], c)]
    /\ toClient' = [toClient EXCEPT ![c] = NoMessage]
    /\ toServer' = [toServer EXCEPT ![host[c]] = Response(c, host[c])]
    /\ ClientMoves(c, "responded")
    /\ UNCHANGED <<host, serverVars, cut, files>>

ClientConfirm(c) ==
    /\ ClientReads(c)
    /\ clientPc[c] = "responded"
    /\ ClientAccepts(c, toClient[c])
    /\ toClient' = [toClient EXCEPT ![c] = NoMessage]
    /\ ClientMoves(c, "confirmed")
    /\ UNCHANGED <<host, clientKey, serverVars, toServer, cut, files>>

ClientStoreEarly(c) ==     \* mutant of ClientStore: stores once it is connected
    /\ clientPc[c] \in {"connected", "confirmed"}
    /\ clientFile' = ClientRecord(c)
    /\ ClientMoves(c, "done")
    /\ UNCHANGED <<host, clientKey, serverVars, wires, serverFile, activated>>

ClientStore(c) ==
    /\ clientPc[c] = "confirmed"
    /\ clientFile' = ClientRecord(c)
    /\ ClientMoves(c, "done")
    /\ UNCHANGED <<host, clientKey, serverVars, wires, serverFile, activated>>

ClientHangup(c) ==
    /\ clientPc[c] \in {"connected", "responded"}
    /\ toClient[c] = NoMessage
    /\ c \notin cut
    /\ ServerEnded(host[c])
    /\ ClientFails(c, "failed")

\* 30 s without the server's answer, or without a place in its queue.
ClientTimeout(c) ==
    /\ "timeout" \in Faults
    /\ \/ clientPc[c] \in {"connected", "responded"}
       \/ clientPc[c] = "starting" /\ Cardinality(backlog) >= Backlog
    /\ ClientFails(c, "stopped")

ClientCrash(c) ==
    /\ "crash" \in Faults
    /\ ClientRunning(c)
    /\ \/ UNCHANGED clientFile
       \/ clientPc[c] = "confirmed" /\ clientFile' = TornRecord
    /\ ClientMoves(c, "stopped")
    /\ UNCHANGED <<host, clientKey, serverVars, wires, serverFile, activated>>

ClientStep(c) ==
    \/ ClientConnect(c) \/ ClientRefused(c) \/ ClientReject(c)
    \/ ClientRespond(c) \/ ClientConfirm(c) \/ ClientStore(c)
    \/ ClientHangup(c) \/ ClientTimeout(c)

------------------------------------------------------------------------------
\* The network under a connection goes silent: nothing arrives any more, not even
\* that the other end has closed.
CutConnection(c) ==
    /\ "cut" \in Faults
    /\ clientPc[c] \in {"connected", "responded"}
    /\ cut' = cut \union {c}
    /\ UNCHANGED <<serverVars, clientVars, toServer, toClient, files>>

Init ==
    /\ serverPc = [s \in Servers |-> "idle"]
    /\ clientPc = [c \in Clients |-> "idle"]
    /\ serverProfile = [s \in Servers |-> NoProfile]
    /\ clientProfile = [c \in Clients |-> NoProfile]
    /\ port = NoServer
    /\ backlog = {}
    /\ peer = [s \in Servers |-> NoClient]
    /\ host = [c \in Clients |-> NoServer]
    /\ toServer = [s \in Servers |-> NoMessage]
    /\ toClient = [c \in Clients |-> NoMessage]
    /\ cut = {}
    /\ serverKey = [s \in Servers |-> NoKey]
    /\ clientKey = [c \in Clients |-> NoKey]
    /\ serverFile = NoRecord
    /\ clientFile = NoRecord
    /\ activated = {}

Server(s) ==
    \/ \E prof \in ServerProfiles : ServerStart(s, prof)
    \/ ServerStep(s)
    \/ ServerCrash(s)

Client(c) ==
    \/ \E prof \in ClientProfiles : ClientStart(c, prof)
    \/ ClientStep(c)
    \/ ClientCrash(c)

Next ==
    \/ \E s \in Servers : Server(s)
    \/ \E c \in Clients : Client(c) \/ CutConnection(c)

Spec == Init /\ [][Next]_vars

\* A run that can take a step takes one, and its 30 s timers run out.  Nothing is
\* assumed of the operator, who starts runs, or of crashes and cuts.
Fairness ==
    /\ \A s \in Servers : WF_vars(ServerStep(s))
    /\ \A c \in Clients : WF_vars(ClientStep(c))

FairSpec == Spec /\ Fairness

------------------------------------------------------------------------------
(* Properties                                                              *)

Materials == [offer : Servers, response : Clients]

Offers == [type : {"KEM_OFFER"}, from : Servers]
Responses ==
    [type : {"KEM_RESPONSE"}, from : Clients, session : Servers,
     confirmation : Materials]
Finals ==
    [type : {"KEM_COMPLETE"}, from : Servers, session : Servers,
     challenge : Clients, confirmation : Materials]

Records ==
    [session : Servers, key : Materials, group : {p.group : p \in ServerProfiles},
     member : {p.member : p \in ClientProfiles},
     keyVersion : {p.keyVersion : p \in ServerProfiles}]
Files == Records \union {NoRecord, TornRecord}

IsRecord(file) == file \notin {NoRecord, TornRecord}

TypeOK ==
    /\ serverPc \in [Servers -> {"idle", "starting", "listening", "offered",
                                 "confirmed", "done", "failed", "stopped"}]
    /\ clientPc \in [Clients -> {"idle", "starting", "connected", "responded",
                                 "confirmed", "done", "failed", "stopped"}]
    /\ serverProfile \in [Servers -> ServerProfiles \union {NoProfile}]
    /\ clientProfile \in [Clients -> ClientProfiles \union {NoProfile}]
    /\ port \in Servers \union {NoServer}
    /\ backlog \subseteq Clients
    /\ IsFiniteSet(backlog) /\ Cardinality(backlog) <= Backlog
    /\ peer \in [Servers -> Clients \union {NoClient}]
    /\ host \in [Clients -> Servers \union {NoServer}]
    /\ toServer \in [Servers -> Responses \union {NoMessage}]
    /\ toClient \in [Clients -> Offers \union Finals \union {NoMessage}]
    /\ cut \subseteq Clients
    /\ serverKey \in [Servers -> Materials \union {NoKey}]
    /\ clientKey \in [Clients -> Materials \union {NoKey}]
    /\ serverFile \in Files
    /\ clientFile \in Files
    /\ activated \subseteq Servers

\* The two forwarders never hold different sessions: whenever both record files
\* are complete they agree on session, key, nonce prefix and all of the AAD,
\* whatever was interrupted before, as long as runs of one side do not overlap.
PairedRecords ==
    IsRecord(serverFile) /\ IsRecord(clientFile) => serverFile = clientFile

\* A record, on either side, is of a session that both runs derived, that the
\* server run's policy admits the member to (authorised, not revoked), and whose
\* runs verified each other's signatures and agreed on version and group.
Admitted(r) ==
    LET server == serverProfile[r.session]
        client == clientProfile[r.key.response]
    IN  /\ r.key = Material(r.session, r.key.response)
        /\ serverKey[r.session] = r.key
        /\ clientKey[r.key.response] = r.key
        /\ r.member \in server.authorised \ server.revoked
        /\ client.trusted = server.identity
        /\ server.trusted = client.identity
        /\ client.version = server.version
        /\ client.suite = server.suite
        /\ client.group = server.group

RecordsAdmitted ==
    \A r \in {serverFile, clientFile} : IsRecord(r) => Admitted(r)

\* A session id names one key, one nonce prefix and one AAD: whatever records two
\* runs have stored for one session, then or since overwritten, they are equal, even
\* when runs of one side overlap.  The tunnel's notion of a session rests on it.
SessionMeansRecord ==
    \A s \in activated, c \in Clients :
        clientPc[c] = "done" /\ host[c] = s => ServerRecord(s) = ClientRecord(c)

\* No run leaves the forwarder of its side an old session while it negotiates a
\* new one: a failed exchange never falls back to the keys it was to replace.
NoFallback ==
    /\ (\E s \in Servers : ServerRunning(s)) => ~IsRecord(serverFile)
    /\ (\E c \in Clients : ClientRunning(c)) => ~IsRecord(clientFile)

\* A client that holds a session was told ACTIVE, so its server, once it has
\* ended, has stored that session ("Server did not activate the session").
ActiveMeansStored ==
    IsRecord(clientFile) /\ ServerEnded(clientFile.session)
        => clientFile.session \in activated

\* Every client run ends, and every server run that has accepted a connection
\* ends: no crash, cut or queue on the other side can hang them.
RunsEnd ==
    /\ \A c \in Clients : ClientRunning(c) ~> ClientEnded(c)
    /\ \A s \in Servers : serverPc[s] = "offered" ~> ServerEnded(s)

\* A connection between runs that satisfy each other's checks leads to a stored
\* session on both sides, unless one of the two is killed or times out, or the
\* connection is cut: nothing that other runs do, or suffer, prevents it.
Compatible(s, c) ==
    LET server == serverProfile[s]
        client == clientProfile[c]
    IN  /\ client.trusted = server.identity
        /\ server.trusted = client.identity
        /\ client.version = server.version
        /\ client.suite = server.suite
        /\ client.group = server.group
        /\ client.member \in server.authorised \ server.revoked

ExchangeSucceeds ==
    \A s \in Servers, c \in Clients :
        (peer[s] = c /\ Compatible(s, c))
            ~> \/ serverPc[s] = "done" /\ clientPc[c] = "done"
               \/ serverPc[s] = "stopped" \/ clientPc[c] = "stopped" \/ c \in cut

\* The exchange provides the service the forwarders are modelled on.  A client run
\* counts as agreed as soon as the server's final message is on its way to it; a
\* record that is missing or truncated is none.
RecordSession(file) == IF IsRecord(file) THEN file.session ELSE NoServer

Told(c) ==
    \/ clientPc[c] = "confirmed"
    \/ clientPc[c] = "responded" /\ toClient[c] # NoMessage

ClientAgreed ==
    IF \E c \in Clients : Told(c) THEN host[CHOOSE c \in Clients : Told(c)] ELSE NoServer

ServerAgreed ==
    IF \E s \in Servers : serverPc[s] = "confirmed"
      THEN CHOOSE s \in Servers : serverPc[s] = "confirmed"
      ELSE NoServer

Service == INSTANCE SessionRecords WITH
    Sessions <- Servers,
    NoSession <- NoServer,
    encFile <- RecordSession(clientFile),
    decFile <- RecordSession(serverFile),
    encAgreed <- ClientAgreed,
    decAgreed <- ServerAgreed,
    established <- {s \in Servers : serverKey[s] # NoKey}

ServiceSpec == Service!Spec
==============================================================================
