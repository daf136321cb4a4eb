# Verification of the quantum-safe GOOSE protection path

TLA+ models, TLC runs and TLAPS proofs for the programs in `scripts/` and
`bpfabric/`: an authenticated post-quantum key exchange sets up a session, two
user-space forwarders encrypt and decrypt GOOSE frames with it, and eBPF functions
in the edge switches steer the frames through the forwarders.

Modules are checked with `tlc -config X.cfg M` and proved with `tlapm M.tla`.
`PROJECT.json` lists every run, the lines every definition stands for, the mutant
that each property is shown to catch, the hazards of the code and the theorems.

At the modelled commit `kem_key_server.py`, `kem_key_client.py`,
`encrypt_forwarder.py` and `decrypt_forwarder.py` have lost part of their
indentation and do not parse as Python. The models follow the block structure that
the statements, the comments and the partial indentation leave no doubt about.

## 1. Inventory

| Part | State it keeps | Operations | Talks to |
|---|---|---|---|
| `kem_key_server.py` | identity key files, `Server/active_session.json`, one listener, one connection | `--init-identity`; one exchange per run: read keys, remove old session, bind, accept once, offer, check response, send final, store session | client over TCP; decryptor through the file |
| `kem_key_client.py` | identity key files, `client/active_session.json`, one connection | `--init-identity`; one exchange per run: read keys, remove old session, connect, check offer, respond, check final, store session | server over TCP; encryptor through the file |
| `encrypt_forwarder.py` | session read at start, `packet_counter`, timings, all in memory | per frame of `tap_enc_in`: skip, or number, encrypt and write to `tap_enc_out`; stop when the counter is exhausted; save timings at the end | switch s2 through two TAP devices |
| `decrypt_forwarder.py` | session read at start, `seen_counters`, timings, all in memory | per frame of `tap_dec_in`: skip, reject (short, counter 0, replay, not authentic), or mark and write to `tap_dec_out`; save timings at the end | switch s3 through two TAP devices |
| `goose_forwarder.c`, `goose_decrypt_forwarder.c` | table of learned addresses (256 entries) | per packet: drop, redirect to or from the TAP ports, learn, forward, flood | hosts, core switch, TAP devices |
| `goose_integration_topo.py` | TAP devices of the machine | create stale-free TAPs, start, CLI, stop, delete TAPs | Mininet, BPFabric |
| `goose_sender.py` | sequence number | send `count` distinct frames | host interface |
| `payload_validation_receiver.py` | received count, CSV file | count, validate and log every GOOSE frame until `count` are in | host interface |
| `calculate_statistics.py` | none | mean, percentiles, loss from a CSV | CSV of the receiver |
| `create_goose_event_pcap.py` | none | write a fixed capture | — |
| liboqs, `cryptography` (external) | — | ML-KEM, ML-DSA, HKDF, AES-GCM | — |

What is hard here:

* *Crashes and restarts.* The forwarders keep in memory what the safety of the
  session depends on (counter, seen counters), while the session itself is a file
  that outlives them.
* *Two sides that cannot act together.* Each side of the exchange removes and writes
  its own record; a crash, timeout or failed write on one side is not seen by the
  other.
* *Delivery.* The fabric may lose, duplicate, delay, reorder and damage frames and
  carry frames no encryptor made.
* *Timeouts and one-shot servers.* `accept` waits for ever, everything after it for
  30 s; one accept per run, so dead connections in the queue matter.
* *Boundaries.* Counter 0 and 2^64 - 1, the shortest frame, full queues and tables.

`PROJECT.json` lists each hazard at its line with the properties that cover it.

## 2. Modules

How they fit together:

    Identity                        keys of both sides, made once
    MessageFraming  implements MessageChannel       (messages over a byte stream)
    KemHandshake    implements SessionRecords       (what the exchange leaves on disk)
    GooseTunnel     is built on SessionRecords
                    implements AtMostOnceChannel    (what the application gets)
    EdgeFabric      implements AtMostOnceChannel    (for the publisher's GOOSE)
    Experiment      is built on AtMostOnceChannel
    LatencyStatistics               extends Experiment
    TimingLog                       the forwarders' own measurements

An abstract specification on the right is a module of its own; "implements" is a
refinement mapping (`INSTANCE ... WITH`) that a run checks as a PROPERTY, and "is
built on" an instance whose actions the module uses as the steps of its environment.

### AtMostOnceChannel

What the application behind the tunnel relies on: a payload comes out only if it
went in, and at most once. Two variables (`offered`, `deliveries`), two actions.

### SessionRecords

What the forwarders see of the key exchange. Each record is removed (`Retire...`)
before a new session is agreed; a session is agreed once (`AgreeOnSession`), by the
server, with the client hearing of it or not; each side then stores it or ends
without (`...ExchangeEnds`). A truncated record counts as none: a forwarder refuses
it.

### GooseTunnel

Both forwarders and the fabric between them, with the key exchange reduced to what
the forwarders see of it.

* *State.* `encFile`, `decFile` are the two record files; `encAgreed`, `decAgreed`
  sessions a running exchange has agreed on and not yet stored. `encSession`,
  `packetCounter`, `tapEncIn` are the encryptor process (`NoSession`: not running)
  and the queue of its TAP; `decSession`, `seenCounters` the decryptor process.
  `wire` is the set of frames between the forwarders, a set because nothing keeps
  their order. `sealed`, `encUsed`, `decUsed`, `faults` are history.
* *Abstraction.* A session stands for AES key, nonce prefix and AAD of one record. A
  seal stands for an AES-GCM output and opens only under the session and counter it
  was made with. That is sound for AES-GCM as long as nonces are not reused, which is
  itself one of the properties; the passing runs therefore all have
  `ReuseSession = FALSE`, and runs with reuse serve only to show what goes wrong. A
  payload is a model value, sent once (the sender puts a sequence number and the
  time into each). A frame keeps its size in bytes because the minimum length check
  depends on it. The Ethernet header is carried unchanged and is left out. Sequence
  of the read loop's checks is kept.
* *Actions.* `SkipFrame`, `ExhaustCounter`, `EncryptFrame`, `EncryptWriteFails` are
  the outcomes of one turn of the encryptor's loop; `RejectFrame`, `DeliverFrame`,
  `DeliverWriteFails` those of the decryptor's. `StartEncryptor`, `StartDecryptor`
  load the record; `StopEncryptor`, `StopDecryptor` stand for Ctrl-C and kills.
  `KeyExchange` is any step of SessionRecords. `LoseFrame`, `DamageFrame`,
  `ForeignFrame` and the duplicate in `ReadFrame` are the fabric.
* *`ReuseSession`* says whether the operator may start a forwarder a second time on
  the same record. The code does not prevent it. The README of the repository
  promises unique nonces and replay rejection without naming a condition; the passing
  runs and the theorems assume that no forwarder is started so, and restart_nonce and
  restart_replay show what happens otherwise.
* `OnlyProtectedDelivered` is said of the step that delivers: the frame it takes from
  the wire is one the encryptor made, of the session the decryptor runs at that moment
  and with its own counter. A frame of the session before a rekey is the case that
  matters.

### KemHandshake

`run_server` and `run_client`, step by step, with any number of runs per side.

* *State.* Per run: where it is, the profile it read at start, its connection, the
  message in flight to it, the session material it derived. Shared: who holds TCP
  port 9000, its listen queue, the two record files. `activated` is history.
* *Abstraction.* Everything a run draws at random is fresh, so the run's name stands
  for it. `Material(s, c)` is what HKDF yields from the shared secret of server run s
  and client run c and their transcript. A profile is what a run was configured
  with: its identity key, the peer key it trusts, version, algorithms, group, and the
  member (client) or the authorised and revoked members and key version (server).
  Signature verification is a comparison of keys. TCP delivers whole messages in
  order or the connection closes or goes silent; messages are only ever those the
  programs send, so checks against values TCP cannot mix up (session id, challenges)
  are kept in the guards but cannot fail.
* *Actions.* `ServerStart` and `ClientStart` read keys and remove the old record in
  one step; `ServerListen` binds and listens; `ServerAccept` accepts and sends the
  offer; `ServerConfirm` does everything from the received response to the sent final
  message; `ServerStore` writes the record, after the final message as in the code.
  `ClientRespond`, `ClientConfirm`, `ClientStore` are the client's counterpart.
  Failures are actions of their own: bind fails, connection refused, rejected
  message, hangup, send to a closed peer, timeout, crash (which may leave a truncated
  record).
* *`Overlap`* says whether a run may start while another of its side is running.
* *Ends.* A run that ends without a record is `failed` when the code gave up by itself
  and `stopped` when its timer, a kill or a crash ended it; `ExchangeSucceeds` excuses
  the second and a connection that was cut, nothing else.
* *`Service`* maps the exchange to SessionRecords: the session of a record is the
  server run it was derived with; the session agreed is that of the server run that
  has sent its final message and not yet stored (`ServerAgreed`), and of the client
  run whose final message is under way or accepted (`ClientAgreed`).

### EdgeFabric

The programs of both edge switches on the wiring of the topology, with the core
switch and the forwarders reduced to what they do to a frame's protection.

* *State.* `input` are the frames waiting at each port of each edge, `core` those on
  their way to the core switch, `tap` those on their way to a forwarder; `inports`
  the learning table of each edge; `sent` and `received` are history, the latter
  counted up to `Many` = 2.
* *Ports.* 0 and 1 hosts, 2 core, 3 and 4 the TAP devices, in this order on both
  edges. The programs depend on it (`PORT + 2`, `PORT + 3`, `in_port`); it is what
  Mininet yields for the links of the topology, sorted, and the TAP devices attached
  after them.
* *Abstraction.* A frame is what a host sent (`at`, `src`, `dst`, `goose`) and how
  often it is encrypted (`seals`): encrypting changes neither addresses nor type. The
  core switch floods a frame to the other edge, or keeps a unicast frame whose
  destination is where it came from. Its program is not in the repository. That it
  never sends a frame out of the port it came from is an assumption: `LearnedTrue`,
  `UnicastDelivered` and `FallsSilent` rest on it. No frame is lost here; GooseTunnel
  has loss.
* *Actions.* `Switch` runs the program on the next frame of any port (`Output` is
  its result, `TableAfter` the learning it does on the way), `CoreSwitch`,
  `Forwarder`, and `Send` for hosts and for what the kernel sends through a TAP.
* No host sends unicast frames to the address of a TAP device. The run fills the
  tables (`MaxEntries` = 2 against three hosts and a TAP that send; 256 in the code) and
  `LearnedTrue` and `FallsSilent` hold for its traffic, in which two hosts send one
  unicast frame each. A full table misleads nobody with so little: what becomes of a
  unicast frame that one edge floods because its table is full, and that returns from
  the other and is learned there, is not reached, and these properties are not claimed
  for full tables and every traffic.
  `LearnedTrue` is proved for every traffic between hosts while the tables have room;
  `PublisherProtected`, `NeverSealedTwice` and the refinement are proved without
  either condition.

### MessageChannel and MessageFraming

MessageChannel: whole messages in order, each once; a receiver gives up only on a
broken connection. MessageFraming: `send_message`, `receive_exact` and
`receive_message` over a stream of bytes that `Write` and `Receive` cut anywhere.

* *State.* `toSend`, `pending` what the peer has still to send and to write, `stream`
  the bytes on their way, `header`, `received_data`, `expected`, `result` the
  receiver; `accepted` and `broken` are history.
* *Abstraction.* The header is `HeaderSize` digits of base `Base` (4 and 256 in the
  code), with `Pack` and `Unpack` computing it. A message is a member of `Messages`
  (what decodes to a JSON object). One direction is modelled: the other is the same
  code.
* *Peers.* One of ours sends a program of messages, at least one (as both sides do
  on every connection: a receiver that expects nothing would otherwise give up with
  nothing broken); a foreign one sends any bytes.
  Either may end, fall silent or have its last bytes thrown away anywhere.

### Identity

`initialise_identity` of both sides. A run's key pair has the run's name; files are
missing, empty (opened and not yet written) or hold a key. `Create`, `OpenPrivate`,
`WritePrivate`, `OpenPublic`, `WritePublic` are the steps in the order of the code,
`Refuse` the exists check failing, `Kill` an end anywhere. `Trust` is the operator
copying a public key file to the other side. `Overlap` as in KemHandshake.

### Experiment

goose_sender.py, payload_validation_receiver.py and the loss count of
calculate_statistics.py around an AtMostOnceChannel. `HandlePacket` counts a frame
and `WriteRow` appends its row and may end the capture: two steps, since Ctrl-C may
come between. A frame of the measured sender run is its sequence number. Others reach
the interface too, since the capture filters nothing: `NotGoose` (`SkipPacket`, the
early return), `Foreign` (fails validation, with a send time or without), `Untimed`
(passes it without a usable send time) and `Another`, a valid frame of another or a
repeated sender run, or a copy. A row keeps which frame it is of; the file has only
its sequence number, by which sender runs cannot be told apart, and the statistics do
not look at it. `Lost` is evaluated on the file at any time, not only at the end.
`LossAccounted` says exactly what it is worth: it falls short of the frames without a
row by the number of rows of `Another`, and by nothing else.

### LatencyStatistics

Percentile, minimum, maximum and median of the latencies in the file that Experiment
builds row by row, restarts of the receiver included. Values are integers and results
a hundred times their value, so that interpolation is exact. The reference definition (`ReferencePercentile`) does
not sort: it takes the value at a position by counting smaller ones. Python's `sorted`
is what it promises (`SortedValues`: a rearrangement that ascends), the loop over the
rows is the recursive function `collected`.

### TimingLog

`save_results` and what leads to it, for the processes of one forwarder that append
to one CSV file. `file` is its lines; a kill may leave the last one `Cut`, and what is
appended to that is `Damaged`. `TapFree` is the kernel giving a TAP device to one
process. `OpenResults` is one step (check, open, header decided): two processes are
never there at once because of the TAP.

### The rest

GooseTunnelProofs, KemHandshakeProofs, KemServiceProofs, EdgeFabricProofs,
MessageFramingProofs, IdentityProofs, ExperimentProofs and TimingLogProofs hold
theorems (section 5). MCGooseTunnel, MCKemHandshake, MCEdgeFabric, MCMessageFraming
and MCLatencyStatistics hold values, symmetry and traffic for TLC. An operator marked
"mutant of" is a faulty variant of the one it names; no specification uses it, and
`PROJECT.json` says which property fails when it replaces that one.

## 3. Runs

| Run | Configuration | What it shows |
|---|---|---|
| tunnel_safety | 3 payloads of size 0 or 1, 2 sessions, counter up to 2, TAP queue of 2, 2 faults of any kind | nonces unique, at most once, only protected payloads delivered, only replays rejected, refinement of AtMostOnceChannel |
| tunnel_progress | 2 payloads, 2 sessions, 1 fault that is not a loss | queued payloads are delivered |
| restart_nonce | encryptor restarted on its record | *violation*: nonces are used twice |
| restart_replay | decryptor restarted on its record, a duplicate | *violation*: a payload is delivered twice |
| handshake_rekey | 3 + 3 runs in turn, every fault | the records never disagree; no fallback to an old session; refinement of SessionRecords |
| handshake_ends | 2 + 2 overlapping runs, 3 server and 2 client profiles (a raised key version, another group, a revoked member; another trusted key), every fault, queue of 1 | a record only for an admitted member and a session both sides derived; two records of one session agree; every client run and every accepted server run ends; compatible runs that nothing disturbs store the session on both sides |
| active_not_stored | 1 + 1 runs, crash | *violation*: ACTIVE is announced before it is true |
| fabric | 5 frames: GOOSE of h_1_1 (publisher) and h_2_2, unicast within an edge and across the core, a kernel frame at a TAP; tables of 2 entries | publisher's GOOSE protected and delivered; nothing encrypted twice; for this traffic nothing circulates, tables are right and unicast arrives; refinement of AtMostOnceChannel |
| framing | base 3, headers of 2, messages of 1 to 5 bytes, limit 4, up to 3 messages; 5 foreign streams | refinement of MessageChannel; everything arrives on a sound connection; memory bounded; the receiver ends |
| experiment | 3 frames, target of 4, 2 other frames of any kind, 2 starts, interrupts, 2 latencies | rows numbered; loss accounted for; minimum, median, maximum and percentiles as defined; the receiver stops at its target |
| identity_kept | 3 runs over two sides, one at a time, killed anywhere | keys kept; a trusted key has its private key |
| timings_kept | 3 processes with up to 2 packets | one header, rows together, timings saved |

*Why the bounds are enough.* Every property of the tunnel relates at most two frames
of one session, or frames of two sessions: two counters reach exhaustion with the
third payload, two sessions make stale frames and rekeying happen, two faults give
every pair of kinds (a stop and a duplicate, a foreign frame and a damaged one).
Payload size 0 and 1 are the two sides of the length boundary. For the tunnel the
theorems of section 5 remove the bounds altogether, and so they do for the safety
properties of the handshake: `RecordsAdmittedCorrect` and `SessionMeansRecordCorrect`
cover every way in which two configurations can disagree, of which handshake_ends has
three. In handshake_rekey a property relates the current exchange, the one
whose record is still there, and one that was cut short between them: three runs per
side. `Backlog` is the argument of `listen` in handshake_ends; Linux queues one
connection more, which the other runs use.

In the fabric, properties concern one frame and its copies against what other
traffic taught the tables; each kind of sender (redirected port, other port, other
edge, TAP) occurs, with known, unknown and group destinations. The theorems about the
publisher's GOOSE remove the bounds on traffic and table, the one about the tables
that on traffic; delivery and silence are checked for this traffic only. Framing: the header is longer than one
byte, lengths run from below the header size to above the limit, a message begins with
what looks like a length, and capacity is smaller than header and message together.
Experiment: every channel outcome of three frames, with any two other frames: as many
rows of another sender run as frames lost, fewer, or more (the cut at 0), and one frame
more than the target.
Statistics: four rows have 95 and 99 percent between positions, 0 and 100 percent and
the single row exactly on one, and the median on one or between two; two different
values tell which position a statistic takes, and the theorem has any values. Identity and TimingLog: a third
run meets what two others left behind.

*Bounds in the modules.* `MaxCounter` is `MAX_COUNTER` (2^64 - 1 in the code);
`MaxFaults` and `Faults` bound the faults of the tunnel, `Servers`, `Clients` the
runs of the exchange. `TapQueueLength` and `Backlog` are limits of the kernel.
`Messages` bounds the traffic of the fabric, `Many` its count of deliveries,
`Capacity` what a connection holds, `MaxOther` and `MaxStarts` the experiment,
`Latencies` and `Percents` the statistics, `Runs` identity creation, `Processes` and
`MaxPackets` the timing log.

*Deadlock* checking is off in every configuration: payloads, frames, faults and runs
are finite, so every behaviour may come to rest, as the programs do when nobody starts
them again. Progress is stated by the liveness properties instead.

*Symmetry* (payloads, sessions, runs) is used for safety only.

*Fairness.* Tunnel: the encryptor's read loop takes a step when it can, and each
payload's frame on the wire is read in the end; both are blocking reads in an
endless loop. Nothing is assumed of starts, stops, publisher, key exchange or
faults, and no loss or damage is allowed in that run, since nothing is retransmitted.
Handshake: each run takes a step when it can, its 30 s timers included; nothing is
assumed of the operator, crashes and cuts. That a server waiting in `accept` without a
timeout ends is neither assumed nor claimed.
Fabric: switches and forwarders poll their ports for ever; hosts need not send.
Framing: the receiver runs and its timeout expires; peer and network are relied on
only while nothing has gone wrong (`~broken`). Experiment: the sender sends and the
receiver handles what it has captured; the channel may lose everything.

## 4. Findings

Three runs show the code disagreeing with its own documentation; `PROJECT.json` quotes
the lines.

1. *Nonces repeat after an encryptor restart* (restart_nonce). The counter starts at
   0 in every process, the key and nonce prefix stay in the file.
2. *A replay is delivered after a decryptor restart* (restart_replay). The seen counters
   end with the process, the key stays in the file. Only the decryptor is restarted in
   the run's trace, so no nonce is used twice in it.
3. *ACTIVE is announced before the record is stored* (active_not_stored). A server that
   ends in between leaves the client with a session nobody can decrypt.

Observations that have no run of their own; TLC shows each when the constant named is
changed in a configuration above:

* `ReuseSession = TRUE` (a forwarder started again on its record):
  `OnlyReplaysRejected` fails, since a restarted encryptor repeats counters that a
  running decryptor remembers.
* `Overlap = TRUE` in handshake_rekey: `PairedRecords` fails (a slow client stores its
  session over that of a later one), so that run and the theorem assume that the
  operator runs each side one at a time.
* `Overlap = TRUE` in identity_kept: `KeysKept` fails. Both runs pass the exists check
  before either writes (kem_key_server.py:216-221).

More follow from how the models are written. The loss that calculate_statistics.py
reports counts rows (calculate_statistics.py:93): each row of another run of
goose_sender.py makes up for a lost frame, as `LossAccounted` states. A run of
`--init-identity` killed between its two files leaves half an identity, which every
later run refuses as existing (kem_key_server.py:230-235): the operator has to remove
it. And only port 0 of an edge is redirected (goose_forwarder.c:39): GOOSE of the second
host crosses the core in the clear, so that `PublisherProtected` speaks of the publisher
alone.

## 5. Proofs

All theorems hold for every value of the constants that satisfies the assumption of
the module (`ConstantsAssumption`, `HandshakeAssumption`, `FabricAssumption` and so
on), which TLC evaluates on every run.

`GooseTunnelProofs`:

* `TypeCorrect` — `TypeOK`, without further assumption. `TypeOK` is inductive.
* `NonceUniqueCorrect`, `AtMostOnceCorrect`, `OnlyProtectedDeliveredCorrect`,
  `OnlyReplaysRejectedCorrect`, `ChannelCorrect` — each under
  `ReuseSession = FALSE`, without which `NonceUnique`, `AtMostOnce` and
  `OnlyReplaysRejected` fail (restart_nonce, restart_replay and section 4).

None of these properties is inductive by itself. `NonceUnique` needs that the running
encryptor's counter is at least every counter of its session (`CounterAhead`), which
after a start holds because no earlier seal is of that session (`SealOrigin`: seals
are only of sessions in `encUsed`). `AtMostOnce` needs that a payload is sealed once
(`SealedOnce`), which needs that what is queued was not sealed before
(`QueueFresh`), and that a delivered seal of the running session has its counter
remembered (`DeliveredOnce`). `OnlyReplaysRejected` needs the converse: every
remembered counter is of a delivered seal (`SeenDelivered`), together with
`NonceUnique`, and that a sealed frame is never too short (`WireSealed`).
`OnlyProtectedDelivered` is about a step: only `DeliverFrame` delivers
(`OnlyDeliverFrameDelivers`), and the seal it accepts was made by an encryptor
(`WireSealed`) of a payload that was sent (`SealOrigin`). `Inv` is the conjunction. `InvNext` has one step per action; the steps that seal a frame, take
one from the queue or accept one rest on `SealStep`, `QueueTailFresh`,
`QueueAppendFresh` and `AcceptedIsFresh`. The refinement follows from
`AcceptedIsFresh`: an accepted frame's payload was offered and not delivered yet.

`KemHandshakeProofs`:

* `TypeCorrect`, `RecordsAdmittedCorrect` — `TypeOK` and `RecordsAdmitted`, for any
  profiles, overlap and faults.
* `NoFallbackCorrect`, `PairedRecordsCorrect` — each under `Overlap = FALSE`. The assumption is
  needed: a server run started while another is still running removes the record
  before the other writes its own, so that later a client can store the session of
  the second while the server's record is still of the first (TLC finds this with
  `Overlap = TRUE`).
* `LinksCorrect`, `InTurnCorrect` — the invariants they follow from.

`Links` says how the parts belong together: a started run has a profile
(`Profiled`), the port is held by exactly the run that listens or serves
(`PortHeld`), a client is connected to a run that has listened and a server serves
the one client connected to it (`Hosted`, `Served`), a message in flight is what the
other end sent (`Sent`), material is derived by the client only from an offer it
accepts and by the server only after the client (`ClientDerived`,
`ServerDerived`), and a record is that of a run that derived its session
(`Stored`). `RecordsAdmitted` follows from `Stored` by `ServerRecordAdmitted` and
`RecordsAgree`. That a record stays the record of its run needs that no later step
changes what it is made of: every step is shown to satisfy `Settled`. There is one
lemma per action (`ServerStartStep` ... `CutConnectionStep`), one for all the ways a
server run ends and one for those of a client run; `LinksNext` combines them.

`InTurn` adds, for runs in turn, that at most one run of each side is running
(`Sole`), that once a client has connected to the running server no client and no
client record belongs to an earlier one (`ServerInTurn`), that while a client is
connected the server's record is of no other run (`ClientInTurn`), and that two
records are of one session (`SameSession`); with `Links` that makes them one record
(`SameSessionSameRecord`).

`KemServiceProofs`:

* `SessionMeansRecordCorrect` — two records of one session agree in every field, for
  any profiles, overlap and faults. From `Links`: each record is that of a run that
  derived its session, and the checks of offer, response and final message make the
  fields equal.
* `ServiceCorrect` — under `Overlap = FALSE` the exchange implements SessionRecords.
  Every step maps to one of its actions or to a stutter: the step in which the server
  confirms is `AgreeOnSession`, the starts are `Retire...`, and every way a run ends
  after that is `...ExchangeEnds`. It needs `InTurn`: when a server confirms, no
  record and no agreed session of an earlier run is left. With it, what is proved of
  GooseTunnel over SessionRecords holds over the key exchange.

`EdgeFabricProofs`: `TypeCorrect`, `PublisherProtectedCorrect` and
`NeverSealedTwiceCorrect`, for any traffic and any size of table. The invariant says
for each place which frames can be there and how often they are sealed: host ports
only what their host sent, unsealed; what a forwarder returned once sealed (s2) or
opened (s3); behind the core no unsealed frame of the publisher. Learning does not
matter, because GOOSE of the publisher is redirected before the table is used. Two
more:

* `ChannelCorrect` — the fabric implements AtMostOnceChannel for the publisher's
  GOOSE. `OnceOnly` looks at all queues as one function (`Content`): at most one
  position of one queue holds a publication, none if it was not sent or has arrived.
  Each step takes it from one place and puts it in at most one other: where the first
  invariant lets it be, it is redirected, returned from a TAP or handed to the
  subscriber, and never flooded (`PublishedOutput`).
* `LearnedTrueCorrect` — what an edge has learned of a host is where the host is, if
  the tables have an entry for every address (`TablesSuffice`) and hosts send to hosts
  or groups (`HostsAddressHosts`). `LearnedTrue` is not inductive: a frame must not
  come back to the edge of its host. `Learning` adds that frames wait at host ports
  only from their host (`Entrances`), that the far edge never knows a host its own
  edge does not know (`HomeFirst`), and, for an edge's frames on their way over the
  core (`Way`), that of a frame whose destination is at that edge after all (`Stray`)
  the far edge does not know the destination, and no frame ahead of it teaches it: so
  the far edge does not send it back. TLC was asked about both
  conditions. With one entry the flooded frame returns and is learned from the core.
  A host that addresses the kernel's own address of the TAP devices, which both edges
  can learn at their core port, has its frame sent back the way it came.

`MessageFramingProofs`:

* `TypeCorrect` and `MemoryBoundedCorrect`. The invariant is that `receive_exact`
  holds less than it was asked for while it waits.
* `UnpackPack` — unpacking a header yields the length it was packed from, for every
  length below `Power[HeaderSize]`: an induction over the digits, for the invariant
  that the first i digits are the length divided by the weight of the rest.
* `ChannelCorrect` — the framing implements MessageChannel, if no foreign stream begins
  with a whole message of ours (`BeginsWithMessage`; such a stream is a peer of ours
  but in name). `ChannelInv`: there is a sequence of bytes, the messages handed over
  each behind its length, in which what is collected, under way and still to be written
  stand one behind the other at the place the receiver has come to; it has as many
  messages still to come as it expects while nothing is broken. `UnpackPack` makes
  the receiver cut where the sender joined.

`IdentityProofs`: `TypeCorrect`, and under `Overlap = FALSE` `TrustedHasPrivateCorrect`
and `KeysKeptCorrect`. The invariant ties the files of a side to where its one working
run is: a public key appears only when the private key of the same run is in place,
and from then on no run passes the exists check.

`ExperimentProofs`: `TypeCorrect`, `RowsNumberedCorrect` and
`LossAccountedCorrect`. `Once` says that a frame of the sender is captured or
recorded in one place only, because the channel delivers it once; `LatencyRows` that
its row passes and has a latency. Hence the rows of the sender's frames are as many as
the frames recorded (a bijection), the analysed rows are these and the rows of other
sender runs (`AnalysedAreRecorded`), and the loss is what they leave of the frames
sent. And for the statistics:

* `PercentileCorrect` — `percentile` meets `ReferencePercentile` for any values and
  any p from 0 to 100. That values can be sorted at all is an induction
  (`OrderExists`: put a least one first, the others are in order); the k-th value in
  order is the only one with fewer than k smaller and at least k not greater
  (`RankFacts`, `AtIs`); and f, c and the weights of the interpolation are those of the
  position (`PlaceFacts`).
* `StatisticsDefinedCorrect` — for every results file the receiver can leave, so with
  minimum, maximum and median as the percentiles 0, 100 and 50 (`EndsAre`,
  `MiddleIs`). That what `collected` takes from the rows are numbers is an induction
  over the rows (`CollectedFacts`).

`TimingLogProofs`: `TypeCorrect`, `HeaderOnceCorrect`, `RowsTogetherCorrect` and
`TimingsSavedCorrect`. The TAP keeps one process at work (`OneAtATime`); the lines it
has to write (`ToWrite`) are rows up to its last packet, behind the header exactly if
the file is empty; what it has written ends the file, unless nothing and the file ends
in a cut line (`Written`). `Accounted` follows each timing from the list to the file.

Model-checked only: the liveness properties (`QueuedPayloadDelivered`, `RunsEnd`,
`ExchangeSucceeds`, `PublicationDelivered`, `UnicastDelivered`, `FallsSilent`,
`AllReceived`, `ReceiverEnds`, `StopsAtTarget`), which are out of the prover's reach,
as is ENABLED. Every other property of the passing runs is a theorem, with the
hypotheses given above. The library's induction theorems are out of reach too, because
they take an operator as a parameter; what is proved here by induction goes over sets
instead: a set of numbers has a least member (`Least`, from the well-foundedness of
the numbers), so that a set with 0 that has with every number the next one has them
all (`SetInduction`). That a recursive function is what its equation says is proved
by building one up to each length.

## 6. Not modelled

* *Creation and removal of TAP devices* (`create_tap`, `delete_tap`): what they do is
  the behaviour of `ip`, Mininet and the kernel; the repository has a fixed sequence of
  commands. If `net.stop` raised, the devices would stay behind, until the next start
  removes them as stale.
* *Arithmetic of the cryptographic libraries*: ideal signatures, key encapsulation,
  HKDF and AES-GCM are assumed.
* *Measured times, mean, standard deviation and floating-point rounding*, printed
  output, the summary file of the statistics.
* `create_goose_event_pcap.py`, which writes one fixed capture, and the recorded
  results.
* *A server that no client reaches* waits in `accept` for ever; the code means it to,
  and no property claims otherwise. *Memory of `seen_counters`* grows with the frames
  of a session; the set is modelled, its size is not limited.

What could still be added: the fabric with loss and with full tables for unicast traffic; the tunnel and
the fabric in one module, instead of meeting at AtMostOnceChannel.
