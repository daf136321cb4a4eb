----------------------------- MODULE GooseTunnel -----------------------------
(***************************************************************************)
(* The per-packet protection path: scripts/encrypt_forwarder.py on the     *)
(* publisher's edge, scripts/decrypt_forwarder.py on the subscriber's edge *)
(* and the fabric between tap_enc_out and tap_dec_in.                      *)
(*                                                                         *)
(* Each forwarder is an operating-system process: it reads the session     *)
(* record once when it starts, keeps its counter (or its set of seen       *)
(* counters) in memory only, and loses it when it ends.  The records are   *)
(* files that the key exchange replaces independently of the forwarders.   *)
(*                                                                         *)
(* A session stands for the AES key, the nonce prefix and the AAD (group,  *)
(* key id, key version) of one record.  A seal stands for an AES-GCM       *)
(* ciphertext: it opens only under the session and the counter it was made *)
(* with, which is what AES-GCM provides.                                   *)
(***************************************************************************)
EXTENDS Integers, Sequences, FiniteSets

CONSTANTS
    Payloads,          \* GOOSE payloads, each sent once (it holds sq_num and time)
    NoPayload,         \* what a frame that is not GOOSE carries
    Sizes,             \* payload sizes in bytes, 0 included
    Sessions,          \* sessions the key exchange can establish
    NoSession,         \* no session: a missing record, or a process not running
    NoSeal,            \* bytes that are no AES-GCM output of the encryptor
    MaxCounter,        \* MAX_COUNTER, 2^64 - 1 in the code
    TapQueueLength,    \* frames the kernel queues on a TAP device
    ReuseSession,      \* may a forwarder be started twice on one record?
    Faults,            \* the faults a run includes, a subset of FaultKinds
    MaxFaults          \* how many of them a behaviour may contain

FaultKinds == {"lose", "duplicate", "damage", "foreign", "stop", "write"}

ASSUME ConstantsAssumption ==
    /\ MaxCounter \in Nat \ {0}
    /\ TapQueueLength \in Nat \ {0}
    /\ MaxFaults \in Nat
    /\ Faults \subseteq FaultKinds
    /\ Sizes \subseteq Nat
    /\ ReuseSession \in BOOLEAN
    /\ NoSession \notin Sessions
    /\ NoPayload \notin Payloads

VARIABLES
    encFile,           \* session in the client's active_session.json
    decFile,           \* session in the server's active_session.json
    encAgreed,         \* session a running client has confirmed and not yet stored
    decAgreed,         \* session a running server has confirmed and not yet stored
    established,       \* sessions the key exchange has established so far
    encSession,        \* session the running encryptor holds, or NoSession
    packetCounter,     \* packet_counter of the running encryptor
    tapEncIn,          \* frames queued on tap_enc_in
    decSession,        \* session the running decryptor holds, or NoSession
    seenCounters,      \* seen_counters of the running decryptor
    wire,              \* frames between tap_enc_out and tap_dec_in
    offered,           \* GOOSE payloads the publisher has sent
    deliveries,        \* how often each payload was written to tap_dec_out
    sealed,            \* history: every seal the encryptors have made
    encUsed,           \* history: sessions an encryptor has been started on
    decUsed,           \* history: sessions a decryptor has been started on
    faults             \* number of faults so far

records == <<encFile, decFile, encAgreed, decAgreed, established>>
encState == <<encSession, packetCounter, tapEncIn, encUsed>>
decState == <<decSession, seenCounters, decUsed>>
vars == <<records, encState, decState, wire, offered, deliveries, sealed, faults>>

------------------------------------------------------------------------------
(* Frames.  size counts the bytes after the Ethernet header.               *)

COUNTER_SIZE == 8
GCM_TAG_SIZE == 16
MinimumLength == COUNTER_SIZE + GCM_TAG_SIZE + 1

Seals == [session : Sessions, counter : 1 .. MaxCounter, payload : Payloads]

WireFrames ==
    [goose : BOOLEAN, size : Nat, counter : 0 .. MaxCounter,
     seal : Seals \union {NoSeal}]

GooseFrame(p, n) == [goose |-> TRUE, size |-> n, payload |-> p]
OtherFrame == [goose |-> FALSE, size |-> 1, payload |-> NoPayload]

InputFrames == [goose : {TRUE}, size : Nat, payload : Payloads] \union {OtherFrame}

ProtectedFrame(q, n) ==
    [goose |-> TRUE, size |-> COUNTER_SIZE + n + GCM_TAG_SIZE,
     counter |-> q.counter, seal |-> q]

\* Frames that reach tap_dec_in without having passed the encryptor: other
\* traffic flooded by the switch, and GOOSE that nobody encrypted, whose first
\* eight bytes are read as a counter.
ForeignFrames ==
    [goose : {FALSE}, size : {MinimumLength}, counter : {0}, seal : {NoSeal}]
    \union [goose : {TRUE}, size : {MinimumLength - 1, MinimumLength},
            counter : 0 .. MaxCounter, seal : {NoSeal}]

------------------------------------------------------------------------------
(* Faults share one budget, so that every run states how many it covers.   *)

Fault(kind) ==
    /\ kind \in Faults
    /\ faults < MaxFaults
    /\ faults' = faults + 1

------------------------------------------------------------------------------
(* The key exchange, as the forwarders see it: the service of SessionRecords. *)

Exchange == INSTANCE SessionRecords

notRecords == <<encState, decState, wire, offered, deliveries, sealed, faults>>

KeyExchange ==
    /\ Exchange!Next
    /\ UNCHANGED notRecords

------------------------------------------------------------------------------
(* The publisher's side of tap_enc_in.  The kernel drops what arrives while *)
(* no process has the device open or while its queue is full.              *)

Enqueue(f) ==
    tapEncIn' = IF encSession # NoSession /\ Len(tapEncIn) < TapQueueLength
                  THEN Append(tapEncIn, f)
                  ELSE tapEncIn

SendGoose(p, n) ==
    /\ p \notin offered
    /\ offered' = offered \union {p}
    /\ Enqueue(GooseFrame(p, n))
    /\ UNCHANGED <<records, encSession, packetCounter, encUsed, decState, wire,
                   deliveries, sealed, faults>>

SendOther ==
    /\ encSession # NoSession
    /\ Len(tapEncIn) < TapQueueLength
    /\ Enqueue(OtherFrame)
    /\ UNCHANGED <<records, encSession, packetCounter, encUsed, decState, wire,
                   offered, deliveries, sealed, faults>>

------------------------------------------------------------------------------
(* encrypt_forwarder.py                                                    *)

StartEncryptor ==
    /\ encSession = NoSession
    /\ encFile # NoSession
    /\ ReuseSession \/ encFile \notin encUsed
    /\ encSession' = encFile
    /\ encUsed' = encUsed \union {encFile}
    /\ packetCounter' = 0
    /\ tapEncIn' = <<>>
    /\ UNCHANGED <<records, decState, wire, offered, deliveries, sealed, faults>>

\* The process ends: its counter and the frames queued for it are gone.
EncryptorEnds ==
    /\ encSession' = NoSession
    /\ packetCounter' = 0
    /\ tapEncIn' = <<>>
    /\ UNCHANGED encUsed

StopEncryptor ==
    /\ encSession # NoSession
    /\ Fault("stop")
    /\ EncryptorEnds
    /\ UNCHANGED <<records, decState, wire, offered, deliveries, sealed>>

Protectable(f) == f.goose /\ f.size # 0

SkipFrame ==
    /\ encSession # NoSession
    /\ tapEncIn # <<>>
    /\ ~Protectable(Head(tapEncIn))
    /\ tapEncIn' = Tail(tapEncIn)
    /\ UNCHANGED <<records, encSession, packetCounter, encUsed, decState, wire,
                   offered, deliveries, sealed, faults>>

ExhaustCounterWraps ==     \* mutant of ExhaustCounter: wraps instead of stopping
    /\ encSession # NoSession
    /\ tapEncIn # <<>>
    /\ Protectable(Head(tapEncIn))
    /\ packetCounter >= MaxCounter
    /\ packetCounter' = 0
    /\ UNCHANGED <<records, encSession, tapEncIn, encUsed, decState, wire, offered,
                   deliveries, sealed, faults>>

\* "Packet counter exhausted; rekey required": the exception ends the process.
ExhaustCounter ==
    /\ encSession # NoSession
    /\ tapEncIn # <<>>
    /\ Protectable(Head(tapEncIn))
    /\ packetCounter >= MaxCounter
    /\ EncryptorEnds
    /\ UNCHANGED <<records, decState, wire, offered, deliveries, sealed, faults>>

NextSeal(p) ==
    [session |-> encSession, counter |-> packetCounter + 1, payload |-> p]

CanEncryptOnceMore ==      \* mutant of CanEncrypt: off by one at the last counter
    /\ encSession # NoSession
    /\ tapEncIn # <<>>
    /\ Protectable(Head(tapEncIn))
    /\ packetCounter <= MaxCounter

CanEncrypt ==
    /\ encSession # NoSession
    /\ tapEncIn # <<>>
    /\ Protectable(Head(tapEncIn))
    /\ packetCounter < MaxCounter

EncryptFrame ==
    /\ CanEncrypt
    /\ LET f == Head(tapEncIn)
           q == NextSeal(f.payload)
       IN  /\ sealed' = sealed \union {q}
           /\ wire' = wire \union {ProtectedFrame(q, f.size)}
    /\ packetCounter' = packetCounter + 1
    /\ tapEncIn' = Tail(tapEncIn)
    /\ UNCHANGED <<records, encSession, encUsed, decState, offered, deliveries,
                   faults>>

\* The write to tap_enc_out fails: the nonce is spent, the frame is not sent and
\* the exception ends the process.
EncryptWriteFails ==
    /\ CanEncrypt
    /\ Fault("write")
    /\ sealed' = sealed \union {NextSeal(Head(tapEncIn).payload)}
    /\ EncryptorEnds
    /\ UNCHANGED <<records, decState, wire, offered, deliveries>>

EncryptorStep == SkipFrame \/ ExhaustCounter \/ EncryptFrame

------------------------------------------------------------------------------
(* The fabric.  A set of frames: their order is not kept.  A duplicate is a *)
(* frame that is still on the wire after it was read.                      *)

LoseFrame(f) ==
    /\ f \in wire
    /\ wire' = wire \ {f}
    /\ \/ decSession = NoSession /\ UNCHANGED faults   \* nobody reads the TAP
       \/ Fault("lose")
    /\ UNCHANGED <<records, encState, decState, offered, deliveries, sealed>>

DamageFrame(f) ==
    /\ f \in wire
    /\ Fault("damage")
    /\ \/ \E n \in 0 .. MaxCounter :
              wire' = (wire \ {f}) \union {[f EXCEPT !.counter = n]}
       \/ wire' = (wire \ {f}) \union {[f EXCEPT !.seal = NoSeal]}
    /\ UNCHANGED <<records, encState, decState, offered, deliveries, sealed>>

ForeignFrame(f) ==
    /\ Fault("foreign")
    /\ wire' = wire \union {f}
    /\ UNCHANGED <<records, encState, decState, offered, deliveries, sealed>>

ReadFrame(f) ==
    /\ f \in wire
    /\ \/ wire' = wire \ {f} /\ UNCHANGED faults
       \/ UNCHANGED wire /\ Fault("duplicate")

------------------------------------------------------------------------------
(* decrypt_forwarder.py                                                    *)

StartDecryptor ==
    /\ decSession = NoSession
    /\ decFile # NoSession
    /\ ReuseSession \/ decFile \notin decUsed
    /\ decSession' = decFile
    /\ decUsed' = decUsed \union {decFile}
    /\ seenCounters' = {}
    /\ UNCHANGED <<records, encState, wire, offered, deliveries, sealed, faults>>

DecryptorEnds ==
    /\ decSession' = NoSession
    /\ seenCounters' = {}
    /\ UNCHANGED decUsed

StopDecryptor ==
    /\ decSession # NoSession
    /\ Fault("stop")
    /\ DecryptorEnds
    /\ UNCHANGED <<records, encState, wire, offered, deliveries, sealed>>

AuthenticInAnySession(f) ==   \* mutant of Authentic: one key for every session
    /\ f.seal # NoSeal
    /\ f.seal.counter = f.counter

\* aesgcm.decrypt with the nonce rebuilt from the frame's counter bytes.
Authentic(f) ==
    /\ f.seal # NoSeal
    /\ f.seal.session = decSession
    /\ f.seal.counter = f.counter

AcceptsWithoutSeen(f) ==   \* mutant of Accepts: no replay check
    /\ f.goose
    /\ f.size >= MinimumLength
    /\ f.counter # 0
    /\ Authentic(f)

AcceptsInOrder(f) ==       \* mutant of Accepts: only counters above all seen ones
    /\ f.goose
    /\ f.size >= MinimumLength
    /\ \A c \in seenCounters : f.counter > c
    /\ f.counter # 0
    /\ Authentic(f)

Accepts(f) ==
    /\ f.goose
    /\ f.size >= MinimumLength
    /\ f.counter # 0
    /\ f.counter \notin seenCounters
    /\ Authentic(f)

RejectFrameMarks(f) ==     \* mutant of RejectFrame: marks before authenticating
    /\ decSession # NoSession
    /\ ReadFrame(f)
    /\ ~Accepts(f)
    /\ seenCounters' = seenCounters \union ({f.counter} \ {0})
    /\ UNCHANGED <<records, encState, decSession, decUsed, offered, deliveries,
                   sealed>>

RejectFrame(f) ==
    /\ decSession # NoSession
    /\ ReadFrame(f)
    /\ ~Accepts(f)
    /\ UNCHANGED <<records, encState, decState, offered, deliveries, sealed>>

DeliverFrameForgets(f) ==  \* mutant of DeliverFrame: remembers the last counter only
    /\ decSession # NoSession
    /\ ReadFrame(f)
    /\ Accepts(f)
    /\ seenCounters' = {f.counter}
    /\ deliveries' = [deliveries EXCEPT ![f.seal.payload] = @ + 1]
    /\ UNCHANGED <<records, encState, decSession, decUsed, offered, sealed>>

DeliverFrame(f) ==
    /\ decSession # NoSession
    /\ ReadFrame(f)
    /\ Accepts(f)
    /\ seenCounters' = seenCounters \union {f.counter}
    /\ deliveries' = [deliveries EXCEPT ![f.seal.payload] = @ + 1]
    /\ UNCHANGED <<records, encState, decSession, decUsed, offered, sealed>>

\* The write to tap_dec_out fails after the counter was marked: the frame is not
\* delivered and the exception ends the process.
DeliverWriteFails(f) ==
    /\ decSession # NoSession
    /\ f \in wire
    /\ Accepts(f)
    /\ Fault("write")
    /\ wire' = wire \ {f}
    /\ DecryptorEnds
    /\ UNCHANGED <<records, encState, offered, deliveries, sealed>>

------------------------------------------------------------------------------
Init ==
    /\ Exchange!Init
    /\ encSession = NoSession
    /\ packetCounter = 0
    /\ tapEncIn = <<>>
    /\ decSession = NoSession
    /\ seenCounters = {}
    /\ wire = {}
    /\ offered = {}
    /\ deliveries = [p \in Payloads |-> 0]
    /\ sealed = {}
    /\ encUsed = {}
    /\ decUsed = {}
    /\ faults = 0

Traffic ==
    \/ \E p \in Payloads, n \in Sizes : SendGoose(p, n)
    \/ SendOther

Encryptor ==
    \/ StartEncryptor
    \/ StopEncryptor
    \/ EncryptorStep
    \/ EncryptWriteFails

Fabric ==
    \/ \E f \in wire : LoseFrame(f) \/ DamageFrame(f)
    \/ \E f \in ForeignFrames : ForeignFrame(f)

Decryptor ==
    \/ StartDecryptor
    \/ StopDecryptor
    \/ \E f \in wire : RejectFrame(f) \/ DeliverFrame(f) \/ DeliverWriteFails(f)

Next == KeyExchange \/ Traffic \/ Encryptor \/ Fabric \/ Decryptor

Spec == Init /\ [][Next]_vars

\* The forwarders' read loops keep running as long as their process does, and
\* every frame queued for them is read in the end.  Nothing is assumed of the
\* operator, of the publisher or of the faults.
Carries(f, p) == f.seal # NoSeal /\ f.seal.payload = p

ReadPayload(p) ==
    \E f \in wire : Carries(f, p) /\ (RejectFrame(f) \/ DeliverFrame(f))

Fairness ==
    /\ WF_vars(EncryptorStep)
    /\ \A p \in Payloads : WF_vars(ReadPayload(p))

FairSpec == Spec /\ Fairness

------------------------------------------------------------------------------
(* Properties                                                              *)

\* Every variable stays in its range; in particular packet_counter fits the
\* counter field it is written to, which to_bytes would refuse otherwise.
TypeOK ==
    /\ encFile \in Sessions \union {NoSession}
    /\ decFile \in Sessions \union {NoSession}
    /\ encAgreed \in Sessions \union {NoSession}
    /\ decAgreed \in Sessions \union {NoSession}
    /\ established \subseteq Sessions
    /\ encSession \in Sessions \union {NoSession}
    /\ packetCounter \in 0 .. MaxCounter
    /\ tapEncIn \in Seq(InputFrames)
    /\ decSession \in Sessions \union {NoSession}
    /\ seenCounters \subseteq 1 .. MaxCounter
    /\ wire \subseteq WireFrames
    /\ offered \subseteq Payloads
    /\ deliveries \in [Payloads -> Nat]
    /\ sealed \subseteq Seals
    /\ encUsed \subseteq Sessions
    /\ decUsed \subseteq Sessions
    /\ faults \in 0 .. MaxFaults

\* No nonce is used twice: two payloads sealed under one session, by whatever
\* encryptor processes, never share a counter ("unique per-packet nonces").
NonceUnique ==
    \A q, r \in sealed :
        q.session = r.session /\ q.counter = r.counter => q = r

\* A payload reaches tap_dec_out at most once, whatever the fabric duplicates and delays
\* ("reject replayed frames"), as long as no decryptor is started on a record that
\* another has run: the set of seen counters ends with its process, and with
\* ReuseSession the property fails.
AtMostOnce == \A p \in Payloads : deliveries[p] <= 1

\* Whatever reaches tap_dec_out was sent by the publisher, and the frame it is taken from
\* was sealed by an encryptor under the very session the decryptor runs, and carries the
\* counter it was sealed with: frames that were damaged, never encrypted, or sealed in
\* the session before a rekey do not get through.
OnlyProtectedDelivered ==
    [][\A p \in Payloads : deliveries'[p] > deliveries[p] =>
           /\ p \in offered
           /\ \E f \in wire :
                  /\ DeliverFrame(f)
                  /\ f.seal \in sealed
                  /\ f.seal.payload = p
                  /\ f.seal.session = decSession
                  /\ f.seal.counter = f.counter]_vars

\* The decryptor never turns away a good frame: an undamaged frame of the session
\* it runs is rejected only if its payload has been delivered before.  As long as no
\* encryptor is started on a record that another has run, that is: it would count from 1
\* again, and a decryptor that runs on takes its frames for replays.
OnlyReplaysRejected ==
    [][\A f \in wire :
           RejectFrame(f) /\ f.goose /\ Authentic(f)
               => deliveries[f.seal.payload] > 0]_vars

\* A GOOSE payload queued on tap_enc_in while both forwarders run one session
\* comes out of tap_dec_out, unless one of the two ends first (its counter runs
\* out, it is stopped, a write fails): duplicates, overtaking and foreign traffic
\* do not stop it.
Queued(p) ==
    \E i \in DOMAIN tapEncIn : Protectable(tapEncIn[i]) /\ tapEncIn[i].payload = p

QueuedPayloadDelivered ==
    \A p \in Payloads :
        (Queued(p) /\ encSession = decSession)
            ~> \/ deliveries[p] > 0
               \/ encSession = NoSession
               \/ decSession = NoSession

\* The tunnel implements the channel the application relies on, as long as no forwarder
\* is started on a record that another has run.
Channel == INSTANCE AtMostOnceChannel
ChannelSpec == Channel!Spec
==============================================================================
