--------------------------- MODULE SessionRecords ----------------------------
(***************************************************************************)
(* What the key exchange promises to the two forwarders about the session  *)
(* records they read: each record is removed before a new session is       *)
(* agreed, a session is agreed once, and each side then stores that        *)
(* session or none.  GooseTunnel is built on this service and              *)
(* KemHandshake is shown to provide it.                                    *)
(***************************************************************************)
CONSTANTS
    Sessions,          \* sessions the key exchange can establish
    NoSession          \* no session: a missing or damaged record, or none agreed

VARIABLES
    encFile,           \* session in the client's active_session.json
    decFile,           \* session in the server's active_session.json
    encAgreed,         \* session a running client can still store
    decAgreed,         \* session a running server has confirmed and not yet stored
    established        \* sessions agreed so far

vars == <<encFile, decFile, encAgreed, decAgreed, established>>

Init ==
    /\ encFile = NoSession
    /\ decFile = NoSession
    /\ encAgreed = NoSession
    /\ decAgreed = NoSession
    /\ established = {}

\* A run of the client removes the record it finds.
RetireEncRecord ==
    /\ encAgreed = NoSession
    /\ encFile # NoSession
    /\ encFile' = NoSession
    /\ UNCHANGED <<decFile, encAgreed, decAgreed, established>>

RetireDecRecord ==
    /\ decAgreed = NoSession
    /\ decFile # NoSession
    /\ decFile' = NoSession
    /\ UNCHANGED <<encFile, encAgreed, decAgreed, established>>

\* The server confirms a fresh session and tells the client, if it still listens.
AgreeOnSession(s) ==
    /\ s \notin established
    /\ {encFile, decFile, encAgreed, decAgreed} = {NoSession}
    /\ established' = established \union {s}
    /\ encAgreed' \in {s, NoSession}
    /\ decAgreed' = s
    /\ UNCHANGED <<encFile, decFile>>

\* The run ends, with its record stored or not.
EncExchangeEnds ==
    /\ encAgreed # NoSession
    /\ encAgreed' = NoSession
    /\ encFile' \in {encAgreed, NoSession}
    /\ UNCHANGED <<decFile, decAgreed, established>>

DecExchangeEnds ==
    /\ decAgreed # NoSession
    /\ decAgreed' = NoSession
    /\ decFile' \in {decAgreed, NoSession}
    /\ UNCHANGED <<encFile, encAgreed, established>>

Next ==
    \/ RetireEncRecord
    \/ RetireDecRecord
    \/ \E s \in Sessions : AgreeOnSession(s)
    \/ EncExchangeEnds
    \/ DecExchangeEnds

Spec == Init /\ [][Next]_vars
==============================================================================
