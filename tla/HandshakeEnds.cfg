\* Overlapping runs, configurations that disagree, and every fault: what the records hold,
\* and that all runs end and the undisturbed succeed.
SPECIFICATION FairSpec

CONSTANTS
    Servers = {s1, s2}
    Clients = {c1, c2}
    NoServer = NoServer
    NoClient = NoClient
    ServerProfiles <- MixedServerProfiles
    ClientProfiles <- MixedClientProfiles
    NoProfile = NoProfile
    NoKey = NoKey
    NoMessage = NoMessage
    NoRecord = NoRecord
    TornRecord = TornRecord
    Backlog = 1
    Overlap = TRUE
    Faults = {"timeout", "crash", "cut"}

INVARIANTS
    RecordsAdmitted
    SessionMeansRecord
PROPERTIES
    RunsEnd
    ExchangeSucceeds

\* Each run ends: the operator may start no other.
CHECK_DEADLOCK FALSE
