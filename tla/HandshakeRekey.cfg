\* Three runs of each side in turn, with every fault: rekeying and interrupted rekeying.
SPECIFICATION Spec

CONSTANTS
    Servers = {s1, s2, s3}
    Clients = {c1, c2, c3}
    NoServer = NoServer
    NoClient = NoClient
    ServerProfiles <- RekeyServerProfiles
    ClientProfiles <- RekeyClientProfiles
    NoProfile = NoProfile
    NoKey = NoKey
    NoMessage = NoMessage
    NoRecord = NoRecord
    TornRecord = TornRecord
    Backlog = 2
    Overlap = FALSE
    Faults = {"timeout", "crash", "cut"}

SYMMETRY Symmetry
INVARIANTS
    TypeOK
    PairedRecords
    NoFallback
PROPERTIES
    ServiceSpec

\* Each run ends: the operator may start no other.
CHECK_DEADLOCK FALSE
