\* The server ends between announcing the session and storing it.
SPECIFICATION Spec

CONSTANTS
    Servers = {s1}
    Clients = {c1}
    NoServer = NoServer
    NoClient = NoClient
    ServerProfiles <- RekeyServerProfiles
    ClientProfiles <- RekeyClientProfiles
    NoProfile = NoProfile
    NoKey = NoKey
    NoMessage = NoMessage
    NoRecord = NoRecord
    TornRecord = TornRecord
    Backlog = 2
    Overlap = FALSE
    Faults = {"crash"}

INVARIANTS
    ActiveMeansStored

\* Each run ends: the operator may start no other.
CHECK_DEADLOCK FALSE
