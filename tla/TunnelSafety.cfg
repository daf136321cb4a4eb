\* Every kind of fault, one process of each kind per session.
SPECIFICATION Spec

CONSTANTS
    Payloads = {p1, p2, p3}
    Sessions = {s1, s2}
    NoPayload = NoPayload
    NoSession = NoSession
    NoSeal = NoSeal
    Sizes = {0, 1}
    MaxCounter = 2
    TapQueueLength = 2
    ReuseSession = FALSE
    Faults = {"lose", "duplicate", "damage", "foreign", "stop", "write"}
    MaxFaults = 2

SYMMETRY Symmetry
INVARIANTS
    TypeOK
    NonceUnique
    AtMostOnce
PROPERTIES
    OnlyProtectedDelivered
    OnlyReplaysRejected
    ChannelSpec

\* The system may come to rest: payloads, sessions and faults run out.
CHECK_DEADLOCK FALSE
