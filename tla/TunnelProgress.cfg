\* Progress while both forwarders run; no frame is lost or damaged.
SPECIFICATION FairSpec

CONSTANTS
    Payloads = {p1, p2}
    Sessions = {s1, s2}
    NoPayload = NoPayload
    NoSession = NoSession
    NoSeal = NoSeal
    Sizes = {1}
    MaxCounter = 2
    TapQueueLength = 2
    ReuseSession = FALSE
    Faults = {"duplicate", "foreign", "stop", "write"}
    MaxFaults = 1

PROPERTIES
    QueuedPayloadDelivered

\* The system may come to rest: payloads, sessions and faults run out.
CHECK_DEADLOCK FALSE
