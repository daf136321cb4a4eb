\* A decryptor started twice on one session record.
SPECIFICATION Spec

CONSTANTS
    Payloads = {p1, p2}
    Sessions = {s1}
    NoPayload = NoPayload
    NoSession = NoSession
    NoSeal = NoSeal
    Sizes = {1}
    MaxCounter = 2
    TapQueueLength = 2
    ReuseSession = TRUE
    Faults = {"duplicate", "stop"}
    MaxFaults = 2

INVARIANTS
    AtMostOnce

\* The system may come to rest: payloads, sessions and faults run out.
CHECK_DEADLOCK FALSE
