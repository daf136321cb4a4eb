\* Runs of one side one after the other, killed anywhere.
SPECIFICATION Spec

CONSTANTS
    Runs = {r1, r2, r3}
    Missing = Missing
    Empty = Empty
    Overlap = FALSE

INVARIANTS
    TypeOK
    TrustedHasPrivate

PROPERTIES
    KeysKept

\* Every run ends.
CHECK_DEADLOCK FALSE
