\* Three processes of one forwarder, stopped, interrupted while saving, or killed.
SPECIFICATION Spec

CONSTANTS
    Processes = {p1, p2, p3}
    MaxPackets = 2
    Header = Header
    Cut = Cut
    Damaged = Damaged

INVARIANTS
    TypeOK
    HeaderOnce
    RowsTogether
    TimingsSaved

\* Every process ends.
CHECK_DEADLOCK FALSE
