\* Peers of ours and others, a stream cut anywhere, and connections that break.
SPECIFICATION FairSpec

CONSTANTS
    Base = 3
    HeaderSize = 2
    MaxMessageSize = 4
    Capacity = 4
    Messages <- AllMessages
    Programs <- OwnPrograms
    ForeignStreams <- OtherStreams
    NoLength = NoLength

INVARIANTS
    TypeOK
    MemoryBounded

PROPERTIES
    ChannelSpec
    AllReceived
    ReceiverEnds

\* The connection is used once.
CHECK_DEADLOCK FALSE
