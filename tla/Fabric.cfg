\* The publisher among other traffic of both edges: one frame of each host that sends, and
\* learning tables with fewer entries than there are senders.
SPECIFICATION FairSpec

CONSTANTS
    Messages <- EdgeTraffic
    Multicast <- Groups
    MaxEntries = 2
    NoPort = NoPort

INVARIANTS
    TypeOK
    PublisherProtected
    NeverSealedTwice
    LearnedTrue
PROPERTIES
    ChannelSpec
    PublicationDelivered
    UnicastDelivered
    FallsSilent

\* The hosts may have nothing more to send.
CHECK_DEADLOCK FALSE
