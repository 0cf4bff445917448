SPECIFICATION FairSpec
CONSTANTS
    NStreams = 3
    MaxSubs = 2
    LaxServer = FALSE
CHECK_DEADLOCK FALSE
INVARIANTS
    TypeOK
    CountsClients
    ClosedStreamsAreSilent
    PlaysWhatItSetUp
    IdleStreamsReceive
PROPERTIES
    ImplementsStreamPool
    StreamsSettle
