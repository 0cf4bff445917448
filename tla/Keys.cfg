SPECIFICATION FairSpec
CONSTANTS
    NKeys = 3
    Handlers = {h1, h2}
    MaxEdges = 5
CHECK_DEADLOCK FALSE
INVARIANTS
    TypeOK
    OneCommandPerEdge
    SlowKeysArrive
PROPERTIES
    LastReleaseActs
