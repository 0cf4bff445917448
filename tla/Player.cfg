SPECIFICATION FairSpec
CONSTANTS
    NChn = 3
    Layouts <- SmallLayouts
CHECK_DEADLOCK FALSE
INVARIANTS
    TypeOK
    FeedsConnect
    ReadersHaveDecoders
    ReturnsWhatItTook
PROPERTIES
    FailedStartUpReturns
