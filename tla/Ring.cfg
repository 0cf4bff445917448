SPECIFICATION FairSpec
CONSTANTS
    BufSize = 24
    Threshold = 10
    MinAvail = 3
    Sizes = {2, 3}
    Lag = 3
    MaxFrames = 9
    MaxSwitches = 0
    IsFirst = FALSE
    IsLast = TRUE
    Damage = {}
CHECK_DEADLOCK FALSE
INVARIANTS
    StaysInBuffer
    SendsWholeFrames
    DataInOrder
PROPERTIES
    ImplementsFrameQueue
    FramesGetOut
