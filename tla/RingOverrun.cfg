SPECIFICATION Spec
CONSTANTS
    BufSize = 6
    Threshold = 4
    MinAvail = 2
    Sizes = {2, 3, 9}
    Lag = 9
    MaxFrames = 5
    MaxSwitches = 2
    IsFirst = TRUE
    IsLast = TRUE
    Damage = {1, 3}
CHECK_DEADLOCK FALSE
INVARIANTS
    TypeOK
