SPECIFICATION RaceSpec
CONSTANTS
    None = None
    Handlers = {"iic", "key"}
    Device <- ByDevice
    Keys <- BothKeys
    Threads = {}
    Nested = FALSE
    Garbage = {0, 57}
    MaxPresses = 3
CHECK_DEADLOCK FALSE
INVARIANTS
    RestingWallPlays
