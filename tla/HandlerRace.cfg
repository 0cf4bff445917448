SPECIFICATION RaceSpec
CONSTANTS
    None = None
    Handlers = {"iic", "iic2", "key"}
    Device <- TwoRuns
    Keys <- SomeKeys
    Threads = {"reader"}
    Nested = TRUE
    Garbage = {0, 105, 191}
    MaxPresses = 3
CHECK_DEADLOCK FALSE
INVARIANTS
    BindingsMatchMode
    BoundWindowsEnabled
PROPERTIES
    HandlerReturns
