SPECIFICATION Spec
CONSTANTS
    None = None
    Handlers = {"iic"}
    Device <- ByDevice
    Keys <- RemoteKeys
    Threads = {}
    Nested = FALSE
    Garbage = {0, 57, 105, 191}
INVARIANTS
    TitlesMatchBindings
    ConfirmActsOnHighlight
