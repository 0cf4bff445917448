SPECIFICATION OneAtATimeSpec
CONSTANTS
    None = None
    Handlers = {"iic", "key"}
    Device <- ByDevice
    Keys <- AllKeys
    Threads = {}
    Nested = FALSE
    Garbage = {0, 57, 105, 191}
INVARIANTS
    TypeOK
    ShownNotMuted
    HiddenMuted
    CursorOnScreen
    EveryWindowTitled
    HighlightAtCursor
PROPERTIES
    ImplementsVideoWall
