SPECIFICATION FairSpec
CONSTANTS
    Cycle <- ShortCycle
    Faults <- ShortFaults
    Window = 3
    Settle = 0
    MaxFiles = 4
INVARIANTS
    TypeOK
    TestPatternShown
    RestingLampIsOneColour
PROPERTIES
    LampFollows
