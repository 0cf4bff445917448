SPECIFICATION FairSpec
CONSTANTS
    NChn = 2
    Layouts <- SmallLayouts
CHECK_DEADLOCK FALSE
PROPERTIES
    ExitKeyUnwinds
