SPECIFICATION MonitorSpec
CONSTANTS
    Cycle <- MCCycle
    Faults <- MCFaults
    Window = 10
    Settle = 24
INVARIANTS
    MonitorTypeOK
    WordTellsTruth
