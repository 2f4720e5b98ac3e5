SPECIFICATION Spec
CONSTANTS
    WinSize = 2
    MaxPkt = 1
    WinCap = 3
    Setups <- Channels
INVARIANTS FlowControlSound OrderlyEnd EofAfterAllData
CHECK_DEADLOCK FALSE
