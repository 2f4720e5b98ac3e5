SPECIFICATION Spec
CONSTANTS
    WinSize = 2
    MaxPkt = 1
    WinCap = 3
    Setups <- ThrottledForwardings
INVARIANTS
    EofAfterAllData
CHECK_DEADLOCK FALSE
