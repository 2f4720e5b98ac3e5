SPECIFICATION FairSpec
CONSTANTS
    Contexts <- TwoAddresses
    Intervals <- MCIntervals
    Reuse = FALSE
    Early = 1
    MaxLate = 1
INVARIANTS TimersPunctual PingerNeverStalls
PROPERTIES PingsKeepComing
