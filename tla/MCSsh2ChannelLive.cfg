SPECIFICATION FairSpec
CONSTANTS
    WinSize = 2
    MaxPkt = 1
    WinCap = 2
    Setups <- OneWayForwardings
PROPERTIES
    ChannelsFinish
CHECK_DEADLOCK FALSE
