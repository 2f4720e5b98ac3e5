SPECIFICATION SessionSpec
CONSTANTS
    Packets <- ShortPackets
    ReadSize = 2
    MaxBacklog = 1
    RemoteCloses = TRUE
    LocalCloses = TRUE
    MaxOutput = 3
    MaxThrottles = 1
    Settings <- Users
    MethodSets <- MethodsLeft
    Banners = 1
    BannerLimit = 1
    MaxTyped = 2
    GssFaults = FALSE
    LateErrtok = FALSE
INVARIANTS FlowControlExact NothingStranded LoginSound
PROPERTIES EverythingMoves LoginEnds
CHECK_DEADLOCK FALSE
