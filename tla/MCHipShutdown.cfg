SPECIFICATION FairSpec
CONSTANTS
    QueueCap = 2
    Window = 2
    SilenceLimit = 1
    PingLimit = 0
    MaxFrames = 4
    PeerReads = TRUE
PROPERTIES
    ShutdownEnds
CHECK_DEADLOCK FALSE
