SPECIFICATION FairSpec
CONSTANTS
    QueueCap = 2
    Window = 2
    SilenceLimit = 1
    PingLimit = 0
    MaxFrames = 4
    PeerReads = TRUE
INVARIANTS
    SlotsExact
    NoSendOnClosed
    EndedClean
PROPERTIES
    SessionEnds
CHECK_DEADLOCK FALSE
