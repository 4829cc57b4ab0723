SPECIFICATION FairSpec
CONSTANTS
    Room = 2
    SendMax = 3
    MaxOut = 5
    MaxIn = 2
INVARIANTS
    TypeOK
    StreamsIntact
    WatchedIffPending
PROPERTIES
    ReplyMeansWritten
    OutputDrains
CHECK_DEADLOCK FALSE
