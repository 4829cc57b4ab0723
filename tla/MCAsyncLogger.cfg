SPECIFICATION FairLogSpec
CONSTANTS
    BufCount = 8
    Null = null
    Capacity = 2
    DropAbove = 3
    Messages = 7
    FlushEvery = 2
    StdioRoom = 1
    MaxFills = 1
INVARIANTS
    TypeOK
    BuffersDisjoint
    EnoughBuffers
    CrashLosesNoRound
PROPERTIES
    RefinesSink
    MessagesLeave
    StopWritesResidue
CHECK_DEADLOCK FALSE
