SPECIFICATION FairSpec
CONSTANTS
    Room = 2
    SendMax = 3
    MaxOut = 4
    MaxIn = 1
PROPERTIES
    ShutdownCloses
CHECK_DEADLOCK FALSE
