SPECIFICATION FairSpec
CONSTANTS
    Main = main
    io1 = io1
    io2 = io2
    IoLoops = {io1, io2}
    Pools <- TwoPools
    N = 4
    Fds = {f1, f2}
    NoFd = noFd
    NoConn = noConn
INVARIANTS
    TypeOK
    DescriptorsNameTheirOwn
    CallbacksInOrder
    AloneIsSafe
PROPERTIES
    ConnectionsComplete
CHECK_DEADLOCK FALSE
