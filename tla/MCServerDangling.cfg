SPECIFICATION Spec
CONSTANTS
    Main = main
    io1 = io1
    io2 = io2
    IoLoops = {io1, io2}
    Pools <- TwoPools
    N = 2
    Fds = {f1, f2}
    NoFd = noFd
    NoConn = noConn
INVARIANTS
    HandlerOnLiveConnection
CHECK_DEADLOCK FALSE
