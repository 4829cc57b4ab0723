SPECIFICATION AllSpec
CONSTANTS
    Base = base
    Others = {o1, o2}
    Tasks = {t1, t2, t3, early}
    EarlyTasks = {early}
    EventFdMax = 2
INVARIANTS
    AllTypeOK
    StartUpIsSafe
    NoLostWakeup
    OwnTasksFirst
PROPERTIES
    RefinesExecutor
    PostedTasksRun
    QuitStops
    GetLoopReturns
CHECK_DEADLOCK FALSE
