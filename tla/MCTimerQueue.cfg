SPECIFICATION Spec
CONSTANTS
    Timers = {t1, t2, t3, t4}
    Intervals = {0, 1, 3}
    MaxTime = 5
INVARIANTS
    RunOnceInOrder
CHECK_DEADLOCK FALSE
