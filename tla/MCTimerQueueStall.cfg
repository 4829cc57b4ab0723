SPECIFICATION FairSpec
CONSTANTS
    Timers = {t1, t2}
    Intervals = {1, 2}
    MaxTime = 5
PROPERTIES
    TimersRun
CHECK_DEADLOCK FALSE
