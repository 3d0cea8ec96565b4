CONSTANTS
    Timers = {t1, t2, t3}
    Delays = {0, 2}
    Intervals = {2}
    NoTimer = none
    MaxLate = 2
SPECIFICATION FairSpec
INVARIANTS TypeOK Armed
PROPERTY TimerRuns
CHECK_DEADLOCK FALSE
