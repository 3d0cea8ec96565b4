CONSTANTS
    NumThreads = 3
    Tasks = {t1, t2, t3}
SPECIFICATION FairSpec
INVARIANT NoIdleSleeper
PROPERTIES TaskTaken DestructorReturns
CHECK_DEADLOCK FALSE
