CONSTANTS
    localtime <- LocalTime
    rollSize = 3
    flushInterval = 1
    checkEveryN = 2
    kMicroSecondsPerSecond = 2
    kSecondsPerRoll = 2
    FirstCounts <- Counts
    MaxTime = 12
    MaxWrites = 6
SPECIFICATION RollSpec
INVARIANTS RollTypeOK NamesInOrder ChecksCome
CHECK_DEADLOCK FALSE
