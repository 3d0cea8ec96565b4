CONSTANTS
    Lines = {l1, l2, l3, l4}
    Capacity = 1
    Null = null
SPECIFICATION FairSpec
INVARIANTS TypeOK RecycleSafe InOrder NoLostNotify
PROPERTIES LineWritten StopReturns
CHECK_DEADLOCK FALSE
