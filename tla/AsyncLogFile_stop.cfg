CONSTANTS
    Lines = {l1, l2, l3, l4, l5}
    Capacity = 1
    Null = null
SPECIFICATION Spec
INVARIANT FlushedAtStop
CHECK_DEADLOCK FALSE
