CONSTANTS
    NumRequests = 2
    Requests <- MCRequests
    Tokens <- MCTokens
    Bytes <- HttpBytes
    Zero <- Nothing
    kCheapPrepend = 1
    kInitialSize = 2
    ExtraSize = 20
SPECIFICATION Spec
INVARIANTS TypeOK StreamKept AnswersInOrder Understood OneAtATime
CHECK_DEADLOCK FALSE
