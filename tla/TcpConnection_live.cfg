CONSTANTS
    LoopThread = loop
    Threads = {u1}
    Senders = {loop, u1}
    Closers = {loop}
    Messages = {m1, m2}
    MessageLen = 2
    SendBuffer = 1
    HighWaterMark = 3
    MaxInput = 1
SPECIFICATION FairSpec
INVARIANT DownForGood
PROPERTIES OutputDrains ShutdownHappens PeerGone
CHECK_DEADLOCK FALSE
