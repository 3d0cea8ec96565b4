CONSTANTS
    LoopThread = loop
    Threads = {u1, u2}
    Senders = {loop, u1, u2}
    Closers = {loop, u1, u2}
    Messages = {m1, m2}
    MessageLen = 2
    SendBuffer = 3
    HighWaterMark = 3
    MaxInput = 0
SPECIFICATION Spec
PROPERTY SilentWhenDown
CHECK_DEADLOCK FALSE
