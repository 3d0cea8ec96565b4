CONSTANTS
    LoopThread = loop
    Threads = {u1, u2}
    Senders = {loop, u1, u2}
    Closers = {loop, u1, u2}
    Messages = {m1, m2}
    MessageLen = 2
    SendBuffer = 1
    HighWaterMark = 3
    MaxInput = 1
SPECIFICATION Spec
INVARIANTS StreamIntact NothingLeftBehind NoWriteAfterFin PollerConsistent
CHECK_DEADLOCK FALSE
SYMMETRY Alike
