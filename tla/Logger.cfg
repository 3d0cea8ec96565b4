CONSTANTS
    Threads = {u1, u2}
    Level = 1
    Levels = {0, 1}
    Streams <- ConsoleAndFile
    SIZE = 4
    MaxLines = 3
    MaxFlushes = 2
    Bytes <- LogBytes
    Nul = nul
    Junk = junk
SPECIFICATION Spec
INVARIANTS TypeOK FileIsLines
CHECK_DEADLOCK FALSE
