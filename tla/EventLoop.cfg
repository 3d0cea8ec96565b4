CONSTANTS
    LoopThread = loop
    Threads = {u1, u2}
    Tasks = {f1, f2, f3}
    NoTask = none
    Channels = {c1}
    WakeupChannel = wakeup
    InitEventListSize = 1
SPECIFICATION FairSpec
INVARIANTS TypeOK NoLostWakeup
PROPERTIES ExecutorSpec FunctorRuns QuitStops ChannelHandled
