CONSTANTS
    Conns = {c1, c2}
    MaxThreads = 2
SPECIFICATION FairSpec
INVARIANTS TypeOK ChannelsAlive
PROPERTIES PeerCloseCleansUp DestructorReturns
CHECK_DEADLOCK FALSE
