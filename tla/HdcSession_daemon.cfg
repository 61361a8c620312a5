SPECIFICATION FairSpec
CONSTANTS
    s1 = s1
    s2 = s2
    t1 = t1
    t2 = t2
    NoSession = NoSession
    Session = {s1}
    Thread = {}
    IsServer = FALSE
    PoolSize = 1
    MaxPush = 2
    MallocFails = {}
    StartFails = {}
INVARIANT DaemonStops
PROPERTY SessionsEnd
CHECK_DEADLOCK FALSE
