SPECIFICATION Spec
CONSTANTS
    s1 = s1
    s2 = s2
    t1 = t1
    t2 = t2
    NoSession = NoSession
    Session = {s1}
    Thread = {}
    IsServer = TRUE
    PoolSize = 1
    MaxPush = 1
    MallocFails = {}
    StartFails = {}
INVARIANT ContinueAfterWorker
CHECK_DEADLOCK FALSE
