SPECIFICATION Spec
CONSTANTS
    s1 = s1
    s2 = s2
    t1 = t1
    t2 = t2
    NoSession = NoSession
    Session = {s1, s2}
    Thread = {t1, t2}
    IsServer = TRUE
    PoolSize = 1
    MaxPush = 1
    MallocFails = {s1, s2}
    StartFails = {s1, s2}
PROPERTY ImplementsSessionLife
INVARIANTS
    SessionReferences
    SessionPipeline
SYMMETRY Symmetric
CHECK_DEADLOCK FALSE
