SPECIFICATION FairSpec
CONSTANTS
    s1 = s1
    s2 = s2
    c1 = c1
    c2 = c2
    k1 = k1
    k2 = k2
    k3 = k3
    NoTask = NoTask
    NoSession = NoSession
    Session = {s1, s2}
    Channel = {c1, c2}
    Task = {k1, k2, k3}
    TimerFails = {k1, k2, k3}
    ClearTimes = 2
    CountMod = 4
INVARIANT TasksSafe
PROPERTY ClearTerminates
CHECK_DEADLOCK FALSE
