SPECIFICATION Spec
CONSTANTS
    s1 = s1
    s2 = s2
    h1 = h1
    h2 = h2
    d1 = d1
    NoSession = NoSession
    NoPkg = NoPkg
    Session = {s1}
    HostCaller = {h1, h2}
    DaemonCaller = {d1}
    Retry = 1
    MaxSend <- TwoDown
    Fails = TRUE
INVARIANTS
    InOrder
    AckedIsDispatched
    UartQueues
CHECK_DEADLOCK FALSE
SYMMETRY Threads
