SPECIFICATION ReconnectSpec
CONSTANTS
    s1 = s1
    s2 = s2
    h1 = h1
    h2 = h2
    d1 = d1
    NoSession = NoSession
    NoPkg = NoPkg
    Session = {s1, s2}
    HostCaller = {h1}
    DaemonCaller = {d1}
    Retry = 0
    MaxSend <- OneEach
    Fails = TRUE
PROPERTY ResponseIsSent
CHECK_DEADLOCK FALSE
