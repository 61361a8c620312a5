SPECIFICATION MCSpec
CONSTANTS
  Keys = {"k1", "k2"}
  MaxSessions = 2
  MaxTasks = 1
  MaxTargetSessions = 2
  MaxPolls = 1
  TargetChannels = {"a", "b"}
  MaxSubs = 2
  MaxDelays = 2
  MaxReaders = 1
INVARIANTS TasksAuthorised HandshakeAgrees TargetsListed SubserverSafe
PROPERTIES AllowedIsAuthorised TconnAnswered DeviceComesBack
CHECK_DEADLOCK FALSE
