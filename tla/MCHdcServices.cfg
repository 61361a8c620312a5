SPECIFICATION MCSpec
CONSTANTS
  MaxFiles = 2
  MaxBlocks = 2
  MaxConns = 1
  MaxReads = 1
  Pids = {"a", "b"}
  Trackers = {"t", "u"}
  MaxLinks = 2
  MaxList = 1
  Scenarios <- MCScenarios
INVARIANTS TransferResources ReportedIsIntact ForwardSafe JdwpSafe
PROPERTIES TransfersEnd BothEndsClose AppIsListed
CHECK_DEADLOCK FALSE
