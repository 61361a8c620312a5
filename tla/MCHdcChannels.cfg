SPECIFICATION MCSpec
CONSTANTS
  c1 = c1
  Channels <- MCChannels
  MaxWrites = 1
  MaxReads = 2
  MaxPackets = 1
  MaxRetry = 2
  MaxWait = 2
  MaxSpawn = 1
  MaxInput = 2
  MaxOutput = 2
  MaxKeys = 1
  InstanceClients = 2
  InstanceScenarios <- MCScenarios
  Endpoints <- MCEndpoints
  MaxMishaps = 1
  KeyWorkers <- MCKeyWorkers
  MaxAuths = 1
  MaxKeyFaults = 1
INVARIANTS ChannelSafe FreedChannelReleased  CommandSafe InstanceSafe KeySafe
PROPERTIES ChannelEnds ClientEnds CommandEnds PulledUpServes
CHECK_DEADLOCK FALSE
