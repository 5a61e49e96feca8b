CONSTANTS
  Workers = {w1, w2}
  NumDevices <- OneDeviceEach
  NumShards = 2
  Program <- OneQuery
  MaxLaunches = 1
  LaunchMayFail = FALSE
  Timeouts = TRUE
  DebugBuild = FALSE
  CarefulClient = TRUE
  ReusesHandles = FALSE
  Crashing = {w1, w2}
  Hanging = {w2}
SPECIFICATION FairSpec
INVARIANTS
  TypeOK
  ShutdownInv
PROPERTIES
  WaitEnds
  NoOrphanWorkers
