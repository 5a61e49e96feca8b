CONSTANTS
  Workers = {w1}
  NumDevices <- OneDeviceEach
  NumShards = 2
  Program <- OneQuery
  MaxLaunches = 1
  LaunchMayFail = TRUE
  Timeouts = TRUE
  DebugBuild = FALSE
  CarefulClient = FALSE
  ReusesHandles = FALSE
  Crashing = {}
  Hanging = {}
SPECIFICATION Spec
INVARIANTS AdmittedCallIsServed
