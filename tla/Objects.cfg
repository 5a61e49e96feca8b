CONSTANTS
  Workers = {w1}
  NumDevices <- OneDeviceEach
  NumShards = 2
  Program <- ObjectProgram
  MaxLaunches = 1
  LaunchMayFail = FALSE
  Timeouts = FALSE
  DebugBuild = FALSE
  CarefulClient = TRUE
  ReusesHandles = FALSE
  Crashing = {}
  Hanging = {}
SPECIFICATION Spec
INVARIANTS NoPoolMiss
PROPERTIES ImplementsSequentialRuntime
