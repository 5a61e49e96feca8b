CONSTANTS
  Workers = {w1}
  NumDevices <- OneDeviceEach
  NumShards = 2
  Program <- MisuseProgram
  MaxLaunches = 2
  LaunchMayFail = TRUE
  Timeouts = FALSE
  DebugBuild = FALSE
  CarefulClient = TRUE
  ReusesHandles = TRUE
  Crashing = {w1}
  Hanging = {}
SPECIFICATION FairSpec
PROPERTIES
  WaitEnds
  ExitCompletes
