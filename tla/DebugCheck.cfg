CONSTANTS
  Workers = {w1, w2}
  NumDevices <- UnequalHosts
  NumShards = 2
  Program <- OneQuery
  MaxLaunches = 1
  LaunchMayFail = FALSE
  Timeouts = FALSE
  DebugBuild = TRUE
  CarefulClient = TRUE
  ReusesHandles = FALSE
  Crashing = {}
  Hanging = {}
SPECIFICATION Spec
INVARIANTS ControllerSurvives
