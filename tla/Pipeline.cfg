CONSTANTS
  Workers = {w1, w2}
  NumDevices <- OneDeviceEach
  NumShards = 2
  Program <- TwoCalls
  MaxLaunches = 1
  LaunchMayFail = FALSE
  Timeouts = FALSE
  DebugBuild = TRUE
  CarefulClient = TRUE
  ReusesHandles = FALSE
  Crashing = {}
  Hanging = {}
SPECIFICATION Spec
SYMMETRY WorkerSymmetry
INVARIANTS ResponseMatchesCommand BlockingCallIsBarrier ShutdownDrains ControllerSurvives
PROPERTIES ImplementsSequentialRuntime
