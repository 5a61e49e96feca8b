CONSTANTS
  Requests <- MCRequests
  Vars <- MCVars
  Problems <- MCProblems
SPECIFICATION Spec
INVARIANTS
  TypeOK
  AcceptedPlanIsSafe
  NoHoleBelow
  SpillCountIsTight
PROPERTY
  Terminates
