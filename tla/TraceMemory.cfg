CONSTANTS
  Traces = {t1}
  Programs = {t1}
  MainProgramOf <- OwnProgram
  Users <- UserOfNewTensors
SPECIFICATION Spec
INVARIANTS ConstEvalSafeFromReplay
