CONSTANTS
  Traces = {t1}
  Programs = {t1}
  MainProgramOf <- OwnProgram
  Users <- UserOfOldWeights
SPECIFICATION Spec
INVARIANTS ConstEvalResultsKept
