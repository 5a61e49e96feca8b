CONSTANTS
  Traces = {t1, t2}
  Programs = {t1, t2}
  MainProgramOf <- OwnProgram
  Users <- UserOfOldInputs
SPECIFICATION Spec
INVARIANTS EqualVersionsEqualData
