CONSTANTS
  Traces = {t1, t2}
  Programs = {t1, t2}
  MainProgramOf <- OwnProgram
  Users <- AllUsers
SPECIFICATION Spec
INVARIANTS TypeOK SlotsSafeFromReplay
PROPERTIES OutputIsCurrent RecaptureKeepsSiblings
