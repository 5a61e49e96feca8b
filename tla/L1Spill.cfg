CONSTANTS
  Budget = 8
  Alignment = 2
  Cushion = 1
  Strategies = {"replay", "rewind"}
  Programs <- MCPrograms
SPECIFICATION Spec
INVARIANTS
  AllocatorConsistent
  ReplayMatchesHistory
  LiveIsPlaced
  OperandsResident
  NothingLeaks
  DoneOpsKeepTheirInputs
  RewindsBounded
  AllocationContract
PROPERTY
  Terminates
