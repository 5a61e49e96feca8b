CONSTANTS
  Budget = 8
  Alignment = 2
  Cushion = 1
  Strategies = {"replay"}
  Programs <- Uneven
SPECIFICATION Spec
INVARIANTS
  AllocationContract
