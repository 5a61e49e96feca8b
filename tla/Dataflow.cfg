CONSTANT
  Configs <- DoubleBuffered
SPECIFICATION Spec
INVARIANTS
  DataIsCurrent
  MulticastHitsReservedSlot
  SignalsNotLost
PROPERTY
  ImplementsGridMatmul
