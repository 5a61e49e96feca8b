CONSTANT
  Configs <- SingleBuffered
SPECIFICATION Spec
INVARIANT
  DataIsCurrent
