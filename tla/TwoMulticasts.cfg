CONSTANT
  Configs <- TwoMulticasts
SPECIFICATION Spec
INVARIANT
  OneMcastLoadPerThread
