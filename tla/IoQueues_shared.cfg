SPECIFICATION Spec
CONSTANTS
  Tags = {t1, t2}
  NrSq = 2
  NrCq = 1
  NrWorkers = 2
  SqSize = 2
  CqSize = 3
  SqOf <- TwoQueues
  CqOf <- Shared
VIEW LiveView
SYMMETRY Symmetry
INVARIANT NoLostInterrupt
PROPERTY ImplementsCommandPath
