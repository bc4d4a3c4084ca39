SPECIFICATION FairSpec
CONSTANTS
  Tags = {t1, t2}
  NrSq = 1
  NrCq = 1
  NrWorkers = 1
  SqSize = 3
  CqSize = 3
  SqOf <- OneQueue
  CqOf <- Own
VIEW LiveView
PROPERTY EveryCommandEnds
