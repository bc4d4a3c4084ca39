SPECIFICATION FairSpec
CONSTANTS
  N = 4
  Tags = {t1, t2}
  NoTag = NoTag
  Kinds = {FALSE, TRUE}
  Stores <- InThree
  MaxTime = 1
  MaxQueued = 2
VIEW LiveView
INVARIANT ActsOnQueued
PROPERTIES ImplementsCommandLife Served
