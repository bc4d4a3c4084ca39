SPECIFICATION Spec
CONSTANTS
  N = 4
  Tags = {t1, t2}
  NoTag = NoTag
  Kinds = {FALSE}
  Stores <- AtOnce
  MaxTime = 1
  MaxQueued = 4
SYMMETRY Symmetry
INVARIANTS ListsSound WaitingInOrder
CHECK_DEADLOCK FALSE
