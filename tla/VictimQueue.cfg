SPECIFICATION QueueSpec
CONSTANTS
  Lines = {l1, l2, l3, l4, l5, l6}
  NoLine = NoLine
  MaxVpc = 2
SYMMETRY Symmetry
INVARIANTS HeapSound
PROPERTY ImplementsVictimSet
