SPECIFICATION Spec
CONSTANTS
  Lines = {l1, l2, l3, l4, l5, l6}
  PgsPerLine = 2
  LPNs = {a, b, c}
  GcThresLines = 2
  Greedy = FALSE
  GcWalk <- Walk2
  EraseAt <- Erase2
  Unmapped = Unmapped
  InvalidLpn = InvalidLpn
  NoLine = NoLine
SYMMETRY Symmetry
INVARIANTS TypeOK MappingSound OneHome CountsTrue
INVARIANTS NoLineExhaustion CreditsBacked VictimAvailable AssertionsHold
