SPECIFICATION FairSpec
CONSTANTS
  Lines = {l1, l2, l3, l4}
  PgsPerLine = 3
  LPNs = {a, b}
  GcThresLines = 2
  Greedy = FALSE
  GcWalk <- Walk3
  EraseAt <- Erase3
  Unmapped = Unmapped
  InvalidLpn = InvalidLpn
  NoLine = NoLine
INVARIANT NoOrphanPage
PROPERTY ImplementsPageStore WriteEnds
