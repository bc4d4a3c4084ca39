SPECIFICATION CSpec
CONSTANTS
  Nchs = 3
  LunsPerCh = 2
  WordLines = 2
  PgsPerOneshot = 4
  PgsPerFlash = 2
  NrLines = 3
  LineSize <- Line48
  Top = 16383
  NsecPerSec = 1000
  ScanArms <- SixArms
  Counts = {0, 6, 20}
  Times <- Ages
  Now = 2000000
INVARIANTS VisitsInOrder EraseAfterClean
INVARIANTS PicksBest NotDominated
CHECK_DEADLOCK FALSE
