SPECIFICATION FairSpec
CONSTANTS
  NrArms = 3
  InitialArm = 1
  Wafs <- SomeWafs
  One = 65536
  Tolerance = 328
  DriftShare = 8192
  WarmupGc = 1
  BurninGc = 2
  WindowGc = 1
  BurninHost = 1
  WindowHost = 1
  MaxWindowGc = 3
  MinVisits = 2
  StableWindows = 3
  BestConfirmations = 2
  ProbeEvery = 2
  StaleWindows = 4
  DriftWindows = 2
  HostPages = {0, 1}
VIEW RelativeView
INVARIANTS MeasuresOneArm SettledIsConfirmed BestNearLeast NoArmStarves
PROPERTY PhasesEnd
