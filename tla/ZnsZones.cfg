SPECIFICATION Spec
CONSTANTS
  NrZones = 2
  ZoneLbas = 3
  SecsPerPg = 1
  OneshotLbas = 2
  WriteUnit = 1
  ZoneWb = FALSE
  WbLbas = 3
  LbasPerZrwa = 1
  LbasPerZrwafg = 1
  ZrwaBufLbas = 2
  MaxLen = 2
  MaxZrwaRoom = 2
INVARIANTS ResourcesTrue BufferAccounted
PROPERTY ImplementsZoneLife
CHECK_DEADLOCK FALSE
