SPECIFICATION TimeSpec
CONSTANTS
  NrEntries = 3
  Interval = 2
  MaxCredits = 2
  XferLat = 1
  Channels <- TwoChannels
  Luns <- L3
  ChannelOf <- FirstTwo
  NrParts = 2
  PartOf <- FirstTwo
  Lpns <- FiveLpns
  FlashPages <- Pages3
  LunOf <- LunOfPage
  Maps <- SomeMaps
  PageUnits = 1
  MaxXfer = 2
  ReadLat4k = 1
  ReadLat = 2
  ProgLat = 3
  EraseLat = 4
  FwRead4k = 1
  FwRead = 0
  WbufLat = 1
  MaxTime = 9
  ReadRanges <- SomeRanges
  WritePages = {2}
  Ticks = {3}
  MaxCommands = 3
VIEW StepView
INVARIANT ReadsEachOnce
PROPERTIES FlushIsLast ImplementsWindow
CHECK_DEADLOCK FALSE
