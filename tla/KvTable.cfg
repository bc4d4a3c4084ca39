SPECIFICATION FairWithIters
CONSTANTS
  k1 = k1
  k2 = k2
  k3 = k3
  N = 4
  Keys = {k1, k2, k3}
  x = x
  y = y
  Hash <- Collide
  Workers = {w}
  Payloads <- All
  Buffers = {1, 3}
  SmallLen = 2
  LargeLen = 6
  Half = 6
  Bitmap = TRUE
  Deletes = TRUE
  KeepsRoom = TRUE
  KeepsSize = TRUE
  NoValue = NoValue
  Absent = Absent
  NrIters = 1
  Prefixes <- Some
  BufKeys = 1
VIEW LiveView
INVARIANTS ChainsEnd IterComplete
PROPERTIES ImplementsKvMap CommandsEnd
