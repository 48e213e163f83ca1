SPECIFICATION Spec
CONSTANTS
  p1 = p1
  p2 = p2
  a = a
  b = b
  big = big
  t1 = t1
  t2 = t2
  NoFile = NoFile
  NoEntry = NoEntry
  NoHash = NoHash
  Paths = {p1, p2}
  Contents = {a, big}
  Turns = {t1}
  Size <- SizeDef
  Big = {}
  Scope <- AllPaths
  MaxFiles = 1
  RacyWindow = 1
  Granularity = 1
  Ignorable = {p2}
  PreservingMoves = TRUE
  MaxWrites = 2
  MaxTime = 2
INVARIANT TypeOK
 
 
CHECK_DEADLOCK FALSE
