SPECIFICATION Spec
CONSTANTS
  p1 = p1
  p2 = p2
  a = a
  b = b
  big = big
  t1 = t1
  t2 = t2
  NoFile = NoFile
  NoEntry = NoEntry
  NoHash = NoHash
  Paths = {p1}
  Contents = {a, b, big}
  Turns = {t1, t2}
  Size <- SizeDef
  Big = {big}
  Scope <- AllPaths
  MaxFiles = 2
  RacyWindow = 1
  Granularity = 1
  Ignorable = {}
  PreservingMoves = FALSE
  MaxWrites = 2
  MaxTime = 1
INVARIANT Truthful

SYMMETRY Sym
CHECK_DEADLOCK FALSE
