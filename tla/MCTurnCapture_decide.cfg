SPECIFICATION Spec
CONSTANTS
  Turns = {t1, t2}
  Paths = {p1}
  Contents = {c1, c2}
  MaySense = {p1}
  Retained = 1
  Leftovers = {c1, c2}
  MaxWrites = 2
  MaxSaves = 0
  MaxCrashes = 0
  MaxAges = 1
  Absent = Absent
  None = None
INVARIANT TypeOK
INVARIANT EarlierTurnNamed
INVARIANT AgentWriteReviewed
 
INVARIANT AfterSideKept
INVARIANT SensitiveHandled
SYMMETRY Symmetry
CHECK_DEADLOCK FALSE
