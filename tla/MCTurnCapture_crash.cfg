SPECIFICATION FairSpec
CONSTANTS
  Turns = {t1}
  Paths = {p1, p2}
  Contents = {c1, c2}
  MaySense = {}
  Retained = 2
  Leftovers = {}
  MaxWrites = 2
  MaxSaves = 1
  MaxCrashes = 1
  MaxAges = 0
  Absent = Absent
  None = None
 
PROPERTY OnlyMarksRollBack
 
CHECK_DEADLOCK FALSE
