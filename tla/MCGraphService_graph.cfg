SPECIFICATION FairSpec
CONSTANTS
  Paths = {"p", "q"}
  Waiters = {"x", "y"}
  Threshold = 1
  MaxEdits = 1
  MaxNotes = 2
  MaxFaults = 1
INVARIANT FlushHonoured
PROPERTY CaughtUp
CHECK_DEADLOCK FALSE
