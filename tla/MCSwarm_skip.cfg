SPECIFICATION Spec
CONSTANTS
  Units = {"a", "b", "c"}
  Workers = {"w"}
  Blockers = {"x", "y"}
  Modes = {TRUE, FALSE}
  Plans <- SkipPlans
  Again <- None
  MaxCrashes = 0
INVARIANT SkipJustified
CHECK_DEADLOCK FALSE
