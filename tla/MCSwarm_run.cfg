SPECIFICATION FairSpec
CONSTANTS
  Units = {"a", "b", "c"}
  Workers = {"w"}
  Blockers = {"x", "y"}
  Modes = {TRUE, FALSE}
  Plans <- RunPlans
  Again <- RunAgain
  MaxCrashes = 1
INVARIANTS TypeOK MergedInOrder NoUnitForgotten CheckpointHonest
PROPERTIES RunsAfterDeps LoopBeforeDownstream RunEnds
CHECK_DEADLOCK FALSE
