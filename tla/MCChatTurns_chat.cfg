CONSTANTS
  Convs = {v1, v2}
  Contents = {x0, x1}
  Empty = x0
  Absent = Absent
  Offers = {x1}
  MaxProps = 2
  MaxTurns = 2
  MaxQueue = 1
  MayFail = TRUE
SPECIFICATION Spec
CHECK_DEADLOCK FALSE
INVARIANTS TypeOK HeldIffShown EndedTurnsDrained NoSurpriseModal CancelReaches
PROPERTY InboxSpec
SYMMETRY Symmetry
