CONSTANTS
  Convs = {v1}
  Shown = v1
  Conns = {c1, c2}
  Cmds = {x1}
  MaxSteps = 0
  MaxAsks = 2
  MaxRotations = 1
  InCap = 1
  OutCap = 2
  HostCap = 2
  InboundCap = 1
  RegCap = 1
  RecentCap = 1
  NoConn = NoConn
  NoSnap = NoSnap
SPECIFICATION Spec
CHECK_DEADLOCK FALSE
INVARIANT RunsOnce
SYMMETRY Symmetry
