CONSTANTS
  Convs = {v1, v2}
  Shown = v1
  Conns = {c1, c2}
  Cmds = {x1}
  MaxSteps = 2
  MaxAsks = 0
  MaxRotations = 0
  InCap = 1
  OutCap = 2
  HostCap = 2
  InboundCap = 1
  RegCap = 1
  RecentCap = 1
  NoConn = NoConn
  NoSnap = NoSnap
SPECIFICATION Spec
CHECK_DEADLOCK FALSE
INVARIANTS TypeOK OneServed HostSeesClient 
PROPERTY AppliedInOrder
SYMMETRY Symmetry
