SPECIFICATION FairSpec
CONSTANTS
  Routes = {"a", "b"}
  Sessions = {"s", "t"}
  Ips = {"i", "j"}
  MaxPerIp = 1
  DialCap = 2
  NoteCap = 2
  LagCap = 1
  Prompt = TRUE
  Loads <- SmallLoads
  MaxConns = 6
INVARIANTS TypeOK NewestOwns NothingLeaks NotesReach
 
CHECK_DEADLOCK FALSE
