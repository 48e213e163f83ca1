------------------------------ MODULE MCRelay ------------------------------
(* Relay on small instances.  A behaviour has one of a few loads: phones that
   call, together or while a connection breaks; hosts that come back after breaks and a
   restart; notes of two hosts at once; notes over a restart. *)
EXTENDS Relay

Load(sessions, notes, breaks, restarts, streams) ==
  [sessions |-> sessions, notes |-> notes, breaks |-> breaks, restarts |-> restarts, streams |-> streams]

SmallLoads ==
  {Load(Sessions, 0, 0, 0, 0), Load({}, 3, 0, 0, 1), Load({}, 0, 2, 1, 0), Load({}, 2, 0, 0, 2), Load({}, 2, 0, 1, 2)}
    \cup {Load({s}, 0, 1, 0, 0) : s \in Sessions}
=============================================================================
