---------------------------- MODULE ReviewInbox ----------------------------
(***************************************************************************)
(* What the write gate and the host promise of a proposal that is to be    *)
(* reviewed: it waits until its turn is over, or is open for review at     *)
(* once; what waits is shown; what is shown is closed by the user, one     *)
(* proposal or the whole list; and what is closed never comes back.        *)
(***************************************************************************)
CONSTANT Ids

VARIABLES waiting, shown, closed

inbox == <<waiting, shown, closed>>

Init == waiting = {} /\ shown = {} /\ closed = {}

Submit(i) ==
  /\ i \notin waiting \cup shown \cup closed
  /\ \/ waiting' = waiting \cup {i} /\ shown' = shown
     \/ shown' = shown \cup {i} /\ waiting' = waiting
  /\ closed' = closed

Show(S) ==
  /\ S \subseteq waiting /\ waiting' = waiting \ S /\ shown' = shown \cup S
  /\ closed' = closed

Close(S) ==
  /\ S \subseteq shown /\ shown' = shown \ S /\ closed' = closed \cup S
  /\ waiting' = waiting

Next ==
  \/ \E i \in Ids : Submit(i)
  \/ \E S \in SUBSET waiting : Show(S)
  \/ \E S \in SUBSET shown : Close(S)

Spec == Init /\ [][Next]_inbox
=============================================================================
