----------------------------- MODULE MCTurnScan -----------------------------
(* Small instances of TurnScan. *)
EXTENDS TurnScan, TLC

CONSTANTS p1, p2, a, b, big, t1, t2

SizeDef == [c \in Contents |-> IF c = big THEN 2 ELSE 1]
AllPaths == [t \in Turns |-> Paths]
(* Turns are interchangeable when their scopes are the same; so are contents
   of one size. *)
Sym == Permutations(Turns) \cup Permutations(Contents \ Big)
==============================================================================
