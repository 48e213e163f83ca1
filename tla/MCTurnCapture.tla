---------------------------- MODULE MCTurnCapture ----------------------------
(* TurnCapture on small instances: turns, files and contents are model values. *)
EXTENDS TurnCapture, TLC

Symmetry == Permutations(Turns) \cup Permutations(Contents)
==============================================================================
