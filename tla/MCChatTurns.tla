---------------------------- MODULE MCChatTurns ----------------------------
(* ChatTurns on small instances.  Conversations are alike, and so are the
   contents an agent may propose. *)
EXTENDS ChatTurns

Symmetry == Permutations(Convs) \cup Permutations(Offers)
=============================================================================
