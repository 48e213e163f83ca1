---------------------------- MODULE MCRemoteHub ----------------------------
(* RemoteHub on small instances: the sockets are alike, the conversations are
   not, one being shown. *)
EXTENDS RemoteHub, TLC

Symmetry == Permutations(Conns)
=============================================================================
