--------------------------- MODULE MCGraphService ---------------------------
(* GraphService on small instances. *)
EXTENDS GraphService, TLC
=============================================================================
