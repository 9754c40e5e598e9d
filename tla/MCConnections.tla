--------------------------- MODULE MCConnections ---------------------------
(* Constants for model checking Connections: no symmetry, a liveness property *)
(* is checked. *)
EXTENDS Connections, TLC
=============================================================================
