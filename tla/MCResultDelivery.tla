-------------------------- MODULE MCResultDelivery --------------------------
(* Constants for model checking ResultDelivery are in the configuration: no *)
(* symmetry, a liveness property is checked.                               *)
EXTENDS ResultDelivery
=============================================================================
