---------------------------- MODULE MCSimulations ----------------------------
(* Two workers, none of them killed. *)
EXTENDS Simulations
CONSTANTS c1, c2
=============================================================================
