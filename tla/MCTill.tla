-------------------------------- MODULE MCTill --------------------------------
(* The till for TLC: one product, two requests, one session. *)
EXTENDS Till
CONSTANTS p1
=============================================================================
