----------------------------- MODULE MCPdvSync -----------------------------
(* Two purchases; the configurations bound batches, attempts and restarts. *)
EXTENDS PdvSync

CONSTANTS p1, p2
=============================================================================
