------------------------- MODULE MCOperationManager -------------------------
(* Two request handlers share a log that keeps two entries in memory. *)
EXTENDS OperationManager, TLC

CONSTANTS c1, c2

MCCallers == {c1, c2}
=============================================================================
