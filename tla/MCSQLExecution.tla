---------------------------- MODULE MCSQLExecution ----------------------------
(* An execution that writes and one that reads. *)
EXTENDS SQLExecution

CONSTANTS w1, r1
=============================================================================
