------------------------------ MODULE MCConsole ------------------------------
(* The protected main and a branch, two databases, a saved query of the branch. *)
EXTENDS Console

MCLibrary == << [branch |-> "dev", db |-> "app", text |-> "first", live |-> TRUE] >>
=============================================================================
