------------------------ MODULE MCControllerDatabase ------------------------
(* controller.db and operations.db, with the bounds the configurations give. *)
EXTENDS ControllerDatabase
=============================================================================
