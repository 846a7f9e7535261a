---------------------------- MODULE MCMessageLoop ----------------------------
(* Small instances of MessageLoop for TLC. *)
EXTENDS MessageLoop
=============================================================================
