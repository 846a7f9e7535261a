----------------------------- MODULE MCFDWaiter -----------------------------
(* Small instances of FDWaiter for TLC. *)
EXTENDS FDWaiter
=============================================================================
