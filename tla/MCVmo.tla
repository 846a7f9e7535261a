-------------------------------- MODULE MCVmo --------------------------------
(* Small instances of VmoTransfer, and with it of SharedVmo, for TLC. *)
EXTENDS VmoTransfer, TLC

ThreadSymmetry == Permutations(Threads)
=============================================================================
