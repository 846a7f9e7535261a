------------------------ MODULE MCMessageLoopPrograms ------------------------
(* Small instances of MessageLoopPrograms for TLC. *)
EXTENDS MessageLoopPrograms
=============================================================================
