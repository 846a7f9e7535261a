--------------------------- MODULE MCVFSDispatcher ---------------------------
(* Small instances of VFSDispatcher for TLC. *)
EXTENDS VFSDispatcher
=============================================================================
