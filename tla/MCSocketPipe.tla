---------------------------- MODULE MCSocketPipe ----------------------------
(* Small instances of SocketPipe for TLC. *)
EXTENDS SocketPipe
=============================================================================
