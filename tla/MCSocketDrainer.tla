--------------------------- MODULE MCSocketDrainer ---------------------------
(* Small instances of SocketDrainer for TLC. *)
EXTENDS SocketDrainer
=============================================================================
