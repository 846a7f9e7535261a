------------------------------ MODULE MCThreads ------------------------------
(* Small instances of Threads for TLC. *)
EXTENDS Threads

CONSTANTS quit, reposter, p1, p2, loop_thread

\* No delay, and a delay.
MCDelays == {0, 1}
=============================================================================
