----------------------------- MODULE MCTaskQueue -----------------------------
(* Small instances of TaskQueue for TLC. *)
EXTENDS TaskQueue

CONSTANTS t1, t2, t3, p1, p2, loop_thread

\* A past, a zero and a future delay.
MCDelays == {-1, 0, 1}
=============================================================================
