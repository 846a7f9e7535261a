------------------------------ MODULE WaitBound ------------------------------
(***************************************************************************)
(* The waits of AsyncWaiter and of its clients, which share a bound.       *)
(***************************************************************************)
EXTENDS Naturals

CONSTANT MaxWaits   \* bound on the number of AsyncWait calls

Waits == 1..MaxWaits

ASSUME AsyncWaiterAssumption == MaxWaits \in Nat
=============================================================================
