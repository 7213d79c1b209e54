---------------------------- MODULE MCFloorExec ----------------------------
(* FloorExec for TLC.  A waiter's priority changes who is next, which no     *)
(* effect depends on: one priority suffices.  `fx` is write-only here.       *)
EXTENDS FloorExec, TLC

Symm == Permutations(Users)
View == <<holder, waiting, grantNo, jobs, slot, speaker>>
=============================================================================
