---------------------------- MODULE MCWaitTriggers ----------------------------
(* Small instances of WaitTriggers for TLC. *)
EXTENDS WaitTriggers, TLC

WaiterSymmetry == Permutations(Waiters)
==============================================================================
