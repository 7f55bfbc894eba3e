------------------------------ MODULE MCLogCache ------------------------------
(* Small instances of LogCache for TLC. *)
EXTENDS LogCache, TLC

ClassSymmetry == Permutations(Classes)
==============================================================================
