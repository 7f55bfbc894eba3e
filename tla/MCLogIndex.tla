------------------------------ MODULE MCLogIndex ------------------------------
(* Small instances of LogIndex for TLC. *)
EXTENDS LogIndex
==============================================================================
