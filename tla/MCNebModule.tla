------------------------------ MODULE MCNebModule ------------------------------
(* Small instances of NebModule for TLC. *)
EXTENDS NebModule

\* Two downtimes, so that one can come and go behind the other.
SomeIds == [r \in Registries |-> IF r = "downtime" THEN 0 .. 1 ELSE {0}]
==============================================================================
