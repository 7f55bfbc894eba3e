------------------------- MODULE MCLivestatusThreads -------------------------
(* Small instances of LivestatusThreads for TLC. *)
EXTENDS LivestatusThreads
==============================================================================
