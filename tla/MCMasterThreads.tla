--------------------------- MODULE MCMasterThreads ---------------------------
(* Small instances of MasterThreads for TLC. *)
EXTENDS MasterThreads

CONSTANTS intake, u1, e1

MCUsers == {u1}
MCEdits == {e1}
MCMisfits == {Plan(3)}
=============================================================================
