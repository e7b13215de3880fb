-------------------------- MODULE MCStartOperations --------------------------
(***************************************************************************)
(* Small instances of StartOperations for TLC.                             *)
(***************************************************************************)
EXTENDS StartOperations, TLC

CONSTANTS i1, batch, again

\* The batch that confirms the task, and a restart of its instance.  The runner takes the batch
\* first, whose error keeps it from the restart.
BatchFirst == <<batch, again>>
OneKind == (batch :> "START_READY_INSTANCES") @@ (again :> "RESTART_INSTANCE")
OneTargets == (batch :> {i1}) @@ (again :> {i1})
=============================================================================
