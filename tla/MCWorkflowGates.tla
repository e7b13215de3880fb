-------------------------- MODULE MCWorkflowGates --------------------------
(* Three gates in a row, of which the first two offer the same action      *)
(* (as the Image workflow offers approve_final at two steps), approvals of  *)
(* both actions and a rejection.                                           *)
EXTENDS WorkflowGates
CONSTANTS s1, s2, s3, a1, a2, approve1, approve2, reject

MCGates ==
  <<[step |-> s1, action |-> a1], [step |-> s2, action |-> a1], [step |-> s3, action |-> a2]>>
MCCommand ==
  [o \in {approve1, approve2, reject} |->
     [verdict |-> IF o = reject THEN "REJECTED" ELSE "APPROVED",
      action |-> IF o = approve2 THEN a2 ELSE a1]]
=============================================================================
