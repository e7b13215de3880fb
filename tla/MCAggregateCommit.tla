-------------------------- MODULE MCAggregateCommit --------------------------
(***************************************************************************)
(* Small instances of AggregateCommit for TLC.                             *)
(***************************************************************************)
EXTENDS AggregateCommit, TLC

CONSTANTS i1, i2, k1, k2, k3, k4, t1, t2, f1

Req(kind, i, m) == [kind |-> kind, inst |-> i, members |-> m]

\* create, rename, an input manifest, a plan that drops or swaps an instance, a command
\* through the plan.
PlanRequests ==
  {Req("create_task", i1, {}), Req("rename_task", i1, {}), Req("register_input_manifest", i1, {}),
   Req("save_plan", i1, {i1, i2}), Req("save_plan", i1, {i2}), Req("transition_instance", i1, {})}

\* The calls of the bound are made and answered.
Rest ==
  /\ mode = "up"
  /\ calls = MaxCalls
  /\ \A t \in Threads : pc[t] = "idle"
  /\ UNCHANGED vars

MCFailureSpec == Init /\ [][FailureNext \/ Rest]_vars

Symmetry == Permutations({t1, t2}) \cup Permutations({k1, k2, k3, k4})
=============================================================================
