------------------------ MODULE AggregateCommitProofs ------------------------
(***************************************************************************)
(* Proofs about AggregateCommit, for any number of threads, keys,          *)
(* instances, requests, calls, crashes and failed writes.                  *)
(***************************************************************************)
EXTENDS AggregateCommit, TLAPS

-----------------------------------------------------------------------------
(* The inductive invariant.                                                *)

Command == {"command", "plan", "retire", "task", "instances", "taskOnly", "summary",
            "remember", "reply"}
Holding == {"plan", "retire", "task", "instances", "taskOnly", "summary", "remember",
            "reply", "reconcile"}

AnyRequest == [kind : Kinds \cup {"none"}, inst : Instances \cup {None}, members : SUBSET Instances]
OpType == [key : Keys \cup {None}, req : AnyRequest, expected : Nat, fact : Facts \cup {None},
           new : PlanType, todo : SUBSET Instances]

\* The command of a thread has what its next step needs.
OpInv ==
  /\ op \in [Threads -> OpType]
  /\ \A t \in Threads :
       /\ pc[t] \in Command => op[t].key \in Keys /\ op[t].req \in Requests
       /\ pc[t] = "update" => op[t].req.inst \in Instances /\ op[t].fact \in Facts

\* Whoever is between two writes holds the command lock.
LockInv == \A t \in Threads : pc[t] \in Holding => lock = t

\* The projections a thread has still to write are of the plan.
TodoInv == \A t \in Threads : pc[t] = "instances" => op[t].todo \subseteq Members

\* A thread that answers finds its key in the registry.
AnswerInv == \A t \in Threads : pc[t] = "reply" => idem[op[t].key] # Unknown

TypeInv == TypeOK /\ OpInv /\ LockInv /\ TodoInv /\ AnswerInv

\* The registry repeats the journal.
RegistryInv == \A k \in Keys : idem[k] # Unknown => Entry(k, idem[k]) \in results

\* A key whose first write is due has no result yet.
FreshInv == \A t \in Threads : pc[t] \in {"plan", "taskOnly"} => Carried(op[t].key) = {}

OnceInv == CommandsCommitOnce /\ RepliesAreCommitted /\ RegistryInv /\ FreshInv

-----------------------------------------------------------------------------
\* The empty plan and its instances have their types.
LEMMA NoInstTypes == /\ NoPlan \in PlanType
                     /\ NoOp \in OpType
                     /\ NoInst \in [cmd : Keys \cup {None}, fact : Facts \cup {None}]
<1>1. [i \in {} |-> NoInst] \in [{} -> InstContent]
  OBVIOUS
<1>2. NoPlan \in PlanType
  BY <1>1 DEF NoPlan, PlanType
<1>3. NoOp \in OpType
  BY <1>2 DEF NoOp, OpType, NoRequest, AnyRequest
<1>. QED
  BY <1>2, <1>3 DEF NoInst

\* The marker of a thread without a command is no request.
LEMMA NoRequestIsNone == NoRequest \notin Requests
  BY ConstAssumption DEF NoRequest, Kinds

\* A plan's instances, changed at one of its members, are a plan's instances.
LEMMA PlanInst ==
  ASSUME NEW p \in PlanType
  PROVE  /\ DOMAIN p.inst \subseteq Instances
         /\ p.inst \in [DOMAIN p.inst -> InstContent]
  BY DEF PlanType

\* A record with the right fields is a plan.
LEMMA PlanTypeIntro ==
  ASSUME NEW n \in Nat, NEW v \in SUBSET Keys, NEW m \in SUBSET Instances,
         NEW f \in [m -> InstContent]
  PROVE  [rev |-> n, task |-> v, inst |-> f] \in PlanType
  BY DEF PlanType

-----------------------------------------------------------------------------
(* Types and the command lock.                                             *)

\* The types, the lock discipline and the work list hold of a fresh store.
LEMMA InitTypeInv == Init => TypeInv
<1>. SUFFICES ASSUME Init PROVE TypeInv
  OBVIOUS
<1>1. TypeOK
  BY NoInstTypes DEF Init, TypeOK, NoTask, Labels
<1>2. OpInv
  BY NoInstTypes DEF Init, OpInv, Command
<1>. QED
  BY <1>1, <1>2 DEF Init, TypeInv, LockInv, TodoInv, AnswerInv, Holding

\* The plan a command computes under the lock is a plan.
LEMMA PlanAfterType ==
  ASSUME TypeInv, NEW t \in Threads, pc[t] = "command", Accepted(t), ThroughPlan(op[t].req)
  PROVE  PlanAfter(op[t].req, op[t].key) \in PlanType
<1>. DEFINE req == op[t].req
            key == op[t].key
<1>1. /\ plan \in PlanType /\ req \in Requests /\ key \in Keys /\ task.val \subseteq Keys
      /\ req \in [kind : Kinds, inst : Instances, members : SUBSET Instances]
  BY ConstAssumption DEF TypeInv, TypeOK, OpInv, Command
<1>2. plan.rev + 1 \in Nat /\ TaskAfter(req, key) \in SUBSET Keys
  BY <1>1 DEF PlanType, TaskAfter
<1>3. \E m \in SUBSET Instances : InstAfter(req, key) \in [m -> InstContent]
  <2>1. CASE req.kind = "save_plan"
    <3>1. InstAfter(req, key) = [i \in req.members |-> [cmd |-> key, fact |-> None]]
      BY <2>1 DEF InstAfter
    <3>2. req.members \in SUBSET Instances
      BY <1>1
    <3>. QED
      BY <1>1, <3>1, <3>2 DEF InstContent
  <2>2. CASE req.kind = "transition_instance"
    <3>1. InstAfter(req, key) = [plan.inst EXCEPT ![req.inst].cmd = key]
      BY <2>2 DEF InstAfter
    <3>2. req.inst \in DOMAIN plan.inst
      BY <2>2 DEF Accepted, Members
    <3>3. /\ DOMAIN plan.inst \subseteq Instances
          /\ plan.inst \in [DOMAIN plan.inst -> InstContent]
      BY <1>1, PlanInst
    <3>4. InstAfter(req, key) \in [DOMAIN plan.inst -> InstContent]
      BY <1>1, <3>1, <3>2, <3>3 DEF InstContent
    <3>. QED
      BY <3>3, <3>4
  <2>3. CASE req.kind \notin {"save_plan", "transition_instance"}
    <3>1. InstAfter(req, key) = plan.inst
      BY <2>3 DEF InstAfter
    <3>. QED
      BY <1>1, <3>1, PlanInst
  <2>. QED
    BY <2>1, <2>2, <2>3
<1>4. PICK m \in SUBSET Instances : InstAfter(req, key) \in [m -> InstContent]
  BY <1>3
<1>. QED
  BY <1>2, <1>4, PlanTypeIntro DEF PlanAfter

\* A step of the system keeps the types, the lock discipline and the work list.
LEMMA NextTypeInv == TypeInv /\ [FailureNext]_vars => TypeInv'
<1>. SUFFICES ASSUME TypeInv, [FailureNext]_vars PROVE TypeInv'
  OBVIOUS
<1>. USE ConstAssumption
<1>0. TypeOK /\ OpInv /\ LockInv /\ TodoInv /\ AnswerInv /\ plan \in PlanType
  BY DEF TypeInv, TypeOK
<1>1. ASSUME NEW t \in Threads, NEW key \in Keys, NEW req \in Requests, Call(t, key, req) PROVE TypeInv'
  <2>1. TypeOK'
    BY <1>0, <1>1, NoInstTypes DEF TypeOK, Labels, Call, OpType, AnyRequest, NoOp, store, projections, bounds, Goto, Return
  <2>2. OpInv'
    BY <1>0, <1>1, NoInstTypes DEF TypeOK, OpInv, Command, Labels, Call, OpType, AnyRequest, NoOp, store, projections, bounds, Goto, Return
  <2>3. LockInv'
    BY <1>0, <1>1 DEF TypeOK, LockInv, OpInv, Holding, Command, Labels, Call, OpType, AnyRequest, NoOp, store, projections, bounds, Goto, Return
  <2>4. TodoInv'
    BY <1>0, <1>1 DEF TypeOK, LockInv, TodoInv, OpInv, Holding, Command, Members, Labels, Call, OpType, AnyRequest, NoOp, store, projections, bounds, Goto, Return
  <2>5. AnswerInv'
    BY <1>0, <1>1 DEF TypeOK, AnswerInv, OpInv, Command, Labels, Call, OpType, AnyRequest, NoOp, store, projections, bounds, Goto, Return
  <2>. QED
    BY <2>1, <2>2, <2>3, <2>4, <2>5 DEF TypeInv
<1>2. ASSUME NEW t \in Threads, NEW i \in Instances, NEW f \in Facts, CallUpdate(t, i, f) PROVE TypeInv'
  <2>1. TypeOK'
    BY <1>0, <1>2, NoInstTypes DEF TypeOK, Labels, CallUpdate, OpType, AnyRequest, NoOp, NoRequest, store, projections, bounds, Goto, Return
  <2>2. OpInv'
    BY <1>0, <1>2, NoInstTypes DEF TypeOK, OpInv, Command, Labels, CallUpdate, OpType, AnyRequest, NoOp, NoRequest, store, projections, bounds, Goto, Return
  <2>3. LockInv'
    BY <1>0, <1>2 DEF TypeOK, LockInv, OpInv, Holding, Command, Labels, CallUpdate, OpType, AnyRequest, NoOp, NoRequest, store, projections, bounds, Goto, Return
  <2>4. TodoInv'
    BY <1>0, <1>2 DEF TypeOK, LockInv, TodoInv, OpInv, Holding, Command, Members, Labels, CallUpdate, OpType, AnyRequest, NoOp, NoRequest, store, projections, bounds, Goto, Return
  <2>5. AnswerInv'
    BY <1>0, <1>2 DEF TypeOK, AnswerInv, OpInv, Command, Labels, CallUpdate, OpType, AnyRequest, NoOp, NoRequest, store, projections, bounds, Goto, Return
  <2>. QED
    BY <2>1, <2>2, <2>3, <2>4, <2>5 DEF TypeInv
<1>3. ASSUME NEW t \in Threads, LockTimeout(t) PROVE TypeInv'
  <2>1. TypeOK'
    BY <1>0, <1>3, NoInstTypes DEF TypeOK, Labels, LockTimeout, store, projections, bounds, Goto, Return
  <2>2. OpInv'
    BY <1>0, <1>3, NoInstTypes DEF TypeOK, OpInv, Command, Labels, LockTimeout, store, projections, bounds, Goto, Return
  <2>3. LockInv'
    BY <1>0, <1>3 DEF TypeOK, LockInv, OpInv, Holding, Command, Labels, LockTimeout, store, projections, bounds, Goto, Return
  <2>4. TodoInv'
    BY <1>0, <1>3 DEF TypeOK, LockInv, TodoInv, OpInv, Holding, Command, Members, Labels, LockTimeout, store, projections, bounds, Goto, Return
  <2>5. AnswerInv'
    BY <1>0, <1>3 DEF TypeOK, AnswerInv, OpInv, Command, Labels, LockTimeout, store, projections, bounds, Goto, Return
  <2>. QED
    BY <2>1, <2>2, <2>3, <2>4, <2>5 DEF TypeInv
<1>4. ASSUME NEW t \in Threads, Replay(t) PROVE TypeInv'
  <2>0. idem[op[t].key] # Unknown => Entry(op[t].key, idem[op[t].key]) \in ResultType
    BY <1>0, <1>4 DEF TypeOK, OpInv, Command, Replay, Entry, ResultType
  <2>1. TypeOK'
    BY <1>0, <2>0, <1>4 DEF TypeOK, Labels, Replay, store, projections, bounds, Goto, Return
  <2>2. OpInv'
    BY <1>0, <1>4, NoInstTypes DEF TypeOK, OpInv, Command, Labels, Replay, store, projections, bounds, Goto, Return
  <2>3. LockInv'
    BY <1>0, <1>4 DEF TypeOK, LockInv, OpInv, Holding, Command, Labels, Replay, store, projections, bounds, Goto, Return
  <2>4. TodoInv'
    BY <1>0, <1>4 DEF TypeOK, LockInv, TodoInv, OpInv, Holding, Command, Members, Labels, Replay, store, projections, bounds, Goto, Return
  <2>5. AnswerInv'
    BY <1>0, <1>4 DEF TypeOK, AnswerInv, OpInv, Command, Labels, Replay, store, projections, bounds, Goto, Return
  <2>. QED
    BY <2>1, <2>2, <2>3, <2>4, <2>5 DEF TypeInv
<1>5. ASSUME NEW t \in Threads, ReplayCommitted(t) PROVE TypeInv'
  <2>1. TypeOK'
    BY <1>0, <1>5, NoInstTypes DEF TypeOK, Labels, ReplayCommitted, Carried, Registered, ResultType, store, projections, bounds, Goto, Return
  <2>2. OpInv'
    BY <1>0, <1>5, NoInstTypes DEF TypeOK, OpInv, Command, Labels, ReplayCommitted, Carried, Registered, ResultType, store, projections, bounds, Goto, Return
  <2>3. LockInv'
    BY <1>0, <1>5 DEF TypeOK, LockInv, OpInv, Holding, Command, Labels, ReplayCommitted, Carried, Registered, ResultType, store, projections, bounds, Goto, Return
  <2>4. TodoInv'
    BY <1>0, <1>5 DEF TypeOK, LockInv, TodoInv, OpInv, Holding, Command, Members, Labels, ReplayCommitted, Carried, Registered, ResultType, store, projections, bounds, Goto, Return
  <2>5. AnswerInv'
    BY <1>0, <1>5, NoRequestIsNone DEF TypeOK, AnswerInv, OpInv, Unknown, Command, Labels, ResultType, ReplayCommitted, Carried, Registered, ResultType, store, projections, bounds, Goto, Return
  <2>. QED
    BY <2>1, <2>2, <2>3, <2>4, <2>5 DEF TypeInv
<1>6. ASSUME NEW t \in Threads, Refuse(t) PROVE TypeInv'
  <2>1. TypeOK'
    BY <1>0, <1>6, NoInstTypes DEF TypeOK, Labels, Refuse, store, projections, bounds, Goto, Return
  <2>2. OpInv'
    BY <1>0, <1>6, NoInstTypes DEF TypeOK, OpInv, Command, Labels, Refuse, store, projections, bounds, Goto, Return
  <2>3. LockInv'
    BY <1>0, <1>6 DEF TypeOK, LockInv, OpInv, Holding, Command, Labels, Refuse, store, projections, bounds, Goto, Return
  <2>4. TodoInv'
    BY <1>0, <1>6 DEF TypeOK, LockInv, TodoInv, OpInv, Holding, Command, Members, Labels, Refuse, store, projections, bounds, Goto, Return
  <2>5. AnswerInv'
    BY <1>0, <1>6 DEF TypeOK, AnswerInv, OpInv, Command, Labels, Refuse, store, projections, bounds, Goto, Return
  <2>. QED
    BY <2>1, <2>2, <2>3, <2>4, <2>5 DEF TypeInv
<1>7. ASSUME NEW t \in Threads, Begin(t) PROVE TypeInv'
  <2>1. TypeOK'
    BY <1>0, <1>7 DEF TypeOK, Labels, Begin, store, projections, bounds, Goto, Return
  <2>2. OpInv'
    <3>1. CASE ThroughPlan(op[t].req)
      <4>1. PlanAfter(op[t].req, op[t].key) \in PlanType
        BY <1>7, <3>1, PlanAfterType DEF Begin
      <4>2. [op[t] EXCEPT !.new = PlanAfter(op[t].req, op[t].key)] \in OpType
        BY <1>0, <4>1 DEF OpInv, OpType
      <4>3. op' = [op EXCEPT ![t] = [op[t] EXCEPT !.new = PlanAfter(op[t].req, op[t].key)]]
        BY <1>7, <3>1 DEF Begin
      <4>4. op'[t].key = op[t].key /\ op'[t].req = op[t].req
        BY <1>0, <4>3 DEF OpInv, OpType
      <4>. QED
        BY <1>0, <1>7, <3>1, <4>2, <4>3, <4>4 DEF TypeOK, OpInv, Command, Labels, Begin, Goto
    <3>2. CASE ~ThroughPlan(op[t].req)
      BY <1>0, <1>7, <3>2 DEF TypeOK, OpInv, Command, Labels, Begin, Goto
    <3>. QED
      BY <3>1, <3>2
  <2>3. LockInv'
    BY <1>0, <1>7 DEF TypeOK, LockInv, Holding, Begin, store, projections, bounds, Goto, Return
  <2>4. TodoInv'
    BY <1>0, <1>7 DEF TypeOK, LockInv, TodoInv, OpInv, Holding, Members, Begin, store, projections, bounds, Goto, Return
  <2>5. AnswerInv'
    BY <1>0, <1>7 DEF TypeOK, AnswerInv, OpInv, Command, Labels, Begin, store, projections, bounds, Goto, Return
  <2>. QED
    BY <2>1, <2>2, <2>3, <2>4, <2>5 DEF TypeInv
<1>8. ASSUME NEW t \in Threads, PutPlan(t) PROVE TypeInv'
  <2>0. Result(t) \in ResultType /\ op[t].new \in PlanType
    BY <1>0, <1>8 DEF TypeOK, OpInv, OpType, Command, PutPlan, Result, ResultType, PlanType
  <2>1. TypeOK'
    BY <1>0, <2>0, <1>8 DEF TypeOK, Labels, PutPlan, store, projections, bounds, Goto, Return
  <2>2. OpInv'
    BY <1>0, <1>8 DEF TypeOK, OpInv, Command, Labels, PutPlan, store, projections, bounds, Goto, Return
  <2>3. LockInv'
    BY <1>0, <1>8 DEF TypeOK, LockInv, OpInv, Holding, Command, Labels, PutPlan, store, projections, bounds, Goto, Return
  <2>4. TodoInv'
    BY <1>0, <1>8 DEF TypeOK, LockInv, TodoInv, OpInv, Holding, Command, Members, Labels, PutPlan, store, projections, bounds, Goto, Return
  <2>5. AnswerInv'
    BY <1>0, <1>8 DEF TypeOK, AnswerInv, OpInv, Command, Labels, PutPlan, store, projections, bounds, Goto, Return
  <2>. QED
    BY <2>1, <2>2, <2>3, <2>4, <2>5 DEF TypeInv
<1>9. ASSUME NEW t \in Threads, Retire(t) PROVE TypeInv'
  <2>1. TypeOK'
    BY <1>0, <1>9, NoInstTypes DEF TypeOK, Labels, Retire, Retired, store, projections, bounds, Goto, Return
  <2>2. OpInv'
    BY <1>0, <1>9, NoInstTypes DEF TypeOK, OpInv, Command, Labels, Retire, Retired, store, projections, bounds, Goto, Return
  <2>3. LockInv'
    BY <1>0, <1>9 DEF TypeOK, LockInv, OpInv, Holding, Command, Labels, Retire, Retired, store, projections, bounds, Goto, Return
  <2>4. TodoInv'
    BY <1>0, <1>9 DEF TypeOK, LockInv, TodoInv, OpInv, Holding, Command, Members, Labels, Retire, Retired, store, projections, bounds, Goto, Return
  <2>5. AnswerInv'
    BY <1>0, <1>9 DEF TypeOK, AnswerInv, OpInv, Command, Labels, Retire, Retired, store, projections, bounds, Goto, Return
  <2>. QED
    BY <2>1, <2>2, <2>3, <2>4, <2>5 DEF TypeInv
<1>10. ASSUME NEW t \in Threads, PutTask(t) PROVE TypeInv'
  <2>0. [op[t] EXCEPT !.todo = Members] \in OpType
    BY <1>0, PlanInst DEF OpInv, OpType, Members
  <2>1. TypeOK'
    BY <1>0, <1>10 DEF TypeOK, Labels, PutTask, PlanType, store, projections, bounds, Goto, Return
  <2>2. OpInv'
    BY <1>0, <2>0, <1>10 DEF TypeOK, OpInv, Command, Labels, PutTask, Goto
  <2>3. LockInv'
    BY <1>0, <1>10 DEF TypeOK, LockInv, OpInv, Holding, Command, Labels, PutTask, PlanType, store, projections, bounds, Goto, Return
  <2>4. TodoInv'
    BY <1>0, <1>10 DEF TypeOK, LockInv, TodoInv, OpInv, Holding, Command, Members, Labels, PutTask, PlanType, store, projections, bounds, Goto, Return
  <2>5. AnswerInv'
    BY <1>0, <1>10 DEF TypeOK, AnswerInv, OpInv, Command, Labels, PutTask, PlanType, store, projections, bounds, Goto, Return
  <2>. QED
    BY <2>1, <2>2, <2>3, <2>4, <2>5 DEF TypeInv
<1>11. ASSUME NEW t \in Threads, PutInstance(t) PROVE TypeInv'
  <2>1. TypeOK'
    BY <1>0, <1>11, PlanInst DEF TypeOK, Labels, PutInstance, OpType, TodoInv, Members, store, projections, bounds, Goto, Return
  <2>2. OpInv'
    BY <1>0, <1>11, PlanInst DEF TypeOK, OpInv, Command, Labels, PutInstance, OpType, TodoInv, Members, store, projections, bounds, Goto, Return
  <2>3. LockInv'
    BY <1>0, <1>11 DEF TypeOK, LockInv, OpInv, Holding, Command, Labels, PutInstance, OpType, TodoInv, Members, store, projections, bounds, Goto, Return
  <2>4. TodoInv'
    BY <1>0, <1>11 DEF TypeOK, LockInv, TodoInv, OpInv, Holding, Command, Members, Labels, PutInstance, OpType, TodoInv, Members, store, projections, bounds, Goto, Return
  <2>5. AnswerInv'
    BY <1>0, <1>11 DEF TypeOK, AnswerInv, OpInv, Command, Labels, PutInstance, OpType, TodoInv, Members, store, projections, bounds, Goto, Return
  <2>. QED
    BY <2>1, <2>2, <2>3, <2>4, <2>5 DEF TypeInv
<1>12. ASSUME NEW t \in Threads, WriteSummary(t) PROVE TypeInv'
  <2>1. TypeOK'
    BY <1>0, <1>12 DEF TypeOK, Labels, WriteSummary, PlanType, store, projections, bounds, Goto, Return
  <2>2. OpInv'
    BY <1>0, <1>12 DEF TypeOK, OpInv, Command, Labels, WriteSummary, PlanType, store, projections, bounds, Goto, Return
  <2>3. LockInv'
    BY <1>0, <1>12 DEF TypeOK, LockInv, OpInv, Holding, Command, Labels, WriteSummary, PlanType, store, projections, bounds, Goto, Return
  <2>4. TodoInv'
    BY <1>0, <1>12 DEF TypeOK, LockInv, TodoInv, OpInv, Holding, Command, Members, Labels, WriteSummary, PlanType, store, projections, bounds, Goto, Return
  <2>5. AnswerInv'
    BY <1>0, <1>12 DEF TypeOK, AnswerInv, OpInv, Command, Labels, WriteSummary, PlanType, store, projections, bounds, Goto, Return
  <2>. QED
    BY <2>1, <2>2, <2>3, <2>4, <2>5 DEF TypeInv
<1>13. ASSUME NEW t \in Threads, PutTaskOnly(t) PROVE TypeInv'
  <2>1. TypeOK'
    BY <1>0, <1>13 DEF TypeOK, Labels, PutTaskOnly, Result, OpType, PlanType, OpInv, Command, ResultType, store, projections, bounds, Goto, Return
  <2>2. OpInv'
    BY <1>0, <1>13 DEF TypeOK, OpInv, Command, Labels, PutTaskOnly, Result, OpType, PlanType, OpInv, Command, ResultType, store, projections, bounds, Goto, Return
  <2>3. LockInv'
    BY <1>0, <1>13 DEF TypeOK, LockInv, OpInv, Holding, Command, Labels, PutTaskOnly, Result, OpType, PlanType, OpInv, Command, ResultType, store, projections, bounds, Goto, Return
  <2>4. TodoInv'
    BY <1>0, <1>13 DEF TypeOK, LockInv, TodoInv, OpInv, Holding, Command, Members, Labels, PutTaskOnly, Result, OpType, PlanType, OpInv, Command, ResultType, store, projections, bounds, Goto, Return
  <2>5. AnswerInv'
    BY <1>0, <1>13 DEF TypeOK, AnswerInv, OpInv, Command, Labels, PutTaskOnly, Result, OpType, PlanType, OpInv, Command, ResultType, store, projections, bounds, Goto, Return
  <2>. QED
    BY <2>1, <2>2, <2>3, <2>4, <2>5 DEF TypeInv
<1>14. ASSUME NEW t \in Threads, WriteTaskSummary(t) PROVE TypeInv'
  <2>1. TypeOK'
    BY <1>0, <1>14 DEF TypeOK, Labels, WriteTaskSummary, store, projections, bounds, Goto, Return
  <2>2. OpInv'
    BY <1>0, <1>14 DEF TypeOK, OpInv, Command, Labels, WriteTaskSummary, store, projections, bounds, Goto, Return
  <2>3. LockInv'
    BY <1>0, <1>14 DEF TypeOK, LockInv, OpInv, Holding, Command, Labels, WriteTaskSummary, store, projections, bounds, Goto, Return
  <2>4. TodoInv'
    BY <1>0, <1>14 DEF TypeOK, LockInv, TodoInv, OpInv, Holding, Command, Members, Labels, WriteTaskSummary, store, projections, bounds, Goto, Return
  <2>5. AnswerInv'
    BY <1>0, <1>14 DEF TypeOK, AnswerInv, OpInv, Command, Labels, WriteTaskSummary, store, projections, bounds, Goto, Return
  <2>. QED
    BY <2>1, <2>2, <2>3, <2>4, <2>5 DEF TypeInv
<1>15. ASSUME NEW t \in Threads, Remember(t) PROVE TypeInv'
  <2>1. TypeOK'
    BY <1>0, <1>15 DEF TypeOK, Labels, Remember, Carried, Registered, ResultType, store, projections, bounds, Goto, Return
  <2>2. OpInv'
    BY <1>0, <1>15 DEF TypeOK, OpInv, Command, Labels, Remember, Carried, Registered, ResultType, store, projections, bounds, Goto, Return
  <2>3. LockInv'
    BY <1>0, <1>15 DEF TypeOK, LockInv, OpInv, Holding, Command, Labels, Remember, Carried, Registered, ResultType, store, projections, bounds, Goto, Return
  <2>4. TodoInv'
    BY <1>0, <1>15 DEF TypeOK, LockInv, TodoInv, OpInv, Holding, Command, Members, Labels, Remember, Carried, Registered, ResultType, store, projections, bounds, Goto, Return
  <2>5. AnswerInv'
    BY <1>0, <1>15, NoRequestIsNone DEF TypeOK, AnswerInv, OpInv, Unknown, Command, Labels, ResultType, Remember, Carried, Registered, ResultType, store, projections, bounds, Goto, Return
  <2>. QED
    BY <2>1, <2>2, <2>3, <2>4, <2>5 DEF TypeInv
<1>16. ASSUME NEW t \in Threads, Reply(t) PROVE TypeInv'
  <2>0. Entry(op[t].key, idem[op[t].key]) \in ResultType
    BY <1>0, <1>16 DEF TypeOK, OpInv, AnswerInv, Command, Reply, Entry, ResultType
  <2>1. TypeOK'
    BY <1>0, <2>0, <1>16 DEF TypeOK, Labels, Reply, store, projections, bounds, Goto, Return
  <2>2. OpInv'
    BY <1>0, <1>16, NoInstTypes DEF TypeOK, OpInv, Command, Labels, Reply, store, projections, bounds, Goto, Return
  <2>3. LockInv'
    BY <1>0, <1>16 DEF TypeOK, LockInv, OpInv, Holding, Command, Labels, Reply, store, projections, bounds, Goto, Return
  <2>4. TodoInv'
    BY <1>0, <1>16 DEF TypeOK, LockInv, TodoInv, OpInv, Holding, Command, Members, Labels, Reply, store, projections, bounds, Goto, Return
  <2>5. AnswerInv'
    BY <1>0, <1>16 DEF TypeOK, AnswerInv, OpInv, Command, Labels, Reply, store, projections, bounds, Goto, Return
  <2>. QED
    BY <2>1, <2>2, <2>3, <2>4, <2>5 DEF TypeInv
<1>17. ASSUME NEW t \in Threads, UpdateNothing(t) PROVE TypeInv'
  <2>1. TypeOK'
    BY <1>0, <1>17, NoInstTypes DEF TypeOK, Labels, UpdateNothing, store, projections, bounds, Goto, Return
  <2>2. OpInv'
    BY <1>0, <1>17, NoInstTypes DEF TypeOK, OpInv, Command, Labels, UpdateNothing, store, projections, bounds, Goto, Return
  <2>3. LockInv'
    BY <1>0, <1>17 DEF TypeOK, LockInv, OpInv, Holding, Command, Labels, UpdateNothing, store, projections, bounds, Goto, Return
  <2>4. TodoInv'
    BY <1>0, <1>17 DEF TypeOK, LockInv, TodoInv, OpInv, Holding, Command, Members, Labels, UpdateNothing, store, projections, bounds, Goto, Return
  <2>5. AnswerInv'
    BY <1>0, <1>17 DEF TypeOK, AnswerInv, OpInv, Command, Labels, UpdateNothing, store, projections, bounds, Goto, Return
  <2>. QED
    BY <2>1, <2>2, <2>3, <2>4, <2>5 DEF TypeInv
<1>18. ASSUME NEW t \in Threads, UpdatePlan(t) PROVE TypeInv'
  <2>0. plan' \in PlanType
    <3>. DEFINE i == op[t].req.inst
                f == [plan.inst EXCEPT ![i].fact = op[t].fact]
    <3>1. i \in DOMAIN plan.inst /\ op[t].fact \in Facts
      BY <1>0, <1>18 DEF OpInv, UpdatePlan, Members
    <3>2. f \in [DOMAIN plan.inst -> InstContent]
      BY <1>0, <3>1, PlanInst DEF InstContent
    <3>3. plan' = [rev |-> plan.rev + 1, task |-> plan.task, inst |-> f]
      BY <1>0, <1>18 DEF UpdatePlan, PlanType
    <3>4. plan.rev + 1 \in Nat /\ plan.task \in SUBSET Keys /\ DOMAIN plan.inst \in SUBSET Instances
      BY <1>0, PlanInst DEF PlanType
    <3>. QED
      BY <3>2, <3>3, <3>4, PlanTypeIntro
  <2>1. TypeOK'
    BY <1>0, <2>0, <1>18 DEF TypeOK, Labels, UpdatePlan, store, projections, bounds, Goto, Return
  <2>2. OpInv'
    BY <1>0, <1>18 DEF TypeOK, OpInv, Command, Labels, UpdatePlan, store, projections, bounds, Goto, Return
  <2>3. LockInv'
    BY <1>0, <1>18 DEF TypeOK, LockInv, OpInv, Holding, Command, Labels, UpdatePlan, store, projections, bounds, Goto, Return
  <2>4. TodoInv'
    BY <1>0, <1>18 DEF TypeOK, LockInv, TodoInv, OpInv, Holding, Command, Members, Labels, UpdatePlan, store, projections, bounds, Goto, Return
  <2>5. AnswerInv'
    BY <1>0, <1>18 DEF TypeOK, AnswerInv, OpInv, Command, Labels, UpdatePlan, store, projections, bounds, Goto, Return
  <2>. QED
    BY <2>1, <2>2, <2>3, <2>4, <2>5 DEF TypeInv
<1>19. ASSUME NEW t \in Threads, UpdateUnplanned(t) PROVE TypeInv'
  <2>0. [instV[op[t].req.inst] EXCEPT !.fact = op[t].fact] \in InstContent
    BY <1>0, <1>19 DEF TypeOK, OpInv, UpdateUnplanned, InstContent
  <2>1. TypeOK'
    BY <1>0, <2>0, <1>19 DEF TypeOK, Labels, UpdateUnplanned, store, projections, bounds, Goto, Return
  <2>2. OpInv'
    BY <1>0, <1>19, NoInstTypes DEF TypeOK, OpInv, Command, Labels, UpdateUnplanned, store, projections, bounds, Goto, Return
  <2>3. LockInv'
    BY <1>0, <1>19 DEF TypeOK, LockInv, OpInv, Holding, Command, Labels, UpdateUnplanned, store, projections, bounds, Goto, Return
  <2>4. TodoInv'
    BY <1>0, <1>19 DEF TypeOK, LockInv, TodoInv, OpInv, Holding, Command, Members, Labels, UpdateUnplanned, store, projections, bounds, Goto, Return
  <2>5. AnswerInv'
    BY <1>0, <1>19 DEF TypeOK, AnswerInv, OpInv, Command, Labels, UpdateUnplanned, store, projections, bounds, Goto, Return
  <2>. QED
    BY <2>1, <2>2, <2>3, <2>4, <2>5 DEF TypeInv
<1>20. ASSUME NEW t \in Threads, ReconcileStep(t) PROVE TypeInv'
  <2>1. TypeOK'
    BY <1>0, <1>20, PlanInst DEF TypeOK, Labels, ReconcileStep, ReconcileTask, ReconcileInstance, PlanType, Members, store, projections, bounds, Goto, Return
  <2>2. OpInv'
    BY <1>0, <1>20, PlanInst DEF TypeOK, OpInv, Command, Labels, ReconcileStep, ReconcileTask, ReconcileInstance, PlanType, Members, store, projections, bounds, Goto, Return
  <2>3. LockInv'
    BY <1>0, <1>20 DEF TypeOK, LockInv, OpInv, Holding, Command, Labels, ReconcileStep, ReconcileTask, ReconcileInstance, PlanType, Members, store, projections, bounds, Goto, Return
  <2>4. TodoInv'
    BY <1>0, <1>20 DEF TypeOK, LockInv, TodoInv, OpInv, Holding, Command, Members, Labels, ReconcileStep, ReconcileTask, ReconcileInstance, PlanType, Members, store, projections, bounds, Goto, Return
  <2>5. AnswerInv'
    BY <1>0, <1>20 DEF TypeOK, AnswerInv, OpInv, Command, Labels, ReconcileStep, ReconcileTask, ReconcileInstance, PlanType, Members, store, projections, bounds, Goto, Return
  <2>. QED
    BY <2>1, <2>2, <2>3, <2>4, <2>5 DEF TypeInv
<1>21. ASSUME NEW t \in Threads, ReconcileReturn(t) PROVE TypeInv'
  <2>1. TypeOK'
    BY <1>0, <1>21, NoInstTypes DEF TypeOK, Labels, ReconcileReturn, ReconcileEnd, Retired, PlanType, store, projections, bounds, Goto, Return
  <2>2. OpInv'
    BY <1>0, <1>21, NoInstTypes DEF TypeOK, OpInv, Command, Labels, ReconcileReturn, ReconcileEnd, Retired, PlanType, store, projections, bounds, Goto, Return
  <2>3. LockInv'
    BY <1>0, <1>21 DEF TypeOK, LockInv, OpInv, Holding, Command, Labels, ReconcileReturn, ReconcileEnd, Retired, PlanType, store, projections, bounds, Goto, Return
  <2>4. TodoInv'
    BY <1>0, <1>21 DEF TypeOK, LockInv, TodoInv, OpInv, Holding, Command, Members, Labels, ReconcileReturn, ReconcileEnd, Retired, PlanType, store, projections, bounds, Goto, Return
  <2>5. AnswerInv'
    BY <1>0, <1>21 DEF TypeOK, AnswerInv, OpInv, Command, Labels, ReconcileReturn, ReconcileEnd, Retired, PlanType, store, projections, bounds, Goto, Return
  <2>. QED
    BY <2>1, <2>2, <2>3, <2>4, <2>5 DEF TypeInv
<1>22. ASSUME Crash PROVE TypeInv'
  <2>1. TypeOK'
    BY <1>0, <1>22, NoInstTypes DEF TypeOK, Labels, Crash, store, projections, bounds, Goto, Return
  <2>2. OpInv'
    BY <1>0, <1>22, NoInstTypes DEF TypeOK, OpInv, Command, Labels, Crash, store, projections, bounds, Goto, Return
  <2>3. LockInv'
    BY <1>0, <1>22 DEF TypeOK, LockInv, OpInv, Holding, Command, Labels, Crash, store, projections, bounds, Goto, Return
  <2>4. TodoInv'
    BY <1>0, <1>22 DEF TypeOK, LockInv, TodoInv, OpInv, Holding, Command, Members, Labels, Crash, store, projections, bounds, Goto, Return
  <2>5. AnswerInv'
    BY <1>0, <1>22 DEF TypeOK, AnswerInv, OpInv, Command, Labels, Crash, store, projections, bounds, Goto, Return
  <2>. QED
    BY <2>1, <2>2, <2>3, <2>4, <2>5 DEF TypeInv
<1>23. ASSUME RecoverResult PROVE TypeInv'
  <2>1. TypeOK'
    BY <1>0, <1>23 DEF TypeOK, Labels, RecoverResult, Registered, ResultType, store, projections, bounds, Goto, Return
  <2>2. OpInv'
    BY <1>0, <1>23 DEF TypeOK, OpInv, Command, Labels, RecoverResult, Registered, ResultType, store, projections, bounds, Goto, Return
  <2>3. LockInv'
    BY <1>0, <1>23 DEF TypeOK, LockInv, OpInv, Holding, Command, Labels, RecoverResult, Registered, ResultType, store, projections, bounds, Goto, Return
  <2>4. TodoInv'
    BY <1>0, <1>23 DEF TypeOK, LockInv, TodoInv, OpInv, Holding, Command, Members, Labels, RecoverResult, Registered, ResultType, store, projections, bounds, Goto, Return
  <2>5. AnswerInv'
    BY <1>0, <1>23, NoRequestIsNone DEF TypeOK, AnswerInv, OpInv, Unknown, Command, Labels, ResultType, RecoverResult, Registered, ResultType, store, projections, bounds, Goto, Return
  <2>. QED
    BY <2>1, <2>2, <2>3, <2>4, <2>5 DEF TypeInv
<1>24. ASSUME RecoverSnapshots PROVE TypeInv'
  <2>1. TypeOK'
    BY <1>0, <1>24 DEF TypeOK, Labels, RecoverSnapshots, store, projections, bounds, Goto, Return
  <2>2. OpInv'
    BY <1>0, <1>24 DEF TypeOK, OpInv, Command, Labels, RecoverSnapshots, store, projections, bounds, Goto, Return
  <2>3. LockInv'
    BY <1>0, <1>24 DEF TypeOK, LockInv, OpInv, Holding, Command, Labels, RecoverSnapshots, store, projections, bounds, Goto, Return
  <2>4. TodoInv'
    BY <1>0, <1>24 DEF TypeOK, LockInv, TodoInv, OpInv, Holding, Command, Members, Labels, RecoverSnapshots, store, projections, bounds, Goto, Return
  <2>5. AnswerInv'
    BY <1>0, <1>24 DEF TypeOK, AnswerInv, OpInv, Command, Labels, RecoverSnapshots, store, projections, bounds, Goto, Return
  <2>. QED
    BY <2>1, <2>2, <2>3, <2>4, <2>5 DEF TypeInv
<1>25. ASSUME StartupReconcile PROVE TypeInv'
  <2>1. TypeOK'
    BY <1>0, <1>25, PlanInst DEF TypeOK, Labels, StartupReconcile, ReconcileTask, ReconcileInstance, PlanType, Members, store, projections, bounds, Goto, Return
  <2>2. OpInv'
    BY <1>0, <1>25, PlanInst DEF TypeOK, OpInv, Command, Labels, StartupReconcile, ReconcileTask, ReconcileInstance, PlanType, Members, store, projections, bounds, Goto, Return
  <2>3. LockInv'
    BY <1>0, <1>25 DEF TypeOK, LockInv, OpInv, Holding, Command, Labels, StartupReconcile, ReconcileTask, ReconcileInstance, PlanType, Members, store, projections, bounds, Goto, Return
  <2>4. TodoInv'
    BY <1>0, <1>25 DEF TypeOK, LockInv, TodoInv, OpInv, Holding, Command, Members, Labels, StartupReconcile, ReconcileTask, ReconcileInstance, PlanType, Members, store, projections, bounds, Goto, Return
  <2>5. AnswerInv'
    BY <1>0, <1>25 DEF TypeOK, AnswerInv, OpInv, Command, Labels, StartupReconcile, ReconcileTask, ReconcileInstance, PlanType, Members, store, projections, bounds, Goto, Return
  <2>. QED
    BY <2>1, <2>2, <2>3, <2>4, <2>5 DEF TypeInv
<1>26. ASSUME StartupDone PROVE TypeInv'
  <2>1. TypeOK'
    BY <1>0, <1>26, NoInstTypes DEF TypeOK, Labels, StartupDone, ReconcileEnd, Retired, PlanType, store, projections, bounds, Goto, Return
  <2>2. OpInv'
    BY <1>0, <1>26, NoInstTypes DEF TypeOK, OpInv, Command, Labels, StartupDone, ReconcileEnd, Retired, PlanType, store, projections, bounds, Goto, Return
  <2>3. LockInv'
    BY <1>0, <1>26 DEF TypeOK, LockInv, OpInv, Holding, Command, Labels, StartupDone, ReconcileEnd, Retired, PlanType, store, projections, bounds, Goto, Return
  <2>4. TodoInv'
    BY <1>0, <1>26 DEF TypeOK, LockInv, TodoInv, OpInv, Holding, Command, Members, Labels, StartupDone, ReconcileEnd, Retired, PlanType, store, projections, bounds, Goto, Return
  <2>5. AnswerInv'
    BY <1>0, <1>26 DEF TypeOK, AnswerInv, OpInv, Command, Labels, StartupDone, ReconcileEnd, Retired, PlanType, store, projections, bounds, Goto, Return
  <2>. QED
    BY <2>1, <2>2, <2>3, <2>4, <2>5 DEF TypeInv
<1>27. ASSUME NEW t \in Threads, PutFails(t) PROVE TypeInv'
  <2>1. TypeOK'
    BY <1>0, <1>27, NoInstTypes DEF TypeOK, Labels, PutFails, store, projections, bounds, Goto, Return
  <2>2. OpInv'
    BY <1>0, <1>27, NoInstTypes DEF TypeOK, OpInv, Command, Labels, PutFails, store, projections, bounds, Goto, Return
  <2>3. LockInv'
    BY <1>0, <1>27 DEF TypeOK, LockInv, OpInv, Holding, Command, Labels, PutFails, store, projections, bounds, Goto, Return
  <2>4. TodoInv'
    BY <1>0, <1>27 DEF TypeOK, LockInv, TodoInv, OpInv, Holding, Command, Members, Labels, PutFails, store, projections, bounds, Goto, Return
  <2>5. AnswerInv'
    BY <1>0, <1>27 DEF TypeOK, AnswerInv, OpInv, Command, Labels, PutFails, store, projections, bounds, Goto, Return
  <2>. QED
    BY <2>1, <2>2, <2>3, <2>4, <2>5 DEF TypeInv
<1>28. ASSUME UNCHANGED vars PROVE TypeInv'
  <2>1. TypeOK'
    BY <1>0, <1>28 DEF TypeOK, Labels, vars, store, projections, bounds, Goto, Return
  <2>2. OpInv'
    BY <1>0, <1>28 DEF TypeOK, OpInv, Command, Labels, vars, store, projections, bounds, Goto, Return
  <2>3. LockInv'
    BY <1>0, <1>28 DEF TypeOK, LockInv, OpInv, Holding, Command, Labels, vars, store, projections, bounds, Goto, Return
  <2>4. TodoInv'
    BY <1>0, <1>28 DEF TypeOK, LockInv, TodoInv, OpInv, Holding, Command, Members, Labels, vars, store, projections, bounds, Goto, Return
  <2>5. AnswerInv'
    BY <1>0, <1>28 DEF TypeOK, AnswerInv, OpInv, Command, Labels, vars, store, projections, bounds, Goto, Return
  <2>. QED
    BY <2>1, <2>2, <2>3, <2>4, <2>5 DEF TypeInv
<1>. QED
  BY <1>1, <1>2, <1>3, <1>4, <1>5, <1>6, <1>7, <1>8, <1>9, <1>10, <1>11, <1>12, <1>13, <1>14, <1>15, <1>16, <1>17, <1>18, <1>19, <1>20, <1>21, <1>22, <1>23, <1>24, <1>25, <1>26, <1>27, <1>28
     DEF FailureNext, Next, Progress, Startup

-----------------------------------------------------------------------------
(* Commands commit once.                                                    *)

\* A fresh store has committed and answered nothing.
LEMMA InitOnceInv == Init => OnceInv
  BY DEF Init, OnceInv, CommandsCommitOnce, RepliesAreCommitted, RegistryInv, FreshInv

\* A step that leaves the journal, the registry and the answers alone, and brings no
\* thread to its first write, keeps the invariant.
LEMMA SilentStep ==
  ASSUME OnceInv, UNCHANGED <<results, idem, replies>>,
         \A t \in Threads : pc'[t] \in {"plan", "taskOnly"} =>
           pc[t] = pc'[t] /\ op'[t].key = op[t].key
  PROVE  OnceInv'
  BY DEF OnceInv, CommandsCommitOnce, RepliesAreCommitted, RegistryInv, FreshInv, Carried, Entry

\* The first write of a command adds the only result of its key.
LEMMA FirstWrite ==
  ASSUME TypeInv, OnceInv, NEW t \in Threads, pc[t] \in {"plan", "taskOnly"},
         results' = results \cup {Result(t)}, UNCHANGED <<idem, replies, op>>,
         NEW l, pc' = [pc EXCEPT ![t] = l], l \notin {"plan", "taskOnly"}
  PROVE  OnceInv'
<1>1. Result(t).key = op[t].key /\ \A r \in results : r.key # op[t].key
  BY DEF OnceInv, FreshInv, Carried, Result
<1>2. CommandsCommitOnce'
  BY <1>1 DEF OnceInv, CommandsCommitOnce
<1>3. RepliesAreCommitted' /\ RegistryInv'
  BY DEF OnceInv, RepliesAreCommitted, RegistryInv, Entry
<1>4. FreshInv'
  <2>. SUFFICES ASSUME NEW u \in Threads, pc'[u] \in {"plan", "taskOnly"}
                PROVE  FALSE
    BY DEF FreshInv
  <2>1. pc[u] \in {"plan", "taskOnly"} /\ u # t
    BY DEF TypeInv, TypeOK
  <2>. QED
    BY <2>1 DEF TypeInv, LockInv, Holding
<1>. QED
  BY <1>2, <1>3, <1>4 DEF OnceInv

\* A registry entry taken from the journal repeats the journal.
LEMMA Materialized ==
  ASSUME TypeInv, OnceInv, NEW r \in results, idem' = [idem EXCEPT ![r.key] = Registered(r)],
         UNCHANGED results
  PROVE  RegistryInv'
<1>1. r = [key |-> r.key, req |-> r.req, taskRev |-> r.taskRev, planRev |-> r.planRev]
  BY DEF TypeInv, TypeOK, ResultType
<1>2. Entry(r.key, Registered(r)) = r
  BY <1>1 DEF Entry, Registered
<1>. QED
  BY <1>2 DEF TypeInv, TypeOK, OnceInv, RegistryInv, Entry

\* A step of the system commits no key twice and answers nothing uncommitted.
LEMMA NextOnceInv == TypeInv /\ OnceInv /\ [FailureNext]_vars => OnceInv'
<1>. SUFFICES ASSUME TypeInv, OnceInv, [FailureNext]_vars PROVE OnceInv'
  OBVIOUS
<1>0. TypeOK /\ OpInv
  BY DEF TypeInv
<1>1. ASSUME NEW t \in Threads, NEW key \in Keys, NEW req \in Requests, Call(t, key, req) PROVE OnceInv'
  BY <1>0, <1>1, SilentStep DEF TypeOK, OpInv, Call, store, projections, bounds, Goto, Return
<1>2. ASSUME NEW t \in Threads, NEW i \in Instances, NEW f \in Facts, CallUpdate(t, i, f) PROVE OnceInv'
  BY <1>0, <1>2, SilentStep DEF TypeOK, OpInv, CallUpdate, store, projections, bounds, Goto, Return
<1>3. ASSUME NEW t \in Threads, LockTimeout(t) PROVE OnceInv'
  BY <1>0, <1>3, SilentStep DEF TypeOK, OpInv, LockTimeout, store, projections, bounds, Goto, Return
<1>4. ASSUME NEW t \in Threads, Replay(t) PROVE OnceInv'
  <2>1. RepliesAreCommitted'
    BY <1>0, <1>4 DEF OnceInv, RepliesAreCommitted, RegistryInv, OpInv, Command, Replay, store, projections, bounds, Goto, Return
  <2>2. CommandsCommitOnce' /\ FreshInv' /\ RegistryInv'
    BY <1>0, <1>4 DEF OnceInv, CommandsCommitOnce, FreshInv, Carried, RegistryInv, Entry, TypeOK, Replay, store, projections, bounds, Goto, Return
  <2>. QED
    BY <2>1, <2>2 DEF OnceInv
<1>5. ASSUME NEW t \in Threads, ReplayCommitted(t) PROVE OnceInv'
  <2>0. PICK r \in Carried(op[t].key) :
          IF r.req = op[t].req
          THEN idem' = [idem EXCEPT ![r.key] = Registered(r)] /\ replies' = replies \cup {r}
          ELSE UNCHANGED <<idem, replies>>
    BY <1>5 DEF ReplayCommitted
  <2>1. r \in results /\ UNCHANGED results
    BY <2>0, <1>5 DEF Carried, ReplayCommitted
  <2>2. RegistryInv'
    <3>1. CASE r.req = op[t].req
      BY <2>0, <2>1, <3>1, Materialized
    <3>2. CASE r.req # op[t].req
      BY <2>0, <2>1, <3>2 DEF OnceInv, RegistryInv, Entry
    <3>. QED
      BY <3>1, <3>2
  <2>3. RepliesAreCommitted'
    BY <2>0, <2>1 DEF OnceInv, RepliesAreCommitted
  <2>4. CommandsCommitOnce' /\ FreshInv'
    BY <1>0, <2>1, <1>5 DEF OnceInv, CommandsCommitOnce, FreshInv, Carried, TypeOK, ReplayCommitted, store, projections, bounds, Goto, Return
  <2>. QED
    BY <2>2, <2>3, <2>4 DEF OnceInv
<1>6. ASSUME NEW t \in Threads, Refuse(t) PROVE OnceInv'
  BY <1>0, <1>6, SilentStep DEF TypeOK, OpInv, Refuse, store, projections, bounds, Goto, Return
<1>7. ASSUME NEW t \in Threads, Begin(t) PROVE OnceInv'
  <2>1. CommandsCommitOnce' /\ RepliesAreCommitted' /\ RegistryInv'
    BY <1>7 DEF OnceInv, CommandsCommitOnce, RepliesAreCommitted, RegistryInv, Entry, Begin, store, projections, bounds, Goto, Return
  <2>2. \A u \in Threads : op'[u].key = op[u].key
    BY <1>0, <1>7 DEF OpInv, OpType, Begin
  <2>3. FreshInv'
    BY <1>0, <2>2, <1>7 DEF OnceInv, FreshInv, FirstUse, Carried, TypeOK, Begin, store, projections, bounds, Goto, Return
  <2>. QED
    BY <2>1, <2>3 DEF OnceInv
<1>8. ASSUME NEW t \in Threads, PutPlan(t) PROVE OnceInv'
  BY <1>8, FirstWrite DEF PutPlan, store, projections, bounds, Goto, Return
<1>9. ASSUME NEW t \in Threads, Retire(t) PROVE OnceInv'
  BY <1>0, <1>9, SilentStep DEF TypeOK, OpInv, Retire, store, projections, bounds, Goto, Return
<1>10. ASSUME NEW t \in Threads, PutTask(t) PROVE OnceInv'
  BY <1>0, <1>10, SilentStep DEF TypeOK, OpInv, PutTask, OpType, store, projections, bounds, Goto, Return
<1>11. ASSUME NEW t \in Threads, PutInstance(t) PROVE OnceInv'
  BY <1>0, <1>11, SilentStep DEF TypeOK, OpInv, PutInstance, OpType, store, projections, bounds, Goto, Return
<1>12. ASSUME NEW t \in Threads, WriteSummary(t) PROVE OnceInv'
  BY <1>0, <1>12, SilentStep DEF TypeOK, OpInv, WriteSummary, store, projections, bounds, Goto, Return
<1>13. ASSUME NEW t \in Threads, PutTaskOnly(t) PROVE OnceInv'
  <2>. DEFINE l == IF op[t].req.kind \in {"create_task", "rename_task"} THEN "summary" ELSE "remember"
  <2>1. /\ pc[t] \in {"plan", "taskOnly"} /\ results' = results \cup {Result(t)}
        /\ pc' = [pc EXCEPT ![t] = l] /\ UNCHANGED <<idem, replies, op>>
    BY <1>13 DEF PutTaskOnly, Goto
  <2>2. l \notin {"plan", "taskOnly"}
    OBVIOUS
  <2>. HIDE DEF l
  <2>. QED
    BY <2>1, <2>2, FirstWrite
<1>14. ASSUME NEW t \in Threads, WriteTaskSummary(t) PROVE OnceInv'
  BY <1>0, <1>14, SilentStep DEF TypeOK, OpInv, WriteTaskSummary, store, projections, bounds, Goto, Return
<1>15. ASSUME NEW t \in Threads, Remember(t) PROVE OnceInv'
  <2>0. PICK r \in Carried(op[t].key) : idem' = [idem EXCEPT ![r.key] = Registered(r)]
    BY <1>15 DEF Remember
  <2>1. RegistryInv'
    BY <2>0, <1>15, Materialized DEF Carried, Remember
  <2>2. CommandsCommitOnce' /\ RepliesAreCommitted' /\ FreshInv'
    BY <1>0, <1>15 DEF OnceInv, CommandsCommitOnce, RepliesAreCommitted, FreshInv, Carried, TypeOK, Remember, store, projections, bounds, Goto, Return
  <2>. QED
    BY <2>1, <2>2 DEF OnceInv
<1>16. ASSUME NEW t \in Threads, Reply(t) PROVE OnceInv'
  <2>1. RepliesAreCommitted'
    BY <1>0, <1>16 DEF TypeInv, OnceInv, RepliesAreCommitted, RegistryInv, AnswerInv, OpInv, Command, Reply, store, projections, bounds, Goto, Return
  <2>2. CommandsCommitOnce' /\ FreshInv' /\ RegistryInv'
    BY <1>0, <1>16 DEF OnceInv, CommandsCommitOnce, FreshInv, Carried, RegistryInv, Entry, TypeOK, Reply, store, projections, bounds, Goto, Return
  <2>. QED
    BY <2>1, <2>2 DEF OnceInv
<1>17. ASSUME NEW t \in Threads, UpdateNothing(t) PROVE OnceInv'
  BY <1>0, <1>17, SilentStep DEF TypeOK, OpInv, UpdateNothing, store, projections, bounds, Goto, Return
<1>18. ASSUME NEW t \in Threads, UpdatePlan(t) PROVE OnceInv'
  BY <1>0, <1>18, SilentStep DEF TypeOK, OpInv, UpdatePlan, store, projections, bounds, Goto, Return
<1>19. ASSUME NEW t \in Threads, UpdateUnplanned(t) PROVE OnceInv'
  BY <1>0, <1>19, SilentStep DEF TypeOK, OpInv, UpdateUnplanned, store, projections, bounds, Goto, Return
<1>20. ASSUME NEW t \in Threads, ReconcileStep(t) PROVE OnceInv'
  BY <1>0, <1>20, SilentStep DEF TypeOK, OpInv, ReconcileStep, store, projections, bounds, Goto, Return
<1>21. ASSUME NEW t \in Threads, ReconcileReturn(t) PROVE OnceInv'
  BY <1>0, <1>21, SilentStep DEF TypeOK, OpInv, ReconcileReturn, store, projections, bounds, Goto, Return
<1>22. ASSUME Crash PROVE OnceInv'
  BY <1>0, <1>22, SilentStep DEF TypeOK, OpInv, Crash, store, projections, bounds, Goto, Return
<1>23. ASSUME RecoverResult PROVE OnceInv'
  <2>0. PICK r \in results : idem' = [idem EXCEPT ![r.key] = Registered(r)]
    BY <1>23 DEF RecoverResult
  <2>1. RegistryInv'
    BY <2>0, <1>23, Materialized DEF RecoverResult
  <2>2. CommandsCommitOnce' /\ RepliesAreCommitted' /\ FreshInv'
    BY <1>23 DEF OnceInv, CommandsCommitOnce, RepliesAreCommitted, FreshInv, Carried, RecoverResult, store, projections, bounds, Goto, Return
  <2>. QED
    BY <2>1, <2>2 DEF OnceInv
<1>24. ASSUME RecoverSnapshots PROVE OnceInv'
  BY <1>0, <1>24, SilentStep DEF TypeOK, OpInv, RecoverSnapshots, store, projections, bounds, Goto, Return
<1>25. ASSUME StartupReconcile PROVE OnceInv'
  BY <1>0, <1>25, SilentStep DEF TypeOK, OpInv, StartupReconcile, store, projections, bounds, Goto, Return
<1>26. ASSUME StartupDone PROVE OnceInv'
  BY <1>0, <1>26, SilentStep DEF TypeOK, OpInv, StartupDone, store, projections, bounds, Goto, Return
<1>27. ASSUME NEW t \in Threads, PutFails(t) PROVE OnceInv'
  BY <1>0, <1>27, SilentStep DEF TypeOK, OpInv, PutFails, store, projections, bounds, Goto, Return
<1>28. ASSUME UNCHANGED vars PROVE OnceInv'
  BY <1>0, <1>28, SilentStep DEF TypeOK, OpInv, vars, store, projections, bounds, Goto, Return
<1>. QED
  BY <1>1, <1>2, <1>3, <1>4, <1>5, <1>6, <1>7, <1>8, <1>9, <1>10, <1>11, <1>12, <1>13, <1>14, <1>15, <1>16, <1>17, <1>18, <1>19, <1>20, <1>21, <1>22, <1>23, <1>24, <1>25, <1>26, <1>27, <1>28
     DEF FailureNext, Next, Progress, Startup

-----------------------------------------------------------------------------
(* The theorems.                                                           *)

\* The two invariants hold in every state, crashes and failed writes included.
LEMMA Invariance == FailureSpec => [](TypeInv /\ OnceInv)
<1>1. Init => TypeInv /\ OnceInv
  BY InitTypeInv, InitOnceInv
<1>2. TypeInv /\ OnceInv /\ [FailureNext]_vars => (TypeInv /\ OnceInv)'
  BY NextTypeInv, NextOnceInv
<1>. QED
  BY <1>1, <1>2, PTL DEF FailureSpec

\* Every behaviour without failed writes is one with them.
LEMMA SpecImpliesFailureSpec == Spec => FailureSpec
<1>1. [Next]_vars => [FailureNext]_vars
  BY DEF FailureNext
<1>. QED
  BY <1>1, PTL DEF Spec, FailureSpec

\* The plan, its projections, the registry and the journal keep their types, whatever
\* crashes and failed writes interrupt the commands of domain/service.py.
THEOREM TypeCorrect == FailureSpec => []TypeOK
<1>1. TypeInv /\ OnceInv => TypeOK
  BY DEF TypeInv
<1>. QED
  BY <1>1, Invariance, PTL

\* An idempotency key commits at most one result: _idempotent looks in the registry and
\* in the journal before it lets an operation write, under the command lock.
THEOREM CommandsCommitOnceAlways == FailureSpec => []CommandsCommitOnce
<1>1. TypeInv /\ OnceInv => CommandsCommitOnce
  BY DEF OnceInv
<1>. QED
  BY <1>1, Invariance, PTL

\* Every answer, first or replayed, before or after a restart, is a result the journal
\* carries.
THEOREM RepliesAreCommittedAlways == FailureSpec => []RepliesAreCommitted
<1>1. TypeInv /\ OnceInv => RepliesAreCommitted
  BY DEF OnceInv
<1>. QED
  BY <1>1, Invariance, PTL

\* The same of the behaviours in which every write that is tried succeeds or the process
\* dies.
THEOREM CrashSafety == Spec => [](TypeOK /\ CommandsCommitOnce /\ RepliesAreCommitted)
  BY SpecImpliesFailureSpec, TypeCorrect, CommandsCommitOnceAlways, RepliesAreCommittedAlways, PTL
-----------------------------------------------------------------------------
(* The plan is the authority.                                              *)

\* A thread is at one of some labels.
At(labels) == \E t \in Threads : pc[t] \in labels

\* The keys of committed commands; those whose effect a task may lack for good.
ResultKeys == {r.key : r \in results}

\* Without a plan nothing of one exists; with one, the task was created before.
BareInv ==
  /\ HasPlan => task.rev > 0
  /\ ~HasPlan => /\ Members = {}
                 /\ \A i \in Instances : instC[i] = NoInst /\ instV[i] = NoInst

\* The effects of commands are in the authority, and nothing else is.
EffectInv ==
  /\ \A r \in results : r.key \in InputKeys \/ r.key \in (IF HasPlan THEN plan.task ELSE task.val)
  /\ task.val \subseteq ResultKeys
  /\ plan.task \subseteq ResultKeys

\* Between the put of the plan and that of the task, and after a crash there, the task
\* lacks the effect, so that the next reconciliation writes it.
Behind == HasPlan /\ task.val # plan.task /\ (mode # "up" \/ At({"retire", "task"}))

\* Every result has its own task revision, which the task has reached or is about to.
RevisionInv ==
  /\ \A r \in results : r.taskRev <= task.rev \/ (r.taskRev = task.rev + 1 /\ Behind)
  /\ \A r1, r2 \in results : r1.taskRev = r2.taskRev => r1 = r2

\* The task file against the plan.
TaskInv ==
  HasPlan => /\ task.val \ plan.task \subseteq InputKeys
             /\ mode = "up" /\ ~At({"retire", "task"}) => plan.task \subseteq task.val

\* The instance files against the plan, as far as a command has written them.
FilesInv ==
  mode = "up" =>
    /\ HasPlan /\ ~At({"retire", "task", "instances", "reconcile"}) =>
         \A i \in Instances : instV[i] = IF i \in Members THEN plan.inst[i] ELSE NoInst
    /\ \A t \in Threads :
         /\ pc[t] \in {"task", "instances"} => \A i \in Instances \ Members : instV[i] = NoInst
         /\ pc[t] = "instances" => \A i \in Members \ op[t].todo : instV[i] = plan.inst[i]

\* What a command computed before its first put is still right.
CommandInv ==
  \A t \in Threads :
    /\ pc[t] \in {"plan", "taskOnly"} => op[t].expected = task.rev
    /\ pc[t] = "plan" => /\ op[t].new = PlanAfter(op[t].req, op[t].key)
                         /\ ThroughPlan(op[t].req) /\ task.rev > 0
                         /\ op[t].req.kind = "save_plan" \/ HasPlan
    /\ pc[t] = "taskOnly" /\ HasPlan => op[t].req.kind = "register_input_manifest"
    /\ pc[t] \in {"retire", "task", "instances", "reconcile"} => HasPlan

\* Only a process that is up runs commands; failed writes are counted.
IdleInv == /\ mode # "up" => \A t \in Threads : pc[t] = "idle"
           /\ failures \in Nat

AuthorityInv ==
  BareInv /\ EffectInv /\ RevisionInv /\ TaskInv /\ FilesInv /\ CommandInv
AuthInv == failures = 0 => AuthorityInv

-----------------------------------------------------------------------------
(* The lock orders the commands.                                           *)

\* The labels of which the invariant says something.
Working == {"plan", "taskOnly", "retire", "task", "instances", "reconcile"}

\* A thread between two writes is alone there.
LEMMA OnlyHolder ==
  ASSUME TypeInv, NEW t \in Threads, pc[t] \in Holding
  PROVE  \A u \in Threads \ {t} : pc[u] \notin Holding
  BY DEF TypeInv, LockInv

\* Nobody is between two writes while the command lock is free.
LEMMA NobodyHolds ==
  ASSUME TypeInv, lock = None
  PROVE  \A u \in Threads : pc[u] \notin Holding
  BY ConstAssumption DEF TypeInv, LockInv

\* So where some thread is, is where the only working thread is, before its step ...
LEMMA AtBefore ==
  ASSUME NEW t \in Threads, \A u \in Threads \ {t} : pc[u] \notin Holding,
         NEW S \in SUBSET Holding
  PROVE  At(S) <=> pc[t] \in S
  BY DEF At

\* ... and after it.
LEMMA AtAfter ==
  ASSUME NEW t \in Threads, \A u \in Threads \ {t} : pc[u] \notin Holding,
         pc \in [Threads -> Labels], NEW l, pc' = [pc EXCEPT ![t] = l], NEW S \in SUBSET Holding
  PROVE  /\ At(S)' <=> l \in S
         /\ pc'[t] = l
         /\ \A u \in Threads \ {t} : pc'[u] \notin Holding
  BY DEF At

-----------------------------------------------------------------------------
(* Each action keeps the plan the authority.                               *)

\* A fresh store has no plan and no result.
LEMMA InitAuthority == Init => AuthInv
<1>. SUFFICES ASSUME Init PROVE AuthorityInv
  BY DEF AuthInv
<1>1. plan.rev = 0 /\ ~HasPlan /\ Members = {} /\ plan.task = {} /\ task.val = {} /\ results = {}
  BY DEF Init, HasPlan, Members, NoPlan, NoTask
<1>2. BareInv /\ EffectInv
  BY <1>1 DEF Init, BareInv, EffectInv
<1>3. RevisionInv /\ TaskInv
  BY <1>1 DEF RevisionInv, TaskInv
<1>4. FilesInv /\ CommandInv
  BY <1>1 DEF Init, FilesInv, CommandInv, At
<1>. QED
  BY <1>2, <1>3, <1>4 DEF AuthorityInv

\* A step that touches no file and no thread between two writes keeps it.
LEMMA AsideStep ==
  ASSUME AuthorityInv, UNCHANGED <<mode, plan, task, instC, instV, results>>,
         \A u \in Threads : pc'[u] \in Working \/ pc[u] \in Working => pc'[u] = pc[u] /\ op'[u] = op[u]
  PROVE  AuthorityInv'
<1>1. /\ At({"retire", "task"})' <=> At({"retire", "task"})
      /\ At({"retire", "task", "instances", "reconcile"})' <=> At({"retire", "task", "instances", "reconcile"})
  BY DEF At, Working
<1>2. BareInv' /\ EffectInv'
  BY DEF AuthorityInv, BareInv, EffectInv, HasPlan, Members, ResultKeys, InputKeys
<1>3. RevisionInv' /\ TaskInv'
  BY <1>1 DEF AuthorityInv, RevisionInv, TaskInv, Behind, HasPlan, InputKeys
<1>4. FilesInv'
  BY <1>1 DEF AuthorityInv, FilesInv, HasPlan, Members, Working
<1>5. CommandInv'
  BY DEF AuthorityInv, CommandInv, HasPlan, Working, PlanAfter, TaskAfter, InstAfter, ThroughPlan
<1>. QED
  BY <1>2, <1>3, <1>4, <1>5 DEF AuthorityInv

\* The files that are written outside a command: the summary, the registry, the answers.
LEMMA AsideSteps ==
  ASSUME TypeInv, AuthorityInv, NEW t \in Threads,
         \/ \E key \in Keys, req \in Requests : Call(t, key, req)
         \/ \E i \in Instances, f \in Facts : CallUpdate(t, i, f)
         \/ LockTimeout(t) \/ Replay(t) \/ ReplayCommitted(t) \/ Refuse(t) \/ UpdateNothing(t)
         \/ WriteTaskSummary(t) \/ Remember(t) \/ Reply(t)
  PROVE  AuthorityInv'
<1>0. pc \in [Threads -> Labels] /\ op \in [Threads -> OpType]
  BY DEF TypeInv, TypeOK, OpInv
<1>1. UNCHANGED <<mode, plan, task, instC, instV, results>>
  BY DEF Call, CallUpdate, LockTimeout, Replay, ReplayCommitted, Refuse, UpdateNothing, WriteTaskSummary,
         Remember, Reply, store, projections
<1>2. /\ pc[t] \notin Working
      /\ \E l \in Labels \ Working : pc' = [pc EXCEPT ![t] = l]
  BY DEF Call, CallUpdate, LockTimeout, Replay, ReplayCommitted, Refuse, UpdateNothing, WriteTaskSummary,
         Remember, Reply, Return, Goto, Labels, Working
<1>3. op' = op \/ \E o : op' = [op EXCEPT ![t] = o]
  BY DEF Call, CallUpdate, LockTimeout, Replay, ReplayCommitted, Refuse, UpdateNothing, WriteTaskSummary,
         Remember, Reply, Return, Goto
<1>4. \A u \in Threads : pc'[u] \in Working \/ pc[u] \in Working => pc'[u] = pc[u] /\ op'[u] = op[u]
  BY <1>0, <1>2, <1>3
<1>. QED
  BY <1>1, <1>4, AsideStep

\* What a working thread reads before its step.
LEMMA WorkerFacts ==
  ASSUME TypeInv, AuthorityInv, NEW t \in Threads, pc[t] \in Holding
  PROVE  /\ pc \in [Threads -> Labels] /\ op \in [Threads -> OpType]
         /\ plan.rev \in Nat /\ task \in [rev : Nat, val : SUBSET Keys] /\ task.rev \in Nat
         /\ \A r \in results : r.taskRev \in Nat
         /\ \A u \in Threads \ {t} : pc[u] \notin Holding
         /\ BareInv /\ EffectInv /\ RevisionInv /\ TaskInv /\ FilesInv /\ CommandInv
  BY OnlyHolder DEF TypeInv, TypeOK, OpInv, PlanType, ResultType, AuthorityInv

\* The first put of a command: the key is new, so the task now lacks its effect.
LEMMA PutPlanAuthority ==
  ASSUME TypeInv, OnceInv, AuthorityInv, NEW t \in Threads, PutPlan(t)
  PROVE  AuthorityInv'
<1>. DEFINE key == op[t].key
            req == op[t].req
<1>0. /\ mode = "up" /\ mode' = "up" /\ pc[t] = "plan" /\ plan' = op[t].new
      /\ results' = results \cup {Result(t)} /\ pc' = [pc EXCEPT ![t] = "retire"]
      /\ UNCHANGED <<task, instC, instV, op>>
  BY DEF PutPlan, Goto, projections
<1>1. pc[t] \in Holding
  BY <1>0 DEF Holding
<1>2. /\ pc \in [Threads -> Labels] /\ op \in [Threads -> OpType]
      /\ plan.rev \in Nat /\ task \in [rev : Nat, val : SUBSET Keys] /\ task.rev \in Nat
      /\ \A r \in results : r.taskRev \in Nat
      /\ \A u \in Threads \ {t} : pc[u] \notin Holding
      /\ BareInv /\ EffectInv /\ RevisionInv /\ TaskInv /\ FilesInv /\ CommandInv
  BY <1>1, WorkerFacts
<1>3. /\ op[t].expected = task.rev /\ plan' = PlanAfter(req, key)
      /\ task.rev > 0 /\ (req.kind = "save_plan" \/ HasPlan)
  BY <1>0, <1>2 DEF CommandInv
<1>4. plan'.rev = plan.rev + 1 /\ plan'.task = TaskAfter(req, key)
  BY <1>3 DEF PlanAfter
<1>5. HasPlan'
  BY <1>2, <1>4 DEF HasPlan
<1>6. Result(t).key = key /\ Result(t).taskRev = task.rev + 1
  BY <1>3 DEF Result
<1>7. key \notin ResultKeys /\ key \notin task.val
  BY <1>0, <1>2 DEF OnceInv, FreshInv, Carried, ResultKeys, EffectInv
<1>8. /\ ~At({"retire", "task"})
      /\ At({"retire", "task"})'
      /\ At({"retire", "task", "instances", "reconcile"})'
      /\ pc'[t] = "retire" /\ \A u \in Threads \ {t} : pc'[u] \notin Holding
  <2>1. {"retire", "task"} \in SUBSET Holding /\ {"retire", "task", "instances", "reconcile"} \in SUBSET Holding
    BY DEF Holding
  <2>2. At({"retire", "task"}) <=> pc[t] \in {"retire", "task"}
    BY <1>0, <1>2, <2>1, AtBefore
  <2>3. /\ At({"retire", "task"})' <=> "retire" \in {"retire", "task"}
        /\ At({"retire", "task", "instances", "reconcile"})' <=> "retire" \in {"retire", "task", "instances", "reconcile"}
        /\ pc'[t] = "retire" /\ \A u \in Threads \ {t} : pc'[u] \notin Holding
    BY <1>0, <1>2, <2>1, AtAfter
  <2>. QED
    BY <1>0, <2>2, <2>3
<1>9. /\ HasPlan => plan.task \subseteq task.val /\ task.val \ plan.task \subseteq InputKeys
      /\ \A r \in results : r.taskRev <= task.rev
  BY <1>0, <1>2, <1>8 DEF TaskInv, RevisionInv, Behind
<1>10. plan'.task \subseteq task.val \cup plan.task \cup {key} /\ key \in plan'.task
  BY <1>4 DEF TaskAfter
<1>11. ResultKeys \cup {key} = ResultKeys' /\ InputKeys \subseteq InputKeys'
  BY <1>0, <1>6 DEF ResultKeys, InputKeys
<1>12. \/ plan'.task = task.val \cup {key}
       \/ HasPlan /\ plan'.task = plan.task \cup {key}
  BY <1>4 DEF TaskAfter
<1>13. BareInv'
  BY <1>0, <1>3, <1>5 DEF BareInv
<1>14. EffectInv'
  <2>1. task'.val \subseteq ResultKeys' /\ plan'.task \subseteq ResultKeys'
    BY <1>0, <1>2, <1>10, <1>11 DEF EffectInv
  <2>2. ASSUME NEW r \in results', r.key \notin InputKeys' PROVE r.key \in plan'.task
    <3>1. CASE r = Result(t)
      BY <3>1, <1>6, <1>10
    <3>2. CASE r \in results
      <4>1. r.key \in (IF HasPlan THEN plan.task ELSE task.val)
        BY <1>2, <1>11, <2>2, <3>2 DEF EffectInv
      <4>. QED
        BY <4>1, <1>9, <1>12
    <3>. QED
      BY <1>0, <3>1, <3>2
  <2>. QED
    BY <1>5, <2>1, <2>2 DEF EffectInv
<1>15. RevisionInv'
  <2>1. Behind'
    BY <1>0, <1>5, <1>7, <1>8, <1>10 DEF Behind
  <2>2. task'.rev = task.rev
    BY <1>0
  <2>3. \A r \in results' : r.taskRev <= task.rev \/ r.taskRev = task.rev + 1
    BY <1>0, <1>6, <1>9
  <2>4. ASSUME NEW r1 \in results', NEW r2 \in results', r1.taskRev = r2.taskRev PROVE r1 = r2
    <3>1. CASE r1 \in results /\ r2 \in results
      BY <1>2, <2>4, <3>1 DEF RevisionInv
    <3>2. ASSUME NEW r \in results PROVE r.taskRev # Result(t).taskRev
      BY <1>2, <1>6, <1>9
    <3>. QED
      BY <1>0, <2>4, <3>1, <3>2
  <2>. QED
    BY <2>1, <2>2, <2>3, <2>4 DEF RevisionInv
<1>16. TaskInv'
  <2>1. task'.val \ plan'.task \subseteq InputKeys'
    BY <1>0, <1>9, <1>11, <1>12
  <2>. QED
    BY <1>8, <2>1 DEF TaskInv
<1>17. FilesInv'
  <2>1. \A u \in Threads : pc'[u] \notin {"task", "instances"}
    BY <1>8 DEF Holding
  <2>. QED
    BY <1>8, <2>1 DEF FilesInv
<1>18. CommandInv'
  BY <1>5, <1>8 DEF CommandInv, Holding
<1>. QED
  BY <1>13, <1>14, <1>15, <1>16, <1>17, <1>18 DEF AuthorityInv

\* The files of instances that left the plan are unlinked.
LEMMA RetireAuthority ==
  ASSUME TypeInv, AuthorityInv, NEW t \in Threads, Retire(t)
  PROVE  AuthorityInv'
<1>0. /\ mode = "up" /\ mode' = "up" /\ pc[t] = "retire" /\ instV' = Retired
      /\ pc' = [pc EXCEPT ![t] = "task"]
      /\ UNCHANGED <<plan, task, instC, results, op>>
  BY DEF Retire, Goto
<1>1. pc[t] \in Holding
  BY <1>0 DEF Holding
<1>2. /\ pc \in [Threads -> Labels] /\ op \in [Threads -> OpType]
      /\ \A u \in Threads \ {t} : pc[u] \notin Holding
      /\ BareInv /\ EffectInv /\ RevisionInv /\ TaskInv /\ FilesInv /\ CommandInv
  BY <1>1, WorkerFacts
<1>3. /\ At({"retire", "task"}) /\ At({"retire", "task"})'
      /\ At({"retire", "task", "instances", "reconcile"})'
      /\ pc'[t] = "task" /\ \A u \in Threads \ {t} : pc'[u] \notin Holding
  <2>1. {"retire", "task"} \in SUBSET Holding /\ {"retire", "task", "instances", "reconcile"} \in SUBSET Holding
    BY DEF Holding
  <2>2. At({"retire", "task"}) <=> pc[t] \in {"retire", "task"}
    BY <1>0, <1>2, <2>1, AtBefore
  <2>3. /\ At({"retire", "task"})' <=> "task" \in {"retire", "task"}
        /\ At({"retire", "task", "instances", "reconcile"})' <=> "task" \in {"retire", "task", "instances", "reconcile"}
        /\ pc'[t] = "task" /\ \A u \in Threads \ {t} : pc'[u] \notin Holding
    BY <1>0, <1>2, <2>1, AtAfter
  <2>. QED
    BY <1>0, <2>2, <2>3
<1>4. HasPlan /\ HasPlan' /\ Members' = Members
  BY <1>0, <1>2 DEF CommandInv, HasPlan, Members
<1>5. BareInv' /\ EffectInv'
  BY <1>0, <1>2, <1>4 DEF BareInv, EffectInv, ResultKeys, InputKeys
<1>6. RevisionInv' /\ TaskInv'
  BY <1>0, <1>2, <1>3, <1>4 DEF RevisionInv, TaskInv, Behind, InputKeys
<1>7. FilesInv'
  <2>1. \A i \in Instances \ Members : instV'[i] = NoInst
    BY <1>0 DEF Retired
  <2>. QED
    BY <1>3, <1>4, <2>1 DEF FilesInv, Holding
<1>8. CommandInv'
  BY <1>3, <1>4 DEF CommandInv, Holding
<1>. QED
  BY <1>5, <1>6, <1>7, <1>8 DEF AuthorityInv

\* The task catches up with the plan.
LEMMA PutTaskAuthority ==
  ASSUME TypeInv, AuthorityInv, NEW t \in Threads, PutTask(t)
  PROVE  AuthorityInv'
<1>0. /\ mode = "up" /\ mode' = "up" /\ pc[t] = "task"
      /\ task' = [rev |-> task.rev + 1, val |-> plan.task]
      /\ op' = [op EXCEPT ![t] = [op[t] EXCEPT !.todo = Members]]
      /\ pc' = [pc EXCEPT ![t] = "instances"]
      /\ UNCHANGED <<plan, instC, instV, results>>
  BY DEF PutTask, Goto
<1>1. pc[t] \in Holding
  BY <1>0 DEF Holding
<1>2. /\ pc \in [Threads -> Labels] /\ op \in [Threads -> OpType]
      /\ plan.rev \in Nat /\ task \in [rev : Nat, val : SUBSET Keys] /\ task.rev \in Nat
      /\ \A r \in results : r.taskRev \in Nat
      /\ \A u \in Threads \ {t} : pc[u] \notin Holding
      /\ BareInv /\ EffectInv /\ RevisionInv /\ TaskInv /\ FilesInv /\ CommandInv
  BY <1>1, WorkerFacts
<1>3. /\ At({"retire", "task", "instances", "reconcile"})'
      /\ pc'[t] = "instances" /\ \A u \in Threads \ {t} : pc'[u] \notin Holding
  <2>1. {"retire", "task", "instances", "reconcile"} \in SUBSET Holding
    BY DEF Holding
  <2>. QED
    BY <1>0, <1>2, <2>1, AtAfter
<1>4. HasPlan /\ HasPlan' /\ Members' = Members
  BY <1>0, <1>2 DEF CommandInv, HasPlan, Members
<1>5. op'[t].todo = Members
  BY <1>0, <1>2 DEF OpType
<1>6. task'.rev = task.rev + 1 /\ task'.val = plan'.task
  BY <1>0
<1>7. BareInv' /\ EffectInv'
  BY <1>0, <1>2, <1>4, <1>6 DEF BareInv, EffectInv, ResultKeys, InputKeys
<1>8. RevisionInv'
  <2>1. \A r \in results' : r.taskRev <= task'.rev
    BY <1>0, <1>2, <1>6 DEF RevisionInv
  <2>. QED
    BY <1>0, <1>2, <2>1 DEF RevisionInv
<1>9. TaskInv'
  BY <1>6 DEF TaskInv
<1>10. FilesInv'
  BY <1>0, <1>2, <1>3, <1>4, <1>5 DEF FilesInv, Holding
<1>11. CommandInv'
  BY <1>3, <1>4 DEF CommandInv, Holding
<1>. QED
  BY <1>7, <1>8, <1>9, <1>10, <1>11 DEF AuthorityInv

\* One instance file more is that of the plan.
LEMMA PutInstanceAuthority ==
  ASSUME TypeInv, AuthorityInv, NEW t \in Threads, PutInstance(t)
  PROVE  AuthorityInv'
<1>0. /\ mode = "up" /\ mode' = "up" /\ pc[t] = "instances"
      /\ UNCHANGED <<plan, task, results, pc>>
  BY DEF PutInstance
<1>1. PICK i \in op[t].todo :
        /\ instC' = [instC EXCEPT ![i] = plan.inst[i]]
        /\ instV' = [instV EXCEPT ![i] = plan.inst[i]]
        /\ op' = [op EXCEPT ![t] = [op[t] EXCEPT !.todo = @ \ {i}]]
  BY DEF PutInstance
<1>2. pc[t] \in Holding
  BY <1>0 DEF Holding
<1>3. /\ pc \in [Threads -> Labels] /\ op \in [Threads -> OpType]
      /\ \A u \in Threads \ {t} : pc[u] \notin Holding
      /\ BareInv /\ EffectInv /\ RevisionInv /\ TaskInv /\ FilesInv /\ CommandInv
  BY <1>2, WorkerFacts
<1>4. HasPlan /\ HasPlan' /\ Members' = Members
  BY <1>0, <1>3 DEF CommandInv, HasPlan, Members
<1>5. i \in Members /\ instV \in [Instances -> InstContent \cup {NoInst}]
  BY <1>0, <1>1 DEF TypeInv, TypeOK, TodoInv
<1>6. op'[t].todo = op[t].todo \ {i}
  BY <1>1, <1>3 DEF OpType
<1>7. BareInv' /\ EffectInv'
  BY <1>0, <1>3, <1>4 DEF BareInv, EffectInv, ResultKeys, InputKeys
<1>8. RevisionInv' /\ TaskInv'
  BY <1>0, <1>3, <1>4 DEF RevisionInv, TaskInv, Behind, At, InputKeys
<1>9. FilesInv'
  <2>1. At({"retire", "task", "instances", "reconcile"})'
    BY <1>0 DEF At
  <2>2. \A j \in Instances \ Members : instV'[j] = NoInst
    BY <1>0, <1>1, <1>3, <1>5 DEF FilesInv
  <2>3. \A j \in Members \ op'[t].todo : instV'[j] = plan.inst[j]
    <3>1. Members \subseteq Instances
      BY PlanInst DEF TypeInv, TypeOK, Members
    <3>2. \A j \in Members \ op[t].todo : instV[j] = plan.inst[j]
      BY <1>0, <1>3 DEF FilesInv
    <3>. QED
      BY <1>1, <1>5, <1>6, <3>1, <3>2
  <2>. QED
    BY <1>0, <1>3, <1>4, <2>1, <2>2, <2>3 DEF FilesInv, Holding
<1>10. CommandInv'
  BY <1>0, <1>3, <1>4 DEF CommandInv, Holding
<1>. QED
  BY <1>7, <1>8, <1>9, <1>10 DEF AuthorityInv

\* All files of the plan are written.
LEMMA WriteSummaryAuthority ==
  ASSUME TypeInv, AuthorityInv, NEW t \in Threads, WriteSummary(t)
  PROVE  AuthorityInv'
<1>0. /\ mode = "up" /\ mode' = "up" /\ pc[t] = "instances" /\ op[t].todo = {}
      /\ pc' = [pc EXCEPT ![t] = "remember"]
      /\ UNCHANGED <<plan, task, instC, instV, results, op>>
  BY DEF WriteSummary, Goto
<1>1. pc[t] \in Holding
  BY <1>0 DEF Holding
<1>2. /\ pc \in [Threads -> Labels] /\ op \in [Threads -> OpType]
      /\ \A u \in Threads \ {t} : pc[u] \notin Holding
      /\ BareInv /\ EffectInv /\ RevisionInv /\ TaskInv /\ FilesInv /\ CommandInv
  BY <1>1, WorkerFacts
<1>3. /\ ~At({"retire", "task"}) /\ ~At({"retire", "task"})'
      /\ pc'[t] = "remember" /\ \A u \in Threads \ {t} : pc'[u] \notin Holding
  <2>1. {"retire", "task"} \in SUBSET Holding
    BY DEF Holding
  <2>2. At({"retire", "task"}) <=> pc[t] \in {"retire", "task"}
    BY <1>0, <1>2, <2>1, AtBefore
  <2>3. /\ At({"retire", "task"})' <=> "remember" \in {"retire", "task"}
        /\ pc'[t] = "remember" /\ \A u \in Threads \ {t} : pc'[u] \notin Holding
    BY <1>0, <1>2, <2>1, AtAfter
  <2>. QED
    BY <1>0, <2>2, <2>3
<1>4. HasPlan' = HasPlan /\ Members' = Members
  BY <1>0 DEF HasPlan, Members
<1>5. BareInv' /\ EffectInv'
  BY <1>0, <1>2, <1>4 DEF BareInv, EffectInv, ResultKeys, InputKeys
<1>6. RevisionInv' /\ TaskInv'
  BY <1>0, <1>2, <1>3, <1>4 DEF RevisionInv, TaskInv, Behind, InputKeys
<1>7. FilesInv'
  <2>1. /\ \A i \in Instances \ Members : instV[i] = NoInst
        /\ \A i \in Members : instV[i] = plan.inst[i]
    BY <1>0, <1>2 DEF FilesInv
  <2>. QED
    BY <1>0, <1>3, <1>4, <2>1 DEF FilesInv, Holding
<1>8. CommandInv'
  BY <1>3, <1>4 DEF CommandInv, Holding
<1>. QED
  BY <1>5, <1>6, <1>7, <1>8 DEF AuthorityInv

\* A command without a plan commits the task alone.
LEMMA PutTaskOnlyAuthority ==
  ASSUME TypeInv, OnceInv, AuthorityInv, NEW t \in Threads, PutTaskOnly(t)
  PROVE  AuthorityInv'
<1>. DEFINE key == op[t].key
            req == op[t].req
            l == IF req.kind \in {"create_task", "rename_task"} THEN "summary" ELSE "remember"
<1>0. /\ mode = "up" /\ mode' = "up" /\ pc[t] = "taskOnly"
      /\ task' = [rev |-> task.rev + 1, val |-> task.val \cup {key}]
      /\ results' = results \cup {Result(t)} /\ pc' = [pc EXCEPT ![t] = l]
      /\ UNCHANGED <<plan, instC, instV, op>>
  BY DEF PutTaskOnly, Goto
<1>1. pc[t] \in Holding /\ l \in {"summary", "remember"}
  BY <1>0 DEF Holding
<1>. HIDE DEF l
<1>2. /\ pc \in [Threads -> Labels] /\ op \in [Threads -> OpType]
      /\ plan.rev \in Nat /\ task \in [rev : Nat, val : SUBSET Keys] /\ task.rev \in Nat
      /\ \A r \in results : r.taskRev \in Nat
      /\ \A u \in Threads \ {t} : pc[u] \notin Holding
      /\ BareInv /\ EffectInv /\ RevisionInv /\ TaskInv /\ FilesInv /\ CommandInv
  BY <1>1, WorkerFacts
<1>3. /\ op[t].expected = task.rev
      /\ HasPlan => req.kind = "register_input_manifest"
  BY <1>0, <1>2 DEF CommandInv
<1>4. Result(t).key = key /\ Result(t).taskRev = task.rev + 1 /\ Result(t).req = req
  BY <1>3 DEF Result
<1>5. /\ ~At({"retire", "task"}) /\ ~At({"retire", "task"})'
      /\ ~At({"retire", "task", "instances", "reconcile"})
      /\ pc'[t] = l /\ \A u \in Threads \ {t} : pc'[u] \notin Holding
  <2>1. {"retire", "task"} \in SUBSET Holding /\ {"retire", "task", "instances", "reconcile"} \in SUBSET Holding
    BY DEF Holding
  <2>2. At({"retire", "task"}) <=> pc[t] \in {"retire", "task"}
    BY <1>2, <2>1, AtBefore
  <2>3. At({"retire", "task", "instances", "reconcile"}) <=> pc[t] \in {"retire", "task", "instances", "reconcile"}
    BY <1>2, <2>1, AtBefore
  <2>4. /\ At({"retire", "task"})' <=> l \in {"retire", "task"}
        /\ pc'[t] = l /\ \A u \in Threads \ {t} : pc'[u] \notin Holding
    BY <1>0, <1>2, <2>1, AtAfter
  <2>. QED
    BY <1>0, <1>1, <2>2, <2>3, <2>4
<1>6. /\ HasPlan => plan.task \subseteq task.val /\ task.val \ plan.task \subseteq InputKeys
      /\ \A r \in results : r.taskRev <= task.rev
  BY <1>0, <1>2, <1>5 DEF TaskInv, RevisionInv, Behind
<1>7. ResultKeys \cup {key} = ResultKeys' /\ InputKeys \subseteq InputKeys'
  BY <1>0, <1>4 DEF ResultKeys, InputKeys
<1>8. HasPlan => key \in InputKeys'
  BY <1>0, <1>3, <1>4 DEF InputKeys
<1>9. task'.rev = task.rev + 1 /\ task'.val = task.val \cup {key} /\ HasPlan' = HasPlan /\ Members' = Members
  BY <1>0 DEF HasPlan, Members
<1>10. BareInv'
  BY <1>0, <1>2, <1>9 DEF BareInv
<1>11. EffectInv'
  <2>1. task'.val \subseteq ResultKeys' /\ plan'.task \subseteq ResultKeys'
    BY <1>0, <1>2, <1>7, <1>9 DEF EffectInv
  <2>2. ASSUME NEW r \in results', r.key \notin InputKeys'
        PROVE  r.key \in (IF HasPlan' THEN plan'.task ELSE task'.val)
    <3>1. CASE r = Result(t)
      BY <1>4, <1>8, <1>9, <2>2, <3>1
    <3>2. CASE r \in results
      BY <1>0, <1>2, <1>7, <1>9, <2>2, <3>2 DEF EffectInv
    <3>. QED
      BY <1>0, <2>2, <3>1, <3>2
  <2>. QED
    BY <2>1, <2>2 DEF EffectInv
<1>12. RevisionInv'
  <2>1. \A r \in results' : r.taskRev <= task'.rev
    BY <1>0, <1>2, <1>4, <1>6, <1>9
  <2>2. ASSUME NEW r1 \in results', NEW r2 \in results', r1.taskRev = r2.taskRev PROVE r1 = r2
    <3>1. CASE r1 \in results /\ r2 \in results
      BY <1>2, <2>2, <3>1 DEF RevisionInv
    <3>2. ASSUME NEW r \in results PROVE r.taskRev # Result(t).taskRev
      BY <1>2, <1>4, <1>6
    <3>. QED
      BY <1>0, <2>2, <3>1, <3>2
  <2>. QED
    BY <2>1, <2>2 DEF RevisionInv
<1>13. TaskInv'
  <2>1. HasPlan => /\ task'.val \ plan'.task \subseteq InputKeys'
                   /\ plan'.task \subseteq task'.val
    BY <1>0, <1>6, <1>7, <1>8, <1>9
  <2>. QED
    BY <1>9, <2>1 DEF TaskInv
<1>14. FilesInv'
  <2>1. HasPlan => \A i \in Instances : instV[i] = IF i \in Members THEN plan.inst[i] ELSE NoInst
    BY <1>0, <1>2, <1>5 DEF FilesInv
  <2>2. \A u \in Threads : pc'[u] \notin {"task", "instances"}
    BY <1>1, <1>5 DEF Holding
  <2>. QED
    BY <1>0, <1>9, <2>1, <2>2 DEF FilesInv
<1>15. CommandInv'
  <2>1. \A u \in Threads : pc'[u] \notin {"plan", "taskOnly", "retire", "task", "instances", "reconcile"}
    BY <1>1, <1>5 DEF Holding
  <2>. QED
    BY <2>1 DEF CommandInv
<1>. QED
  BY <1>10, <1>11, <1>12, <1>13, <1>14, <1>15 DEF AuthorityInv

\* What a command computes under the lock is right as long as it holds the lock.
LEMMA BeginAuthority ==
  ASSUME TypeInv, AuthorityInv, NEW t \in Threads, Begin(t)
  PROVE  AuthorityInv'
<1>. DEFINE req == op[t].req
            key == op[t].key
            l == IF ThroughPlan(req) THEN "plan" ELSE "taskOnly"
<1>0. /\ mode = "up" /\ mode' = "up" /\ pc[t] = "command" /\ lock = None /\ Accepted(t)
      /\ UNCHANGED <<plan, task, instC, instV, results>>
      /\ pc' = [pc EXCEPT ![t] = l]
      /\ ThroughPlan(req) => op' = [op EXCEPT ![t] = [op[t] EXCEPT !.new = PlanAfter(req, key)]]
      /\ ~ThroughPlan(req) => op' = op
  BY DEF Begin, Goto, store, projections
<1>1. l \in {"plan", "taskOnly"} /\ (l = "plan" <=> ThroughPlan(req))
  OBVIOUS
<1>. HIDE DEF l
<1>2. /\ pc \in [Threads -> Labels] /\ op \in [Threads -> OpType]
      /\ task \in [rev : Nat, val : SUBSET Keys] /\ task.rev \in Nat
      /\ \A u \in Threads : pc[u] \notin Holding
      /\ req.kind \in Kinds
      /\ BareInv /\ EffectInv /\ RevisionInv /\ TaskInv /\ FilesInv /\ CommandInv
  BY <1>0, NobodyHolds, ConstAssumption DEF TypeInv, TypeOK, OpInv, Command, AuthorityInv
<1>3. /\ ~At({"retire", "task"}) /\ ~At({"retire", "task"})'
      /\ ~At({"retire", "task", "instances", "reconcile"})
      /\ pc'[t] = l /\ \A u \in Threads \ {t} : pc'[u] \notin Holding
  BY <1>0, <1>1, <1>2 DEF At, Holding
<1>4. /\ op'[t].req = req /\ op'[t].key = key /\ op'[t].expected = op[t].expected
      /\ ThroughPlan(req) => op'[t].new = PlanAfter(req, key)
  BY <1>0, <1>2 DEF OpType
<1>5. HasPlan' = HasPlan /\ Members' = Members
  BY <1>0 DEF HasPlan, Members
<1>6. PlanAfter(op[t].req, op[t].key)' = PlanAfter(req, key) /\ ThroughPlan(op[t].req)' = ThroughPlan(req)
  BY <1>0, <1>4, <1>5 DEF PlanAfter, TaskAfter, InstAfter, ThroughPlan
<1>7. BareInv' /\ EffectInv'
  BY <1>0, <1>2, <1>5 DEF BareInv, EffectInv, ResultKeys, InputKeys
<1>8. RevisionInv' /\ TaskInv'
  BY <1>0, <1>2, <1>3, <1>5 DEF RevisionInv, TaskInv, Behind, InputKeys
<1>9. FilesInv'
  <2>1. HasPlan => \A i \in Instances : instV[i] = IF i \in Members THEN plan.inst[i] ELSE NoInst
    BY <1>0, <1>2, <1>3 DEF FilesInv
  <2>2. \A u \in Threads : pc'[u] \notin {"task", "instances"}
    BY <1>1, <1>3 DEF Holding
  <2>. QED
    BY <1>0, <1>5, <2>1, <2>2 DEF FilesInv
<1>10. CommandInv'
  <2>1. op[t].expected = task.rev
    BY <1>0 DEF Accepted
  <2>2. ThroughPlan(req) => task.rev > 0 /\ (req.kind = "save_plan" \/ HasPlan)
    BY <1>0, <1>2 DEF Accepted, ThroughPlan
  <2>3. ~ThroughPlan(req) /\ HasPlan => req.kind = "register_input_manifest"
    BY <1>0, <1>2 DEF Accepted, ThroughPlan, BareInv, Kinds
  <2>4. \A u \in Threads \ {t} : pc'[u] \notin {"plan", "taskOnly", "retire", "task", "instances", "reconcile"}
    BY <1>3 DEF Holding
  <2>5. pc'[t] \in {"plan", "taskOnly"} => op'[t].expected = task'.rev
    BY <1>0, <1>4, <2>1
  <2>6. pc'[t] = "plan" =>
          /\ op'[t].new = PlanAfter(op[t].req, op[t].key)' /\ ThroughPlan(op[t].req)'
          /\ task'.rev > 0 /\ (op'[t].req.kind = "save_plan" \/ HasPlan')
    BY <1>0, <1>1, <1>3, <1>4, <1>5, <1>6, <2>2
  <2>7. pc'[t] = "taskOnly" /\ HasPlan' => op'[t].req.kind = "register_input_manifest"
    BY <1>1, <1>3, <1>4, <1>5, <2>3
  <2>8. pc'[t] \notin {"retire", "task", "instances", "reconcile"}
    BY <1>1, <1>3
  <2>. QED
    BY <2>4, <2>5, <2>6, <2>7, <2>8 DEF CommandInv
<1>. QED
  BY <1>7, <1>8, <1>9, <1>10 DEF AuthorityInv

\* A runtime fact goes into the plan first.
LEMMA UpdatePlanAuthority ==
  ASSUME TypeInv, AuthorityInv, NEW t \in Threads, UpdatePlan(t)
  PROVE  AuthorityInv'
<1>. DEFINE i == op[t].req.inst
<1>0. /\ mode = "up" /\ mode' = "up" /\ lock = None /\ i \in Members
      /\ plan' = [plan EXCEPT !.rev = @ + 1, !.inst[i].fact = op[t].fact]
      /\ pc' = [pc EXCEPT ![t] = "reconcile"]
      /\ UNCHANGED <<task, instC, instV, results, op>>
  BY DEF UpdatePlan, Goto, projections
<1>1. /\ pc \in [Threads -> Labels] /\ plan \in PlanType /\ plan.rev \in Nat
      /\ \A u \in Threads : pc[u] \notin Holding
      /\ BareInv /\ EffectInv /\ RevisionInv /\ TaskInv /\ FilesInv /\ CommandInv
  BY <1>0, NobodyHolds DEF TypeInv, TypeOK, PlanType, AuthorityInv
<1>2. plan'.rev = plan.rev + 1 /\ plan'.task = plan.task /\ DOMAIN plan'.inst = DOMAIN plan.inst
  BY <1>0, <1>1 DEF PlanType
<1>3. HasPlan /\ HasPlan' /\ Members' = Members
  BY <1>0, <1>1, <1>2 DEF BareInv, HasPlan, Members
<1>4. /\ ~At({"retire", "task"}) /\ ~At({"retire", "task"})'
      /\ At({"retire", "task", "instances", "reconcile"})'
      /\ pc'[t] = "reconcile" /\ \A u \in Threads \ {t} : pc'[u] \notin Holding
  BY <1>0, <1>1 DEF At, Holding
<1>5. BareInv' /\ EffectInv'
  BY <1>0, <1>1, <1>2, <1>3 DEF BareInv, EffectInv, ResultKeys, InputKeys
<1>6. RevisionInv' /\ TaskInv'
  BY <1>0, <1>1, <1>2, <1>3, <1>4 DEF RevisionInv, TaskInv, Behind, InputKeys
<1>7. FilesInv'
  <2>1. \A u \in Threads : pc'[u] \notin {"task", "instances"}
    BY <1>4 DEF Holding
  <2>. QED
    BY <1>4, <2>1 DEF FilesInv
<1>8. CommandInv'
  BY <1>3, <1>4 DEF CommandInv, Holding
<1>. QED
  BY <1>5, <1>6, <1>7, <1>8 DEF AuthorityInv

\* There is no instance file outside the plan to update.
LEMMA UpdateUnplannedAuthority ==
  ASSUME TypeInv, AuthorityInv, NEW t \in Threads, UpdateUnplanned(t)
  PROVE  FALSE
<1>. DEFINE i == op[t].req.inst
<1>0. mode = "up" /\ pc[t] = "update" /\ lock = None /\ i \notin Members /\ instV[i] # NoInst
  BY DEF UpdateUnplanned
<1>1. i \in Instances /\ \A u \in Threads : pc[u] \notin Holding
  BY <1>0, NobodyHolds DEF TypeInv, OpInv
<1>2. ~At({"retire", "task", "instances", "reconcile"})
  BY <1>1 DEF At, Holding
<1>. QED
  BY <1>0, <1>1, <1>2 DEF AuthorityInv, FilesInv, BareInv

\* The reconciliation brings the files to the plan, one write after the other.
LEMMA ReconcileStepAuthority ==
  ASSUME TypeInv, AuthorityInv, NEW t \in Threads, ReconcileStep(t)
  PROVE  AuthorityInv'
<1>0. /\ mode = "up" /\ mode' = "up" /\ pc[t] = "reconcile" /\ (ReconcileTask \/ ReconcileInstance)
      /\ UNCHANGED <<plan, results, pc, op>>
  BY DEF ReconcileStep
<1>1. pc[t] \in Holding
  BY <1>0 DEF Holding
<1>2. /\ plan.rev \in Nat /\ task \in [rev : Nat, val : SUBSET Keys] /\ task.rev \in Nat
      /\ \A r \in results : r.taskRev \in Nat
      /\ \A u \in Threads \ {t} : pc[u] \notin Holding
      /\ BareInv /\ EffectInv /\ RevisionInv /\ TaskInv /\ FilesInv /\ CommandInv
  BY <1>1, WorkerFacts
<1>3. /\ HasPlan /\ HasPlan' /\ Members' = Members
      /\ plan.task \subseteq ResultKeys /\ task.val \subseteq ResultKeys
  BY <1>0, <1>2 DEF CommandInv, EffectInv, HasPlan, Members
<1>4. /\ ~At({"retire", "task"}) /\ ~At({"retire", "task"})'
      /\ At({"retire", "task", "instances", "reconcile"})'
  BY <1>0, <1>2 DEF At, Holding
<1>5. plan.task \subseteq task.val /\ task.val \ plan.task \subseteq InputKeys
  BY <1>0, <1>2, <1>3, <1>4 DEF TaskInv
<1>6. task'.rev \in {task.rev, task.rev + 1} /\ task'.val \in {task.val, plan.task}
  BY <1>0 DEF ReconcileTask, ReconcileInstance
<1>7. BareInv' /\ EffectInv'
  <2>1. BareInv'
    BY <1>0, <1>2, <1>3, <1>6 DEF BareInv
  <2>2. EffectInv'
    BY <1>0, <1>2, <1>3, <1>6 DEF EffectInv, ResultKeys, InputKeys
  <2>. QED
    BY <2>1, <2>2
<1>8. RevisionInv'
  <2>1. \A r \in results' : r.taskRev <= task'.rev
    BY <1>0, <1>2, <1>4, <1>6 DEF RevisionInv, Behind
  <2>. QED
    BY <1>0, <1>2, <2>1 DEF RevisionInv
<1>9. TaskInv'
  <2>1. task'.val \ plan'.task \subseteq InputKeys' /\ plan'.task \subseteq task'.val
    BY <1>0, <1>5, <1>6 DEF InputKeys
  <2>. QED
    BY <2>1 DEF TaskInv
<1>10. FilesInv'
  <2>1. \A u \in Threads : pc'[u] \notin {"task", "instances"}
    BY <1>0, <1>2 DEF Holding
  <2>. QED
    BY <1>4, <2>1 DEF FilesInv
<1>11. CommandInv'
  BY <1>0, <1>2, <1>3 DEF CommandInv, Holding
<1>. QED
  BY <1>7, <1>8, <1>9, <1>10, <1>11 DEF AuthorityInv

\* Its end: the files are those of the plan.
LEMMA ReconcileReturnAuthority ==
  ASSUME TypeInv, AuthorityInv, NEW t \in Threads, ReconcileReturn(t)
  PROVE  AuthorityInv'
<1>0. /\ mode = "up" /\ mode' = "up" /\ pc[t] = "reconcile" /\ ReconcileEnd
      /\ pc' = [pc EXCEPT ![t] = "idle"]
      /\ UNCHANGED <<plan, results>>
  BY DEF ReconcileReturn, Return, Goto
<1>1. pc[t] \in Holding
  BY <1>0 DEF Holding
<1>2. /\ pc \in [Threads -> Labels]
      /\ \A u \in Threads \ {t} : pc[u] \notin Holding
      /\ BareInv /\ EffectInv /\ RevisionInv /\ TaskInv /\ FilesInv /\ CommandInv
  BY <1>1, WorkerFacts
<1>3. HasPlan /\ HasPlan' /\ Members' = Members
  BY <1>0, <1>2 DEF CommandInv, HasPlan, Members
<1>4. Reconciled /\ instV' = Retired /\ UNCHANGED <<task, instC>>
  BY <1>0, <1>3 DEF ReconcileEnd
<1>5. /\ ~At({"retire", "task"}) /\ ~At({"retire", "task"})'
      /\ pc'[t] = "idle" /\ \A u \in Threads \ {t} : pc'[u] \notin Holding
  BY <1>0, <1>2 DEF At, Holding
<1>6. BareInv' /\ EffectInv'
  BY <1>0, <1>2, <1>3, <1>4 DEF BareInv, EffectInv, ResultKeys, InputKeys
<1>7. RevisionInv' /\ TaskInv'
  BY <1>0, <1>2, <1>3, <1>4, <1>5 DEF RevisionInv, TaskInv, Behind, InputKeys
<1>8. FilesInv'
  <2>1. \A i \in Instances : instV'[i] = IF i \in Members THEN plan.inst[i] ELSE NoInst
    BY <1>4 DEF Reconciled, Retired
  <2>2. \A u \in Threads : pc'[u] \notin {"task", "instances"}
    BY <1>5 DEF Holding
  <2>. QED
    BY <1>0, <1>3, <2>1, <2>2 DEF FilesInv
<1>9. CommandInv'
  BY <1>5 DEF CommandInv, Holding
<1>. QED
  BY <1>6, <1>7, <1>8, <1>9 DEF AuthorityInv

\* A crash forgets the commands and leaves the files.
LEMMA CrashAuthority ==
  ASSUME TypeInv, AuthorityInv, Crash
  PROVE  AuthorityInv'
<1>0. /\ mode' = "down" /\ \A u \in Threads : pc'[u] = "idle"
      /\ UNCHANGED <<plan, task, instC, instV, results>>
  BY DEF Crash, store, projections
<1>1. BareInv /\ EffectInv /\ RevisionInv /\ TaskInv
  BY DEF AuthorityInv
<1>2. HasPlan' = HasPlan /\ Members' = Members
  BY <1>0 DEF HasPlan, Members
<1>3. BareInv' /\ EffectInv'
  BY <1>0, <1>1, <1>2 DEF BareInv, EffectInv, ResultKeys, InputKeys
<1>4. RevisionInv' /\ TaskInv'
  BY <1>0, <1>1, <1>2 DEF RevisionInv, TaskInv, Behind, InputKeys
<1>5. FilesInv' /\ CommandInv'
  BY <1>0 DEF FilesInv, CommandInv
<1>. QED
  BY <1>3, <1>4, <1>5 DEF AuthorityInv

\* The start rewrites the instance files from the journal.
LEMMA RecoverAuthority ==
  ASSUME TypeInv, AuthorityInv, RecoverSnapshots
  PROVE  AuthorityInv'
<1>0. /\ mode = "down" /\ mode' = "reconciling" /\ instV' = instC
      /\ UNCHANGED <<plan, task, instC, results, pc, op>>
  BY DEF RecoverSnapshots
<1>1. BareInv /\ EffectInv /\ RevisionInv /\ TaskInv /\ CommandInv
  BY DEF AuthorityInv
<1>2. HasPlan' = HasPlan /\ Members' = Members
  BY <1>0 DEF HasPlan, Members
<1>3. BareInv' /\ EffectInv'
  BY <1>0, <1>1, <1>2 DEF BareInv, EffectInv, ResultKeys, InputKeys
<1>4. RevisionInv' /\ TaskInv'
  BY <1>0, <1>1, <1>2 DEF RevisionInv, TaskInv, Behind, InputKeys
<1>5. FilesInv'
  BY <1>0 DEF FilesInv
<1>6. CommandInv'
  BY <1>0, <1>1, <1>2 DEF CommandInv, PlanAfter, TaskAfter, InstAfter, ThroughPlan, HasPlan
<1>. QED
  BY <1>3, <1>4, <1>5, <1>6 DEF AuthorityInv

\* The reconciliation of the start, where a put of the task may still be due.
LEMMA StartupReconcileAuthority ==
  ASSUME TypeInv, IdleInv, AuthorityInv, StartupReconcile
  PROVE  AuthorityInv'
<1>0. /\ mode = "reconciling" /\ mode' = mode /\ \A u \in Threads : pc[u] = "idle"
      /\ (ReconcileTask \/ ReconcileInstance)
      /\ UNCHANGED <<plan, results, pc, op>>
  BY DEF StartupReconcile, IdleInv
<1>1. /\ plan.rev \in Nat /\ task \in [rev : Nat, val : SUBSET Keys] /\ task.rev \in Nat
      /\ \A r \in results : r.taskRev \in Nat
      /\ BareInv /\ EffectInv /\ RevisionInv /\ TaskInv
  BY DEF TypeInv, TypeOK, PlanType, ResultType, AuthorityInv
<1>2. HasPlan /\ HasPlan' /\ Members' = Members
  BY <1>0 DEF ReconcileTask, ReconcileInstance, HasPlan, Members
<1>3. \/ task'.rev = task.rev + 1 /\ task'.val = plan.task
      \/ task' = task
  BY <1>0 DEF ReconcileTask, ReconcileInstance
<1>4. task.val \ plan.task \subseteq InputKeys
  BY <1>1, <1>2 DEF TaskInv
<1>5. BareInv' /\ EffectInv'
  <2>1. BareInv'
    BY <1>0, <1>1, <1>2, <1>3 DEF BareInv
  <2>2. EffectInv'
    BY <1>0, <1>1, <1>2, <1>3 DEF EffectInv, ResultKeys, InputKeys
  <2>. QED
    BY <2>1, <2>2
<1>6. RevisionInv'
  <2>1. CASE task'.rev = task.rev + 1 /\ task'.val = plan.task
    <3>1. \A r \in results' : r.taskRev <= task'.rev
      BY <1>0, <1>1, <2>1 DEF RevisionInv
    <3>. QED
      BY <1>0, <1>1, <3>1 DEF RevisionInv
  <2>2. CASE task' = task
    <3>1. Behind => Behind'
      BY <1>0, <1>2, <2>2 DEF Behind
    <3>. QED
      BY <1>0, <1>1, <2>2, <3>1 DEF RevisionInv
  <2>. QED
    BY <1>3, <2>1, <2>2
<1>7. TaskInv'
  <2>1. task'.val \ plan'.task \subseteq InputKeys'
    BY <1>0, <1>3, <1>4 DEF InputKeys
  <2>. QED
    BY <1>0, <2>1 DEF TaskInv
<1>8. FilesInv' /\ CommandInv'
  BY <1>0 DEF FilesInv, CommandInv
<1>. QED
  BY <1>5, <1>6, <1>7, <1>8 DEF AuthorityInv

\* The process is up again when the files are those of the plan.
LEMMA StartupDoneAuthority ==
  ASSUME TypeInv, IdleInv, AuthorityInv, StartupDone
  PROVE  AuthorityInv'
<1>0. /\ mode = "reconciling" /\ mode' = "up" /\ ReconcileEnd
      /\ \A u \in Threads : pc[u] = "idle"
      /\ UNCHANGED <<plan, results, pc, op>>
  BY DEF StartupDone, IdleInv
<1>1. BareInv /\ EffectInv /\ RevisionInv /\ TaskInv
  BY DEF AuthorityInv
<1>2. HasPlan' = HasPlan /\ Members' = Members
  BY <1>0 DEF HasPlan, Members
<1>3. UNCHANGED <<task, instC>>
  BY <1>0 DEF ReconcileEnd, projections
<1>4. CASE HasPlan
  <2>1. Reconciled /\ instV' = Retired
    BY <1>0, <1>4 DEF ReconcileEnd
  <2>2. BareInv' /\ EffectInv'
    BY <1>0, <1>1, <1>2, <1>3, <1>4 DEF BareInv, EffectInv, ResultKeys, InputKeys
  <2>3. RevisionInv'
    <3>1. ~Behind
      BY <2>1 DEF Behind, Reconciled
    <3>. QED
      BY <1>0, <1>1, <1>3, <3>1 DEF RevisionInv
  <2>4. TaskInv'
    BY <1>0, <1>3, <2>1 DEF TaskInv, Reconciled
  <2>5. FilesInv'
    <3>1. \A i \in Instances : instV'[i] = IF i \in Members THEN plan.inst[i] ELSE NoInst
      BY <2>1 DEF Reconciled, Retired
    <3>. QED
      BY <1>0, <1>2, <3>1 DEF FilesInv
  <2>6. CommandInv'
    BY <1>0 DEF CommandInv
  <2>. QED
    BY <2>2, <2>3, <2>4, <2>5, <2>6 DEF AuthorityInv
<1>5. CASE ~HasPlan
  <2>1. UNCHANGED instV
    BY <1>0, <1>5 DEF ReconcileEnd, projections
  <2>2. BareInv' /\ EffectInv'
    BY <1>0, <1>1, <1>2, <1>3, <2>1 DEF BareInv, EffectInv, ResultKeys, InputKeys
  <2>3. RevisionInv' /\ TaskInv'
    BY <1>0, <1>1, <1>2, <1>3, <1>5 DEF RevisionInv, TaskInv, Behind
  <2>4. FilesInv' /\ CommandInv'
    BY <1>0, <1>2, <1>5 DEF FilesInv, CommandInv
  <2>. QED
    BY <2>2, <2>3, <2>4 DEF AuthorityInv
<1>. QED
  BY <1>4, <1>5

\* A step of the system runs no command unless the process is up.
LEMMA NextIdleInv == TypeInv /\ IdleInv /\ [FailureNext]_vars => IdleInv'
<1>. SUFFICES ASSUME TypeInv, IdleInv, [FailureNext]_vars PROVE IdleInv'
  OBVIOUS
<1>1. CASE UNCHANGED vars
  BY <1>1 DEF vars, bounds, IdleInv
<1>2. ASSUME NEW t \in Threads,
             \/ \E key \in Keys, req \in Requests : Call(t, key, req)
             \/ \E i \in Instances, f \in Facts : CallUpdate(t, i, f)
             \/ LockTimeout(t) \/ Progress(t) \/ PutFails(t)
      PROVE  IdleInv'
  <2>1. mode' = "up"
    BY <1>2 DEF Call, CallUpdate, LockTimeout, Progress, PutFails, Replay, ReplayCommitted, Refuse,
                Begin, PutPlan, Retire, PutTask, PutInstance, WriteSummary, PutTaskOnly,
                WriteTaskSummary, Remember, Reply, UpdateNothing, UpdatePlan, UpdateUnplanned,
                ReconcileStep, ReconcileReturn
  <2>2. failures' \in {failures, failures + 1}
    BY <1>2 DEF Call, CallUpdate, LockTimeout, Progress, PutFails, Replay, ReplayCommitted, Refuse,
                Begin, PutPlan, Retire, PutTask, PutInstance, WriteSummary, PutTaskOnly,
                WriteTaskSummary, Remember, Reply, UpdateNothing, UpdatePlan, UpdateUnplanned,
                ReconcileStep, ReconcileReturn, bounds
  <2>. QED
    BY <2>1, <2>2 DEF IdleInv
<1>3. CASE Crash
  BY <1>3 DEF Crash, IdleInv
<1>4. CASE Startup
  BY <1>4 DEF Startup, RecoverResult, RecoverSnapshots, StartupReconcile, StartupDone, IdleInv, bounds
<1>. QED
  BY <1>1, <1>2, <1>3, <1>4 DEF FailureNext, Next

\* As long as no write has raised, every step keeps the plan the authority.
LEMMA NextAuthority == TypeInv /\ OnceInv /\ IdleInv /\ AuthInv /\ [FailureNext]_vars => AuthInv'
<1>. SUFFICES ASSUME TypeInv, OnceInv, IdleInv, AuthInv, [FailureNext]_vars, failures' = 0
              PROVE  AuthorityInv'
  BY DEF AuthInv
<1>1. ASSUME NEW t \in Threads, PutFails(t) PROVE FALSE
  BY <1>1 DEF PutFails, IdleInv
<1>2. UNCHANGED failures
  BY <1>1 DEF FailureNext, Next, Progress, Startup, Call, CallUpdate, LockTimeout, Replay, ReplayCommitted,
              Refuse, Begin, PutPlan, Retire, PutTask, PutInstance, WriteSummary, PutTaskOnly,
              WriteTaskSummary, Remember, Reply, UpdateNothing, UpdatePlan, UpdateUnplanned,
              ReconcileStep, ReconcileReturn, Crash, RecoverResult, RecoverSnapshots,
              StartupReconcile, StartupDone, bounds, vars
<1>3. AuthorityInv
  BY <1>2 DEF AuthInv
<1>4. ASSUME NEW t \in Threads,
             \/ \E key \in Keys, req \in Requests : Call(t, key, req)
             \/ \E i \in Instances, f \in Facts : CallUpdate(t, i, f)
             \/ LockTimeout(t) \/ Replay(t) \/ ReplayCommitted(t) \/ Refuse(t) \/ UpdateNothing(t)
             \/ WriteTaskSummary(t) \/ Remember(t) \/ Reply(t)
      PROVE  AuthorityInv'
  BY <1>3, <1>4, AsideSteps
<1>5. ASSUME NEW t \in Threads, Begin(t) \/ PutPlan(t) \/ Retire(t) \/ PutTask(t) \/ PutInstance(t)
                                \/ WriteSummary(t) \/ PutTaskOnly(t)
      PROVE  AuthorityInv'
  BY <1>3, <1>5, BeginAuthority, PutPlanAuthority, RetireAuthority, PutTaskAuthority,
     PutInstanceAuthority, WriteSummaryAuthority, PutTaskOnlyAuthority
<1>6. ASSUME NEW t \in Threads, UpdatePlan(t) \/ UpdateUnplanned(t) \/ ReconcileStep(t) \/ ReconcileReturn(t)
      PROVE  AuthorityInv'
  BY <1>3, <1>6, UpdatePlanAuthority, UpdateUnplannedAuthority, ReconcileStepAuthority,
     ReconcileReturnAuthority
<1>7. CASE Crash
  BY <1>3, <1>7, CrashAuthority
<1>8. CASE Startup
  <2>1. CASE RecoverResult
    BY <1>3, <2>1, AsideStep DEF RecoverResult, projections
  <2>. QED
    BY <1>3, <1>8, <2>1, RecoverAuthority, StartupReconcileAuthority, StartupDoneAuthority DEF Startup
<1>9. CASE UNCHANGED vars
  BY <1>3, <1>9, AsideStep DEF vars, store, projections
<1>. QED
  BY <1>1, <1>4, <1>5, <1>6, <1>7, <1>8, <1>9 DEF FailureNext, Next, Progress

-----------------------------------------------------------------------------
(* The plan is the authority: the theorems.                                *)

\* When no command runs, nothing is behind.
LEMMA AuthorityImpliesProperty == TypeInv /\ AuthInv => PlanIsAuthority
<1>. SUFFICES ASSUME TypeInv, AuthorityInv, Quiet
              PROVE  PromisedRevisionIsReal /\ ProjectionsFollowPlan /\ CommittedEffectsStay
  BY DEF AuthInv, PlanIsAuthority, PromisedRevisionIsReal, ProjectionsFollowPlan, CommittedEffectsStay
<1>1. mode = "up" /\ \A u \in Threads : pc[u] \notin Holding
  BY NobodyHolds DEF Quiet
<1>2. ~At({"retire", "task"}) /\ ~At({"retire", "task", "instances", "reconcile"})
  BY <1>1 DEF At, Holding
<1>3. HasPlan => plan.task \subseteq task.val /\ task.val \ plan.task \subseteq InputKeys
  BY <1>1, <1>2 DEF AuthorityInv, TaskInv
<1>4. PromisedRevisionIsReal
  BY <1>1, <1>2 DEF AuthorityInv, RevisionInv, Behind, PromisedRevisionIsReal
<1>5. ProjectionsFollowPlan
  BY <1>1, <1>2, <1>3 DEF AuthorityInv, FilesInv, ProjectionsFollowPlan
<1>6. CommittedEffectsStay
  BY <1>3 DEF AuthorityInv, EffectInv, CommittedEffectsStay
<1>. QED
  BY <1>4, <1>5, <1>6

\* While no write has raised in a living process, and whatever crashes interrupt the
\* commands: every result owns the task revision it promises, the files are those of the
\* plan, and no committed effect is taken back, whenever the command lock is free.
THEOREM PlanIsAuthorityAlways == FailureSpec => []PlanIsAuthority
<1>1. Init => IdleInv /\ AuthInv
  BY InitAuthority DEF Init, IdleInv
<1>2. TypeInv /\ OnceInv /\ IdleInv /\ AuthInv /\ [FailureNext]_vars => (IdleInv /\ AuthInv)'
  BY NextIdleInv, NextAuthority
<1>. QED
  BY <1>1, <1>2, Invariance, AuthorityImpliesProperty, PTL DEF FailureSpec

\* Every start ends with each projection equal to the plan, whatever a failed write or a
\* crash left behind: _reconcile_plan_projections needs no help from the failed command.
THEOREM RestartRepairsProjectionsAlways == FailureSpec => RestartRepairsProjections
<1>. DEFINE Repaired == /\ task'.val = plan.task
                        /\ summary' = plan.task
                        /\ \A i \in Instances : instV'[i] = IF i \in Members THEN plan.inst[i] ELSE NoInst
<1>1. [FailureNext]_vars => [mode = "reconciling" /\ mode' = "up" /\ HasPlan => Repaired]_vars
  <2>. SUFFICES ASSUME FailureNext, mode = "reconciling", mode' = "up", HasPlan
                PROVE  Repaired
    OBVIOUS
  <2>1. StartupDone
    BY DEF FailureNext, Next, Progress, Startup, Call, CallUpdate, LockTimeout, Replay, ReplayCommitted,
           Refuse, Begin, PutPlan, Retire, PutTask, PutInstance, WriteSummary, PutTaskOnly,
           WriteTaskSummary, Remember, Reply, UpdateNothing, UpdatePlan, UpdateUnplanned,
           ReconcileStep, ReconcileReturn, PutFails, Crash, RecoverResult, RecoverSnapshots,
           StartupReconcile
  <2>. QED
    BY <2>1 DEF StartupDone, ReconcileEnd, Reconciled, Retired
<1>. QED
  BY <1>1, PTL DEF FailureSpec, RestartRepairsProjections
=============================================================================
