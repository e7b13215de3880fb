--------------------------- MODULE AggregateCommit ---------------------------
(***************************************************************************)
(* How one domain command becomes durable: the idempotent command wrapper  *)
(* (_idempotent), the plan-first aggregate commit (_persist_aggregate) of  *)
(* backend/harness/domain/service.py, update_instance_fields and the       *)
(* startup reconciliation of backend/harness/storage/store.py.             *)
(*                                                                         *)
(* One task is modelled.  Its plan is the authority; the task, instance    *)
(* and workspace-summary files are projections of it, written after it,    *)
(* one put each.  A put of the repository below is one atomic step here:   *)
(* module SnapshotStore shows that, with crashes, it takes effect at the   *)
(* append of its event.  The content of a task is the set of idempotency   *)
(* keys whose effect it carries, so that a lost or overwritten effect is   *)
(* visible; the content of an instance is its last command and its last    *)
(* runtime fact.  Stage projections are written exactly like instance      *)
(* projections and are not modelled apart.                                 *)
(***************************************************************************)
EXTENDS Integers

CONSTANTS
  Threads,      \* request threads of the control process
  Keys,         \* idempotency keys
  Instances,    \* instance identifiers a plan may hold
  Requests,     \* [kind, inst, members]: the commands clients send
  Facts,        \* runtime facts written by update_instance_fields
  None,
  MaxCalls,     \* bound on the calls of a behaviour
  MaxCrashes,   \* bound on the crashes of a behaviour
  MaxFailures   \* bound on the puts that raise (FailureSpec)

Kinds == {"create_task", "register_input_manifest", "rename_task", "save_plan",
          "transition_instance", "cancel_task"}

ASSUME ConstAssumption ==
  /\ None \notin Threads \cup Keys \cup Facts
  /\ Requests \subseteq [kind : Kinds, inst : Instances, members : SUBSET Instances]
  /\ MaxCalls \in Nat /\ MaxCrashes \in Nat /\ MaxFailures \in Nat

VARIABLES
  mode,      \* "up", "down" or the phase of recovery
  plan,      \* plan.json: [rev, task, inst], rev 0 when there is none
  task,      \* task.json: [rev, val], rev 0 when there is none
  instC,     \* last committed content of an instance object
  instV,     \* instances/<id>.json, NoInst when missing
  summary,   \* workspace task-summary.json
  results,   \* command results carried by plan or task events
  idem,      \* idempotency registry
  lock,      \* command-<task>.lock
  pc, op,    \* the command a thread executes
  replies,   \* history: results returned to callers
  calls, crashes, failures

projections == <<task, instC, instV, summary>>
store == <<plan, projections, results, idem>>
bounds == <<calls, crashes, failures>>
vars == <<mode, store, lock, pc, op, replies, bounds>>

-----------------------------------------------------------------------------
InstContent == [cmd : Keys, fact : Facts \cup {None}]
NoInst == [cmd |-> None, fact |-> None]
NoPlan == [rev |-> 0, task |-> {}, inst |-> [i \in {} |-> NoInst]]
NoTask == [rev |-> 0, val |-> {}]
NoRequest == [kind |-> "none", inst |-> None, members |-> {}]
Unknown == [req |-> NoRequest, taskRev |-> 0, planRev |-> 0]
NoOp == [key |-> None, req |-> NoRequest, expected |-> 0, fact |-> None, new |-> NoPlan, todo |-> {}]

Members == DOMAIN plan.inst
HasPlan == plan.rev > 0

\* A registry entry as a command result, and back.
Entry(key, e) == [key |-> key, req |-> e.req, taskRev |-> e.taskRev, planRev |-> e.planRev]
RegisteredTaskOnly(r) == [req |-> r.req, taskRev |-> r.taskRev, planRev |-> 0]
Registered(r) == [req |-> r.req, taskRev |-> r.taskRev, planRev |-> r.planRev]

\* lookup_committed_command_result: the result an event of the journal carries.
Carried(key) == {r \in results : r.key = key}

-----------------------------------------------------------------------------
(* What a command writes.                                                  *)

\* A task rebuilt from the request alone.
TaskAfterFresh(req, key) == IF req.kind = "save_plan" \/ ~HasPlan THEN {key} ELSE plan.task \cup {key}

\* rename_task, save_plan: the task of the new plan is the task projection with the
\* change; the other plan commands change the plan's own task.
TaskAfter(req, key) ==
  IF req.kind \in {"rename_task", "save_plan"} \/ ~HasPlan THEN task.val \cup {key}
  ELSE plan.task \cup {key}

\* A transition that does not stamp the instance.
InstAfterUnstamped(req, key) ==
  CASE req.kind = "save_plan" -> [i \in req.members |-> NoInst]
    [] OTHER -> plan.inst
InstAfter(req, key) ==
  CASE req.kind = "save_plan" -> [i \in req.members |-> [cmd |-> key, fact |-> None]]
    [] req.kind = "transition_instance" -> [plan.inst EXCEPT ![req.inst].cmd = key]
    [] OTHER -> plan.inst

PlanAfter(req, key) ==
  [rev |-> plan.rev + 1, task |-> TaskAfter(req, key), inst |-> InstAfter(req, key)]

\* Commands that commit through the plan; the others commit the task object alone.
\* register_input_manifest never touches the plan.
ThroughPlan(req) ==
  \/ req.kind \in {"save_plan", "transition_instance"}
  \/ req.kind \in {"rename_task", "cancel_task"} /\ HasPlan

\* The early returns of the operations: a missing task, plan or instance, and the
\* expected revision of the task.
Accepted(t) ==
  LET req == op[t].req IN
  /\ req.kind = "create_task" <=> task.rev = 0
  /\ req.kind = "transition_instance" => HasPlan /\ req.inst \in Members
  /\ op[t].expected = task.rev

-----------------------------------------------------------------------------
(* The command wrapper.                                                    *)

Goto(t, label) == pc' = [pc EXCEPT ![t] = label]
Return(t) ==
  /\ Goto(t, "idle")
  /\ op' = [op EXCEPT ![t] = NoOp]

\* A client reads the task revision and sends a command under an idempotency key.
Call(t, key, req) ==
  /\ mode = "up"
  /\ pc[t] = "idle"
  /\ calls < MaxCalls
  /\ calls' = calls + 1
  /\ op' = [op EXCEPT ![t] = [NoOp EXCEPT !.key = key, !.req = req, !.expected = task.rev]]
  /\ Goto(t, "command")
  /\ UNCHANGED <<mode, store, lock, replies, crashes, failures>>

\* The supervisor or a service records a runtime fact of an instance.
CallUpdate(t, i, f) ==
  /\ mode = "up"
  /\ pc[t] = "idle"
  /\ calls < MaxCalls
  /\ calls' = calls + 1
  /\ op' = [op EXCEPT ![t] = [NoOp EXCEPT !.req = [NoRequest EXCEPT !.inst = i], !.fact = f]]
  /\ Goto(t, "update")
  /\ UNCHANGED <<mode, store, lock, replies, crashes, failures>>

\* FileLock on the command lock gives up.
LockTimeout(t) ==
  /\ mode = "up"
  /\ pc[t] \in {"command", "update"}
  /\ lock # None
  /\ Return(t)
  /\ UNCHANGED <<mode, store, lock, replies, bounds>>

\* idempotency.lookup: the registry knows the key; another request under the same
\* key is IDEMPOTENCY_CONFLICT.
Replay(t) ==
  LET known == idem[op[t].key] IN
  /\ mode = "up"
  /\ pc[t] = "command"
  /\ lock = None
  /\ known # Unknown
  /\ replies' = IF known.req = op[t].req
                THEN replies \cup {Entry(op[t].key, known)}
                ELSE replies
  /\ Return(t)
  /\ UNCHANGED <<mode, store, lock, bounds>>

\* A journal event carries the result of the key although the registry does not
\* know it: it is remembered and returned, without running the operation.
ReplayCommitted(t) ==
  /\ mode = "up"
  /\ pc[t] = "command"
  /\ lock = None
  /\ idem[op[t].key] = Unknown
  /\ \E r \in Carried(op[t].key) :
       IF r.req = op[t].req
       THEN /\ idem' = [idem EXCEPT ![r.key] = Registered(r)]
            /\ replies' = replies \cup {r}
       ELSE UNCHANGED <<idem, replies>>
  /\ Return(t)
  /\ UNCHANGED <<mode, plan, projections, results, lock, bounds>>

\* The registry alone is trusted, the journal not consulted.
FirstUseByRegistry(t) == idem[op[t].key] = Unknown
FirstUse(t) == idem[op[t].key] = Unknown /\ Carried(op[t].key) = {}

Refuse(t) ==
  /\ mode = "up"
  /\ pc[t] = "command"
  /\ lock = None
  /\ FirstUse(t)
  /\ ~Accepted(t)
  /\ Return(t)
  /\ UNCHANGED <<mode, store, lock, replies, bounds>>

\* The operation runs under the command lock up to its first put.
Begin(t) ==
  /\ mode = "up"
  /\ pc[t] = "command"
  /\ lock = None
  /\ FirstUse(t)
  /\ Accepted(t)
  /\ lock' = t
  /\ IF ThroughPlan(op[t].req)
     THEN /\ op' = [op EXCEPT ![t].new = PlanAfter(op[t].req, op[t].key)]
          /\ Goto(t, "plan")
     ELSE UNCHANGED op /\ Goto(t, "taskOnly")
  /\ UNCHANGED <<mode, store, replies, bounds>>

\* The result a command promises before its first put.
Result(t) ==
  [key |-> op[t].key, req |-> op[t].req, taskRev |-> op[t].expected + 1,
   planRev |-> IF ThroughPlan(op[t].req) THEN plan.rev + 1 ELSE 0]

\* _persist_aggregate, first put: the plan with the command result.
PutPlan(t) ==
  /\ mode = "up"
  /\ pc[t] = "plan"
  /\ plan' = op[t].new
  /\ results' = results \cup {Result(t)}
  /\ Goto(t, "retire")
  /\ UNCHANGED <<mode, projections, idem, lock, op, replies, bounds>>

\* retire_plan_projections: files of instances that left the plan are unlinked,
\* without an event.
RetiredNothing == instV
Retired == [i \in Instances |-> IF i \in Members THEN instV[i] ELSE NoInst]
Retire(t) ==
  /\ mode = "up"
  /\ pc[t] = "retire"
  /\ instV' = Retired
  /\ Goto(t, "task")
  /\ UNCHANGED <<mode, plan, task, instC, summary, results, idem, lock, op, replies, bounds>>

\* task.put: its expected_revision was read at the start of the command.
PutTask(t) ==
  /\ mode = "up"
  /\ pc[t] = "task"
  /\ task' = [rev |-> task.rev + 1, val |-> plan.task]
  /\ op' = [op EXCEPT ![t].todo = Members]
  /\ Goto(t, "instances")
  /\ UNCHANGED <<mode, plan, instC, instV, summary, results, idem, lock, replies, bounds>>

PutInstance(t) ==
  /\ mode = "up"
  /\ pc[t] = "instances"
  /\ \E i \in op[t].todo :
       /\ instC' = [instC EXCEPT ![i] = plan.inst[i]]
       /\ instV' = [instV EXCEPT ![i] = plan.inst[i]]
       /\ op' = [op EXCEPT ![t].todo = @ \ {i}]
  /\ UNCHANGED <<mode, plan, task, summary, results, idem, lock, pc, replies, bounds>>

\* task-summary.json, then the check that the task object got the promised revision.
WriteSummary(t) ==
  /\ mode = "up"
  /\ pc[t] = "instances"
  /\ op[t].todo = {}
  /\ summary' = plan.task
  /\ Goto(t, "remember")
  /\ UNCHANGED <<mode, plan, task, instC, instV, results, idem, lock, op, replies, bounds>>

\* The commands without a plan: one task.put that carries the result, then the
\* summary (create_task and rename_task only).
PutTaskOnly(t) ==
  /\ mode = "up"
  /\ pc[t] = "taskOnly"
  /\ task' = [rev |-> task.rev + 1, val |-> task.val \cup {op[t].key}]
  /\ results' = results \cup {Result(t)}
  /\ Goto(t, IF op[t].req.kind \in {"create_task", "rename_task"} THEN "summary" ELSE "remember")
  /\ UNCHANGED <<mode, plan, instC, instV, summary, idem, lock, op, replies, bounds>>

WriteTaskSummary(t) ==
  /\ mode = "up"
  /\ pc[t] = "summary"
  /\ summary' = task.val
  /\ Goto(t, "remember")
  /\ UNCHANGED <<mode, plan, task, instC, instV, results, idem, lock, op, replies, bounds>>

\* The committed result is looked up again and materialized in the registry.
Remember(t) ==
  /\ mode = "up"
  /\ pc[t] = "remember"
  /\ \E r \in Carried(op[t].key) :
       idem' = [idem EXCEPT ![r.key] = Registered(r)]
  /\ Goto(t, "reply")
  /\ UNCHANGED <<mode, plan, projections, results, lock, op, replies, bounds>>

Reply(t) ==
  /\ mode = "up"
  /\ pc[t] = "reply"
  /\ replies' = replies \cup {Entry(op[t].key, idem[op[t].key])}
  /\ lock' = None
  /\ Return(t)
  /\ UNCHANGED <<mode, store, bounds>>

-----------------------------------------------------------------------------
(* update_instance_fields.                                                 *)

\* The instance is unknown, or already has the fact.
UpdateNothing(t) ==
  LET i == op[t].req.inst IN
  /\ mode = "up"
  /\ pc[t] = "update"
  /\ lock = None
  /\ IF i \in Members THEN plan.inst[i].fact = op[t].fact
     ELSE instV[i] = NoInst \/ instV[i].fact = op[t].fact
  /\ Return(t)
  /\ UNCHANGED <<mode, store, lock, replies, bounds>>

\* Through the plan, then _reconcile_plan_projections in the same call.
UpdatePlan(t) ==
  LET i == op[t].req.inst IN
  /\ mode = "up"
  /\ pc[t] = "update"
  /\ lock = None
  /\ i \in Members
  /\ plan.inst[i].fact # op[t].fact
  /\ plan' = [plan EXCEPT !.rev = @ + 1, !.inst[i].fact = op[t].fact]
  /\ lock' = t
  /\ Goto(t, "reconcile")
  /\ UNCHANGED <<mode, projections, results, idem, op, replies, bounds>>

\* An instance file outside the plan is updated directly.
UpdateUnplanned(t) ==
  LET i == op[t].req.inst
      new == [instV[i] EXCEPT !.fact = op[t].fact] IN
  /\ mode = "up"
  /\ pc[t] = "update"
  /\ lock = None
  /\ i \notin Members
  /\ instV[i] # NoInst
  /\ instV[i].fact # op[t].fact
  /\ instV' = [instV EXCEPT ![i] = new]
  /\ instC' = [instC EXCEPT ![i] = new]
  /\ Return(t)
  /\ UNCHANGED <<mode, plan, task, summary, results, idem, lock, replies, bounds>>

-----------------------------------------------------------------------------
(* _reconcile_plan_projections: by a thread after UpdatePlan, or at start. *)

ReconcileTask ==
  /\ HasPlan
  /\ task.val # plan.task \/ task.rev = 0
  /\ task' = [rev |-> task.rev + 1, val |-> plan.task]
  /\ UNCHANGED <<instC, instV, summary>>

ReconcileInstance ==
  /\ HasPlan
  /\ task.val = plan.task
  /\ \E i \in Members :
       /\ instV[i] # plan.inst[i]
       /\ instV' = [instV EXCEPT ![i] = plan.inst[i]]
       /\ instC' = [instC EXCEPT ![i] = plan.inst[i]]
  /\ UNCHANGED <<task, summary>>

Reconciled == task.val = plan.task /\ \A i \in Members : instV[i] = plan.inst[i]

\* The end: retired files are unlinked, the summary is rewritten.  Without a plan
\* there is nothing to do.
ReconcileEnd ==
  IF HasPlan
  THEN /\ Reconciled
       /\ instV' = Retired
       /\ summary' = plan.task
       /\ UNCHANGED <<task, instC>>
  ELSE UNCHANGED projections

ReconcileStep(t) ==
  /\ mode = "up"
  /\ pc[t] = "reconcile"
  /\ ReconcileTask \/ ReconcileInstance
  /\ UNCHANGED <<mode, plan, results, idem, lock, pc, op, replies, bounds>>

ReconcileReturn(t) ==
  /\ mode = "up"
  /\ pc[t] = "reconcile"
  /\ ReconcileEnd
  /\ lock' = None
  /\ Return(t)
  /\ UNCHANGED <<mode, plan, results, idem, replies, bounds>>

-----------------------------------------------------------------------------
(* Crash and startup.                                                      *)

Crash ==
  /\ mode # "down"
  /\ crashes < MaxCrashes
  /\ crashes' = crashes + 1
  /\ mode' = "down"
  /\ lock' = None
  /\ pc' = [t \in Threads |-> "idle"]
  /\ op' = [t \in Threads |-> NoOp]
  /\ UNCHANGED <<store, replies, calls, failures>>

\* _recover_idempotency_results: every result of the journal is remembered.
RecoverResult ==
  /\ mode = "down"
  /\ \E r \in results :
       /\ idem[r.key] = Unknown
       /\ idem' = [idem EXCEPT ![r.key] = Registered(r)]
  /\ UNCHANGED <<mode, plan, projections, results, lock, pc, op, replies, bounds>>

\* recover(): every snapshot is rewritten from its last commit event, the files of
\* retired instances included.
RecoverSnapshots ==
  /\ mode = "down"
  /\ \A r \in results : idem[r.key] # Unknown
  /\ instV' = instC
  /\ mode' = "reconciling"
  /\ UNCHANGED <<plan, task, instC, summary, results, idem, lock, pc, op, replies, bounds>>

StartupReconcile ==
  /\ mode = "reconciling"
  /\ ReconcileTask \/ ReconcileInstance
  /\ UNCHANGED <<mode, plan, results, idem, lock, pc, op, replies, bounds>>

StartupDone ==
  /\ mode = "reconciling"
  /\ ReconcileEnd
  /\ mode' = "up"
  /\ UNCHANGED <<plan, results, idem, lock, pc, op, replies, bounds>>

-----------------------------------------------------------------------------
(* A write that raises while the process keeps running: the lock of the    *)
(* task directory is not obtained within its deadline, or the disk fails.  *)
(* The command lock is released, the caller gets an error, the files       *)
(* written so far stay.                                                    *)

PutFails(t) ==
  /\ mode = "up"
  /\ pc[t] \in {"plan", "retire", "task", "instances", "taskOnly", "summary", "remember", "reconcile"}
  /\ failures < MaxFailures
  /\ failures' = failures + 1
  /\ lock' = None
  /\ Return(t)
  /\ UNCHANGED <<mode, store, replies, calls, crashes>>

-----------------------------------------------------------------------------
Init ==
  /\ mode = "up"
  /\ plan = NoPlan
  /\ task = NoTask
  /\ instC = [i \in Instances |-> NoInst]
  /\ instV = [i \in Instances |-> NoInst]
  /\ summary = {}
  /\ results = {}
  /\ idem = [k \in Keys |-> Unknown]
  /\ lock = None
  /\ pc = [t \in Threads |-> "idle"]
  /\ op = [t \in Threads |-> NoOp]
  /\ replies = {}
  /\ calls = 0 /\ crashes = 0 /\ failures = 0

Progress(t) ==
  \/ Replay(t) \/ ReplayCommitted(t) \/ Refuse(t) \/ Begin(t)
  \/ PutPlan(t) \/ Retire(t) \/ PutTask(t) \/ PutInstance(t) \/ WriteSummary(t)
  \/ PutTaskOnly(t) \/ WriteTaskSummary(t) \/ Remember(t) \/ Reply(t)
  \/ UpdateNothing(t) \/ UpdatePlan(t) \/ UpdateUnplanned(t)
  \/ ReconcileStep(t) \/ ReconcileReturn(t)

Startup == RecoverResult \/ RecoverSnapshots \/ StartupReconcile \/ StartupDone

Next ==
  \/ \E t \in Threads :
       \/ \E key \in Keys, req \in Requests : Call(t, key, req)
       \/ \E i \in Instances, f \in Facts : CallUpdate(t, i, f)
       \/ LockTimeout(t)
       \/ Progress(t)
  \/ Crash
  \/ Startup

Spec == Init /\ [][Next]_vars
FailureNext == Next \/ \E t \in Threads : PutFails(t)
FailureSpec == Init /\ [][FailureNext]_vars

-----------------------------------------------------------------------------
(* Properties.                                                             *)

Labels == {"idle", "command", "update", "plan", "retire", "task", "instances", "taskOnly",
           "summary", "remember", "reply", "reconcile"}
PlanType == [rev : Nat, task : SUBSET Keys,
             inst : UNION {[m -> InstContent] : m \in SUBSET Instances}]
ResultType == [key : Keys, req : Requests, taskRev : Nat, planRev : Nat]

\* The types of the files, of the registry and of the commands in flight.
TypeOK ==
  /\ mode \in {"up", "down", "reconciling"}
  /\ plan \in PlanType
  /\ task \in [rev : Nat, val : SUBSET Keys]
  /\ instC \in [Instances -> InstContent \cup {NoInst}]
  /\ instV \in [Instances -> InstContent \cup {NoInst}]
  /\ summary \subseteq Keys
  /\ results \subseteq ResultType
  /\ replies \subseteq ResultType
  /\ idem \in [Keys -> [req : Requests, taskRev : Nat, planRev : Nat] \cup {Unknown}]
  /\ lock \in Threads \cup {None}
  /\ pc \in [Threads -> Labels]

Quiet == mode = "up" /\ lock = None

\* An idempotency key commits at most one result, over retries, concurrent copies
\* of a request, crashes and restarts.
CommandsCommitOnce == \A r1, r2 \in results : r1.key = r2.key => r1 = r2

\* Whatever a caller is told under a key is the result the journal carries for that
\* key and request: the first answer and every replay of it agree.
RepliesAreCommitted == replies \subseteq results

\* Every committed command owns one task revision, the one its result promises, and
\* the task object has reached it once the command lock is free.
PromisedRevisionIsReal ==
  Quiet => /\ \A r \in results : r.taskRev <= task.rev
           /\ \A r1, r2 \in results : r1.taskRev = r2.taskRev => r1 = r2

InputKeys == {r.key : r \in {x \in results : x.req.kind = "register_input_manifest"}}

\* Whatever a failed write left behind, the next start ends with every projection
\* equal to the plan: _reconcile_plan_projections needs no help from the command
\* that failed.
RestartRepairsProjections ==
  [][mode = "reconciling" /\ mode' = "up" /\ HasPlan =>
       /\ task'.val = plan.task
       /\ summary' = plan.task
       /\ \A i \in Instances : instV'[i] = IF i \in Members THEN plan.inst[i] ELSE NoInst]_vars

\* When no command runs, the instance files are those of the plan, no other is left,
\* and the task file differs from the plan's task by input manifests at most.
ProjectionsFollowPlan ==
  Quiet /\ HasPlan =>
    /\ \A i \in Instances : instV[i] = IF i \in Members THEN plan.inst[i] ELSE NoInst
    /\ plan.task \subseteq task.val
    /\ task.val \ plan.task \subseteq InputKeys

\* No later command, and no recovery, takes back the effect of a committed command
\* (register_input_manifest aside, which does not reach the plan).
CommittedEffectsStay ==
  Quiet => \A r \in results : r.key \in InputKeys \/ r.key \in task.val

\* The three together: the first holds whatever fails, the others as long as no put
\* raised in a living process.
PlanIsAuthority ==
  failures = 0 => PromisedRevisionIsReal /\ ProjectionsFollowPlan /\ CommittedEffectsStay
=============================================================================
