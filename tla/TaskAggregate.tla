---------------------------- MODULE TaskAggregate ----------------------------
(***************************************************************************)
(* The lifecycle of one task with its stages and agent instances: the      *)
(* domain commands of backend/harness/domain/service.py, the aggregation   *)
(* rules of domain/state_machine.py, the status catalog of                 *)
(* contracts/v1/catalogs/status-codes.json and the two start gates of      *)
(* services/application.py and services/supervisor.py.                     *)
(*                                                                         *)
(* Every command is one atomic step: module AggregateCommit shows how its  *)
(* plan becomes durable.  A command computes a new plan; when one of the   *)
(* transitions it implies is not in the catalog it raises and nothing is   *)
(* written, which is the field ok of the computed plan.                    *)
(*                                                                         *)
(* Stages are numbered by position; the dependencies of a stage are        *)
(* positions.  Time stamps are abstracted to whether they are set, the     *)
(* four board statuses to COMPLETED and OPEN, task cards to their revision.*)
(***************************************************************************)
EXTENDS Integers, Sequences, FiniteSets

CONSTANTS
  Drafts,      \* plans a client may save: [stages, members]
  Extensions,  \* drafts a client may append; dependencies are final positions
  MaxCommands, \* bound on the plan saves and the gate, downgrade, archive and cancel commands
  MaxQueued,   \* bound on the start operations that wait at one time
  MaxCard      \* greatest task card revision

StageKinds == {"general", "image", "ppt"}
\* What is known of a draft before validate_plan looks at it: the contract of its stages and
\* members, and that a member names a stage by its position in the draft.
IsDraft(d) ==
  /\ d.stages \in Seq([type : StageKinds, deps : SUBSET Nat, required : BOOLEAN])
  /\ d.members \in [DOMAIN d.members -> [stage : Nat \ {0}, required : BOOLEAN]]

ASSUME DraftAssumption ==
  /\ \A d \in Drafts \cup Extensions : IsDraft(d)
  /\ MaxCommands \in Nat /\ MaxQueued \in Nat /\ MaxCard \in Nat \ {0}

VARIABLES
  status,      \* task status, "NONE" before create_task
  policy,      \* start_policy
  stages,      \* Seq of stages, empty before the first plan
  inst,        \* [ids of the plan -> instance]
  queued,      \* instances with an accepted start operation that has not run
  frozen,      \* archive intent: snapshot and progress (others is history), or NoSnapshot
  earned,      \* history: instances of the plan that reached SUCCEEDED
  commands

plan == <<status, stages, inst>>
vars == <<plan, policy, queued, frozen, earned, commands>>

-----------------------------------------------------------------------------
(* The catalog.                                                            *)

TaskTransitions == [
  NONE |-> {},
  DRAFT |-> {"PLANNED", "CANCELLED", "ARCHIVED"},
  PLANNED |-> {"AWAITING_START_CONFIRMATION", "RUNNING", "BLOCKED_UNAVAILABLE", "CANCELLED", "ARCHIVED"},
  AWAITING_START_CONFIRMATION |-> {"RUNNING", "BLOCKED_UNAVAILABLE", "CANCELLED", "ARCHIVED"},
  RUNNING |-> {"WAITING_APPROVAL", "BLOCKED_UNAVAILABLE", "FAILED", "SUCCEEDED", "PARTIAL", "CANCELLED", "ARCHIVED"},
  WAITING_APPROVAL |-> {"RUNNING", "BLOCKED_UNAVAILABLE", "FAILED", "SUCCEEDED", "PARTIAL", "CANCELLED", "ARCHIVED"},
  BLOCKED_UNAVAILABLE |-> {"PLANNED", "RUNNING", "PARTIAL", "CANCELLED", "ARCHIVED"},
  FAILED |-> {"PLANNED", "RUNNING", "PARTIAL", "CANCELLED", "ARCHIVED"},
  SUCCEEDED |-> {"ARCHIVED"}, PARTIAL |-> {"ARCHIVED"}, CANCELLED |-> {"ARCHIVED"},
  ARCHIVED |-> {"DRAFT", "PLANNED", "AWAITING_START_CONFIRMATION", "RUNNING", "WAITING_APPROVAL",
                "BLOCKED_UNAVAILABLE", "FAILED", "SUCCEEDED", "PARTIAL", "CANCELLED"}]

StageTransitions == [
  PENDING |-> {"READY", "UNAVAILABLE", "SKIPPED", "CANCELLED"},
  READY |-> {"RUNNING", "FAILED", "UNAVAILABLE", "SKIPPED", "CANCELLED"},
  RUNNING |-> {"WAITING_APPROVAL", "SUCCEEDED", "FAILED", "CANCELLED"},
  WAITING_APPROVAL |-> {"RUNNING", "SUCCEEDED", "FAILED", "CANCELLED"},
  FAILED |-> {"READY", "RUNNING"},
  UNAVAILABLE |-> {"READY", "SKIPPED"},
  SUCCEEDED |-> {}, SKIPPED |-> {}, CANCELLED |-> {}]

InstanceTransitions == [
  CREATED |-> {"READY", "UNAVAILABLE"},
  UNAVAILABLE |-> {"READY", "CANCELLED", "ARCHIVED"},
  READY |-> {"STARTING", "FAILED_TO_START", "CANCELLED"},
  STARTING |-> {"RUNNING", "FAILED_TO_START", "CRASHED", "CANCELLED", "STOPPED"},
  RUNNING |-> {"WAITING_APPROVAL", "FAILED_TO_START", "SUCCEEDED", "FAILED", "CRASHED", "CANCELLED", "STOPPED"},
  WAITING_APPROVAL |-> {"RUNNING", "SUCCEEDED", "FAILED", "CANCELLED", "STOPPED"},
  FAILED_TO_START |-> {"READY", "STARTING", "SUPERSEDED", "CANCELLED", "ARCHIVED"},
  FAILED |-> {"READY", "STARTING", "SUPERSEDED", "CANCELLED", "STOPPED", "ARCHIVED"},
  CRASHED |-> {"READY", "STARTING", "SUPERSEDED", "CANCELLED", "ARCHIVED"},
  SUCCEEDED |-> {"STOPPED", "ARCHIVED"},
  CANCELLED |-> {"ARCHIVED"}, SUPERSEDED |-> {"ARCHIVED"},
  STOPPED |-> {"STARTING", "RUNNING", "WAITING_APPROVAL", "FAILED", "SUCCEEDED", "CANCELLED", "ARCHIVED"},
  ARCHIVED |-> {}]

Executing == {"STARTING", "RUNNING"}
Active == {"READY", "STARTING", "RUNNING"}
Waiting == {"WAITING_APPROVAL"}
Failed == {"FAILED_TO_START", "FAILED", "CRASHED"}
TaskTerminal == {"SUCCEEDED", "PARTIAL", "CANCELLED"}
Live == Executing \cup Waiting

-----------------------------------------------------------------------------
(* Aggregation.  p is a plan: [ok, status, stages, inst].                  *)

Current == [ok |-> TRUE, status |-> status, stages |-> stages, inst |-> inst]
HasPlan == stages # <<>>
NoSnapshot == [status |-> "NONE", inst |-> [i \in {} |-> ""], parked |-> {}, others |-> [i \in {} |-> ""]]

InstancesOf(p, s) == {i \in DOMAIN p.inst : p.inst[i].stage = s}
AgentType(p, i) == p.stages[p.inst[i].stage].type
Images(p) == {i \in DOMAIN p.inst : AgentType(p, i) = "image"}
StatusesOf(p, ids) == {p.inst[i].status : i \in ids}

\* stage_dependencies_authorized: delivered dependencies, or the human gate of PPT.
DependenciesAuthorized(p, s) ==
  \/ \A d \in p.stages[s].deps : p.stages[d].status = "SUCCEEDED"
  \/ /\ p.stages[s].type = "ppt"
     /\ p.stages[s].deps # {}
     /\ Images(p) # {}
     /\ \A i \in Images(p) : p.inst[i].finished

\* A stage aggregate that counts any completed instance, not all required ones.
AggregateStageAny(p, s) ==
  LET stage == p.stages[s]
      all == StatusesOf(p, InstancesOf(p, s)) IN
  IF stage.status \in {"SKIPPED", "CANCELLED"} THEN stage.status
  ELSE IF ~DependenciesAuthorized(p, s) /\ ~stage.activated THEN "PENDING"
  ELSE IF all \cap Executing # {} THEN "RUNNING"
  ELSE IF "SUCCEEDED" \in all THEN "SUCCEEDED"
  ELSE IF all \cap {"READY"} # {} THEN IF stage.status \in {"RUNNING", "WAITING_APPROVAL"} THEN "RUNNING" ELSE "READY"
  ELSE stage.status

\* aggregate_stage.
AggregateStage(p, s) ==
  LET stage == p.stages[s]
      needed == {i \in InstancesOf(p, s) : p.inst[i].required}
      all == StatusesOf(p, InstancesOf(p, s))
      required == StatusesOf(p, needed) IN
  IF stage.status \in {"SKIPPED", "CANCELLED"} THEN stage.status
  ELSE IF ~DependenciesAuthorized(p, s) /\ ~stage.activated THEN "PENDING"
  ELSE IF all \cap Executing # {} THEN "RUNNING"
  ELSE IF all \cap {"READY", "CREATED"} # {}
    THEN IF stage.status \in {"RUNNING", "WAITING_APPROVAL"} THEN "RUNNING" ELSE "READY"
  ELSE IF required \cap Waiting # {} THEN "WAITING_APPROVAL"
  ELSE IF required \cap Failed # {} THEN "FAILED"
  ELSE IF "UNAVAILABLE" \in required THEN "UNAVAILABLE"
  ELSE IF needed # {} /\ required \subseteq {"SUCCEEDED", "ARCHIVED"} THEN "SUCCEEDED"
  ELSE IF needed = {} /\ ~stage.required
    THEN IF all \cap {"SUCCEEDED", "ARCHIVED"} # {} THEN "SUCCEEDED" ELSE "SKIPPED"
  ELSE stage.status

\* _is_activated_downgrade
ActivatedDowngrade(item) == item.original /\ ~item.required /\ item.activated /\ item.downgraded

\* A task that fails with its first required instance, whatever the others do.
AggregateTaskFailedFirst(p) ==
  LET required == StatusesOf(p, {i \in DOMAIN p.inst : p.inst[i].required}) IN
  IF p.status \in TaskTerminal \cup {"ARCHIVED"} THEN p.status
  ELSE IF required \cap Failed # {} THEN "FAILED"
  ELSE IF required \cap Waiting # {} THEN "WAITING_APPROVAL"
  ELSE IF required \subseteq {"SUCCEEDED", "ARCHIVED"} THEN "SUCCEEDED"
  ELSE "RUNNING"

\* aggregate_task, with preserve_start_confirmation false as every caller passes it.
AggregateTask(p) ==
  LET required == StatusesOf(p, {i \in DOMAIN p.inst : p.inst[i].required})
      needed == {s \in DOMAIN p.stages : p.stages[s].required}
      downgraded == \/ \E s \in DOMAIN p.stages : ActivatedDowngrade(p.stages[s])
                    \/ \E i \in DOMAIN p.inst : ActivatedDowngrade(p.inst[i]) IN
  IF p.status \in TaskTerminal \cup {"ARCHIVED"} THEN p.status
  ELSE IF required \cap Waiting # {} THEN "WAITING_APPROVAL"
  ELSE IF StatusesOf(p, DOMAIN p.inst) \cap Active # {} THEN "RUNNING"
  ELSE IF required \cap Failed # {} THEN "FAILED"
  ELSE IF \E s \in needed : p.stages[s].status = "UNAVAILABLE" THEN "BLOCKED_UNAVAILABLE"
  ELSE IF \E s \in needed : p.stages[s].status # "SUCCEEDED" THEN "RUNNING"
  ELSE IF downgraded THEN "PARTIAL" ELSE "SUCCEEDED"

\* _activate_lifecycle of a stage and of its instances.
Activate(p, s) ==
  [p EXCEPT !.stages[s].activated = TRUE,
            !.inst = [i \in DOMAIN @ |-> IF @[i].stage = s THEN [@[i] EXCEPT !.activated = TRUE] ELSE @[i]]]

\* _validate_stage_reaggregation: some changes go through an intermediate status.
StageReaggregates(current, target) ==
  \/ target \in StageTransitions[current]
  \/ /\ <<current, target>> \in {<<"PENDING", "RUNNING">>, <<"FAILED", "SUCCEEDED">>, <<"FAILED", "SKIPPED">>}
     /\ \E mid \in StageTransitions[current] : target \in StageTransitions[mid]

\* _refresh_stages, one stage: the target is computed before the activation.
RefreshStage(p, s, activateNew) ==
  LET target == AggregateStage(p, s)
      before == p.stages[s].status
      q == IF activateNew /\ p.stages[s].type = "ppt" /\ DependenciesAuthorized(p, s)
           THEN Activate(p, s) ELSE p
  IN [q EXCEPT !.ok = @ /\ (target = before \/ StageReaggregates(before, target)),
               !.stages[s].status = target]
RefreshStages(p, activateNew) ==
  LET after[n \in 0..Len(p.stages)] ==
        IF n = 0 THEN p ELSE RefreshStage(after[n - 1], n, activateNew)
  IN after[Len(p.stages)]

\* _activate_current_stages
ActivateStage(p, s) ==
  LET q == Activate(p, s)
      target == AggregateStage(q, s)
      before == p.stages[s].status
  IN IF ~DependenciesAuthorized(p, s) THEN p
     ELSE [q EXCEPT !.ok = @ /\ (target = before \/ target \in StageTransitions[before]),
                    !.stages[s].status = target]
ActivateCurrentStages(p) ==
  LET after[n \in 0..Len(p.stages)] == IF n = 0 THEN p ELSE ActivateStage(after[n - 1], n)
  IN after[Len(p.stages)]

\* The task follows its children, when the catalog allows it.
Reaggregated(p) ==
  LET target == AggregateTask(p)
  IN [p EXCEPT !.ok = @ /\ (target = p.status \/ target \in TaskTransitions[p.status]),
               !.status = target]

\* _validate_task_reaggregation: zero work completes through RUNNING.
Started(p) ==
  LET target == AggregateTask(p)
  IN [p EXCEPT !.ok = @ /\ (target \in TaskTransitions[p.status] \/ target = "SUCCEEDED"),
               !.status = target]

Land(p, before) ==
  /\ p.ok
  /\ status' = p.status
  /\ stages' = p.stages
  /\ inst' = p.inst
  /\ earned' = before \cup {i \in DOMAIN p.inst : p.inst[i].status = "SUCCEEDED"}
Commit(p) == Land(p, earned)

-----------------------------------------------------------------------------
(* Plans.                                                                  *)

NewStage(d) ==
  [type |-> d.type, deps |-> d.deps, required |-> d.required, original |-> d.required,
   activated |-> FALSE, downgraded |-> FALSE, status |-> "PENDING"]
\* An instance whose card was never versioned.
NewInstanceUnversioned(d) ==
  [stage |-> d.stage, required |-> d.required, original |-> d.required, activated |-> FALSE,
   downgraded |-> FALSE, status |-> "READY", finished |-> FALSE, board |-> "none",
   rejected |-> FALSE, card |-> 0]
NewInstance(d) ==
  [stage |-> d.stage, required |-> d.required, original |-> d.required, activated |-> FALSE,
   downgraded |-> FALSE, status |-> "READY", finished |-> FALSE, board |-> "none",
   rejected |-> FALSE, card |-> 1]

\* validate_plan: the topology rules.
ValidPlan(p) ==
  /\ \A s \in DOMAIN p.stages : \A d \in p.stages[s].deps :
       d \in 1..(s - 1) /\ p.stages[d].type = "image" /\ p.stages[s].type = "ppt"
  /\ \A i \in DOMAIN p.inst : p.inst[i].stage \in DOMAIN p.stages
  /\ \A s \in DOMAIN p.stages : InstancesOf(p, s) # {}

\* _normalize_plan
Normalized(d) ==
  RefreshStages([ok |-> TRUE, status |-> "PLANNED",
                 stages |-> [s \in DOMAIN d.stages |-> NewStage(d.stages[s])],
                 inst |-> [i \in DOMAIN d.members |-> NewInstance(d.members[i])]], FALSE)

\* _normalize_append: the batch goes behind the landed stages, which it cannot touch.
Extended(d) ==
  LET offset == Len(stages)
      new == [i \in DOMAIN d.members |->
                NewInstance([d.members[i] EXCEPT !.stage = @ + offset])]
  IN RefreshStages([ok |-> DOMAIN d.members \cap DOMAIN inst = {}, status |-> status,
                    stages |-> stages \o [s \in DOMAIN d.stages |-> NewStage(d.stages[s])],
                    inst |-> [i \in DOMAIN inst \cup DOMAIN d.members |->
                                IF i \in DOMAIN inst THEN inst[i] ELSE new[i]]], FALSE)

\* The application lock of the task is held by an archive between its intent and its end.
Archiving == frozen # NoSnapshot /\ status # "ARCHIVED"
Unlocked == ~Archiving /\ status # "ARCHIVED"

CreateTask(mode) ==
  /\ status = "NONE"
  /\ status' = "DRAFT"
  /\ policy' = mode
  /\ UNCHANGED <<stages, inst, frozen, earned, commands, queued>>

Save(p) ==
  /\ commands < MaxCommands
  /\ commands' = commands + 1
  /\ ValidPlan(p)
  /\ UNCHANGED <<policy, frozen, queued>>

\* save_plan, mode replace: what the old plan achieved does not count for the new one.
ReplacePlan(d) ==
  LET p == Normalized(d) IN
  /\ Unlocked
  /\ status \in {"DRAFT", "PLANNED", "BLOCKED_UNAVAILABLE", "FAILED"}
  /\ Save(p)
  /\ IF policy = "manual" THEN Land([p EXCEPT !.status = "AWAITING_START_CONFIRMATION"], {})
     ELSE Land(Started(ActivateCurrentStages(p)), {})

AppendPlan(d) ==
  /\ Unlocked
  /\ status \in {"RUNNING", "WAITING_APPROVAL"}
  /\ Save(Extended(d))
  /\ Commit(Reaggregated(ActivateCurrentStages(Extended(d))))

\* _normalize_merge: only the cards of instances that wait to start are refreshed, and
\* never by an older revision.
MergePlan(cards) ==
  /\ Unlocked
  /\ status \in {"RUNNING", "WAITING_APPROVAL", "BLOCKED_UNAVAILABLE"}
  /\ DOMAIN cards = DOMAIN inst
  /\ \A i \in DOMAIN inst : inst[i].status \in {"READY", "UNAVAILABLE"} => cards[i] >= inst[i].card
  /\ Save(Current)
  /\ inst' = [i \in DOMAIN inst |-> IF inst[i].status \in {"READY", "UNAVAILABLE"}
                                    THEN [inst[i] EXCEPT !.card = cards[i]] ELSE inst[i]]
  /\ UNCHANGED <<status, stages, earned>>

ConfirmStart ==
  /\ Unlocked
  /\ status = "AWAITING_START_CONFIRMATION"
  /\ Commit(Started(ActivateCurrentStages(Current)))
  /\ UNCHANGED <<policy, frozen, commands, queued>>

-----------------------------------------------------------------------------
(* Instances.                                                              *)

\* A runtime transition that clears the board and forgets the gate behind it.
MovedKeepingGate(p, i, target) ==
  [p EXCEPT !.ok = @ /\ target \in InstanceTransitions[p.inst[i].status],
            !.inst[i].status = target,
            !.inst[i].board = IF target # "STOPPED" THEN "none" ELSE @,
            !.inst[i].activated = @ \/ target \in Executing]

\* The instance part of _transition_instance: a runtime transition other than STOPPED
\* takes the board back from the operator, a final one forgets the rejected delivery.
Moved(p, i, target) ==
  LET old == p.inst[i]
      cleared == target # "STOPPED" /\ old.board # "none"
  IN [p EXCEPT !.ok = @ /\ target \in InstanceTransitions[old.status],
               !.inst[i] = [old EXCEPT
                 !.status = target,
                 !.board = IF cleared THEN "none" ELSE @,
                 !.finished = IF cleared /\ AgentType(p, i) = "image" THEN FALSE ELSE @,
                 !.rejected = @ /\ target \notin {"SUCCEEDED", "FAILED_TO_START", "FAILED", "CRASHED",
                                                  "CANCELLED", "SUPERSEDED", "ARCHIVED"},
                 !.activated = @ \/ target \in Executing]]

Transitioned(i, target) == Reaggregated(RefreshStages(Moved(Current, i, target), TRUE))
TransitionInstance(i, target) ==
  /\ Commit(Transitioned(i, target))
  /\ UNCHANGED <<policy, frozen, commands, queued>>

\* _require_ppt_start_gate of the application.
ApplicationGate(i) ==
  AgentType(Current, i) = "ppt" =>
    \A j \in Images(Current) :
      inst[j].status \in {"SUCCEEDED", "SKIPPED", "SUPERSEDED", "ARCHIVED"} \/ inst[j].finished

\* _validate_start_eligibility of the supervisor.
SupervisorGate(i) ==
  /\ inst[i].activated \/ DependenciesAuthorized(Current, inst[i].stage)
  /\ \/ /\ inst[i].status = "STOPPED"
        /\ status \in {"RUNNING", "WAITING_APPROVAL", "BLOCKED_UNAVAILABLE", "FAILED", "SUCCEEDED", "PARTIAL"}
     \/ /\ status \in {"RUNNING", "FAILED", "WAITING_APPROVAL"}
        /\ inst[i].status \in {"READY", "FAILED_TO_START", "FAILED", "CRASHED"}

\* start_instance, restart_instance or retry_start_operation of the application accepts an
\* operation.  A restart of a live instance keeps its status, so it is not told apart.
AcceptStart(i) ==
  /\ Unlocked
  /\ i \notin queued /\ Cardinality(queued) < MaxQueued
  /\ \/ inst[i].status = "READY" /\ status # "AWAITING_START_CONFIRMATION" /\ ApplicationGate(i)
     \/ inst[i].status \in {"FAILED_TO_START", "FAILED", "CRASHED", "STOPPED"}
  /\ queued' = queued \cup {i}
  /\ UNCHANGED <<plan, policy, frozen, earned, commands>>

\* _restore_startable_instance, before a retried start runs again.
RestoreStartable(i) ==
  /\ i \in queued
  /\ inst[i].status = "FAILED_TO_START"
  /\ TransitionInstance(i, "READY")

\* The runner executes the operation outside the task lock, whatever happened since it was
\* accepted: the supervisor starts the process, or the failure is recorded.  The retry of an
\* operation that had launched its process passes the application's gate, whatever it tells:
\* here the operation of any activated instance may.
RunStart(i) ==
  /\ i \in queued
  /\ queued' = queued \ {i}
  /\ \/ /\ inst[i].status \in {"READY", "FAILED_TO_START", "FAILED", "CRASHED", "STOPPED"}
        /\ inst[i].activated \/ ApplicationGate(i)
        /\ SupervisorGate(i)
        /\ Commit(Transitioned(i, "STARTING"))
     \/ inst[i].status = "READY" /\ Commit(Transitioned(i, "FAILED_TO_START"))
     \/ /\ inst[i].status = "READY" => ~Transitioned(i, "FAILED_TO_START").ok
        /\ UNCHANGED <<plan, earned>>
  /\ UNCHANGED <<policy, frozen, commands>>

\* What the supervisor and the observation of the agent report.
AgentEvent(i, target) ==
  /\ \/ inst[i].status = "STARTING" /\ target \in {"RUNNING", "FAILED_TO_START", "CRASHED"}
     \/ inst[i].status = "RUNNING" /\ target \in {"WAITING_APPROVAL", "SUCCEEDED", "FAILED", "CRASHED", "FAILED_TO_START"}
     \/ inst[i].status = "WAITING_APPROVAL" /\ target \in {"RUNNING", "SUCCEEDED", "FAILED"}
  /\ TransitionInstance(i, target)

\* reject_instance_delivery by the adapter of a running agent.
RejectInstanceDelivery(i) ==
  LET failed == Moved(Current, i, "FAILED") IN
  /\ inst[i].status = "RUNNING"
  /\ Commit(Reaggregated(RefreshStages([failed EXCEPT !.inst[i].rejected = TRUE], TRUE)))
  /\ UNCHANGED <<policy, frozen, commands, queued>>

\* retry_rejected_delivery: FAILED, READY, STARTING and RUNNING in one guarded call.
RetryRejectedDelivery(i) ==
  /\ Unlocked
  /\ inst[i].rejected
  /\ \/ inst[i].status = "FAILED" /\ TransitionInstance(i, "READY")
     \/ inst[i].status = "READY" /\ TransitionInstance(i, "STARTING")
     \/ inst[i].status = "STARTING" /\ TransitionInstance(i, "RUNNING")

-----------------------------------------------------------------------------
(* Operator commands.                                                      *)

Human == commands < MaxCommands /\ commands' = commands + 1

CancelInstance(i) ==
  /\ Unlocked
  /\ Human
  /\ Commit(Transitioned(i, "CANCELLED"))
  /\ UNCHANGED <<policy, frozen, queued>>

ArchiveInstance(i) ==
  /\ Unlocked
  /\ Human
  /\ Commit(Transitioned(i, "ARCHIVED"))
  /\ UNCHANGED <<policy, frozen, queued>>

\* set_manual_finished does not refresh the stages.
SetManualFinished(i, done) ==
  /\ status # "ARCHIVED"
  /\ AgentType(Current, i) = "image"
  /\ Human
  /\ inst' = [inst EXCEPT ![i].finished = done, ![i].board = IF done THEN "COMPLETED" ELSE "none"]
  /\ UNCHANGED <<status, stages, policy, frozen, earned, queued>>

SetManualBusinessStatus(i, board) ==
  /\ status # "ARCHIVED"
  /\ Human
  /\ inst' = [inst EXCEPT ![i].board = board,
                          ![i].finished = IF AgentType(Current, i) = "image" THEN board = "COMPLETED" ELSE @]
  /\ UNCHANGED <<status, stages, policy, frozen, earned, queued>>

\* The requirement change of downgrade_instance; the stage follows its last instance.
Downgraded(i) ==
  LET s == inst[i].stage
      p == [Current EXCEPT !.inst[i] = [@ EXCEPT !.required = FALSE, !.downgraded = TRUE]]
      last == \A j \in InstancesOf(p, s) : ~p.inst[j].required
  IN IF last THEN [p EXCEPT !.stages[s] = [@ EXCEPT !.required = FALSE, !.activated = TRUE,
                                                    !.downgraded = TRUE]]
     ELSE p

\* A downgrade that leaves the task status alone.
DowngradeUnaggregated(i) ==
  /\ status # "ARCHIVED"
  /\ inst[i].required /\ inst[i].original /\ inst[i].activated
  /\ Human
  /\ Commit(RefreshStages(Downgraded(i), TRUE))
  /\ UNCHANGED <<policy, frozen, queued>>
DowngradeInstance(i) ==
  /\ status # "ARCHIVED"
  /\ inst[i].required /\ inst[i].original /\ inst[i].activated
  /\ Human
  /\ Commit(Reaggregated(RefreshStages(Downgraded(i), TRUE)))
  /\ UNCHANGED <<policy, frozen, queued>>

\* cancel_task: what can be cancelled is; nothing is aggregated.
Cancelled(p) ==
  [ok |-> "CANCELLED" \in TaskTransitions[p.status], status |-> "CANCELLED",
   stages |-> [s \in DOMAIN p.stages |->
     IF "CANCELLED" \in StageTransitions[p.stages[s].status]
     THEN [p.stages[s] EXCEPT !.status = "CANCELLED"] ELSE p.stages[s]],
   inst |-> [i \in DOMAIN p.inst |->
     IF "CANCELLED" \in InstanceTransitions[p.inst[i].status]
     THEN [p.inst[i] EXCEPT !.status = "CANCELLED", !.board = "none",
                            !.finished = IF p.inst[i].board # "none" THEN FALSE ELSE @]
     ELSE p.inst[i]]]
CancelTask ==
  /\ Unlocked
  /\ Human
  /\ Commit(Cancelled(Current))
  /\ UNCHANGED <<policy, frozen, queued>>

\* archive_task of the application: the snapshot is written to the intent, the frozen
\* targets are suspended one by one, then the domain command commits.
PrepareArchive ==
  /\ Unlocked
  /\ "ARCHIVED" \in TaskTransitions[status]
  /\ Human
  /\ frozen' = [status |-> status, parked |-> {},
                others |-> [i \in {j \in DOMAIN inst : inst[j].status \notin Live \cup {"SUCCEEDED", "FAILED"}} |->
                              inst[i].status],
                inst |-> [i \in {j \in DOMAIN inst : inst[j].status \in Live \cup {"SUCCEEDED", "FAILED"}} |->
                            inst[i].status]]
  /\ UNCHANGED <<plan, policy, earned, queued>>

\* The drain timed out, before the first suspension or when the intent is resumed after a
\* restart: the intent is ABORTED.  A suspension that raises leaves it PREPARED, for such
\* a resumption: the next suspension is due, or the drain that goes before it times out.
AbortArchive ==
  /\ Archiving
  /\ frozen' = NoSnapshot
  /\ UNCHANGED <<plan, policy, earned, commands, queued>>

SuspendInstance(i) ==
  /\ Archiving
  /\ i \in DOMAIN frozen.inst \ frozen.parked
  /\ \/ inst[i].status # "STOPPED" /\ Commit(Transitioned(i, "STOPPED"))
     \/ inst[i].status = "STOPPED" /\ UNCHANGED <<plan, earned>>
  /\ frozen' = [frozen EXCEPT !.parked = @ \cup {i}]
  /\ UNCHANGED <<policy, commands, queued>>

ArchiveTask ==
  /\ Archiving
  /\ frozen.parked = DOMAIN frozen.inst
  /\ "ARCHIVED" \in TaskTransitions[status]
  /\ status' = "ARCHIVED"
  /\ UNCHANGED <<stages, inst, policy, frozen, earned, commands, queued>>

\* resume_task wakes the parked processes first; a process that cannot be started moves
\* its instance to FAILED, when the catalog lets the aggregate follow.
WakeFails(i) ==
  /\ status = "ARCHIVED"
  /\ i \in DOMAIN frozen.inst
  /\ inst[i].status = "STOPPED"
  /\ TransitionInstance(i, "FAILED")

\* restore_archived: parked instances return to what the snapshot says, the ones whose
\* process could not be woken to FAILED.
RestoreTarget(i, lost) ==
  IF i \in lost THEN "FAILED"
  ELSE IF frozen.inst[i] = "STARTING" THEN "RUNNING" ELSE frozen.inst[i]
Rewoken(x, target) == [x EXCEPT !.status = target, !.activated = @ \/ target \in Executing]
Restored(lost) ==
  LET parked == {i \in DOMAIN frozen.inst : inst[i].status = "STOPPED"}
      p == [Current EXCEPT !.status = frozen.status,
              !.inst = [i \in DOMAIN @ |->
                IF i \in parked
                THEN Rewoken(@[i], RestoreTarget(i, lost)) ELSE @[i]]]
      q == RefreshStages(p, TRUE)
      target == AggregateTask(q)
  IN [q EXCEPT !.ok = @ /\ target \in TaskTransitions["ARCHIVED"], !.status = target]
RestoreArchived(lost) ==
  /\ status = "ARCHIVED"
  /\ lost \subseteq DOMAIN frozen.inst
  /\ IF HasPlan THEN Commit(Restored(lost))
     ELSE status' = frozen.status /\ UNCHANGED <<stages, inst, earned>>
  /\ frozen' = NoSnapshot
  /\ UNCHANGED <<policy, commands, queued>>

-----------------------------------------------------------------------------
Init ==
  /\ status = "NONE"
  /\ policy = "none"
  /\ stages = <<>>
  /\ inst = [i \in {} |-> NoSnapshot]
  /\ frozen = NoSnapshot
  /\ earned = {}
  /\ queued = {}
  /\ commands = 0

Runtime(i) ==
  \/ AcceptStart(i) \/ RestoreStartable(i) \/ RunStart(i)
  \/ \E target \in DOMAIN InstanceTransitions : AgentEvent(i, target)
  \/ RejectInstanceDelivery(i) \/ RetryRejectedDelivery(i)

Operator(i) ==
  \/ CancelInstance(i) \/ ArchiveInstance(i) \/ DowngradeInstance(i)
  \/ \E done \in BOOLEAN : SetManualFinished(i, done)
  \/ \E board \in {"OPEN", "COMPLETED"} : SetManualBusinessStatus(i, board)
  \/ SuspendInstance(i) \/ WakeFails(i)

Next ==
  \/ \E mode \in {"manual", "auto"} : CreateTask(mode)
  \/ \E d \in Drafts : ReplacePlan(d)
  \/ \E d \in Extensions : AppendPlan(d)
  \/ \E cards \in [DOMAIN inst -> 1..MaxCard] : HasPlan /\ MergePlan(cards)
  \/ ConfirmStart
  \/ \E i \in DOMAIN inst : Runtime(i) \/ Operator(i)
  \/ CancelTask \/ PrepareArchive \/ AbortArchive \/ ArchiveTask
  \/ \E lost \in SUBSET DOMAIN inst : RestoreArchived(lost)

Spec == Init /\ [][Next]_vars

-----------------------------------------------------------------------------
(* Properties.                                                             *)

StageType == [type : StageKinds, deps : SUBSET Nat, required : BOOLEAN,
              original : BOOLEAN, activated : BOOLEAN, downgraded : BOOLEAN,
              status : DOMAIN StageTransitions]
InstanceType == [stage : Nat, required : BOOLEAN, original : BOOLEAN, activated : BOOLEAN,
                 downgraded : BOOLEAN, status : DOMAIN InstanceTransitions, finished : BOOLEAN,
                 board : {"none", "OPEN", "COMPLETED"}, rejected : BOOLEAN, card : 1..MaxCard]

\* The types of the task, its stages and its instances, and the references between them.
TypeOK ==
  /\ status \in DOMAIN TaskTransitions
  /\ policy \in {"none", "manual", "auto"}
  /\ \A s \in DOMAIN stages : stages[s] \in StageType
  /\ \A i \in DOMAIN inst : inst[i] \in InstanceType
  /\ ValidPlan(Current)
  /\ frozen.status \in DOMAIN TaskTransitions
  /\ DOMAIN frozen.inst \subseteq DOMAIN inst
  /\ frozen.parked \subseteq DOMAIN frozen.inst
  /\ earned \subseteq DOMAIN inst
  /\ queued \subseteq UNION {DOMAIN d.members : d \in Drafts \cup Extensions}

\* The status of a task that runs is the one its children imply, after every command of
\* every actor: no command forgets to aggregate, and none is needed twice.
TaskFollowsChildren ==
  HasPlan /\ status \notin TaskTerminal \cup {"ARCHIVED", "AWAITING_START_CONFIRMATION"} =>
    status = AggregateTask(Current)

\* A task is SUCCEEDED only when every instance its plan asked for has succeeded at some
\* time or was archived by the operator: dropping a requirement does not help.  It is
\* PARTIAL only by an authorized downgrade.
SuccessIsEarned ==
  /\ status = "SUCCEEDED" => \A i \in DOMAIN inst : inst[i].original =>
       i \in earned \/ inst[i].status = "ARCHIVED"
  /\ status = "PARTIAL" => \E i \in DOMAIN inst : inst[i].original /\ inst[i].downgraded

\* No agent works for a task that is over.
FinishedTaskIsQuiet ==
  status \in TaskTerminal => \A i \in DOMAIN inst : inst[i].required => inst[i].status \notin Live

\* What a task that ended claims is true of its instances.
EndedTasksAreDone == SuccessIsEarned /\ FinishedTaskIsQuiet

\* The human completion gate of an Image is open exactly while its card shows COMPLETED,
\* across runtime transitions, suspension, restore and cancellation.
GateMatchesBoard ==
  \A i \in Images(Current) : inst[i].finished <=> inst[i].board = "COMPLETED"

Recordable(i, target) == Transitioned(i, target).ok
Exits(i) ==
  InstanceTransitions[inst[i].status] \cap {"SUCCEEDED", "FAILED", "CRASHED", "FAILED_TO_START",
                                            "CANCELLED", "STOPPED", "WAITING_APPROVAL"}

\* An agent that failed without its stage having been activated: the gates disagreed.
RefusedAtGate(i) == inst[i].status \in Failed /\ ~inst[i].activated

\* Whatever a live agent of a plan without optional, downgraded or archived instances,
\* in which no start was refused at the gate, does next can be recorded: no status of
\* its siblings, its stage or its task makes the transition raise.
RequiredExitsAreRecordable ==
  /\ status # "ARCHIVED"
  /\ \A j \in DOMAIN inst : inst[j].required /\ inst[j].status # "ARCHIVED" /\ ~RefusedAtGate(j)
  => \A i \in DOMAIN inst : inst[i].status \in Live => \A target \in Exits(i) : Recordable(i, target)

\* Children and task agree in both directions: the task has the status its children imply,
\* and what a required child does next has a status of the task to go with it.
ChildrenDecide == TaskFollowsChildren /\ RequiredExitsAreRecordable

\* When every Image is required and has succeeded, the supervisor does not refuse the PPT that the
\* application lets through.
DeliveredImagesOpenBothGates ==
  \A i \in DOMAIN inst :
    /\ AgentType(Current, i) = "ppt"
    /\ inst[i].status = "READY"
    /\ status \in {"RUNNING", "FAILED"}
    /\ \A j \in Images(Current) : inst[j].required /\ inst[j].status = "SUCCEEDED"
    => SupervisorGate(i)

\* Two places where gates must not part: the completion gate of an Image and what its card
\* shows; and, for a PPT whose Images are all required and delivered, the application that
\* lets it through and the supervisor.
GatesAgree == GateMatchesBoard /\ DeliveredImagesOpenBothGates

Kept(i) == i \in DOMAIN inst' /\ inst'[i].status # "READY" /\ inst'[i].stage = inst[i].stage

\* No command takes a live required agent out of the plan or back to READY: the status
\* that allows a replacement excludes it, whatever its siblings did.
RequiredWorkIsNotReplaced ==
  [][\A i \in DOMAIN inst : inst[i].required /\ inst[i].status \in Live => Kept(i)]_vars

\* A task that had started before its archive, whose processes all come back, whose
\* requirements nobody lowered and in which no start operation ran meanwhile, is restored
\* to the status it had.
StartedTasksAreRestored ==
  [][/\ status = "ARCHIVED" /\ status' # "ARCHIVED"
     /\ frozen.status # "AWAITING_START_CONFIRMATION"
     /\ \A i \in DOMAIN inst : ~inst[i].downgraded
     /\ \A i \in DOMAIN frozen.others : inst[i].status = frozen.others[i]
     /\ \A i \in DOMAIN frozen.inst : inst[i].status = "STOPPED"
     /\ \A i \in DOMAIN frozen.inst : inst'[i].status \in {frozen.inst[i], "RUNNING"}
     => status' = frozen.status]_vars

\* Neither a plan save nor an archive with its restore takes work away.
WorkIsKept == RequiredWorkIsNotReplaced /\ StartedTasksAreRestored
=============================================================================
