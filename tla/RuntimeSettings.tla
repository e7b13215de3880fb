-------------------------- MODULE RuntimeSettings --------------------------
(***************************************************************************)
(* The runtime settings of the Image instances of one task:                *)
(* services/instance_runtime_settings.py, task_config.py,                  *)
(* task_config_rebase.py, agent_config_materialization.py and the revision *)
(* stores storage/instance_config_revisions.py, task_config_revisions.py.  *)
(*                                                                         *)
(* A change is previewed (propose), confirmed, and carried out by a saga.  *)
(* An instance that was never started only moves its local pointer, under  *)
(* the task lock; a running one needs the Agent to branch at a safe point, *)
(* under the instance's gate lock alone.  New defaults rebase a task that  *)
(* has not been started; an accepted start freezes its baseline.  The      *)
(* worker that starts an instance resumes sagas without the task lock.     *)
(***************************************************************************)
EXTENDS Naturals, FiniteSets, FiniteSetsExt

CONSTANTS
  Insts,        \* Image instances of the task
  Props,        \* proposals, each with the calls that preview and confirm it
  Target,       \* [Props -> Insts]: the instance a proposal is for
  Syncs,        \* proposals that also ask to sync the unstarted instances
  Follows,      \* [Props -> Props \cup {None}]: the change a peer copy repeats
  Scenes,       \* what may happen: [asked, fresh, startable, runs,
                \*   defaults, withdrawn, steps, crashes, faults], bound by what
                \*   follows; "runs" are the Agents that reach safe points and end
  Rebaser, None,
  MaxRev,       \* bound on the revisions of an instance
  MaxDefaults,  \* bound on the revisions of the system defaults
  MaxTrouble    \* bound on crashes, failed projections and lost answers

ASSUME ConstAssumption ==
  /\ Target \in [Props -> Insts] /\ Syncs \subseteq Props
  /\ Follows \in [Props -> Props \cup {None}] /\ None \notin Insts \cup Props
  /\ \A s \in Scenes : /\ s.asked \subseteq Props /\ s.fresh \subseteq Insts /\ s.startable \subseteq Insts /\ s.runs \subseteq Insts
                      /\ s.withdrawn \subseteq 1..MaxDefaults
                      /\ s.defaults \in 1..MaxDefaults /\ s.steps \in Nat /\ s.crashes \in Nat /\ s.faults \in Nat
  /\ {MaxRev, MaxDefaults, MaxTrouble} \subseteq Nat

VARIABLES
  scene,        \* which proposals are made, which instances may be started, ...
  sys,          \* revision of the system defaults
  baseline,     \* published task revisions: the defaults each was taken from
  task,         \* the task configuration: [rev, locked]
  review,       \* a rebase is waiting for a review
  revs,         \* published revisions of each instance
  cfg,          \* the pointer of each instance: [rev, pending, n]
  inst,         \* instances: [status, proj]
  agent,        \* Agents: [rev, safe, keys, steps]
  draft,        \* proposals
  saga,         \* sagas
  lock,         \* holder of the task lock
  gate,         \* holders of the instances' gate locks
  th,           \* threads
  mode, todo, crashes, faults

store == <<baseline, task, review, revs, cfg>>
control == <<scene, mode, todo, crashes, faults>>
vars == <<sys, store, inst, agent, draft, saga, lock, gate, th, control>>

Starter(i) == <<"start", i>>
Observer(i) == <<"observe", i>>
Reader(i) == <<"read", i>>
Threads == Props \cup {Rebaser} \cup ({"start", "observe", "read"} \X Insts)

Unpublished == [parent |-> 0, task |-> 0, by |-> None]
NoPart == [role |-> "none", n |-> 0, base |-> 0, rev |-> 0, bundle |-> Unpublished, done |-> FALSE]
NoSaga == [state |-> "NONE", mode |-> "none", project |-> 0, receipt |-> FALSE,
           part |-> [i \in Insts |-> NoPart]]
NoDraft == [status |-> "NONE", n |-> 0, rev |-> 0, task |-> 0, mode |-> "none", project |-> 0,
            scope |-> {}, bases |-> [i \in Insts |-> <<0, 0>>]]
Idle == [pc |-> "idle", p |-> None, i |-> None, copy |-> NoSaga,
         seen |-> [project |-> 0, n |-> 0], left |-> {}, back |-> "idle"]

Finished == {"NONE", "APPLIED", "FAILED"}
Unfinished(p) == saga[p].state \notin Finished
Running(t, label) == mode # "down" /\ th[t].pc = label
Go(t, label) == th' = [th EXCEPT ![t].pc = label]
Followers(p) == {q \in scene.asked : Follows[q] = p}
Leave(t) ==
  /\ th' = [th EXCEPT ![t] = Idle]
  /\ lock' = IF lock = t THEN None ELSE lock
  /\ gate' = [i \in Insts |-> IF gate[i] = t THEN None ELSE gate[i]]
\* What a call that raises leaves alone.
Raise(t) == Leave(t) /\ UNCHANGED <<sys, store, inst, agent, draft, saga, control>>
Locks == <<lock, gate>>

\* instance_has_launch_evidence, instance_has_process_evidence
Accepted(i) == inst[i].status # "READY"
Launched(i) == inst[i].status \in {"RUNNING", "ENDED"}
Unstarted == {i \in Insts : ~Accepted(i)}
Candidates(i) == Unstarted \ {i}
Identity(i) == <<cfg[i].n, cfg[i].rev>>
Published(i) == {r \in 1..MaxRev : revs[i][r] # Unpublished}
NextRevision(i) == 1 + Max(Published(i) \cup {cfg[i].rev})
Involved(p) == {i \in Insts : saga[p].part[i].role # "none"}
Pending(i) == {p \in Props : Target[p] = i /\ Unfinished(p)}
PendingOrSynced(i) == {p \in Props : i \in Involved(p) /\ Unfinished(p)}
ApplyMode(i) == IF Accepted(i) THEN "safe_checkpoint_branch" ELSE "before_start"
OnBaseline(i) == cfg[i].rev # 0 /\ revs[i][cfg[i].rev].task = task.rev

\* The process still approves the models and providers that changes select.
Approved == sys \notin scene.withdrawn

-----------------------------------------------------------------------------
(* The revision stores.                                                    *)

\* build_revision: a child of the current revision, on the current baseline.
Bundle(i, by) == [parent |-> cfg[i].rev, task |-> task.rev, by |-> by]

\* publish_immutable_directory: a revision appears whole, or its replay is identical.
CanPublish(i, r, bundle) == revs[i][r] \in {Unpublished, bundle}
Publish(i, r, bundle) == revs' = [revs EXCEPT ![i][r] = bundle]

\* set_current
CanPoint(i, n, r) == cfg[i].n = n /\ revs[i][r].parent = cfg[i].rev
Point(i, r) == cfg' = [cfg EXCEPT ![i] = [rev |-> r, pending |-> 0, n |-> @.n + 1]]

\* Mutant: the projection loses its revision.
ProjectNothing(i, r) == inst' = [inst EXCEPT ![i].proj = None]

\* _update_instance_config_revision, which gives up after a lock timeout.
Project(i, r) == inst' = [inst EXCEPT ![i].proj = r]
ProjectFails(t, label) ==
  /\ Running(t, label) /\ faults < scene.faults /\ crashes + faults < MaxTrouble
  /\ faults' = faults + 1
  /\ Leave(t)
  /\ UNCHANGED <<sys, store, inst, agent, draft, saga, scene, mode, todo, crashes>>

\* clear_pending, for every pointer of the saga.
ClearPending(p) ==
  cfg' = [i \in Insts |->
            IF cfg[i].pending # 0 /\ cfg[i].pending = saga[p].part[i].rev
            THEN [cfg[i] EXCEPT !.pending = 0, !.n = @ + 1] ELSE cfg[i]]

\* materialize: the first revision of an instance, in two writes.
Materialize(i) ==
  LET t == Reader(i) IN
  /\ mode # "down" /\ th[t].pc = "idle" /\ cfg[i].rev = 0
  /\ CanPublish(i, 1, Unpublished)
  /\ Publish(i, 1, Bundle(i, None))
  /\ Go(t, "materialize")
  /\ UNCHANGED <<sys, baseline, task, review, cfg, inst, agent, draft, saga, Locks, control>>

MaterializePoint(i) ==
  LET t == Reader(i) IN
  /\ Running(t, "materialize")
  /\ Point(i, 1)
  /\ Leave(t)
  /\ UNCHANGED <<sys, baseline, task, review, revs, inst, agent, draft, saga, control>>

-----------------------------------------------------------------------------
(* propose.                                                                *)

\* The revision the Agent reports with its workflow boundary.
Reported(i) == IF inst[i].status = "RUNNING" THEN agent[i].rev ELSE 0

Scope(p) == IF p \in Syncs THEN Candidates(Target[p]) ELSE {}

\* The caller's base and the Agent's boundary are read before the lock is taken.
Preview(p) ==
  LET i == Target[p] IN
  /\ \/ mode = "up" /\ th[p].pc = "idle" /\ Follows[p] = None
     \/ Running(p, "peer")
  /\ p \in scene.asked /\ draft[p].status = "NONE" /\ cfg[i].rev # 0
  /\ th' = [th EXCEPT ![p].pc = "propose", ![p].seen = [project |-> Reported(i), n |-> cfg[i].n]]
  /\ UNCHANGED <<sys, store, inst, agent, draft, saga, Locks, control>>

Proposable(p) ==
  LET i == Target[p] IN
  /\ PendingOrSynced(i) = {}
  /\ cfg[i].n = th[p].seen.n /\ OnBaseline(i) /\ Approved
  /\ inst[i].status # "ENDED"
  /\ \A j \in Scope(p) : cfg[j].rev # 0

Drafted(p) ==
  LET i == Target[p] IN
  [status |-> "DRAFT", n |-> cfg[i].n, rev |-> cfg[i].rev, task |-> task.rev,
   mode |-> ApplyMode(i), project |-> IF Accepted(i) THEN th[p].seen.project ELSE 0,
   scope |-> Scope(p),
   bases |-> [j \in Insts |-> IF j \in Scope(p) THEN Identity(j) ELSE <<0, 0>>]]

Propose(p) ==
  /\ Running(p, "propose") /\ lock = None
  /\ draft' = IF Proposable(p) THEN [draft EXCEPT ![p] = Drafted(p)] ELSE draft
  /\ th' = [th EXCEPT ![p] = [Idle EXCEPT !.pc = IF Follows[p] # None /\ Proposable(p) THEN "peer" ELSE "idle"]]
  /\ UNCHANGED <<sys, store, inst, agent, saga, Locks, control>>

-----------------------------------------------------------------------------
(* confirm.                                                                *)

\* A caller that had its answer does not ask again.
Unanswered == crashes + faults > 0

\* A call, a retry of it, the copy for a peer, or the recovery of an intent.
MayConfirm(p) ==
  /\ draft[p].status # "NONE" /\ lock = None
  /\ \/ /\ mode = "up" /\ th[p].pc = "idle" /\ Follows[p] = None
        /\ draft[p].status = "DRAFT" \/ Unanswered
     \/ Running(p, "peer")
     \/ Running(p, "recover") /\ saga[p].state = "INTENT_PERSISTED"

\* _validate_base, _validate_sync_scope and the checks around them.
Confirmable(p) ==
  LET i == Target[p] IN
  /\ Identity(i) = <<draft[p].n, draft[p].rev>>
  /\ p \in Syncs => Scope(p) = draft[p].scope
  /\ \A j \in draft[p].scope : Identity(j) = draft[p].bases[j]
  /\ draft[p].task = task.rev /\ Approved
  /\ inst[i].status # "ENDED" /\ draft[p].mode = ApplyMode(i)

Part(role, identity, i) ==
  [NoPart EXCEPT !.role = role, !.n = identity[1], !.base = identity[2], !.rev = NextRevision(i)]

NewSaga(p) ==
  [state |-> "INTENT_PERSISTED", mode |-> draft[p].mode, receipt |-> FALSE,
   project |-> IF draft[p].project # 0 THEN draft[p].project ELSE draft[p].rev,
   part |-> [i \in Insts |->
               CASE i = Target[p] -> Part("source", Identity(i), i)
                 [] i \in draft[p].scope -> Part("sync", draft[p].bases[i], i)
                 [] OTHER -> NoPart]]

ConfirmNew(p) ==
  /\ MayConfirm(p) /\ saga[p].state = "NONE" /\ Confirmable(p)
  /\ saga' = [saga EXCEPT ![p] = NewSaga(p)]
  /\ lock' = p /\ Go(p, "confirm")
  /\ UNCHANGED <<sys, store, inst, agent, draft, gate, control>>

\* The saga of an interrupted confirmation is found; its proposal is not marked.
ConfirmAgain(p) ==
  /\ MayConfirm(p) /\ saga[p].state # "NONE" /\ draft[p].status = "DRAFT"
  /\ lock' = p /\ Go(p, "confirm")
  /\ UNCHANGED <<sys, store, inst, agent, draft, saga, gate, control>>

\* The proposal is marked: the call only looks the saga up.
ConfirmReplay(p) ==
  /\ MayConfirm(p) /\ draft[p].status = "CONFIRMED" /\ saga[p].state # "FAILED"
  /\ saga' = [saga EXCEPT ![p].state = IF @ = "INTENT_PERSISTED" THEN "CONFIRMED" ELSE @]
  /\ th' = [th EXCEPT ![p] = [Idle EXCEPT !.pc = "fanout", !.left = Followers(p)]]
  /\ UNCHANGED <<sys, store, inst, agent, draft, Locks, control>>

\* A confirmation that raises ends the peer's call.
ConfirmRefused(p) ==
  /\ Running(p, "peer") /\ lock = None
  /\ \/ draft[p].status = "DRAFT" /\ saga[p].state = "NONE" /\ ~Confirmable(p)
     \/ saga[p].state = "FAILED"
     \/ cfg[Target[p]].rev = 0 /\ revs[Target[p]][1] # Unpublished /\ th[Reader(Target[p])].pc = "idle"
  /\ Raise(p)

MarkProposal(p) ==
  /\ Running(p, "confirm")
  /\ draft' = [draft EXCEPT ![p].status = "CONFIRMED"]
  /\ Go(p, "marked")
  /\ UNCHANGED <<sys, store, inst, agent, saga, Locks, control>>

\* A thread that is about to work on the local part of a saga, with its own copy.
Resuming(p, copy, back) ==
  [Idle EXCEPT !.pc = "sync", !.p = p, !.copy = copy, !.back = back,
               !.left = {i \in Insts : copy.part[i].role = "sync"}]

MarkSaga(p) ==
  /\ Running(p, "marked")
  /\ saga' = [saga EXCEPT ![p].state = "CONFIRMED"]
  /\ th' = [th EXCEPT ![p] = Resuming(p, saga'[p], "fanout")]
  /\ UNCHANGED <<sys, store, inst, agent, draft, Locks, control>>

\* _fan_out_to_peers: each peer is previewed and confirmed in turn.
PeersIdle(p) == \A q \in Followers(p) : th[q].pc = "idle"

FanOut(p) ==
  /\ Running(p, "fanout") /\ PeersIdle(p)
  /\ \E q \in th[p].left :
       th' = [th EXCEPT ![p].left = @ \ {q},
                        ![q].pc = IF inst[Target[q]].status = "ENDED" THEN "idle" ELSE "peer"]
  /\ UNCHANGED <<sys, store, inst, agent, draft, saga, Locks, control>>

FanOutEnds(p) ==
  /\ Running(p, "fanout") /\ PeersIdle(p) /\ th[p].left = {}
  /\ th' = [th EXCEPT ![p] = IF saga[p].state = "APPLIED" THEN Idle
                             ELSE [Idle EXCEPT !.pc = "apply", !.i = Target[p]]]
  /\ UNCHANGED <<sys, store, inst, agent, draft, saga, Locks, control>>

-----------------------------------------------------------------------------
(* Local targets: the sync targets of a saga, then its source if the saga  *)
(* was confirmed before the start.                                         *)

At(t) == IF th[t].pc = "sync" THEN CHOOSE i \in th[t].left : TRUE ELSE Target[th[t].p]
PartAt(t) == th[t].copy.part[th[t].i]
Save(t, copy) == saga' = [saga EXCEPT ![th[t].p] = copy]

\* The call goes on where the local part was asked for.
Finish(t) ==
  /\ th' = [th EXCEPT ![t] = [Idle EXCEPT !.pc = th[t].back,
                               !.left = IF th[t].back = "fanout" THEN Followers(t) ELSE {},
                               !.seen = th[t].seen]]
  /\ lock' = IF lock = t THEN None ELSE lock
  /\ gate' = gate

\* _complete_local_saga follows the source, which is the last target.
FinishTarget(t, i, copy, written) ==
  IF copy.part[i].role = "sync"
  THEN /\ th' = [th EXCEPT ![t].pc = "sync", ![t].left = @ \ {i}, ![t].copy = copy]
       /\ saga' = [saga EXCEPT ![th[t].p] = IF written THEN copy ELSE @]
       /\ UNCHANGED Locks
  ELSE Save(t, [copy EXCEPT !.state = "APPLIED"]) /\ Finish(t)

Resumes(t) == Running(t, "source") \/ (Running(t, "sync") /\ th[t].left # {})
AlreadyAt(t) == cfg[At(t)].rev = th[t].copy.part[At(t)].rev
Applied(t) == th[t].copy.part[At(t)].done
Refused(t) ==
  \/ Launched(At(t))
  \/ Identity(At(t)) # <<th[t].copy.part[At(t)].n, th[t].copy.part[At(t)].base>>
  \/ th[t].copy.part[At(t)].bundle = Unpublished /\ ~Approved

TargetApplied(t) ==
  LET i == At(t) IN
  /\ Resumes(t) /\ (Applied(t) \/ AlreadyAt(t)) = TRUE
  /\ IF Applied(t) THEN inst' = inst ELSE Project(i, cfg[i].rev)
  /\ FinishTarget(t, i, [th[t].copy EXCEPT !.part[i].done = TRUE], FALSE)
  /\ UNCHANGED <<sys, store, agent, draft, control>>

TargetRefused(t) ==
  /\ Resumes(t) /\ ~Applied(t) /\ ~AlreadyAt(t) /\ Refused(t)
  /\ Raise(t)

TargetBuild(t) ==
  LET i == At(t)
      part == th[t].copy.part[i]
      bundle == IF part.bundle = Unpublished THEN Bundle(i, th[t].p) ELSE part.bundle
      copy == [th[t].copy EXCEPT !.part[i].bundle = bundle] IN
  /\ Resumes(t) /\ ~Applied(t) /\ ~AlreadyAt(t) /\ ~Refused(t)
  /\ saga' = IF part.bundle = Unpublished THEN [saga EXCEPT ![th[t].p] = copy] ELSE saga
  /\ th' = [th EXCEPT ![t].pc = "publish", ![t].i = i, ![t].copy = copy]
  /\ UNCHANGED <<sys, store, inst, agent, draft, Locks, control>>

\* Immutable revisions are published before a pointer moves.
LocalPublish(t) ==
  LET i == th[t].i
      part == PartAt(t) IN
  /\ Running(t, "publish")
  /\ CanPublish(i, part.rev, part.bundle)
  /\ Publish(i, part.rev, part.bundle)
  /\ Go(t, "point")
  /\ UNCHANGED <<sys, baseline, task, review, cfg, inst, agent, draft, saga, Locks, control>>

LocalPoint(t) ==
  LET i == th[t].i IN
  /\ Running(t, "point") /\ CanPoint(i, PartAt(t).n, PartAt(t).rev)
  /\ Point(i, PartAt(t).rev)
  /\ Go(t, "project")
  /\ UNCHANGED <<sys, baseline, task, review, revs, inst, agent, draft, saga, Locks, control>>

LocalPointRefused(t) ==
  /\ Running(t, "point") /\ ~CanPoint(th[t].i, PartAt(t).n, PartAt(t).rev)
  /\ Raise(t)

LocalProject(t) ==
  LET i == th[t].i IN
  /\ Running(t, "project")
  /\ Project(i, PartAt(t).rev)
  /\ FinishTarget(t, i, [th[t].copy EXCEPT !.part[i].done = TRUE], TRUE)
  /\ UNCHANGED <<sys, store, agent, draft, control>>

\* The copy is written back after the sync targets, however old it is.
SyncDone(t) ==
  LET p == th[t].p
      own == th[t].copy.mode = "before_start" /\ t \notin {Starter(i) : i \in Insts \ {Target[p]}} IN
  /\ Running(t, "sync") /\ th[t].left = {}
  /\ Save(t, th[t].copy)
  /\ IF own THEN Go(t, "source") /\ UNCHANGED Locks ELSE Finish(t)
  /\ UNCHANGED <<sys, store, inst, agent, draft, control>>

Local(t) ==
  \/ TargetApplied(t) \/ TargetRefused(t) \/ TargetBuild(t) \/ LocalPublish(t)
  \/ LocalPoint(t) \/ LocalPointRefused(t) \/ LocalProject(t) \/ SyncDone(t)

-----------------------------------------------------------------------------
(* apply_pending_if_safe: after a confirmation, at every observation of a  *)
(* running instance and at a restart.                                      *)

\* Mutant: only the confirmation applies a change, no observation does.
MayApplyOnce(t, i) == Running(t, "apply") /\ th[t].i = i

MayApply(t, i) ==
  \/ Running(t, "apply") /\ th[t].i = i
  \/ t = Observer(i) /\ mode = "up" /\ th[t].pc = "idle" /\ inst[i].status = "RUNNING"

\* The unfinished saga is looked up without a lock; two of them are an error.
ApplyLook(t, i) ==
  /\ MayApply(t, i) /\ Cardinality(Pending(i)) = 1
  /\ \E p \in Pending(i) :
       /\ saga[p].state # "INTENT_PERSISTED"
       /\ th' = [th EXCEPT ![t] = IF saga[p].mode = "before_start"
                                 THEN [Resuming(p, saga[p], "idle") EXCEPT !.pc = "await"]
                                 ELSE [Idle EXCEPT !.pc = "gate", !.p = p, !.i = i]]
  /\ UNCHANGED <<sys, store, inst, agent, draft, saga, Locks, control>>

ApplyNothing(t, i) ==
  /\ Running(t, "apply") /\ th[t].i = i
  /\ Cardinality(Pending(i)) = 1 => \A p \in Pending(i) : saga[p].state = "INTENT_PERSISTED"
  /\ Raise(t)

ApplyLocal(t) ==
  /\ Running(t, "await") /\ lock = None
  /\ lock' = t /\ Go(t, "sync")
  /\ UNCHANGED <<sys, store, inst, agent, draft, saga, gate, control>>

\* The gate is taken, the saga read again and the Agent's boundary polled.
AtGate(t) == Running(t, "gate") /\ gate[th[t].i] = None
Safe(i) == inst[i].status = "RUNNING" /\ agent[i].safe
Expected(t) == Reported(th[t].i) \in {0, saga[th[t].p].project}

GateFinished(t) == AtGate(t) /\ ~Unfinished(th[t].p) /\ Raise(t)

\* _fail_saga
FailSaga(t, copy) ==
  /\ ClearPending(th[t].p)
  /\ Save(t, [copy EXCEPT !.state = "FAILED"])
  /\ Leave(t)
  /\ UNCHANGED <<sys, baseline, task, review, revs, inst, draft>>

GateFails(t) ==
  /\ AtGate(t) /\ Unfinished(th[t].p)
  /\ inst[th[t].i].status = "ENDED" \/ (Safe(th[t].i) /\ ~Expected(t))
  /\ FailSaga(t, saga[th[t].p])
  /\ UNCHANGED <<agent, control>>

\* _wait_at_safe_point
WaitAtSafePoint(t, copy) ==
  /\ Save(t, [copy EXCEPT !.state = "WAITING_SAFE_POINT"])
  /\ Leave(t)
  /\ UNCHANGED <<sys, store, inst, draft>>

GateWaits(t) ==
  /\ AtGate(t) /\ Unfinished(th[t].p) /\ inst[th[t].i].status # "ENDED" /\ ~Safe(th[t].i)
  /\ WaitAtSafePoint(t, saga[th[t].p])
  /\ UNCHANGED <<agent, control>>

\* build_revision finds that the change is no longer approved: the observation
\* fails, and so does the next one.
Unbuildable(p) == saga[p].part[Target[p]].bundle = Unpublished /\ ~Approved

GateUnapproved(t) ==
  /\ AtGate(t) /\ Unfinished(th[t].p) /\ Safe(th[t].i) /\ Expected(t)
  /\ Unbuildable(th[t].p)
  /\ Raise(t)

GateOpens(t) ==
  LET i == th[t].i
      p == th[t].p
      part == saga[p].part[i]
      bundle == IF part.bundle = Unpublished THEN Bundle(i, p) ELSE part.bundle
      copy == [saga[p] EXCEPT !.part[i].bundle = bundle] IN
  /\ AtGate(t) /\ Unfinished(p) /\ Safe(i) /\ Expected(t) /\ ~Unbuildable(p)
  /\ saga' = [saga EXCEPT ![p] = copy]
  /\ gate' = [gate EXCEPT ![i] = t]
  /\ th' = [th EXCEPT ![t].pc = "stage", ![t].copy = copy]
  /\ UNCHANGED <<sys, store, inst, agent, draft, lock, control>>

\* The revision is published and made the pending one: publish_revision, set_pending.
CanPend(i, r) == cfg[i].rev = r \/ cfg[i].pending \in {0, r}

Stage(t) ==
  LET i == th[t].i
      r == PartAt(t).rev
      copy == IF th[t].copy.state \in {"CONFIRMED", "WAITING_SAFE_POINT"}
              THEN [th[t].copy EXCEPT !.state = "MATERIALIZED"] ELSE th[t].copy IN
  /\ Running(t, "stage")
  /\ CanPublish(i, r, PartAt(t).bundle) /\ CanPend(i, r) = TRUE
  /\ Publish(i, r, PartAt(t).bundle)
  /\ cfg' = IF r \in {cfg[i].rev, cfg[i].pending} THEN cfg
            ELSE [cfg EXCEPT ![i].pending = r, ![i].n = @ + 1]
  /\ Save(t, copy)
  /\ th' = [th EXCEPT ![t].pc = IF copy.receipt THEN "commit" ELSE "call", ![t].copy = copy]
  /\ UNCHANGED <<sys, baseline, task, review, inst, agent, draft, Locks, control>>

\* apply_runtime_revision: the Agent branches once for a key, at a safe point.
\* The gate keeps its project at the revision the boundary was checked for.
Known(t) == th[t].p \in agent[th[t].i].keys
Branches(t) ==
  LET i == th[t].i IN
  /\ Safe(i)
  /\ Known(t) \/ agent[i].rev = th[t].copy.project
Branched(t) ==
  agent' = [agent EXCEPT ![th[t].i].rev = IF Known(t) THEN @ ELSE PartAt(t).rev,
                         ![th[t].i].keys = @ \cup {th[t].p}]

CallAnswered(t) ==
  /\ Running(t, "call") /\ Branches(t)
  /\ Branched(t)
  /\ Go(t, "receipt")
  /\ UNCHANGED <<sys, store, inst, draft, saga, Locks, control>>

CallLost(t) ==
  /\ Running(t, "call") /\ Branches(t) /\ faults < scene.faults /\ crashes + faults < MaxTrouble
  /\ Branched(t)
  /\ faults' = faults + 1
  /\ WaitAtSafePoint(t, th[t].copy)
  /\ UNCHANGED <<scene, mode, todo, crashes>>

CallTooLate(t) ==
  /\ Running(t, "call") /\ ~Safe(th[t].i)
  /\ WaitAtSafePoint(t, th[t].copy)
  /\ UNCHANGED <<agent, control>>

KeepReceipt(t) ==
  LET copy == [th[t].copy EXCEPT !.receipt = TRUE, !.state = "CHILD_BRANCH_CREATED"] IN
  /\ Running(t, "receipt")
  /\ Save(t, copy)
  /\ th' = [th EXCEPT ![t].pc = "commit", ![t].copy = copy]
  /\ UNCHANGED <<sys, store, inst, agent, draft, Locks, control>>

\* The application receipt is recorded, then the pointer moves.
CanCommit(t) == cfg[th[t].i].rev = revs[th[t].i][PartAt(t).rev].parent

\* Mutant: the receipt is recorded and the pointer stays.
CommitReceiptOnly(t) ==
  LET copy == [th[t].copy EXCEPT !.state = "INSTANCE_POINTER_COMMITTED"] IN
  /\ Running(t, "commit") /\ CanCommit(t)
  /\ Save(t, copy)
  /\ th' = [th EXCEPT ![t].pc = "finish", ![t].copy = copy]
  /\ UNCHANGED <<sys, store, inst, agent, draft, Locks, control>>

CommitPointer(t) ==
  LET i == th[t].i
      r == PartAt(t).rev
      copy == [th[t].copy EXCEPT !.state = "INSTANCE_POINTER_COMMITTED"] IN
  /\ Running(t, "commit") /\ CanCommit(t)
  /\ Point(i, r)
  /\ Save(t, copy)
  /\ th' = [th EXCEPT ![t].pc = "finish", ![t].copy = copy]
  /\ UNCHANGED <<sys, baseline, task, review, revs, inst, agent, draft, Locks, control>>

FinishSaga(t) ==
  /\ Running(t, "finish")
  /\ Project(th[t].i, PartAt(t).rev)
  /\ Save(t, [th[t].copy EXCEPT !.state = "APPLIED"])
  /\ Leave(t)
  /\ UNCHANGED <<sys, store, agent, draft, control>>

Apply(t) ==
  \/ \E i \in Insts : ApplyLook(t, i) \/ ApplyNothing(t, i)
  \/ ApplyLocal(t) \/ GateFinished(t) \/ GateFails(t) \/ GateWaits(t) \/ GateUnapproved(t) \/ GateOpens(t)
  \/ Stage(t) \/ CallAnswered(t) \/ CallTooLate(t) \/ KeepReceipt(t)
  \/ CommitPointer(t) \/ FinishSaga(t)

-----------------------------------------------------------------------------
(* The defaults of the system and the rebase of an unstarted task.         *)

\* A publication keeps the model list; a restart reads it again (see Restart).
PublishDefaults ==
  /\ mode = "up" /\ sys < scene.defaults /\ sys + 1 \notin scene.withdrawn
  /\ sys' = sys + 1
  /\ UNCHANGED <<store, inst, agent, draft, saga, Locks, th, control>>

Frozen == task.locked \/ \E i \in Insts : Accepted(i)
Overridden(i) == cfg[i].rev # 0 /\ revs[i][cfg[i].rev].by \in Props
\* Defaults that no longer approve what an instance overrides.
InConflict == ~Approved /\ \E i \in Unstarted : Overridden(i)
Behind == baseline[task.rev] # sys

Rebases == mode = "up" /\ th[Rebaser].pc = "idle" /\ lock = None /\ scene.defaults > 1

\* _preflight_overrides finds an override that is no longer approved.
RebaseReview ==
  /\ Rebases
  /\ ~Frozen /\ InConflict
  /\ review' = TRUE
  /\ UNCHANGED <<sys, baseline, task, revs, cfg, inst, agent, draft, saga, Locks, th, control>>

\* A task revision is published before the task's state names it.
RebaseTask ==
  /\ Rebases
  /\ ~Frozen /\ ~InConflict
  /\ Behind => baseline[task.rev + 1] = 0
  /\ baseline' = IF Behind THEN [baseline EXCEPT ![task.rev + 1] = sys] ELSE baseline
  /\ lock' = Rebaser
  /\ th' = [th EXCEPT ![Rebaser] = [Idle EXCEPT !.pc = IF Behind THEN "baseline" ELSE "rebase",
                                              !.left = Unstarted]]
  /\ UNCHANGED <<sys, task, review, revs, cfg, inst, agent, draft, saga, gate, control>>

RebaseState ==
  /\ Running(Rebaser, "baseline")
  /\ task' = [task EXCEPT !.rev = @ + 1]
  /\ Go(Rebaser, "rebase")
  /\ UNCHANGED <<sys, baseline, review, revs, cfg, inst, agent, draft, saga, Locks, control>>

RebaseAt == CHOOSE i \in th[Rebaser].left : TRUE
RebaseNext(i) == th' = [th EXCEPT ![Rebaser].pc = "rebase", ![Rebaser].left = @ \ {i}]

\* _reconcile_instance_projection, for an instance that is on the baseline.
RebaseSkip ==
  LET i == RebaseAt IN
  /\ Running(Rebaser, "rebase") /\ th[Rebaser].left # {}
  /\ OnBaseline(i)
  /\ Project(i, cfg[i].rev)
  /\ RebaseNext(i)
  /\ UNCHANGED <<sys, store, agent, draft, saga, Locks, control>>

CanRebase(i) == cfg[i].pending = 0 /\ revs[i][cfg[i].rev + 1] = Unpublished
\* A first revision is made under a lock that readers take too.
Rebasable(i) == ~OnBaseline(i) /\ (cfg[i].rev = 0 => th[Reader(i)].pc = "idle")
Overrides(i) == IF cfg[i].rev = 0 THEN None ELSE revs[i][cfg[i].rev].by

RebasePublish ==
  LET i == RebaseAt IN
  /\ Running(Rebaser, "rebase") /\ th[Rebaser].left # {}
  /\ Rebasable(i) /\ CanRebase(i)
  /\ Publish(i, cfg[i].rev + 1, Bundle(i, Overrides(i)))
  /\ Go(Rebaser, "repoint")
  /\ UNCHANGED <<sys, baseline, task, review, cfg, inst, agent, draft, saga, Locks, control>>

RebaseRefused ==
  LET i == RebaseAt IN
  /\ Running(Rebaser, "rebase") /\ th[Rebaser].left # {}
  /\ Rebasable(i) /\ ~CanRebase(i)
  /\ Raise(Rebaser)

RebasePoint ==
  LET i == RebaseAt IN
  /\ Running(Rebaser, "repoint")
  /\ Point(i, cfg[i].rev + 1)
  /\ Project(i, cfg[i].rev + 1)
  /\ RebaseNext(i)
  /\ UNCHANGED <<sys, baseline, task, review, revs, agent, draft, saga, Locks, control>>

RebaseDone ==
  /\ Running(Rebaser, "rebase") /\ th[Rebaser].left = {}
  /\ review' = FALSE
  /\ Leave(Rebaser)
  /\ UNCHANGED <<sys, baseline, task, revs, cfg, inst, agent, draft, saga, control>>

Rebase ==
  \/ RebaseReview \/ RebaseTask \/ RebaseState \/ RebaseSkip \/ RebasePublish
  \/ RebaseRefused \/ RebasePoint \/ RebaseDone

-----------------------------------------------------------------------------
(* The start of an instance.                                               *)

\* The intent is durable before the baseline is frozen.
AcceptStart(i) ==
  /\ mode = "up" /\ th[Starter(i)].pc = "idle" /\ lock = None
  /\ inst[i].status = "READY" /\ i \in scene.startable
  /\ inst' = [inst EXCEPT ![i].status = "ACCEPTED"]
  /\ lock' = Starter(i) /\ Go(Starter(i), "freeze")
  /\ UNCHANGED <<sys, store, agent, draft, saga, gate, control>>

\* lock_for_start
FreezeBaseline(i) ==
  /\ Running(Starter(i), "freeze")
  /\ task' = [task EXCEPT !.locked = TRUE]
  /\ Leave(Starter(i))
  /\ UNCHANGED <<sys, baseline, review, revs, cfg, inst, agent, draft, saga, control>>

\* _resume_instance_operation: the worker does not hold the task lock.
Work(i) ==
  /\ mode = "up" /\ th[Starter(i)].pc = "idle" /\ inst[i].status = "ACCEPTED"
  /\ task' = [task EXCEPT !.locked = TRUE]
  /\ Go(Starter(i), "ensure")
  /\ UNCHANGED <<sys, baseline, review, revs, cfg, inst, agent, draft, saga, Locks, control>>


\* ensure_before_start_locked
ToEnsure(i) ==
  {p \in PendingOrSynced(i) :
     \/ Target[p] = i /\ saga[p].mode = "before_start"
     \/ \E j \in Insts : saga[p].part[j].role = "sync" /\ ~saga[p].part[j].done}

Ensure(i) ==
  LET t == Starter(i) IN
  /\ Running(t, "ensure")
  /\ \A p \in PendingOrSynced(i) : saga[p].state # "INTENT_PERSISTED"
  /\ \E p \in ToEnsure(i) : th' = [th EXCEPT ![t] = Resuming(p, saga[p], "ensure")]
  /\ UNCHANGED <<sys, store, inst, agent, draft, saga, Locks, control>>

EnsureRefused(i) ==
  /\ Running(Starter(i), "ensure")
  /\ \E p \in PendingOrSynced(i) : saga[p].state = "INTENT_PERSISTED"
  /\ Raise(Starter(i))

\* resolve_launch: the revision the process will be given, on the task's defaults.
Launchable(i) == baseline[revs[i][cfg[i].rev].task] = baseline[task.rev]

Prepare(i) ==
  LET t == Starter(i) IN
  /\ Running(t, "ensure") /\ ToEnsure(i) = {} /\ cfg[i].rev # 0
  /\ Launchable(i)
  /\ th' = [th EXCEPT ![t] = [Idle EXCEPT !.pc = "launch", !.seen.n = cfg[i].rev]]
  /\ UNCHANGED <<sys, store, inst, agent, draft, saga, Locks, control>>

PrepareRefused(i) ==
  LET t == Starter(i) IN
  /\ Running(t, "ensure") /\ ToEnsure(i) = {} /\ cfg[i].rev # 0
  /\ ~Launchable(i)
  /\ Raise(t)

Launch(i) ==
  LET t == Starter(i) IN
  /\ Running(t, "launch")
  /\ inst' = [inst EXCEPT ![i].status = "RUNNING"]
  /\ agent' = [agent EXCEPT ![i].rev = th[t].seen.n]
  /\ Leave(t)
  /\ UNCHANGED <<sys, store, draft, saga, control>>

Start(i) ==
  \/ AcceptStart(i) \/ FreezeBaseline(i) \/ Work(i) \/ Ensure(i) \/ EnsureRefused(i)
  \/ Prepare(i) \/ PrepareRefused(i) \/ Launch(i)

-----------------------------------------------------------------------------
(* The Agent.                                                              *)

\* It reaches a checkpoint with no job, transaction or open model call.
AgentSettles(i) ==
  /\ inst[i].status = "RUNNING" /\ ~agent[i].safe /\ i \in scene.runs
  /\ agent' = [agent EXCEPT ![i].safe = TRUE]
  /\ UNCHANGED <<sys, store, inst, draft, saga, Locks, th, control>>

AgentWorks(i) ==
  /\ Safe(i) /\ agent[i].steps < scene.steps
  /\ agent' = [agent EXCEPT ![i].safe = FALSE, ![i].steps = @ + 1]

\* An approval advances it unless settings are pending (assert_no_pending_advance).
Advance(i) ==
  /\ mode = "up" /\ lock = None /\ Pending(i) = {}
  /\ AgentWorks(i)
  /\ UNCHANGED <<sys, store, inst, draft, saga, Locks, th, control>>

\* Its workbench advances it at any time.
AdvanceInWorkbench(i) ==
  /\ AgentWorks(i)
  /\ UNCHANGED <<sys, store, inst, draft, saga, Locks, th, control>>

AgentEnds(i) ==
  /\ mode = "up" /\ inst[i].status = "RUNNING" /\ i \in scene.runs
  /\ inst' = [inst EXCEPT ![i].status = "ENDED"]
  /\ UNCHANGED <<sys, store, agent, draft, saga, Locks, th, control>>

-----------------------------------------------------------------------------
(* Crash and restart.                                                      *)

Crash ==
  /\ mode # "down" /\ crashes < scene.crashes /\ crashes + faults < MaxTrouble
  /\ mode' = "down" /\ crashes' = crashes + 1 /\ todo' = {}
  /\ lock' = None /\ gate' = [i \in Insts |-> None]
  /\ th' = [t \in Threads |-> Idle]
  /\ UNCHANGED <<sys, store, inst, agent, draft, saga, scene, faults>>

\* The configuration files may have changed, and approve less.
Restart ==
  /\ mode = "down"
  /\ mode' = "recovering" /\ todo' = {p \in Props : Unfinished(p)}
  /\ sys' \in {sys} \cup ({sys + 1} \cap scene.withdrawn)
  /\ UNCHANGED <<store, inst, agent, draft, saga, Locks, th, scene, crashes, faults>>

\* recover: one saga after the other; an error of one is only reported.
Quiet == \A t \in Threads : th[t].pc = "idle"
RecoverNext(p) ==
  /\ mode = "recovering" /\ Quiet /\ p \in todo
  /\ todo' = todo \ {p}
  /\ th' = IF Unfinished(p)
           THEN [th EXCEPT ![p].pc = IF saga[p].state = "INTENT_PERSISTED" THEN "recover" ELSE "apply",
                           ![p].i = Target[p]]
           ELSE th
  /\ UNCHANGED <<sys, store, inst, agent, draft, saga, Locks, scene, mode, crashes, faults>>

RecoverDone ==
  /\ mode = "recovering" /\ Quiet /\ todo = {}
  /\ mode' = "up"
  /\ UNCHANGED <<sys, store, inst, agent, draft, saga, Locks, th, todo, scene, crashes, faults>>

-----------------------------------------------------------------------------
Calls(p) ==
  \/ Preview(p) \/ Propose(p) \/ ConfirmNew(p) \/ ConfirmAgain(p) \/ ConfirmReplay(p)
  \/ ConfirmRefused(p) \/ MarkProposal(p) \/ MarkSaga(p) \/ FanOut(p) \/ FanOutEnds(p)

Faulty(t) == ProjectFails(t, "project") \/ ProjectFails(t, "finish") \/ CallLost(t)

World(i) == AgentSettles(i) \/ Advance(i) \/ AdvanceInWorkbench(i) \/ AgentEnds(i)

Init ==
  /\ scene \in Scenes
  /\ sys = 1
  /\ baseline = [r \in 1..MaxDefaults |-> IF r = 1 THEN 1 ELSE 0]
  /\ task = [rev |-> 1, locked |-> FALSE] /\ review = FALSE
  /\ revs = [i \in Insts |-> [r \in 1..MaxRev |->
               IF r = 1 /\ i \notin scene.fresh THEN [Unpublished EXCEPT !.task = 1] ELSE Unpublished]]
  /\ cfg = [i \in Insts |-> IF i \in scene.fresh THEN [rev |-> 0, pending |-> 0, n |-> 0]
                           ELSE [rev |-> 1, pending |-> 0, n |-> 1]]
  /\ inst = [i \in Insts |-> [status |-> "READY", proj |-> 0]]
  /\ agent = [i \in Insts |-> [rev |-> 0, safe |-> FALSE, keys |-> {}, steps |-> 0]]
  /\ draft = [p \in Props |-> NoDraft]
  /\ saga = [p \in Props |-> NoSaga]
  /\ lock = None /\ gate = [i \in Insts |-> None]
  /\ th = [t \in Threads |-> Idle]
  /\ mode = "up" /\ todo = {} /\ crashes = 0 /\ faults = 0

Next ==
  \/ \E p \in Props : Calls(p) \/ RecoverNext(p)
  \/ \E t \in Threads : Local(t) \/ Apply(t) \/ Faulty(t)
  \/ \E i \in Insts : Materialize(i) \/ MaterializePoint(i) \/ Start(i) \/ World(i)
  \/ Rebase \/ PublishDefaults
  \/ Crash \/ Restart \/ RecoverDone

\* A call that has begun goes on; nobody has to make one.
Progress ==
  \/ \E p \in Props : (th[p].pc # "idle" /\ Calls(p)) \/ RecoverNext(p)
  \/ \E t \in Threads : Local(t)
  \/ \E i \in Insts : Materialize(i) \/ MaterializePoint(i) \/ Work(i) \/ (th[Starter(i)].pc # "idle" /\ Start(i))
  \/ th[Rebaser].pc # "idle" /\ Rebase
  \/ Restart \/ RecoverDone

\* The settings of an instance are applied by its observer, which returns for
\* ever, or by a call for it; both wait for locks that are set free.
Applies(i) == \E t \in {p \in Props : Target[p] = i} \cup {Observer(i)} : Apply(t)

Fairness ==
  /\ WF_vars(Progress)
  /\ \A i \in Insts : WF_vars(AgentSettles(i)) /\ SF_vars(Applies(i))

Spec == Init /\ [][Next]_vars /\ Fairness

-----------------------------------------------------------------------------
(* Properties.                                                             *)

States == {"NONE", "INTENT_PERSISTED", "CONFIRMED", "WAITING_SAFE_POINT", "MATERIALIZED",
           "CHILD_BRANCH_CREATED", "INSTANCE_POINTER_COMMITTED", "APPLIED", "FAILED"}
RevIds == 0..MaxRev

\* The types of the variables (all of instance_runtime_settings.py).
TypeOK ==
  /\ sys \in 1..MaxDefaults /\ baseline \in [1..MaxDefaults -> 0..MaxDefaults]
  /\ task \in [rev : 1..MaxDefaults, locked : BOOLEAN] /\ review \in BOOLEAN
  /\ \A i \in Insts :
       /\ cfg[i].rev \in RevIds /\ cfg[i].pending \in RevIds /\ cfg[i].n \in Nat
       /\ inst[i] \in [status : {"READY", "ACCEPTED", "RUNNING", "ENDED"}, proj : RevIds]
       /\ agent[i].rev \in RevIds /\ agent[i].keys \subseteq Props
       /\ \A r \in 1..MaxRev : revs[i][r].by \in Props \cup {None}
  /\ \A p \in Props : saga[p].state \in States /\ draft[p].status \in {"NONE", "DRAFT", "CONFIRMED"}
  /\ lock \in Threads \cup {None} /\ gate \in [Insts -> Threads \cup {None}]
  /\ mode \in {"up", "down", "recovering"} /\ todo \subseteq Props

\* The Agent of a running instance works with the revision its pointer names,
\* or with one of a change that is on its way or was given up.
AgentFollowsPointer ==
  \A i \in Insts : inst[i].status = "RUNNING" =>
    \/ agent[i].rev = cfg[i].rev
    \/ \E p \in Props : /\ Target[p] = i /\ saga[p].part[i].rev = agent[i].rev
                       /\ saga[p].state # "APPLIED"

\* A pending pointer belongs to a change that is still going on: one that has
\* failed leaves none behind, so the settings can be changed again.
PendingIsOwned ==
  \A i \in Insts : cfg[i].pending # 0 =>
    \E p \in Pending(i) : saga[p].part[i].rev = cfg[i].pending

\* A revision that a change was given is taken, before it is built, by a later
\* confirmation or by a rebase that carries the earlier overrides on.
Sharing(p, i) == {q \in Props : i \in Involved(q) /\ saga[q].part[i].rev = saga[p].part[i].rev}
Taken(p, i, bundle) ==
  /\ saga[p].part[i].bundle = Unpublished
  /\ bundle.by \in Sharing(p, i) \/ (bundle.parent # 0 /\ bundle.by = revs[i][bundle.parent].by)

\* The instance has reached the revision of p, which is as p built it or was taken.
Reached(p, i) ==
  LET part == saga[p].part[i]
      bundle == revs[i][part.rev] IN
  /\ cfg[i].rev >= part.rev
  /\ bundle = part.bundle \/ Taken(p, i, bundle)

\* A change that is reported applied reached its source; one that was confirmed
\* before the start reached every sync target too.
AppliedReachesAll ==
  \A p \in Props : saga[p].state = "APPLIED" =>
    \A i \in IF saga[p].mode = "before_start" THEN Involved(p) ELSE {Target[p]} : Reached(p, i)

\* Agents, pending pointers and reports tell of the same revisions.
SettingsAgree == AgentFollowsPointer /\ PendingIsOwned /\ AppliedReachesAll

\* A process is launched with every change that was confirmed before its start
\* was accepted, and on the defaults its task is frozen at.
LaunchesAreCurrent ==
  [][\A i \in Insts : ~Launched(i) /\ Launched(i)' =>
       /\ agent'[i].rev = cfg[i].rev
       /\ baseline[revs[i][cfg[i].rev].task] = baseline[task.rev]
       /\ \A p \in Props :
            (saga[p].part[i].role = "sync" \/ (Target[p] = i /\ saga[p].mode = "before_start"))
              => Reached(p, i)]_vars

\* From the first accepted start on the task keeps its baseline.
BaselineIsFrozen == [][(\E i \in Insts : Accepted(i)) => task'.rev = task.rev]_vars


\* A change that waits for a running Agent that reaches safe points is applied or
\* given up while it runs, or two of them block each other, or it was not built
\* before its models lost their approval.
ChangesSettle ==
  \A p \in Props :
    (/\ saga[p].mode = "safe_checkpoint_branch" /\ Unfinished(p)
     /\ inst[Target[p]].status = "RUNNING" /\ Target[p] \in scene.runs)
      ~> (~Unfinished(p) \/ inst[Target[p]].status = "ENDED" \/ Cardinality(Pending(Target[p])) > 1
          \/ Unbuildable(p))

\* A change the Agent has carried out is not given up: the call is replayed
\* with its key.
CarriedOutIsKept ==
  \A p \in Props : saga[p].state = "FAILED" => p \notin agent[Target[p]].keys

=============================================================================
