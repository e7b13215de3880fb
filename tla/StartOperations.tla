--------------------------- MODULE StartOperations ---------------------------
(***************************************************************************)
(* How the agents of a confirmed task get their processes: the durable     *)
(* start operations of services/application.py and application_planning.py *)
(* with their runner thread, the process supervisor (supervisor.py) and    *)
(* its monitor, cancellation and startup reconciliation                    *)
(* (supervisor_lifecycle.py).                                              *)
(*                                                                         *)
(* One task is modelled; it stays active and its gates are open (module    *)
(* TaskAggregate has both).  The files are the intents, the launch records *)
(* and, of an instance, its status and its process projection; each write  *)
(* is a step, and the control process may die between any two.  The agent  *)
(* processes outlive it.  The runner, the monitor, the observer and an     *)
(* operator's cancellation run concurrently; _start, the monitor and the   *)
(* cancellation hold the lock of their instance.                           *)
(*                                                                         *)
(* Left out: the task lock, which only separates acceptance from           *)
(* cancellation; ports; timestamps, so that any of several operations may  *)
(* be the one updated last; the migration of old intents.                  *)
(***************************************************************************)
EXTENDS Integers, Sequences

CONSTANTS
  Instances,    \* agent instances of the task
  Ops,          \* operation ids
  Order,        \* the operations in the order of sorted(intent_root.glob(...))
  Kind,         \* [Ops -> OpKinds]
  Targets,      \* [Ops -> SUBSET Instances]
  None,
  MaxAttempts,  \* _MAX_INSTANCE_START_ATTEMPTS; also bounds the retries of a batch
  MaxTroubles   \* bound on crashes, dying agents, refused starts, lost answers and lost races

OpKinds == {"START_READY_INSTANCES", "START_INSTANCE", "RESTART_INSTANCE"}

ASSUME ConstAssumption ==
  /\ Order \in Seq(Ops)
  /\ \A o \in Ops : \E n \in 1..Len(Order) : Order[n] = o
  /\ Kind \in [Ops -> OpKinds]
  /\ Targets \in [Ops -> SUBSET Instances]
  /\ None \notin Instances \cup Ops \cup {"runner", "monitor", "cancel"}
  /\ MaxAttempts \in Nat \ {0} /\ MaxTroubles \in Nat

VARIABLES
  mode,       \* "up", "down" or "reconciling"
  status,     \* status of an instance
  proc,       \* its process projection: [launch, state]
  intent,     \* state of an operation, "NONE" before it is accepted
  progress,   \* instance_progress: [state, attempt, stage] per operation and instance
  rec,        \* launch records: [state, pid]
  os,         \* the operating system's view of a launch
  used,       \* idempotency keys of transitions that may be asked for twice
  projects,   \* instances whose project exists at the agent
  known,      \* instances whose adapter state holds a job id
  lock,       \* _instance_thread_lock
  run,        \* the runner, with its copy of the attempt: [pc, op, i, a, prev, reused, keep, old]
  cursor,     \* its position in Order
  swept,      \* _instance_start_reconciled
  mon,        \* the monitor or reconciliation: [pc, launch]
  cancel,     \* the cancellation in progress: [pc, i, launch]
  todo,       \* launches reconcile() still has to handle
  seen,       \* active_instances of reconcile()
  troubles    \* crashes and faults so far

intents == <<intent, progress>>
agents == <<os, projects, known>>
lifecycle == <<mode, todo, seen>>
runner == <<run, cursor, swept>>
vars == <<lifecycle, status, proc, intents, rec, agents, used, lock, runner, mon, cancel, troubles>>

-----------------------------------------------------------------------------
Launches == Ops \X Instances \X (1..MaxAttempts)
NoProcess == [launch |-> None, state |-> "NONE"]
NoRecord == [state |-> "NONE", pid |-> FALSE]
NoRun == [pc |-> "idle", op |-> None, i |-> None, a |-> 0, prev |-> "NONE", reused |-> FALSE,
          keep |-> FALSE, old |-> None]
NoMon == [pc |-> "idle", launch |-> None]
NoCancel == [pc |-> "idle", i |-> None, launch |-> None]
Fresh == [state |-> "PENDING", attempt |-> 0, stage |-> "NONE"]

Batch(o) == Kind[o] = "START_READY_INSTANCES"
Restart(o) == Kind[o] = "RESTART_INSTANCE"

\* The transitions of an agent instance among the statuses modelled.
Catalog ==
  [READY |-> {"STARTING", "FAILED_TO_START", "CANCELLED"},
   STARTING |-> {"RUNNING", "FAILED_TO_START", "CRASHED", "CANCELLED"},
   RUNNING |-> {"WAITING_APPROVAL", "FAILED_TO_START", "FAILED", "CRASHED", "CANCELLED"},
   WAITING_APPROVAL |-> {"RUNNING", "FAILED", "CANCELLED"},
   FAILED_TO_START |-> {"READY", "STARTING", "CANCELLED"},
   FAILED |-> {"READY", "STARTING", "CANCELLED"},
   CRASHED |-> {"READY", "STARTING", "CANCELLED"},
   CANCELLED |-> {}]

Active(l) == rec[l].state \in {"PREPARED", "STARTING", "RUNNING"}
Of(i) == {l \in Launches : l[2] = i}
ActiveOf(i) == {l \in Of(i) : Active(l)}
Live(l) == os[l] \in {"spawned", "alive", "ready"}

\* transition_instance under an idempotency key: a known request is replayed, another
\* request under the key is a conflict, and the catalog decides on a new one.
Request(key, i, target) == [key |-> key, i |-> i, target |-> target]
Raises(key, i, target) ==
  /\ Request(key, i, target) \notin used
  /\ (\E u \in used : u.key = key) \/ target \notin Catalog[status[i]]
Transition(key, i, target) ==
  /\ ~Raises(key, i, target)
  /\ status' = IF Request(key, i, target) \in used THEN status ELSE [status EXCEPT ![i] = target]
  /\ used' = used \cup {Request(key, i, target)}

\* ProcessSupervisor._transition.  Keys that carry a launch id are used once and are
\* not remembered here.
Move(i, target) ==
  /\ status' = [status EXCEPT ![i] = target]
  /\ used' = used

-----------------------------------------------------------------------------
(* Clients: _prepare_instance_operation, confirm_and_start_ready_instances *)
(* and retry_start_operation.                                              *)

Restartable == {"RUNNING", "WAITING_APPROVAL", "FAILED_TO_START", "FAILED", "CRASHED"}
Pending(o) == intent[o] \in {"QUEUED", "RUNNING"}
Rivals(o) == {r \in Ops : r # o /\ ~Batch(r) /\ Targets[r] = Targets[o] /\ Pending(r)}

Accept(o) ==
  /\ mode = "up"
  /\ intent[o] = "NONE"
  /\ Batch(o) \/ Rivals(o) = {}
  /\ \A i \in Targets[o] : status[i] \in IF Restart(o) THEN Restartable ELSE {"READY"}
  /\ intent' = [intent EXCEPT ![o] = "QUEUED"]
  /\ UNCHANGED <<lifecycle, status, proc, progress, rec, agents, used, lock, runner, mon, cancel, troubles>>

\* Another retry is one more attempt, whatever happened to the instance since.
Retried(p) ==
  IF p.state = "RETRYABLE_FAILED" THEN [p EXCEPT !.state = "PENDING", !.attempt = @ + 1] ELSE p

\* The limit of an instance operation; a batch has none and is bounded here.
RetryUnlimited(o) == TRUE
RetryAllowed(o) == \A i \in Targets[o] : progress[o][i].attempt < MaxAttempts
Retry(o) ==
  /\ mode = "up"
  /\ intent[o] = "RETRYABLE_FAILED"
  /\ RetryAllowed(o)
  /\ intent' = [intent EXCEPT ![o] = "QUEUED"]
  /\ progress' = [progress EXCEPT ![o] = [i \in Instances |-> Retried(progress[o][i])]]
  /\ UNCHANGED <<lifecycle, status, proc, rec, agents, used, lock, runner, mon, cancel, troubles>>

-----------------------------------------------------------------------------
(* The runner: _run_pending_starts.                                        *)

Trouble == troubles < MaxTroubles /\ troubles' = troubles + 1
GoOn(label) == run' = [run EXCEPT !.pc = label]

\* The runner turns to an instance of an operation with the progress it has read.
Take(o, i) ==
  LET n == progress[o][i].attempt IN
  run' = [NoRun EXCEPT !.pc = "prepare", !.op = o, !.i = i, !.a = IF n = 0 THEN 1 ELSE n]

\* The first scan after a start supersedes all but one unfinished operation of an
\* instance.
Open(i) == {o \in Ops : /\ ~Batch(o) /\ Targets[o] = {i}
                        /\ intent[o] \in {"QUEUED", "RUNNING", "RETRYABLE_FAILED"}}
Supersede ==
  /\ mode = "up"
  /\ ~swept
  /\ \E newest \in [Instances -> Ops] :
       /\ \A i \in Instances : Open(i) # {} => newest[i] \in Open(i)
       /\ intent' = [o \in Ops |-> IF \E i \in Instances : o \in Open(i) \ {newest[i]}
                                   THEN "SUPERSEDED" ELSE intent[o]]
  /\ swept' = TRUE
  /\ UNCHANGED <<lifecycle, status, proc, progress, rec, agents, used, lock, run, cursor, mon, cancel, troubles>>

Resumable == {n \in cursor..Len(Order) : Pending(Order[n])}

\* The next pending intent in file order is claimed.
Claim ==
  /\ mode = "up"
  /\ swept
  /\ run.pc = "idle"
  /\ \E n \in Resumable :
       /\ \A m \in Resumable : n <= m
       /\ cursor' = n
       /\ intent' = [intent EXCEPT ![Order[n]] = "RUNNING"]
       /\ IF Batch(Order[n])
          THEN run' = [NoRun EXCEPT !.pc = "batch", !.op = Order[n]]
          ELSE \E i \in Targets[Order[n]] : Take(Order[n], i)
  /\ UNCHANGED <<lifecycle, status, proc, progress, rec, agents, used, lock, swept, mon, cancel, troubles>>

\* The end of a pass; the runner sleeps and starts over.
Rescan ==
  /\ mode = "up"
  /\ swept
  /\ run.pc = "idle"
  /\ Resumable = {}
  /\ cursor # 1
  /\ cursor' = 1
  /\ UNCHANGED <<lifecycle, status, proc, intents, rec, agents, used, lock, run, swept, mon, cancel, troubles>>

Finished == run' = NoRun /\ cursor' = cursor + 1

\* An exception that leaves _run_pending_starts ends the pass.
Escaped == run' = NoRun /\ cursor' = 1

-----------------------------------------------------------------------------
(* _resume_start: the targets of a batch, one after the other.             *)

BatchInstance ==
  /\ mode = "up"
  /\ run.pc = "batch"
  /\ \E i \in Targets[run.op] :
       /\ progress[run.op][i].state # "RUNNING"
       /\ IF status[i] = "CANCELLED"
          THEN Escaped
          ELSE Take(run.op, i) /\ cursor' = cursor
  /\ UNCHANGED <<lifecycle, status, proc, intents, rec, agents, used, lock, swept, mon, cancel, troubles>>

BatchDone ==
  /\ mode = "up"
  /\ run.pc = "batch"
  /\ \A i \in Targets[run.op] : progress[run.op][i].state = "RUNNING"
  /\ intent' = [intent EXCEPT ![run.op] = "COMMITTED"]
  /\ Finished
  /\ UNCHANGED <<lifecycle, status, proc, progress, rec, agents, used, lock, swept, mon, cancel, troubles>>

-----------------------------------------------------------------------------
(* _record_start_failure, and the errors that lead to it.                  *)

Exhausted == ~Batch(run.op) /\ run.a >= MaxAttempts

\* The intent first; retryable says whether the error code is one to retry.
FailedQueuedAgain(retryable) == IF retryable THEN "QUEUED" ELSE "ABORTED"
FailedState(retryable) == IF retryable /\ ~Exhausted THEN "RETRYABLE_FAILED" ELSE "ABORTED"
FailedAs(retryable) ==
  LET new == FailedState(retryable) IN
  /\ intent' = [intent EXCEPT ![run.op] = new]
  /\ progress' = [progress EXCEPT ![run.op][run.i] = [@ EXCEPT !.state = new, !.attempt = run.a]]
  /\ run' = [run EXCEPT !.pc = "failed", !.prev = "NONE", !.reused = FALSE, !.keep = FALSE]

\* Then the instance, unless a restart left its process running.
KeptRunning ==
  /\ Restart(run.op)
  /\ status[run.i] \in {"RUNNING", "WAITING_APPROVAL"}
  /\ proc[run.i].state = "RUNNING"
FailureKey == <<"start-failed", run.op, run.a>>
Degrades == status[run.i] \in {"READY", "STARTING", "RUNNING"} /\ ~KeptRunning
RecordFailure ==
  /\ mode = "up"
  /\ run.pc = "failed"
  /\ IF Degrades
     THEN IF Raises(FailureKey, run.i, "FAILED_TO_START")
          THEN Escaped /\ UNCHANGED <<status, used>>
          ELSE Transition(FailureKey, run.i, "FAILED_TO_START") /\ Finished
     ELSE Finished /\ UNCHANGED <<status, used>>
  /\ UNCHANGED <<lifecycle, proc, intents, rec, agents, lock, swept, mon, cancel, troubles>>

-----------------------------------------------------------------------------
(* _resume_start_instance up to the launch.                                *)

\* The attempt number, and _restore_startable_instance for a start.
ReadyKey == <<"start-retry-ready", run.op, run.a>>
Restores == ~Restart(run.op) /\ status[run.i] = "FAILED_TO_START"
Prepare ==
  /\ mode = "up"
  /\ run.pc = "prepare"
  /\ IF Restores /\ Raises(ReadyKey, run.i, "READY")
     THEN FailedAs(FALSE) /\ UNCHANGED <<status, used>>
     ELSE /\ progress' = [progress EXCEPT ![run.op][run.i].attempt = run.a]
          /\ run' = [run EXCEPT !.pc = "decide", !.prev = progress[run.op][run.i].stage]
          /\ intent' = intent
          /\ IF Restores THEN Transition(ReadyKey, run.i, "READY") ELSE UNCHANGED <<status, used>>
  /\ UNCHANGED <<lifecycle, proc, rec, agents, lock, cursor, swept, mon, cancel, troubles>>

\* The adapter or the task card refuses, or the runtime cannot be prepared.
PrepareFails ==
  /\ mode = "up"
  /\ run.pc = "decide"
  /\ Trouble
  /\ \E retryable \in BOOLEAN : FailedAs(retryable)
  /\ UNCHANGED <<lifecycle, status, proc, rec, agents, used, lock, cursor, swept, mon, cancel>>

\* A process that runs according to the projection is used again.
Reuses == proc[run.i].state = "RUNNING" /\ (~Restart(run.op) \/ run.prev # "NONE")
ReuseKey(word) == <<word, run.op, run.i, run.a>>
Reuse ==
  /\ mode = "up"
  /\ run.pc = "decide"
  /\ Reuses
  /\ IF status[run.i] = "READY"
     THEN Transition(ReuseKey("reused-starting"), run.i, "STARTING")
     ELSE UNCHANGED <<status, used>>
  /\ run' = [run EXCEPT !.pc = "process", !.reused = TRUE]
  /\ UNCHANGED <<lifecycle, proc, intents, rec, agents, lock, cursor, swept, mon, cancel, troubles>>

Launch == <<run.op, run.i, run.a>>

\* start_instance or restart_instance gets the lock: the launch of this attempt exists
\* already, and is only of use when it runs.
LaunchExists ==
  /\ mode = "up"
  /\ run.pc = "decide"
  /\ ~Reuses
  /\ lock[run.i] = None
  /\ rec[Launch].state # "NONE"
  /\ IF rec[Launch].state = "RUNNING"
     THEN GoOn("process") /\ UNCHANGED intents
     ELSE FailedAs(TRUE)
  /\ UNCHANGED <<lifecycle, status, proc, rec, agents, used, lock, cursor, swept, mon, cancel, troubles>>

\* _validate_start_eligibility, on the status.
Eligible == status[run.i] \in {"READY", "FAILED_TO_START", "FAILED", "CRASHED"}
Preserves == Restart(run.op) /\ status[run.i] \in {"RUNNING", "WAITING_APPROVAL"}

\* A start does not replace an active launch.
OccupiedNever == FALSE
Occupied == ~Restart(run.op) /\ ActiveOf(run.i) # {}
StartRefused ==
  /\ mode = "up"
  /\ run.pc = "decide"
  /\ ~Reuses
  /\ lock[run.i] = None
  /\ rec[Launch].state = "NONE"
  /\ Occupied
  /\ FailedAs(TRUE)
  /\ UNCHANGED <<lifecycle, status, proc, rec, agents, used, lock, cursor, swept, mon, cancel, troubles>>

\* The lock is taken for the whole start; a restart first stops what runs.
BeginStart ==
  /\ mode = "up"
  /\ run.pc = "decide"
  /\ ~Reuses
  /\ lock[run.i] = None
  /\ rec[Launch].state = "NONE"
  /\ ~Occupied
  /\ lock' = [lock EXCEPT ![run.i] = "runner"]
  /\ run' = [run EXCEPT !.keep = Preserves,
                      !.pc = IF Restart(run.op) /\ ActiveOf(run.i) # {} THEN "stop" ELSE "start"]
  /\ UNCHANGED <<lifecycle, status, proc, intents, rec, agents, used, cursor, swept, mon, cancel, troubles>>

-----------------------------------------------------------------------------
(* Stopping a launch: _stop_launch and _handle_unexpected_exit.            *)

\* The process tree is terminated if its pid is known, then the record is closed.
Killed(l) == IF rec[l].pid /\ Live(l) THEN [os EXCEPT ![l] = "dead"] ELSE os
CloseRecord(l, state) ==
  /\ os' = Killed(l)
  /\ rec' = [rec EXCEPT ![l].state = state]
  /\ UNCHANGED <<projects, known>>

\* _write_process_projection: a record without a pid clears the projection.
Project(l, state) ==
  proc' = [proc EXCEPT ![l[2]] = IF rec[l].pid THEN [launch |-> l, state |-> state] ELSE NoProcess]

RestartStops ==
  /\ mode = "up"
  /\ run.pc = "stop"
  /\ \E l \in ActiveOf(run.i) :
       /\ CloseRecord(l, "EXITED")
       /\ run' = [run EXCEPT !.pc = "stopped", !.old = l]
  /\ UNCHANGED <<lifecycle, status, proc, intents, used, lock, cursor, swept, mon, cancel, troubles>>

RestartProjects ==
  /\ mode = "up"
  /\ run.pc = "stopped"
  /\ Project(run.old, "EXITED")
  /\ run' = [run EXCEPT !.pc = "start", !.old = None]
  /\ UNCHANGED <<lifecycle, status, intents, rec, agents, used, lock, cursor, swept, mon, cancel, troubles>>

-----------------------------------------------------------------------------
(* ProcessSupervisor._start, under the lock of the instance.               *)

Unlock == lock' = [lock EXCEPT ![run.i] = None]

\* The status does not admit a start.
StartIneligible ==
  /\ mode = "up"
  /\ run.pc = "start"
  /\ ~run.keep
  /\ ~Eligible
  /\ FailedAs(FALSE)
  /\ Unlock
  /\ UNCHANGED <<lifecycle, status, proc, rec, agents, used, cursor, swept, mon, cancel, troubles>>

\* No configuration or no free port: nothing is written.
StartUnprepared ==
  /\ mode = "up"
  /\ run.pc = "start"
  /\ run.keep \/ Eligible
  /\ Trouble
  /\ FailedAs(TRUE)
  /\ Unlock
  /\ UNCHANGED <<lifecycle, status, proc, rec, agents, used, cursor, swept, mon, cancel>>

WriteRecord ==
  /\ mode = "up"
  /\ run.pc = "start"
  /\ run.keep \/ Eligible
  /\ rec' = [rec EXCEPT ![Launch].state = "PREPARED"]
  /\ GoOn("prepared")
  /\ UNCHANGED <<lifecycle, status, proc, intents, agents, used, lock, cursor, swept, mon, cancel, troubles>>

MoveToStarting ==
  /\ mode = "up"
  /\ run.pc = "prepared"
  /\ IF run.keep THEN UNCHANGED <<status, used>> ELSE Move(run.i, "STARTING")
  /\ GoOn("spawn")
  /\ UNCHANGED <<lifecycle, proc, intents, rec, agents, lock, cursor, swept, mon, cancel, troubles>>

Spawn ==
  /\ mode = "up"
  /\ run.pc = "spawn"
  /\ os' = [os EXCEPT ![Launch] = "spawned"]
  /\ GoOn("spawned")
  /\ UNCHANGED <<lifecycle, status, proc, intents, rec, projects, known, used, lock, cursor, swept, mon, cancel, troubles>>

\* The wrapper's identity is persisted immediately.
RecordPid ==
  /\ mode = "up"
  /\ run.pc = "spawned"
  /\ Live(Launch)
  /\ rec' = [rec EXCEPT ![Launch] = [state |-> "STARTING", pid |-> TRUE]]
  /\ GoOn("recorded")
  /\ UNCHANGED <<lifecycle, status, proc, intents, agents, used, lock, cursor, swept, mon, cancel, troubles>>

ProjectStarting ==
  /\ mode = "up"
  /\ run.pc = "recorded"
  /\ Project(Launch, "STARTING")
  /\ GoOn("waiting")
  /\ UNCHANGED <<lifecycle, status, intents, rec, agents, used, lock, cursor, swept, mon, cancel, troubles>>

ProbeReady ==
  /\ mode = "up"
  /\ run.pc = "waiting"
  /\ os[Launch] = "ready"
  /\ rec' = [rec EXCEPT ![Launch].state = "RUNNING"]
  /\ GoOn("ready")
  /\ UNCHANGED <<lifecycle, status, proc, intents, agents, used, lock, cursor, swept, mon, cancel, troubles>>

ProjectRunning ==
  /\ mode = "up"
  /\ run.pc = "ready"
  /\ Project(Launch, "RUNNING")
  /\ GoOn("readied")
  /\ UNCHANGED <<lifecycle, status, intents, rec, agents, used, lock, cursor, swept, mon, cancel, troubles>>

MoveToRunning ==
  /\ mode = "up"
  /\ run.pc = "readied"
  /\ run.keep \/ status[run.i] # "FAILED"
  /\ IF run.keep THEN UNCHANGED <<status, used>> ELSE Move(run.i, "RUNNING")
  /\ run' = [run EXCEPT !.pc = "process", !.keep = FALSE]
  /\ Unlock
  /\ UNCHANGED <<lifecycle, proc, intents, rec, agents, cursor, swept, mon, cancel, troubles>>

\* The wrapper cannot be spawned, the process died before it was ready,
\* startup_timeout_seconds have passed, or the observer got ahead.
StartFails ==
  /\ mode = "up"
  /\ \/ run.pc = "spawn"
     \/ run.pc = "spawned" /\ ~Live(Launch)
     \/ run.pc = "waiting" /\ os[Launch] # "ready"
     \/ run.pc = "readied" /\ ~run.keep /\ status[run.i] = "FAILED"
  /\ CloseRecord(Launch, "FAILED_TO_START")
  /\ GoOn("startFailed")
  /\ UNCHANGED <<lifecycle, status, proc, intents, used, lock, cursor, swept, mon, cancel, troubles>>

ProjectFailed ==
  /\ mode = "up"
  /\ run.pc = "startFailed"
  /\ Project(Launch, "EXITED")
  /\ GoOn("startFailed2")
  /\ UNCHANGED <<lifecycle, status, intents, rec, agents, used, lock, cursor, swept, mon, cancel, troubles>>

MoveToFailed ==
  LET target == IF run.keep THEN "FAILED" ELSE "FAILED_TO_START" IN
  /\ mode = "up"
  /\ run.pc = "startFailed2"
  /\ IF target \in Catalog[status[run.i]] \cup {status[run.i]}
     THEN Move(run.i, target) /\ FailedAs(TRUE)
     ELSE FailedAs(FALSE) /\ UNCHANGED <<status, used>>
  /\ Unlock
  /\ UNCHANGED <<lifecycle, proc, rec, agents, cursor, swept, mon, cancel, troubles>>

-----------------------------------------------------------------------------
(* _resume_start_instance behind the launch: the agent's own job.          *)

Stage(stage) == progress' = [progress EXCEPT ![run.op][run.i].stage = stage]

Persisted ==
  /\ mode = "up"
  /\ run.pc = "process"
  /\ Stage("PROCESS_PERSISTED")
  /\ GoOn("agent")
  /\ UNCHANGED <<lifecycle, status, proc, intent, rec, agents, used, lock, cursor, swept, mon, cancel, troubles>>

Answers(i) == proc[i].state = "RUNNING" /\ os[proc[i].launch] = "ready"
Requested == run.prev \in {"AGENT_REQUESTED", "AGENT_ACCEPTED"}

\* adapter.recover: nothing is left to do for an instance that is not live any more, or
\* whose job is known and can be asked.
Recovered ==
  \/ status[run.i] \notin {"STARTING", "RUNNING", "WAITING_APPROVAL"}
  \/ run.i \in known /\ Answers(run.i)

RecoverJob ==
  /\ mode = "up"
  /\ run.pc = "agent"
  /\ Requested
  /\ Recovered
  /\ GoOn("accept")
  /\ UNCHANGED <<lifecycle, status, proc, intents, rec, agents, used, lock, cursor, swept, mon, cancel, troubles>>

\* The question itself fails.
RecoverFails ==
  /\ mode = "up"
  /\ run.pc = "agent"
  /\ Requested
  /\ ~Recovered
  /\ run.i \in known
  /\ FailedAs(TRUE)
  /\ UNCHANGED <<lifecycle, status, proc, rec, agents, used, lock, cursor, swept, mon, cancel, troubles>>

AnnounceRequest ==
  /\ mode = "up"
  /\ run.pc = "agent"
  /\ ~Requested \/ (~Recovered /\ run.i \notin known)
  /\ Stage("AGENT_REQUESTED")
  /\ GoOn("request")
  /\ UNCHANGED <<lifecycle, status, proc, intent, rec, agents, used, lock, cursor, swept, mon, cancel, troubles>>

\* The POST of the job, under the attempt id.
PostJob ==
  /\ mode = "up"
  /\ run.pc = "request"
  /\ Answers(run.i)
  /\ projects' = projects \cup {run.i}
  /\ GoOn("posted")
  /\ UNCHANGED <<lifecycle, status, proc, intents, rec, os, known, used, lock, cursor, swept, mon, cancel, troubles>>

\* The agent does not answer, or its answer is lost.
PostFails ==
  /\ mode = "up"
  /\ \/ run.pc = "request" /\ ~Answers(run.i) /\ troubles' = troubles
     \/ run.pc = "posted" /\ Trouble
  /\ FailedAs(TRUE)
  /\ UNCHANGED <<lifecycle, status, proc, rec, agents, used, lock, cursor, swept, mon, cancel>>

JobAccepted ==
  /\ mode = "up"
  /\ run.pc = "posted"
  /\ known' = known \cup {run.i}
  /\ GoOn("accept")
  /\ UNCHANGED <<lifecycle, status, proc, intents, rec, os, projects, used, lock, cursor, swept, mon, cancel, troubles>>

\* A reused process makes the instance RUNNING here; then the progress is written.
AcceptJob ==
  /\ mode = "up"
  /\ run.pc = "accept"
  /\ IF run.reused /\ status[run.i] = "STARTING"
     THEN Transition(ReuseKey("reused-running"), run.i, "RUNNING")
     ELSE UNCHANGED <<status, used>>
  /\ progress' = [progress EXCEPT ![run.op][run.i] = [@ EXCEPT !.state = "RUNNING",
                                                              !.stage = "AGENT_ACCEPTED"]]
  /\ GoOn(IF Batch(run.op) THEN "batch" ELSE "commit")
  /\ UNCHANGED <<lifecycle, proc, intent, rec, agents, lock, cursor, swept, mon, cancel, troubles>>

CommitOperation ==
  /\ mode = "up"
  /\ run.pc = "commit"
  /\ intent' = [intent EXCEPT ![run.op] = "COMMITTED"]
  /\ Finished
  /\ UNCHANGED <<lifecycle, status, proc, progress, rec, agents, used, lock, swept, mon, cancel, troubles>>

\* A transition of the runner names the revision it has just read; a command of another
\* thread that lands in between makes it fail, for good.
Transitions ==
  \/ run.pc = "prepare" /\ Restores
  \/ run.pc = "decide" /\ Reuses /\ status[run.i] = "READY"
  \/ run.pc = "accept" /\ run.reused /\ status[run.i] = "STARTING"
RevisionConflict ==
  /\ mode = "up"
  /\ Transitions
  /\ Trouble
  /\ FailedAs(FALSE)
  /\ UNCHANGED <<lifecycle, status, proc, rec, agents, used, lock, cursor, swept, mon, cancel>>

FailureConflict ==
  /\ mode = "up"
  /\ run.pc = "failed"
  /\ Degrades
  /\ Trouble
  /\ Escaped
  /\ UNCHANGED <<lifecycle, status, proc, intents, rec, agents, used, lock, swept, mon, cancel>>

-----------------------------------------------------------------------------
(* monitor_once, and reconcile() at startup, which handles every active    *)
(* launch in the same way before any other thread runs.                    *)

\* The launch may be examined now.
Examined(l) ==
  /\ mon.pc = "idle"
  /\ \/ mode = "up" /\ lock[l[2]] = None /\ rec[l].state \in {"STARTING", "RUNNING"}
     \/ mode = "reconciling" /\ l \in todo

AdoptableReady(l) == rec[l].state = "PREPARED" /\ os[l] = "ready"
Adoptable(l) == rec[l].state = "PREPARED" /\ os[l] \in {"alive", "ready"}
Ready(l) == rec[l].state = "STARTING" /\ os[l] = "ready"
Gone(l) == ~(rec[l].pid /\ Live(l)) /\ ~Adoptable(l)

Supervise(label, l) ==
  /\ mon' = [pc |-> label, launch |-> l]
  /\ lock' = [lock EXCEPT ![l[2]] = "monitor"]

\* _hydrate_launch_identity: the handshake names a living wrapper.
Adopt(l) ==
  /\ Examined(l)
  /\ Adoptable(l)
  /\ rec' = [rec EXCEPT ![l] = [state |-> "STARTING", pid |-> TRUE]]
  /\ UNCHANGED <<lifecycle, status, proc, intents, agents, used, lock, runner, mon, cancel, troubles>>

\* reconcile() on a living process that is not to be promoted.
RestoreProjection(l) ==
  /\ mode = "reconciling"
  /\ Examined(l)
  /\ rec[l].pid /\ Live(l) /\ ~Ready(l)
  /\ Project(l, rec[l].state)
  /\ todo' = todo \ {l}
  /\ UNCHANGED <<mode, seen, status, intents, rec, agents, used, lock, runner, mon, cancel, troubles>>

\* _promote_ready.
Promote(l) ==
  /\ Examined(l)
  /\ Ready(l)
  /\ rec' = [rec EXCEPT ![l].state = "RUNNING"]
  /\ Supervise("promoted", l)
  /\ UNCHANGED <<lifecycle, status, proc, intents, agents, used, runner, cancel, troubles>>

\* _handle_unexpected_exit: the process is gone, or its health probe failed as often as
\* health_failure_threshold says.
HandleExit(l) ==
  /\ Examined(l)
  /\ \/ Gone(l) /\ troubles' = troubles
     \/ /\ mode = "up" /\ rec[l].state = "RUNNING" /\ ~Gone(l)
        /\ Trouble
  /\ CloseRecord(l, "EXITED")
  /\ Supervise("exited", l)
  /\ UNCHANGED <<lifecycle, status, proc, intents, used, runner, cancel>>

SuperviseProjects ==
  /\ mode # "down"
  /\ mon.pc \in {"promoted", "exited"}
  /\ Project(mon.launch, IF mon.pc = "promoted" THEN "RUNNING" ELSE "EXITED")
  /\ mon' = [mon EXCEPT !.pc = IF mon.pc = "promoted" THEN "promoted2" ELSE "exited2"]
  /\ UNCHANGED <<lifecycle, status, intents, rec, agents, used, lock, runner, cancel, troubles>>

\* What an exit makes of the status.
AfterExit ==
  [STARTING |-> "FAILED_TO_START", RUNNING |-> "CRASHED", WAITING_APPROVAL |-> "FAILED"]
SuperviseMoves ==
  LET i == mon.launch[2] IN
  /\ mode # "down"
  /\ mon.pc \in {"promoted2", "exited2"}
  /\ CASE mon.pc = "promoted2" /\ status[i] = "STARTING" -> Move(i, "RUNNING")
       [] mon.pc = "exited2" /\ status[i] \in DOMAIN AfterExit -> Move(i, AfterExit[status[i]])
       [] OTHER -> UNCHANGED <<status, used>>
  /\ mon' = NoMon
  /\ lock' = [lock EXCEPT ![i] = None]
  /\ todo' = todo \ {mon.launch}
  /\ UNCHANGED <<mode, seen, proc, intents, rec, agents, runner, cancel, troubles>>

-----------------------------------------------------------------------------
(* cancel_instance.                                                        *)

\* _active_launch_for_instance: what a cancellation has to stop.
Cancels(i) == ActiveOf(i)
CancelBegins(i) ==
  /\ mode = "up"
  /\ cancel.pc = "idle"
  /\ "CANCELLED" \in Catalog[status[i]]
  /\ lock[i] = None
  /\ lock' = [lock EXCEPT ![i] = "cancel"]
  /\ IF Cancels(i) = {}
     THEN cancel' = [pc |-> "move", i |-> i, launch |-> None] /\ UNCHANGED <<os, projects, known, rec>>
     ELSE \E l \in Cancels(i) :
            CloseRecord(l, "EXITED") /\ cancel' = [pc |-> "closed", i |-> i, launch |-> l]
  /\ UNCHANGED <<lifecycle, status, proc, intents, used, runner, mon, troubles>>

CancelProjects ==
  /\ mode = "up"
  /\ cancel.pc = "closed"
  /\ Project(cancel.launch, "EXITED")
  /\ cancel' = [cancel EXCEPT !.pc = "move"]
  /\ UNCHANGED <<lifecycle, status, intents, rec, agents, used, lock, runner, mon, troubles>>

CancelMoves ==
  /\ mode = "up"
  /\ cancel.pc = "move"
  /\ Move(cancel.i, "CANCELLED")
  /\ lock' = [lock EXCEPT ![cancel.i] = None]
  /\ cancel' = NoCancel
  /\ UNCHANGED <<lifecycle, proc, intents, rec, agents, runner, mon, troubles>>

-----------------------------------------------------------------------------
(* The observer, the agent processes and the control process.              *)

\* observe_instance projects what the agent answers, as far as the catalog allows.
Observe(i) ==
  /\ mode = "up"
  /\ Answers(i)
  /\ i \in projects
  /\ \E s \in {"RUNNING", "WAITING_APPROVAL", "FAILED"} :
       /\ status[i] \in {"STARTING", "RUNNING", "WAITING_APPROVAL"}
       /\ s \in Catalog[status[i]]
       /\ Move(i, s)
  /\ UNCHANGED <<lifecycle, proc, intents, rec, agents, lock, runner, mon, cancel, troubles>>

\* process_worker.py spawns the agent and writes its handshake; the agent gets ready.
AgentStep(l) ==
  /\ os[l] \in {"spawned", "alive"}
  /\ os' = [os EXCEPT ![l] = IF @ = "spawned" THEN "alive" ELSE "ready"]
  /\ UNCHANGED <<lifecycle, status, proc, intents, rec, projects, known, used, lock, runner, mon, cancel, troubles>>

AgentDies(l) ==
  /\ Live(l)
  /\ Trouble
  /\ os' = [os EXCEPT ![l] = "dead"]
  /\ UNCHANGED <<lifecycle, status, proc, intents, rec, projects, known, used, lock, runner, mon, cancel>>

Crash ==
  /\ mode # "down"
  /\ Trouble
  /\ mode' = "down"
  /\ todo' = {} /\ seen' = {}
  /\ lock' = [i \in Instances |-> None]
  /\ run' = NoRun /\ cursor' = 1 /\ swept' = FALSE
  /\ mon' = NoMon
  /\ cancel' = NoCancel
  /\ UNCHANGED <<status, proc, intents, rec, agents, used>>

StartReconcile ==
  /\ mode = "down"
  /\ mode' = "reconciling"
  /\ todo' = {l \in Launches : Active(l)}
  /\ seen' = {l[2] : l \in todo'}
  /\ UNCHANGED <<status, proc, intents, rec, agents, used, lock, runner, mon, cancel, troubles>>

\* A live status without any launch is a crash; the key names the instance only.
Vanished == {i \in Instances : status[i] \in {"STARTING", "RUNNING"} /\ i \notin seen}
ReconcileRequest(i) == Request(<<"reconcile", i>>, i, "CRASHED")
FinishReconcile ==
  /\ mode = "reconciling"
  /\ todo = {}
  /\ mon.pc = "idle"
  /\ mode' = "up"
  /\ status' = [i \in Instances |->
                  IF i \in Vanished /\ ReconcileRequest(i) \notin used THEN "CRASHED" ELSE status[i]]
  /\ used' = used \cup {ReconcileRequest(i) : i \in Vanished}
  /\ UNCHANGED <<todo, seen, proc, intents, rec, agents, lock, runner, mon, cancel, troubles>>

-----------------------------------------------------------------------------
Init ==
  /\ mode = "up" /\ todo = {} /\ seen = {}
  /\ status = [i \in Instances |-> "READY"]
  /\ proc = [i \in Instances |-> NoProcess]
  /\ intent = [o \in Ops |-> "NONE"]
  /\ progress = [o \in Ops |-> [i \in Instances |-> Fresh]]
  /\ rec = [l \in Launches |-> NoRecord]
  /\ os = [l \in Launches |-> "none"]
  /\ used = {} /\ projects = {} /\ known = {}
  /\ lock = [i \in Instances |-> None]
  /\ run = NoRun /\ cursor = 1 /\ swept = FALSE
  /\ mon = NoMon
  /\ cancel = NoCancel
  /\ troubles = 0

Run ==
  \/ Supersede \/ Claim \/ Rescan \/ BatchInstance \/ BatchDone \/ RecordFailure
  \/ Prepare \/ Reuse \/ LaunchExists \/ StartRefused \/ BeginStart
  \/ RestartStops \/ RestartProjects \/ StartIneligible
  \/ WriteRecord \/ MoveToStarting \/ Spawn \/ RecordPid \/ ProjectStarting
  \/ ProbeReady \/ ProjectRunning \/ MoveToRunning
  \/ StartFails \/ ProjectFailed \/ MoveToFailed
  \/ Persisted \/ RecoverJob \/ RecoverFails \/ AnnounceRequest
  \/ PostJob \/ PostFails \/ JobAccepted \/ AcceptJob \/ CommitOperation

Monitor ==
  \/ \E l \in Launches : Adopt(l) \/ RestoreProjection(l) \/ Promote(l) \/ HandleExit(l)
  \/ SuperviseProjects \/ SuperviseMoves

Cancel == CancelProjects \/ CancelMoves

Restarting == StartReconcile \/ FinishReconcile

Next ==
  \/ \E o \in Ops : Accept(o) \/ Retry(o)
  \/ Run \/ PrepareFails \/ StartUnprepared \/ RevisionConflict \/ FailureConflict
  \/ Monitor
  \/ \E i \in Instances : CancelBegins(i) \/ Observe(i)
  \/ Cancel
  \/ \E l \in Launches : AgentStep(l) \/ AgentDies(l)
  \/ Crash
  \/ Restarting

Spec == Init /\ [][Next]_vars

\* The runner, the monitor and a cancellation keep running; the service manager starts
\* the control process again.
FairSpec ==
  /\ Spec
  /\ WF_vars(Run)
  /\ WF_vars(Monitor)
  /\ WF_vars(Cancel)
  /\ WF_vars(Restarting)

-----------------------------------------------------------------------------
(* Properties.                                                             *)

Statuses == DOMAIN Catalog
Stages == {"NONE", "PROCESS_PERSISTED", "AGENT_REQUESTED", "AGENT_ACCEPTED"}

\* The types of the files and of the threads.
TypeOK ==
  /\ mode \in {"up", "down", "reconciling"}
  /\ status \in [Instances -> Statuses]
  /\ proc \in [Instances -> [launch : Launches, state : {"STARTING", "RUNNING", "EXITED"}] \cup {NoProcess}]
  /\ intent \in [Ops -> {"NONE", "QUEUED", "RUNNING", "RETRYABLE_FAILED", "ABORTED", "COMMITTED", "SUPERSEDED"}]
  /\ progress \in [Ops -> [Instances -> [state : {"PENDING", "RUNNING", "RETRYABLE_FAILED", "ABORTED"},
                                         attempt : 0..MaxAttempts, stage : Stages]]]
  /\ rec \in [Launches -> [state : {"NONE", "PREPARED", "STARTING", "RUNNING", "EXITED", "FAILED_TO_START"},
                           pid : BOOLEAN]]
  /\ os \in [Launches -> {"none", "spawned", "alive", "ready", "dead"}]
  /\ projects \subseteq Instances
  /\ known \subseteq Instances
  /\ lock \in [Instances -> {None, "runner", "monitor", "cancel"}]
  /\ cursor \in 1..(Len(Order) + 1)

\* Nothing is under way for an instance.
Quiet(i) == mode = "up" /\ lock[i] = None /\ run.i # i

\* An instance never has two active launch records, over starts, restarts, retries of
\* several operations, crashes and adoption.
OneActiveLaunch == \A l, m \in Launches : Active(l) /\ Active(m) /\ l[2] = m[2] => l = m

\* A process whose pid was recorded does not outlive its launch record: whoever closes
\* the record has stopped the process before.
RecordedProcessesAreOwned == \A l \in Launches : rec[l].pid /\ Live(l) => Active(l)

\* A cancelled instance has no launch, whichever operation was queued or under way.
CancelledIsDown == \A i \in Instances : Quiet(i) /\ status[i] = "CANCELLED" => ActiveOf(i) = {}

\* The three together: whatever starts, fails, is cancelled or restarted in between, a launch
\* has one owner and a process has a launch.
LaunchesAreOwned == OneActiveLaunch /\ RecordedProcessesAreOwned /\ CancelledIsDown

\* A restart of the control process gives up no agent whose wrapper has shaken hands,
\* whether or not its pid was recorded before the crash.
RestartKeepsAgents ==
  [][mode = "reconciling" =>
       \A l \in Launches : Active(l) /\ os[l] \in {"alive", "ready"} => Active(l)']_vars

\* An operation sorted after an open batch with a cancelled target is out of the runner's reach:
\* the batch raises and ends the pass.
Starved(o) ==
  \E m, n \in 1..Len(Order) :
    /\ m < n /\ Order[n] = o
    /\ Batch(Order[m]) /\ Pending(Order[m])
    /\ \E i \in Targets[Order[m]] : status[i] = "CANCELLED"

\* _run_pending_starts: every accepted operation on a single instance comes to an end, unless it
\* starves; the batch itself may stay open.
OperationsEnd == \A o \in {p \in Ops : ~Batch(p)} : Pending(o) ~> ~Pending(o) \/ Starved(o)
=============================================================================
