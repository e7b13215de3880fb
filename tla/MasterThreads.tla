---------------------------- MODULE MasterThreads ----------------------------
(***************************************************************************)
(* The permanent Master thread of one task (services/master_threads.py),   *)
(* the durable planning runs behind it (services/master_orchestrator.py)   *)
(* and the confirmation of a plan through the application service.         *)
(*                                                                         *)
(* Every operation of the service runs under the command lock of the task  *)
(* (the "guard"), and is a sequence of separate durable writes; the model  *)
(* has one step per write, so that a lock-free reader, a crash or another  *)
(* lock holder can fall between any two of them.  Only one operation holds *)
(* the guard at a time: it is the record "work".  The model call of a run  *)
(* (execute_run) is made without the guard.  A confirmation also takes the *)
(* application lock of the task while it holds the guard; application      *)
(* operations take the two locks in the other order, and only the timeout  *)
(* of FileLock parts them.                                                 *)
(*                                                                         *)
(* Left out: message texts and sequence numbers, asset references, the     *)
(* cards themselves (a card edit is a new proposal), a plan that comes     *)
(* without a title (it skips ApplyTitle), the tool rounds of a model call, *)
(* which end in one of the three outcomes of a run, and the task statuses  *)
(* that answer a save and a start as another one does.                     *)
(***************************************************************************)
EXTENDS Naturals, FiniteSets

CONSTANTS
    Intake,              \* the message the submitted intake seeds
    Users,               \* later messages of the user
    Edits,               \* idempotency keys of task-card revisions
    MaxClarifications,   \* runtime.yaml: master.max_clarification_questions
    Misfits,             \* plans that partly overlap a plan on the board
    MaxFaults,           \* bound: crashes, failing sources, interfering operations
    None

ASSUME MasterAssumption ==
    /\ Intake \notin Users
    /\ None \notin Users \cup {Intake}
    /\ IsFiniteSet(Users) /\ IsFiniteSet(Edits)
    /\ MaxClarifications \in Nat /\ MaxFaults \in Nat

Messages == Users \cup {Intake}

(* Every run and every edit makes one revision at the most. *)
Revisions == 1 .. Cardinality(Messages) + Cardinality(Edits)

(***************************************************************************)
(* The id of a Master plan is a digest of its revision                     *)
(* (materialize_plan_draft), the id of an edited one of the edit's key.    *)
(***************************************************************************)
Plan(r) == <<"plan", r>>
Edited(e) == <<"edit", e>>
Proposals == {Plan(r) : r \in Revisions} \cup {Edited(e) : e \in Edits}

(***************************************************************************)
(* A confirmation starts all ready instances of its plan or the ones named *)
(* in the request: a part of the ready ones, or one that is not ready.     *)
(***************************************************************************)
Selections == {"ALL", "PART", "UNREADY"}

(***************************************************************************)
(* What the holder of the guard is doing: [kind, id, pc].                  *)
(***************************************************************************)
RunSteps == {"message", "queue", "submit", "running", "observe", "supersede", "title", "end"}
EditSteps == {"put edit", "supersede edited", "edit message", "publish edit"}
ConfirmSteps ==
    {"gate", "save", "prepare save", "land", "commit save", "plan saved", "start",
     "prepare start", "confirm start", "started", "confirmed", "confirm message", "complete"}
Operations ==
    [kind : {"ask", "monitor", "recover"}, id : Messages, pc : RunSteps]
      \cup [kind : {"revise"}, id : Edits, pc : EditSteps]
      \cup [kind : {"confirm"}, id : Revisions, pc : ConfirmSteps]

ASSUME NoOperation == None \notin Operations

VARIABLES
    mode,       \* "up", "down" or "recovering"
    thread,     \* thread.json: latest proposal revision and active run
    msgs,       \* the persisted messages
    runs,       \* the run files of the orchestrator
    props,      \* the plan proposals
    intents,    \* confirmation intents, one per proposal revision
    saves,      \* the save-plan operation of each proposal
    landed,     \* task revision at which a proposal's plan was committed
    starts,     \* proposals with an accepted start operation
    task,       \* the status of the task, as saves and starts tell it apart
    revision,   \* the revision of the task aggregate
    titled,     \* runs whose generated title the task has been given
    work,       \* the operation that holds the guard
    app,        \* holder of the application lock of the task
    exec,       \* the message whose run the monitor executes
    others,     \* interfering operations and failing sources so far
    crashes     \* crashes so far

vars == <<mode, thread, msgs, runs, props, intents, saves, landed, starts,
          task, revision, titled, work, app, exec, others, crashes>>

talk == <<thread, msgs, runs, props, titled>>
board == <<saves, landed, starts, task, revision>>
env == <<exec, others, crashes>>

(***************************************************************************)
(* DRAFT is a task without a plan, WAITING one that waits for an approval; *)
(* SETTLED stands for the ends of a task, cancellation included.           *)
(***************************************************************************)
TaskStatuses == {"DRAFT", "AWAITING", "RUNNING", "WAITING", "SETTLED"}

RunStates == {"NONE", "QUEUED", "RUNNING", "PLAN_READY", "NEEDS_INPUT", "FAILED"}

TypeOK ==
    /\ mode \in {"up", "down", "recovering"}
    /\ thread \in [latest : Revisions \cup {0}, msg : Messages \cup {None},
                   status : (RunStates \ {"QUEUED"}) \cup {"SUBMITTING"}]
    /\ msgs \subseteq Messages
                \cup (Messages \X {"NEEDS_INPUT", "FAILED"})
                \cup (Proposals \X {"proposed", "confirmed"})
    /\ runs \in [Messages -> [status : RunStates, rev : Revisions \cup {0}]]
    /\ props \in [Proposals -> [rev : Revisions \cup {0},
                    status : {"PENDING_CONFIRMATION", "CONFIRMED", "SUPERSEDED"}]]
    /\ intents \in [Revisions ->
                    [state : {"NONE", "PREPARED", "PLAN_SAVED", "STARTED",
                              "COMPLETED", "ABORTED"},
                     pid : Proposals \cup {None}, expected : Nat,
                     selection : Selections]]
    /\ saves \in [Proposals -> {"NONE", "PREPARED", "COMMITTED", "ABORTED"}]
    /\ landed \in [Proposals -> Nat]
    /\ starts \subseteq Proposals
    /\ task \in TaskStatuses /\ revision \in Nat
    /\ titled \subseteq Messages
    /\ work \in Operations \cup {None}
    /\ app \in {None, "confirm", "other"}
    /\ exec \in Messages \cup {None}
    /\ others \in 0 .. MaxFaults /\ crashes \in 0 .. MaxFaults

Init ==
    /\ mode = "up"
    /\ thread = [latest |-> 0, msg |-> None, status |-> "NONE"]
    /\ msgs = {}
    /\ runs = [m \in Messages |-> [status |-> "NONE", rev |-> 0]]
    /\ props = [p \in Proposals |-> [rev |-> 0, status |-> "PENDING_CONFIRMATION"]]
    /\ intents = [r \in Revisions |->
                    [state |-> "NONE", pid |-> None, expected |-> 0,
                     selection |-> "ALL"]]
    /\ saves = [p \in Proposals |-> "NONE"]
    /\ landed = [p \in Proposals |-> 0]
    /\ starts = {}
    /\ task = "DRAFT" /\ revision = 1
    /\ titled = {}
    /\ work = None /\ app = None /\ exec = None
    /\ others = 0 /\ crashes = 0

-----------------------------------------------------------------------------
(* The guard: taken for one operation, which then goes on step by step.    *)

Free == mode = "up" /\ work = None
Take(kind, id, pc) == work' = [kind |-> kind, id |-> id, pc |-> pc]
At(pc) == work # None /\ work.pc = pc
Go(pc) == work' = [work EXCEPT !.pc = pc] /\ mode' = mode

(* The operation returns; the last step of recovery brings the service up. *)
Return ==
    /\ work' = None
    /\ mode' = IF work.kind = "recover" THEN "up" ELSE mode

(* The operation raises; nothing catches an error of the startup recovery. *)
Raise ==
    /\ work' = None
    /\ mode' = IF mode = "recovering" THEN "down" ELSE mode

Active == thread.status \in {"SUBMITTING", "RUNNING"}
Stored(p) == props[p].rev # 0
ByRevision(r) == {p \in Proposals : props[p].rev = r}

-----------------------------------------------------------------------------
(* Messages and runs.                                                      *)

(***************************************************************************)
(* append_message: a message that is stored already only returns the       *)
(* session, and one is refused while a run is active.                      *)
(***************************************************************************)
AppendMessage(m) ==
    /\ Free /\ m \notin msgs /\ ~Active
    /\ Take("ask", m, "message")
    /\ UNCHANGED <<mode, talk, intents, board, app, env>>

(* ensure_intake_started: only an empty thread is seeded. *)
EnsureIntake ==
    /\ Free /\ thread.msg = None
    /\ Take("ask", Intake, "message")
    /\ UNCHANGED <<mode, talk, intents, board, app, env>>

PutMessage ==
    /\ At("message")
    /\ msgs' = msgs \cup {work.id}
    /\ Go("queue")
    /\ UNCHANGED <<thread, runs, props, titled, intents, board, app, env>>

QueueRun ==
    /\ At("queue")
    /\ thread' = [thread EXCEPT !.msg = work.id, !.status = "SUBMITTING"]
    /\ Go("submit")
    /\ UNCHANGED <<msgs, runs, props, titled, intents, board, app, env>>

(* _advance_active_run is entered by the monitor and by recovery. *)
Advance(kind) ==
    Take(kind, thread.msg, IF thread.status = "SUBMITTING" THEN "submit" ELSE "observe")

(* _run_pending_master: the visit before and the visit after execute_run. *)
MonitorVisits ==
    /\ Free /\ Active /\ exec = None
    /\ Advance("monitor")
    /\ UNCHANGED <<mode, talk, intents, board, app, env>>

(* submit_message: the run of a message is created once. *)
SubmitRun ==
    /\ At("submit")
    /\ runs' = [runs EXCEPT ![work.id].status = IF @ = "NONE" THEN "QUEUED" ELSE @]
    /\ Go("running")
    /\ UNCHANGED <<thread, msgs, props, titled, intents, board, app, env>>

RecordRunning ==
    /\ At("running")
    /\ thread' = [thread EXCEPT !.status = "RUNNING"]
    /\ Go("observe")
    /\ UNCHANGED <<msgs, runs, props, titled, intents, board, app, env>>

(* Mutant: only a run that was never begun is executed. *)
ExecuteQueuedOnly ==
    /\ At("observe") /\ runs[work.id].status \in {"QUEUED", "RUNNING"}
    /\ exec' = IF work.kind = "monitor" /\ runs[work.id].status = "QUEUED"
               THEN work.id ELSE exec
    /\ Return
    /\ UNCHANGED <<talk, intents, board, app, others, crashes>>

(* observe_run: an unfinished run is left to the monitor to execute. *)
ObserveUnfinished ==
    /\ At("observe") /\ runs[work.id].status \in {"QUEUED", "RUNNING"}
    /\ exec' = IF work.kind = "monitor" THEN work.id ELSE exec
    /\ Return
    /\ UNCHANGED <<talk, intents, board, app, others, crashes>>

(***************************************************************************)
(* execute_run, without the guard.  The revision of the plan is read from  *)
(* the thread when the output is validated (_validate_output); an edit     *)
(* made between that read and the write of the run file is the same as one *)
(* made right after the write.  A question beyond the limit is an invalid  *)
(* output, and the repairs end in FAILED.                                  *)
(***************************************************************************)
BeginRun ==
    /\ exec # None /\ runs[exec].status = "QUEUED"
    /\ runs' = [runs EXCEPT ![exec].status = "RUNNING"]
    /\ UNCHANGED <<mode, thread, msgs, props, titled, intents, board, work, app, env>>

Clarifications == {m \in Messages : <<m, "NEEDS_INPUT">> \in msgs}

Outcomes ==
    [status : {"PLAN_READY"}, rev : {thread.latest + 1}]
      \cup [status : {"FAILED"}, rev : {0}]
      \cup (IF Cardinality(Clarifications) < MaxClarifications
            THEN [status : {"NEEDS_INPUT"}, rev : {0}] ELSE {})

FinishRun ==
    /\ exec # None /\ runs[exec].status = "RUNNING"
    /\ \E outcome \in Outcomes : runs' = [runs EXCEPT ![exec] = outcome]
    /\ exec' = None
    /\ UNCHANGED <<mode, thread, msgs, props, titled, intents, board, work, app,
                   others, crashes>>

(* A question or a failure: the message first, then the thread. *)
PutAnswer ==
    /\ At("observe") /\ runs[work.id].status \in {"NEEDS_INPUT", "FAILED"}
    /\ msgs' = msgs \cup {<<work.id, runs[work.id].status>>}
    /\ Go("end")
    /\ UNCHANGED <<thread, runs, props, titled, intents, board, app, env>>

(***************************************************************************)
(* _store_orchestrated_plan.  validate_new wants the revision that follows *)
(* the latest one, and a proposal stored before has to be unchanged: else  *)
(* HarnessError, which _advance_active_run does not catch.                 *)
(***************************************************************************)
PlanOf(m) == Plan(runs[m].rev)
Publishable(m) ==
    /\ runs[m].rev = thread.latest + 1
    /\ Stored(PlanOf(m)) => props[PlanOf(m)].status = "PENDING_CONFIRMATION"

RefusePlan ==
    /\ At("observe") /\ runs[work.id].status = "PLAN_READY" /\ ~Publishable(work.id)
    /\ Raise
    /\ UNCHANGED <<talk, intents, board, app, env>>

PutPlan ==
    /\ At("observe") /\ runs[work.id].status = "PLAN_READY" /\ Publishable(work.id)
    /\ props' = [props EXCEPT ![PlanOf(work.id)].rev = runs[work.id].rev]
    /\ Go("supersede")
    /\ UNCHANGED <<thread, msgs, runs, titled, intents, board, app, env>>

Outdated(p) ==
    {q \in Proposals \ {p} : Stored(q) /\ props[q].status = "PENDING_CONFIRMATION"}

SupersedePending ==
    /\ At("supersede")
    /\ \E q \in Outdated(PlanOf(work.id)) :
           props' = [props EXCEPT ![q].status = "SUPERSEDED"]
    /\ Go("supersede")
    /\ UNCHANGED <<thread, msgs, runs, titled, intents, board, app, env>>

(* Mutant: the run is published without its title. *)
PutPlanMessageUntitled ==
    /\ At("supersede") /\ Outdated(PlanOf(work.id)) = {}
    /\ msgs' = msgs \cup {<<PlanOf(work.id), "proposed">>}
    /\ Go("end")
    /\ UNCHANGED <<thread, runs, props, titled, intents, board, app, env>>

PutPlanMessage ==
    /\ At("supersede") /\ Outdated(PlanOf(work.id)) = {}
    /\ msgs' = msgs \cup {<<PlanOf(work.id), "proposed">>}
    /\ Go("title")
    /\ UNCHANGED <<thread, runs, props, titled, intents, board, app, env>>

(* _apply_generated_title: rename_task, unless there is nothing to change. *)
ApplyTitle ==
    /\ At("title")
    /\ LET renames == work.id \notin titled IN
         /\ titled' = IF renames THEN titled \cup {work.id} ELSE titled
         /\ revision' = IF renames THEN revision + 1 ELSE revision
    /\ Go("end")
    /\ UNCHANGED <<thread, msgs, runs, props, intents, saves, landed, starts, task,
                   app, env>>

PublishRun(m) ==
    [latest |-> IF runs[m].status = "PLAN_READY" THEN runs[m].rev ELSE thread.latest,
     msg |-> m, status |-> runs[m].status]

EndRun ==
    /\ At("end")
    /\ thread' = PublishRun(work.id)
    /\ Return
    /\ UNCHANGED <<msgs, runs, props, titled, intents, board, app, env>>

-----------------------------------------------------------------------------
(* revise_task_card: four writes, and no look at the active run.           *)

(***************************************************************************)
(* _task_card_is_editable: a card without an instance, or one whose        *)
(* instance no start operation names.  A confirmation may have started a   *)
(* part of the cards only.                                                 *)
(***************************************************************************)
Editable(p) ==
    /\ landed[p] = 0 => props[p].status = "PENDING_CONFIRMATION"
    /\ p \in starts => intents[props[p].rev].selection = "PART"

Revisable(p) ==
    /\ ByRevision(thread.latest) = {p}
    /\ props[p].status \in {"PENDING_CONFIRMATION", "CONFIRMED"}
    /\ Editable(p)

ReviseTaskCard(e) ==
    /\ Free /\ ~Stored(Edited(e))
    /\ thread.latest # 0 /\ \E p \in Proposals : Revisable(p)
    /\ Take("revise", e, "put edit")
    /\ UNCHANGED <<mode, talk, intents, board, app, env>>

(* Mutant: the edit skips a revision. *)
PutEditSkipping ==
    /\ At("put edit")
    /\ props' = [props EXCEPT ![Edited(work.id)].rev = Cardinality(Revisions) + 1]
    /\ Go("supersede edited")
    /\ UNCHANGED <<thread, msgs, runs, titled, intents, board, app, env>>

PutEdit ==
    /\ At("put edit")
    /\ props' = [props EXCEPT ![Edited(work.id)].rev = thread.latest + 1]
    /\ Go("supersede edited")
    /\ UNCHANGED <<thread, msgs, runs, titled, intents, board, app, env>>

SupersedeEdited ==
    /\ At("supersede edited")
    /\ \E p \in ByRevision(thread.latest) :
           props' = [props EXCEPT ![p].status = "SUPERSEDED"]
    /\ Go("edit message")
    /\ UNCHANGED <<thread, msgs, runs, titled, intents, board, app, env>>

PutEditMessage ==
    /\ At("edit message")
    /\ msgs' = msgs \cup {<<Edited(work.id), "proposed">>}
    /\ Go("publish edit")
    /\ UNCHANGED <<thread, runs, props, titled, intents, board, app, env>>

PublishEdit ==
    /\ At("publish edit")
    /\ thread' = [thread EXCEPT !.latest = @ + 1]
    /\ Return
    /\ UNCHANGED <<msgs, runs, props, titled, intents, board, app, env>>

(***************************************************************************)
(* _put_plan_proposal and validate_new verify the cited sources at every   *)
(* write of a proposal: one that no longer verifies raises.  The model has *)
(* it fail for a while, MaxFaults times at the most.                       *)
(***************************************************************************)
SourceFails ==
    /\ \/ At("observe") /\ runs[work.id].status = "PLAN_READY"
       \/ \E pc \in {"supersede", "put edit", "supersede edited", "confirmed"} : At(pc)
    /\ others + crashes < MaxFaults /\ others' = others + 1
    /\ Raise
    /\ UNCHANGED <<talk, intents, board, app, exec, crashes>>

-----------------------------------------------------------------------------
(* Confirmation of a proposal revision.                                    *)

Unfinished == {r \in Revisions : intents[r].state \in {"PREPARED", "PLAN_SAVED", "STARTED"}}

(* _validate_confirmation_preconditions *)
Confirmable(r, p, expected) ==
    /\ thread.latest = r
    /\ ByRevision(r) = {p}
    /\ props[p].status = "PENDING_CONFIRMATION"
    /\ revision = expected

(* _confirm, first call: the intent is written after the preconditions. *)
Confirm(r, selection) ==
    /\ Free /\ intents[r].state = "NONE"
    /\ \E p \in Proposals :
         /\ Confirmable(r, p, revision)
         /\ intents' = [intents EXCEPT ![r] = [state |-> "PREPARED", pid |-> p,
                                               expected |-> revision,
                                               selection |-> selection]]
    /\ Take("confirm", r, "gate")
    /\ UNCHANGED <<mode, talk, board, app, env>>

(* _resume_confirm: where a stored intent is taken up. *)
Resume(r) ==
    Take("confirm", r, IF intents[r].state = "STARTED" THEN "confirmed" ELSE "gate")

(* _confirm, repeated call; a COMPLETED or ABORTED intent only answers. *)
ConfirmAgain(r) ==
    /\ Free /\ r \in Unfinished
    /\ Resume(r)
    /\ UNCHANGED <<mode, talk, intents, board, app, env>>

Pid == intents[work.id].pid
GateExpects ==
    IF intents[work.id].state = "PREPARED" THEN intents[work.id].expected ELSE landed[Pid]

(* Mutant: a stored intent is not checked again. *)
GateLeftOpen == TRUE

(* _validate_confirmation_gate *)
GateOpen == Confirmable(work.id, Pid, GateExpects)

PassGate ==
    /\ At("gate") /\ GateOpen
    /\ Go(IF intents[work.id].state = "PREPARED" THEN "save" ELSE "start")
    /\ UNCHANGED <<talk, intents, board, app, env>>

(* The gate also fails when a cited source no longer verifies. *)
AbortConfirm ==
    /\ At("gate")
    /\ intents' = [intents EXCEPT ![work.id].state = "ABORTED"]
    /\ Raise
    /\ UNCHANGED <<talk, board, app, env>>

(***************************************************************************)
(* The two calls of the application service: its lock is taken inside the  *)
(* guard.  The call can time out on the lock, and the service can refuse   *)
(* the save or the start; the confirmation intent then stays as it is.     *)
(***************************************************************************)
EnterApplication ==
    /\ At("save") \/ At("start")
    /\ app = None /\ app' = "confirm"
    /\ Go(IF work.pc = "save" THEN "prepare save" ELSE "prepare start")
    /\ UNCHANGED <<talk, intents, board, env>>

(* Mutant: a lock is waited for without end. *)
WaitsForever(taken) == FALSE

(* FileLock: a lock that stays taken is given up after lock_timeout_seconds. *)
TimesOut(taken) == taken

ApplicationTimesOut ==
    /\ At("save") \/ At("start")
    /\ TimesOut(app # None)
    /\ Raise
    /\ UNCHANGED <<talk, intents, board, app, env>>

(***************************************************************************)
(* _guard_plan_save_state: a first plan replaces the empty one of a draft, *)
(* a later one is appended or merged while the task runs or waits for an   *)
(* approval; a merge refuses a plan that overlaps another in part only.    *)
(***************************************************************************)
Saveable(p) == task = "DRAFT" \/ (task \in {"RUNNING", "WAITING"} /\ p \notin Misfits)

(* A start wants a task that waits for it or runs. *)
Startable == task \in {"AWAITING", "RUNNING"}

(***************************************************************************)
(* A save is refused before its intent is written and again before it is   *)
(* committed, a start before its intent is written.                        *)
(***************************************************************************)
Refusal ==
    \/ At("prepare save") /\ (saves[Pid] = "ABORTED" \/ (saves[Pid] = "NONE" /\ ~Saveable(Pid)))
    \/ At("land") /\ ~Saveable(Pid)
    \/ At("prepare start") /\ (intents[work.id].selection = "UNREADY" \/ ~Startable)

ApplicationRefuses ==
    /\ Refusal
    /\ app' = None
    /\ Raise
    /\ UNCHANGED <<talk, intents, board, env>>

PrepareSave ==
    /\ At("prepare save") /\ ~Refusal
    /\ saves' = [saves EXCEPT ![Pid] = IF @ = "NONE" THEN "PREPARED" ELSE @]
    /\ Go(IF saves[Pid] = "COMMITTED" THEN "commit save" ELSE "land")
    /\ UNCHANGED <<talk, intents, landed, starts, task, revision, app, env>>

(* commands.save_plan: one commit of the task aggregate. *)
Land(p) ==
    /\ landed' = [landed EXCEPT ![p] = revision + 1]
    /\ revision' = revision + 1
    /\ task' = IF task = "DRAFT" THEN "AWAITING" ELSE task

LandPlan ==
    /\ At("land") /\ ~Refusal
    /\ Land(Pid)
    /\ Go("commit save")
    /\ UNCHANGED <<talk, intents, saves, starts, app, env>>

CommitSave ==
    /\ At("commit save")
    /\ saves' = [saves EXCEPT ![Pid] = "COMMITTED"]
    /\ app' = None
    /\ Go("plan saved")
    /\ UNCHANGED <<talk, intents, landed, starts, task, revision, env>>

RecordPlanSaved ==
    /\ At("plan saved")
    /\ intents' = [intents EXCEPT ![work.id].state = "PLAN_SAVED"]
    /\ Go("gate")
    /\ UNCHANGED <<talk, board, app, env>>

(* confirm_and_start_ready_instances: its intent, then confirm_start. *)
PrepareStart ==
    /\ At("prepare start") /\ ~Refusal
    /\ starts' = starts \cup {Pid}
    /\ Go("confirm start")
    /\ UNCHANGED <<talk, intents, saves, landed, task, revision, app, env>>

ConfirmStart ==
    /\ At("confirm start")
    /\ task' = "RUNNING"
    /\ revision' = IF task = "AWAITING" THEN revision + 1 ELSE revision
    /\ app' = None
    /\ Go("started")
    /\ UNCHANGED <<talk, intents, saves, landed, starts, env>>

RecordStarted ==
    /\ At("started")
    /\ intents' = [intents EXCEPT ![work.id].state = "STARTED"]
    /\ Go("confirmed")
    /\ UNCHANGED <<talk, board, app, env>>

PutConfirmed ==
    /\ At("confirmed")
    /\ props' = [props EXCEPT ![Pid].status = "CONFIRMED"]
    /\ Go("confirm message")
    /\ UNCHANGED <<thread, msgs, runs, titled, intents, board, app, env>>

PutConfirmMessage ==
    /\ At("confirm message")
    /\ msgs' = msgs \cup {<<Pid, "confirmed">>}
    /\ Go("complete")
    /\ UNCHANGED <<thread, runs, props, titled, intents, board, app, env>>

CompleteConfirm ==
    /\ At("complete")
    /\ intents' = [intents EXCEPT ![work.id].state = "COMPLETED"]
    /\ Return
    /\ UNCHANGED <<talk, board, app, env>>

-----------------------------------------------------------------------------
(* Application operations on the same task: application lock, then guard.  *)

OtherEnters ==
    /\ mode = "up" /\ app = None /\ others + crashes < MaxFaults
    /\ app' = "other" /\ others' = others + 1
    /\ UNCHANGED <<mode, talk, intents, board, work, exec, crashes>>

(* A start, a restart, a decision, a cancellation, or one of no effect on the status. *)
OtherCommits ==
    /\ app = "other" /\ Free
    /\ task' \in {task, "SETTLED"} \cup (IF task = "DRAFT" THEN {} ELSE {"RUNNING"})
    /\ revision' = revision + 1
    /\ app' = None
    /\ UNCHANGED <<mode, talk, intents, saves, landed, starts, work, env>>

OtherTimesOut ==
    /\ app = "other" /\ TimesOut(work # None)
    /\ app' = None
    /\ UNCHANGED <<mode, talk, intents, board, work, env>>

(* The task follows its agents: one asks for an approval, the last one ends. *)
AgentsReport ==
    /\ Free /\ task \in {"RUNNING", "WAITING"}
    /\ task' \in {"WAITING", "SETTLED"} \ {task}
    /\ revision' = revision + 1
    /\ UNCHANGED <<mode, talk, intents, saves, landed, starts, work, app, env>>

-----------------------------------------------------------------------------
(* Crash, restart and the startup recovery (api/app.py, recover).          *)

Crash ==
    /\ mode # "down" /\ others + crashes < MaxFaults
    /\ mode' = "down" /\ crashes' = crashes + 1
    /\ work' = None /\ app' = None /\ exec' = None
    /\ UNCHANGED <<talk, intents, board, others>>

Restart ==
    /\ mode = "down"
    /\ mode' = "recovering"
    /\ UNCHANGED <<talk, intents, board, work, app, env>>

Recovering == mode = "recovering" /\ work = None
Prepared == {p \in Proposals : saves[p] = "PREPARED"}

(***************************************************************************)
(* application.recover resumes a PREPARED save-plan operation by its own   *)
(* revision and idempotency key: a plan committed before the crash answers *)
(* with its stored result, one that the task refuses is left as it is, and *)
(* a stale one is aborted.                                                 *)
(***************************************************************************)
Recoverable == {p \in Prepared : landed[p] # 0 \/ Saveable(p)}

RecoverSave(p) ==
    /\ Recovering /\ p \in Recoverable
    /\ LET fresh == revision = intents[props[p].rev].expected IN
         /\ saves' = [saves EXCEPT ![p] =
                         IF landed[p] # 0 \/ fresh THEN "COMMITTED" ELSE "ABORTED"]
         /\ IF landed[p] = 0 /\ fresh THEN Land(p)
                                      ELSE UNCHANGED <<landed, revision, task>>
    /\ UNCHANGED <<mode, talk, intents, starts, work, app, env>>

RecoverConfirm(r) ==
    /\ Recovering /\ Recoverable = {} /\ r \in Unfinished
    /\ Resume(r)
    /\ UNCHANGED <<mode, talk, intents, board, app, env>>

RecoverRun ==
    /\ Recovering /\ Recoverable = {} /\ Unfinished = {} /\ Active
    /\ Advance("recover")
    /\ UNCHANGED <<mode, talk, intents, board, app, env>>

Recovered ==
    /\ Recovering /\ Recoverable = {} /\ Unfinished = {} /\ ~Active
    /\ mode' = "up"
    /\ UNCHANGED <<talk, intents, board, work, app, env>>

-----------------------------------------------------------------------------
Calls ==
    \/ \E m \in Users : AppendMessage(m)
    \/ EnsureIntake
    \/ \E e \in Edits : ReviseTaskCard(e)
    \/ \E r \in Revisions : ConfirmAgain(r) \/ \E s \in Selections : Confirm(r, s)

(* The operation that holds the guard goes on. *)
WorkStep ==
    \/ PutMessage \/ QueueRun \/ SubmitRun \/ RecordRunning \/ ObserveUnfinished
    \/ PutAnswer \/ RefusePlan \/ PutPlan \/ SupersedePending \/ PutPlanMessage
    \/ ApplyTitle \/ EndRun
    \/ PutEdit \/ SupersedeEdited \/ PutEditMessage \/ PublishEdit
    \/ PassGate \/ AbortConfirm \/ EnterApplication \/ ApplicationTimesOut
    \/ ApplicationRefuses \/ PrepareSave \/ LandPlan \/ CommitSave \/ RecordPlanSaved
    \/ PrepareStart \/ ConfirmStart \/ RecordStarted \/ PutConfirmed
    \/ PutConfirmMessage \/ CompleteConfirm

OtherStep == OtherCommits \/ OtherTimesOut

Startup ==
    \/ Restart \/ Recovered \/ RecoverRun
    \/ \E p \in Proposals : RecoverSave(p)
    \/ \E r \in Revisions : RecoverConfirm(r)

Next ==
    \/ Calls \/ WorkStep \/ SourceFails \/ OtherEnters \/ OtherStep \/ AgentsReport
    \/ MonitorVisits \/ BeginRun \/ FinishRun
    \/ Crash \/ Startup

(***************************************************************************)
(* A call goes on to its end, a lock wait ends in the lock or a timeout,   *)
(* and the service manager restarts the control plane.  The monitor comes  *)
(* back every half second, so a caller that keeps retrying cannot keep it  *)
(* from a guard that is set free again and again.  Nobody has to call      *)
(* anything.                                                               *)
(***************************************************************************)
Fairness ==
    /\ WF_vars(WorkStep) /\ WF_vars(OtherStep) /\ WF_vars(Startup)
    /\ SF_vars(MonitorVisits) /\ WF_vars(BeginRun) /\ WF_vars(FinishRun)

Spec == Init /\ [][Next]_vars /\ Fairness

-----------------------------------------------------------------------------
(* Properties.                                                             *)

(***************************************************************************)
(* The plan that reaches the board is the one the human confirmed and      *)
(* still current: whatever retry, restart or resumed operation commits it, *)
(* at that moment its proposal is the only one of the latest revision and  *)
(* pending, and the task is the one that was reviewed; and it lands once   *)
(* (docs/contracts.md: a superseded proposal cannot be confirmed).         *)
(***************************************************************************)
OnlyReviewedPlansLand ==
    [][\A p \in Proposals : landed'[p] # landed[p] =>
          /\ landed[p] = 0
          /\ ByRevision(thread.latest) = {p}
          /\ props[p].status = "PENDING_CONFIRMATION"
          /\ revision = intents[thread.latest].expected]_vars

(***************************************************************************)
(* A lock-free reader that sees a run ended also sees all of its result:   *)
(* the answer or error message, or the proposal, its message and the       *)
(* generated title (the order of writes in _store_orchestrated_plan).      *)
(***************************************************************************)
EndedRunIsReadable ==
    /\ thread.status \in {"NEEDS_INPUT", "FAILED"} => <<thread.msg, thread.status>> \in msgs
    /\ thread.status = "PLAN_READY" =>
         /\ thread.latest >= runs[thread.msg].rev
         /\ Stored(PlanOf(thread.msg))
         /\ <<PlanOf(thread.msg), "proposed">> \in msgs
         /\ thread.msg \in titled

(***************************************************************************)
(* Whatever interrupts a confirmation, a start operation belongs to a plan *)
(* on the board, a proposal shown as CONFIRMED has one, and a confirmation *)
(* that completed has told so in the thread.                               *)
(***************************************************************************)
ConfirmedIsStarted ==
    \A p \in Proposals :
        /\ p \in starts => landed[p] # 0
        /\ props[p].status = "CONFIRMED" => p \in starts
        /\ \A r \in Revisions : intents[r].pid = p /\ intents[r].state = "COMPLETED"
              => p \in starts /\ <<p, "confirmed">> \in msgs

(* The two together: what a status tells a reader has happened. *)
StatusesAreTrue == EndedRunIsReadable /\ ConfirmedIsStarted

(***************************************************************************)
(* The guard is always set free again, although a confirmation and an      *)
(* application operation take the two locks in opposite orders.            *)
(***************************************************************************)
CallsReturn == (work # None) ~> (work = None)

(* An edit took the revision that the run's plan was made for. *)
Overtaken ==
    thread.msg # None /\ runs[thread.msg].status = "PLAN_READY"
        /\ runs[thread.msg].rev # thread.latest + 1

(* The save or the start of an unfinished confirmation is refused, at every repetition. *)
Refused ==
    \E r \in Unfinished : LET p == intents[r].pid IN
        \/ intents[r].state = "PREPARED" /\ landed[p] = 0 /\ ~Saveable(p)
        \/ intents[r].state = "PLAN_SAVED" /\ (intents[r].selection = "UNREADY" \/ ~Startable)

(***************************************************************************)
(* A run that was queued ends in the thread, across crashes, failed        *)
(* startups and restarts of the service; one that stays active forever has *)
(* been overtaken by a card edit, or a confirmation that the application   *)
(* refuses again and again keeps the service from starting.                *)
(***************************************************************************)
RunsEndUnlessOvertaken == <>[]Active => <>[](Overtaken \/ Refused)

(***************************************************************************)
(* docs/master-api.md: SUBMITTING is persisted first, and the run can be   *)
(* replayed safely; so every queued run ends in the thread.                *)
(***************************************************************************)
RunsEnd == Active ~> ~Active
=============================================================================
