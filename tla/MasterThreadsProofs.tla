------------------------- MODULE MasterThreadsProofs -------------------------
(***************************************************************************)
(* Proofs about MasterThreads, for any number of messages, edits,          *)
(* clarifications and faults.                                              *)
(***************************************************************************)
EXTENDS MasterThreads, FiniteSetTheorems, TLAPS

-----------------------------------------------------------------------------
(* The inductive invariant.                                                *)

(***************************************************************************)
(* A revision that was published was made by a run or by an edit of its    *)
(* own, so there are never more of them than Revisions has room for.       *)
(***************************************************************************)
PlannedRuns == {m \in Messages : runs[m].status = "PLAN_READY" /\ runs[m].rev <= thread.latest}
PublishedEdits == {e \in Edits : Stored(Edited(e)) /\ props[Edited(e)].rev <= thread.latest}
CountInv == thread.latest <= Cardinality(PlannedRuns) + Cardinality(PublishedEdits)

(***************************************************************************)
(* What the thread says of its run, and what the operation on the run has  *)
(* established so far: nobody else changes the thread or an ended run.     *)
(***************************************************************************)
Answered(m) == <<m, runs[m].status>> \in msgs
Proposed(m) == Stored(PlanOf(m)) /\ <<PlanOf(m), "proposed">> \in msgs
ThreadInv ==
    /\ \A m \in Messages : runs[m].status = "PLAN_READY" => runs[m].rev # 0
    /\ Active => thread.msg # None
    /\ thread.status \in {"NEEDS_INPUT", "FAILED", "PLAN_READY"} =>
         thread.msg \in Messages /\ runs[thread.msg].status = thread.status
    /\ EndedRunIsReadable

RunWorkInv ==
    /\ At("submit") \/ At("running") => work.id = thread.msg /\ thread.status = "SUBMITTING"
    /\ At("observe") \/ At("supersede") \/ At("title") \/ At("end") =>
         work.id = thread.msg /\ thread.status = "RUNNING"
    /\ At("supersede") \/ At("title") =>
         runs[work.id].status = "PLAN_READY" /\ Stored(PlanOf(work.id))
    /\ At("title") => Proposed(work.id)
    /\ (At("supersede") \/ At("title") \/ At("end")) /\ runs[work.id].status = "PLAN_READY" =>
         runs[work.id].rev = thread.latest + 1
    /\ At("end") =>
         \/ runs[work.id].status \in {"NEEDS_INPUT", "FAILED"} /\ Answered(work.id)
         \/ runs[work.id].status = "PLAN_READY" /\ Proposed(work.id) /\ work.id \in titled

RunInv == ThreadInv /\ RunWorkInv

(***************************************************************************)
(* A Master plan is stored under its own revision, an edit as the one that *)
(* follows the latest.                                                     *)
(***************************************************************************)
ProposalInv ==
    /\ \A r \in Revisions : props[Plan(r)].rev \in {0, r}
    /\ At("put edit") => ~Stored(Edited(work.id))
    /\ At("supersede edited") \/ At("edit message") \/ At("publish edit") =>
         props[Edited(work.id)].rev = thread.latest + 1

(***************************************************************************)
(* The intent of a confirmation names one stored proposal of its revision. *)
(***************************************************************************)
IntentInv ==
    \A r \in Revisions : intents[r].state # "NONE" =>
        /\ intents[r].pid \in Proposals /\ props[intents[r].pid].rev = r
        /\ intents[r].expected <= revision

(***************************************************************************)
(* A plan that was landed or given up is older than the task, so the gate  *)
(* of its intent is closed to a second landing.                            *)
(***************************************************************************)
LandInv ==
    /\ \A p \in Proposals : landed[p] # 0 \/ saves[p] # "NONE" =>
         Stored(p) /\ intents[props[p].rev].state # "NONE" /\ intents[props[p].rev].pid = p
    /\ \A p \in Proposals : landed[p] # 0 \/ saves[p] = "ABORTED" =>
         intents[props[p].rev].expected < revision
    /\ \A p \in Proposals : saves[p] = "COMMITTED" => landed[p] # 0

(***************************************************************************)
(* A prepared save is carried through by its operation or by the recovery, *)
(* and until it has landed its proposal is the latest one and pending, and *)
(* the task still takes it: nobody else changes the status of the task.    *)
(***************************************************************************)
PreparedInv ==
    \A p \in Prepared :
        /\ \/ work = None /\ mode # "up"
           \/ (At("land") \/ At("commit save")) /\ Pid = p
        /\ landed[p] = 0 =>
             /\ ByRevision(thread.latest) = {p} /\ props[p].status = "PENDING_CONFIRMATION"
             /\ Saveable(p)

(***************************************************************************)
(* The steps of a confirmation and what each may rely on.                  *)
(***************************************************************************)
ConfirmWorkInv ==
    /\ At("gate") => intents[work.id].state \in {"PREPARED", "PLAN_SAVED"}
    /\ At("save") \/ At("prepare save") \/ At("land") =>
         /\ intents[work.id].state = "PREPARED"
         /\ Confirmable(work.id, Pid, intents[work.id].expected)
    /\ At("commit save") \/ At("plan saved") => intents[work.id].state = "PREPARED" /\ landed[Pid] # 0
    /\ At("start") \/ At("prepare start") \/ At("confirm start") \/ At("started") =>
         intents[work.id].state = "PLAN_SAVED"
    /\ At("confirm start") \/ At("started") => Pid \in starts
    /\ At("confirmed") \/ At("confirm message") \/ At("complete") => intents[work.id].state = "STARTED"
    /\ At("complete") => <<Pid, "confirmed">> \in msgs

OutcomeInv ==
    /\ \A r \in Revisions : intents[r].state \in {"PLAN_SAVED", "STARTED", "COMPLETED"} =>
         landed[intents[r].pid] # 0
    /\ \A r \in Revisions : intents[r].state \in {"STARTED", "COMPLETED"} => intents[r].pid \in starts
    /\ ConfirmedIsStarted

ConfirmInv == ConfirmWorkInv /\ OutcomeInv

(***************************************************************************)
(* The service is down without an operation, and runs one at a time.       *)
(***************************************************************************)
ModeInv == mode = "down" => work = None

IInv ==
    /\ TypeOK /\ CountInv /\ RunInv /\ ProposalInv
    /\ IntentInv /\ LandInv /\ PreparedInv /\ ConfirmInv /\ ModeInv

-----------------------------------------------------------------------------
(* Types, variable by variable.                                            *)

RunOps == [kind : {"ask", "monitor", "recover"}, id : Messages, pc : RunSteps]
EditOps == [kind : {"revise"}, id : Edits, pc : EditSteps]
ConfirmOps == [kind : {"confirm"}, id : Revisions, pc : ConfirmSteps]

(* The label tells the kind of the operation. *)
LEMMA Kinds ==
  ASSUME work \in Operations \cup {None}, NEW l, At(l)
  PROVE  /\ l \in RunSteps => work \in RunOps /\ work.id \in Messages
         /\ l \in EditSteps => work \in EditOps /\ work.id \in Edits
         /\ l \in ConfirmSteps => work \in ConfirmOps /\ work.id \in Revisions
  BY DEF Operations, RunOps, EditOps, ConfirmOps, RunSteps, EditSteps, ConfirmSteps, At

LEMMA WorkIsNotNone == \A w \in RunOps \cup EditOps \cup ConfirmOps : w \in Operations /\ w # None
  BY NoOperation DEF Operations, RunOps, EditOps, ConfirmOps

(* The steps of an operation, by what becomes of it. *)
RunMoves ==
    \/ PutMessage \/ QueueRun \/ SubmitRun \/ RecordRunning \/ PutAnswer \/ PutPlan
    \/ SupersedePending \/ PutPlanMessage \/ ApplyTitle
EditMoves == PutEdit \/ SupersedeEdited \/ PutEditMessage
ConfirmMoves ==
    \/ PassGate \/ EnterApplication \/ PrepareSave \/ LandPlan \/ CommitSave \/ RecordPlanSaved
    \/ PrepareStart \/ ConfirmStart \/ RecordStarted \/ PutConfirmed \/ PutConfirmMessage
Ends ==
    \/ ObserveUnfinished \/ RefusePlan \/ EndRun \/ PublishEdit \/ AbortConfirm \/ ApplicationTimesOut
    \/ ApplicationRefuses \/ CompleteConfirm \/ SourceFails \/ Crash
RunTakes == (\E m \in Users : AppendMessage(m)) \/ EnsureIntake \/ MonitorVisits \/ RecoverRun
EditTakes == \E e \in Edits : ReviseTaskCard(e)
ConfirmTakes ==
    \E r \in Revisions :
        ConfirmAgain(r) \/ RecoverConfirm(r) \/ \E s \in Selections : Confirm(r, s)
Outside ==
    \/ OtherEnters \/ OtherCommits \/ AgentsReport \/ OtherTimesOut \/ BeginRun \/ FinishRun \/ Restart \/ Recovered
    \/ \E p \in Proposals : RecoverSave(p)

LEMMA Steps ==
  Next => \/ RunMoves \/ EditMoves \/ ConfirmMoves \/ Ends
          \/ RunTakes \/ EditTakes \/ ConfirmTakes \/ Outside
  BY DEF Next, Calls, WorkStep, OtherStep, Startup, RunMoves, EditMoves, ConfirmMoves, Ends, RunTakes,
         EditTakes, ConfirmTakes, Outside

LEMMA Moves ==
  ASSUME work \in Operations \cup {None}
  PROVE  /\ RunMoves => work \in RunOps /\ \E l \in RunSteps : Go(l)
         /\ EditMoves => work \in EditOps /\ \E l \in EditSteps : Go(l)
         /\ ConfirmMoves => work \in ConfirmOps /\ \E l \in ConfirmSteps : Go(l)
         /\ Ends => work' = None
         /\ Outside => work' = work
<1>1. RunMoves => (\E l \in RunSteps : At(l)) /\ \E l \in RunSteps : Go(l)
  BY DEF RunMoves, PutMessage, QueueRun, SubmitRun, RecordRunning, PutAnswer, PutPlan,
         SupersedePending, PutPlanMessage, ApplyTitle, RunSteps
<1>2. EditMoves => (\E l \in EditSteps : At(l)) /\ \E l \in EditSteps : Go(l)
  BY DEF EditMoves, PutEdit, SupersedeEdited, PutEditMessage, EditSteps
<1>3. ConfirmMoves => (\E l \in ConfirmSteps : At(l)) /\ \E l \in ConfirmSteps : Go(l)
  BY DEF ConfirmMoves, PassGate, EnterApplication, PrepareSave, LandPlan, CommitSave, RecordPlanSaved,
         PrepareStart, ConfirmStart, RecordStarted, PutConfirmed, PutConfirmMessage, ConfirmSteps
<1>4. Ends => work' = None
  BY DEF Ends, ObserveUnfinished, RefusePlan, EndRun, PublishEdit, AbortConfirm, ApplicationTimesOut,
         ApplicationRefuses, CompleteConfirm, SourceFails, Crash, Return, Raise
<1>5. Outside => work' = work
  BY DEF Outside, OtherEnters, OtherCommits, AgentsReport, OtherTimesOut, BeginRun, FinishRun, Restart, Recovered, RecoverSave
<1>. QED
  BY <1>1, <1>2, <1>3, <1>4, <1>5, Kinds

LEMMA Takes ==
  ASSUME TypeOK, RunInv
  PROVE  /\ RunTakes => work = None /\ work' \in RunOps
         /\ EditTakes => work = None /\ work' \in EditOps
         /\ ConfirmTakes => work = None /\ work' \in ConfirmOps
<1>1. Active => thread.msg \in Messages
  BY DEF TypeOK, RunInv, ThreadInv
<1>2. RunTakes => work = None /\ work' \in RunOps
  BY <1>1 DEF RunTakes, AppendMessage, EnsureIntake, MonitorVisits, RecoverRun, Advance, Take, Free,
              Recovering, RunOps, RunSteps, Messages
<1>3. EditTakes => work = None /\ work' \in EditOps
  <2>. SUFFICES ASSUME EditTakes PROVE work = None /\ work' \in EditOps
    OBVIOUS
  <2>1. PICK e \in Edits : ReviseTaskCard(e)
    BY DEF EditTakes
  <2>2. work = None /\ work' = [kind |-> "revise", id |-> e, pc |-> "put edit"]
    BY <2>1 DEF ReviseTaskCard, Take, Free
  <2>. QED
    BY <2>2 DEF EditOps, EditSteps
<1>4. ConfirmTakes => work = None /\ work' \in ConfirmOps
  <2>. SUFFICES ASSUME ConfirmTakes PROVE work = None /\ work' \in ConfirmOps
    OBVIOUS
  <2>1. PICK r \in Revisions : ConfirmAgain(r) \/ RecoverConfirm(r) \/ \E s \in Selections : Confirm(r, s)
    BY DEF ConfirmTakes
  <2>2. work = None /\ \E l \in {"gate", "confirmed"} : work' = [kind |-> "confirm", id |-> r, pc |-> l]
    <3>1. CASE intents[r].state = "STARTED"
      BY <2>1, <3>1 DEF ConfirmAgain, RecoverConfirm, Confirm, Resume, Take, Free, Recovering
    <3>2. CASE intents[r].state # "STARTED"
      BY <2>1, <3>2 DEF ConfirmAgain, RecoverConfirm, Confirm, Resume, Take, Free, Recovering
    <3>. QED
      BY <3>1, <3>2
  <2>3. PICK l \in ConfirmSteps : work' = [kind |-> "confirm", id |-> r, pc |-> l]
    BY <2>2 DEF ConfirmSteps
  <2>. QED
    BY <2>2, <2>3 DEF ConfirmOps
<1>. QED
  BY <1>2, <1>3, <1>4

LEMMA WorkTyped ==
  ASSUME TypeOK, RunInv, Next
  PROVE  work' \in Operations \cup {None}
<1>0. work \in Operations \cup {None}
  BY DEF TypeOK
<1>1. CASE RunMoves \/ EditMoves \/ ConfirmMoves
  <2>1. \/ work \in RunOps /\ \E l \in RunSteps : work' = [work EXCEPT !.pc = l]
        \/ work \in EditOps /\ \E l \in EditSteps : work' = [work EXCEPT !.pc = l]
        \/ work \in ConfirmOps /\ \E l \in ConfirmSteps : work' = [work EXCEPT !.pc = l]
    BY <1>0, <1>1, Moves DEF Go
  <2>2. work' \in RunOps \cup EditOps \cup ConfirmOps
    BY <2>1 DEF RunOps, EditOps, ConfirmOps
  <2>. QED
    BY <2>2, WorkIsNotNone
<1>. QED
  BY <1>0, <1>1, Steps, Moves, Takes, WorkIsNotNone

(***************************************************************************)
(* The writes, field by field.                                             *)
(***************************************************************************)
RunRecords == [status : RunStates, rev : Revisions \cup {0}]
PropStatuses == {"PENDING_CONFIRMATION", "CONFIRMED", "SUPERSEDED"}
PropRecords == [rev : Revisions \cup {0}, status : PropStatuses]
IntentStates == {"NONE", "PREPARED", "PLAN_SAVED", "STARTED", "COMPLETED", "ABORTED"}
IntentRecords == [state : IntentStates, pid : Proposals \cup {None}, expected : Nat, selection : Selections]

LEMMA SetPropStatus ==
  ASSUME props \in [Proposals -> PropRecords], NEW p \in Proposals, NEW s \in PropStatuses,
         props' = [props EXCEPT ![p].status = s]
  PROVE  /\ props' \in [Proposals -> PropRecords]
         /\ \A q \in Proposals : props'[q].rev = props[q].rev
         /\ \A q \in Proposals : q # p => props'[q] = props[q]
         /\ props'[p].status = s
<1>1. props[p] \in PropRecords
  OBVIOUS
<1>2. props' = [q \in Proposals |-> IF q = p THEN [props[q] EXCEPT !.status = s] ELSE props[q]]
  OBVIOUS
<1>3. [props[p] EXCEPT !.status = s] \in PropRecords
      /\ [props[p] EXCEPT !.status = s].rev = props[p].rev /\ [props[p] EXCEPT !.status = s].status = s
  BY <1>1 DEF PropRecords
<1>. QED
  BY <1>2, <1>3

LEMMA SetPropRev ==
  ASSUME props \in [Proposals -> PropRecords], NEW p \in Proposals, NEW r \in Revisions \cup {0},
         props' = [props EXCEPT ![p].rev = r]
  PROVE  /\ props' \in [Proposals -> PropRecords]
         /\ \A q \in Proposals : props'[q].status = props[q].status
         /\ \A q \in Proposals : q # p => props'[q] = props[q]
         /\ props'[p].rev = r
<1>1. props[p] \in PropRecords
  OBVIOUS
<1>2. props' = [q \in Proposals |-> IF q = p THEN [props[q] EXCEPT !.rev = r] ELSE props[q]]
  OBVIOUS
<1>3. [props[p] EXCEPT !.rev = r] \in PropRecords
      /\ [props[p] EXCEPT !.rev = r].status = props[p].status /\ [props[p] EXCEPT !.rev = r].rev = r
  BY <1>1 DEF PropRecords
<1>. QED
  BY <1>2, <1>3

LEMMA SetRunStatus ==
  ASSUME runs \in [Messages -> RunRecords], NEW m \in Messages, NEW s \in RunStates,
         runs' = [runs EXCEPT ![m].status = s]
  PROVE  /\ runs' \in [Messages -> RunRecords]
         /\ \A n \in Messages : n # m => runs'[n] = runs[n]
         /\ runs'[m].status = s /\ runs'[m].rev = runs[m].rev
<1>1. runs[m] \in RunRecords
  OBVIOUS
<1>2. runs' = [n \in Messages |-> IF n = m THEN [runs[n] EXCEPT !.status = s] ELSE runs[n]]
  OBVIOUS
<1>3. [runs[m] EXCEPT !.status = s] \in RunRecords
      /\ [runs[m] EXCEPT !.status = s].rev = runs[m].rev /\ [runs[m] EXCEPT !.status = s].status = s
  BY <1>1 DEF RunRecords
<1>. QED
  BY <1>2, <1>3

LEMMA SetIntentState ==
  ASSUME intents \in [Revisions -> IntentRecords], NEW r \in Revisions, NEW s \in IntentStates,
         intents' = [intents EXCEPT ![r].state = s]
  PROVE  /\ intents' \in [Revisions -> IntentRecords]
         /\ \A q \in Revisions : q # r => intents'[q] = intents[q]
         /\ intents'[r].state = s /\ intents'[r].pid = intents[r].pid
         /\ intents'[r].expected = intents[r].expected /\ intents'[r].selection = intents[r].selection
<1>1. intents[r] \in IntentRecords
  OBVIOUS
<1>2. intents' = [q \in Revisions |-> IF q = r THEN [intents[q] EXCEPT !.state = s] ELSE intents[q]]
  OBVIOUS
<1>3. LET i == [intents[r] EXCEPT !.state = s] IN
        /\ i \in IntentRecords /\ i.state = s /\ i.pid = intents[r].pid
        /\ i.expected = intents[r].expected /\ i.selection = intents[r].selection
  BY <1>1 DEF IntentRecords
<1>. QED
  BY <1>2, <1>3

(***************************************************************************)
(* Which steps write what.                                                 *)
(***************************************************************************)
LEMMA Writers ==
  ASSUME Next
  PROVE  /\ QueueRun \/ RecordRunning \/ EndRun \/ PublishEdit \/ thread' = thread
         /\ PutMessage \/ PutAnswer \/ PutPlanMessage \/ PutEditMessage \/ PutConfirmMessage \/ msgs' = msgs
         /\ SubmitRun \/ BeginRun \/ FinishRun \/ runs' = runs
         /\ PutPlan \/ SupersedePending \/ PutEdit \/ SupersedeEdited \/ PutConfirmed \/ props' = props
         /\ \/ \E r \in Revisions, s \in Selections : Confirm(r, s)
            \/ AbortConfirm \/ RecordPlanSaved \/ RecordStarted \/ CompleteConfirm \/ intents' = intents
         /\ PrepareSave \/ CommitSave \/ (\E p \in Proposals : RecoverSave(p)) \/ saves' = saves
         /\ LandPlan \/ (\E p \in Proposals : RecoverSave(p)) \/ landed' = landed
         /\ PrepareStart \/ starts' = starts
         /\ \/ ApplyTitle \/ LandPlan \/ ConfirmStart \/ OtherCommits \/ AgentsReport
            \/ (\E p \in Proposals : RecoverSave(p)) \/ revision' = revision
         /\ \/ LandPlan \/ ConfirmStart \/ OtherCommits \/ AgentsReport
            \/ (\E p \in Proposals : RecoverSave(p)) \/ task' = task
         /\ ApplyTitle \/ titled' = titled
<1>1. QueueRun \/ RecordRunning \/ EndRun \/ PublishEdit \/ thread' = thread
  BY DEF Next, Calls, WorkStep, OtherStep, Startup, talk, AppendMessage, EnsureIntake,
         PutMessage, MonitorVisits, SubmitRun, ObserveUnfinished, BeginRun, FinishRun, PutAnswer,
         RefusePlan, PutPlan, SupersedePending, PutPlanMessage, ApplyTitle, ReviseTaskCard,
         PutEdit, SupersedeEdited, PutEditMessage, Confirm, ConfirmAgain, PassGate, AbortConfirm,
         EnterApplication, ApplicationTimesOut, ApplicationRefuses, PrepareSave, LandPlan,
         CommitSave, RecordPlanSaved, PrepareStart, ConfirmStart, RecordStarted, PutConfirmed,
         PutConfirmMessage, CompleteConfirm, OtherEnters, OtherCommits, AgentsReport, OtherTimesOut, SourceFails, Crash,
         Restart, RecoverSave, RecoverConfirm, RecoverRun, Recovered
<1>2. PutMessage \/ PutAnswer \/ PutPlanMessage \/ PutEditMessage \/ PutConfirmMessage \/ msgs' = msgs
  BY DEF Next, Calls, WorkStep, OtherStep, Startup, talk, AppendMessage, EnsureIntake, QueueRun,
         MonitorVisits, SubmitRun, RecordRunning, ObserveUnfinished, BeginRun, FinishRun,
         RefusePlan, PutPlan, SupersedePending, ApplyTitle, EndRun, ReviseTaskCard, PutEdit,
         SupersedeEdited, PublishEdit, Confirm, ConfirmAgain, PassGate, AbortConfirm,
         EnterApplication, ApplicationTimesOut, ApplicationRefuses, PrepareSave, LandPlan,
         CommitSave, RecordPlanSaved, PrepareStart, ConfirmStart, RecordStarted, PutConfirmed,
         CompleteConfirm, OtherEnters, OtherCommits, AgentsReport, OtherTimesOut, SourceFails, Crash, Restart, RecoverSave,
         RecoverConfirm, RecoverRun, Recovered
<1>3. SubmitRun \/ BeginRun \/ FinishRun \/ runs' = runs
  BY DEF Next, Calls, WorkStep, OtherStep, Startup, talk, AppendMessage, EnsureIntake,
         PutMessage, QueueRun, MonitorVisits, RecordRunning, ObserveUnfinished, PutAnswer,
         RefusePlan, PutPlan, SupersedePending, PutPlanMessage, ApplyTitle, EndRun,
         ReviseTaskCard, PutEdit, SupersedeEdited, PutEditMessage, PublishEdit, Confirm,
         ConfirmAgain, PassGate, AbortConfirm, EnterApplication, ApplicationTimesOut,
         ApplicationRefuses, PrepareSave, LandPlan, CommitSave, RecordPlanSaved, PrepareStart,
         ConfirmStart, RecordStarted, PutConfirmed, PutConfirmMessage, CompleteConfirm,
         OtherEnters, OtherCommits, AgentsReport, OtherTimesOut, SourceFails, Crash, Restart, RecoverSave, RecoverConfirm,
         RecoverRun, Recovered
<1>4. PutPlan \/ SupersedePending \/ PutEdit \/ SupersedeEdited \/ PutConfirmed \/ props' = props
  BY DEF Next, Calls, WorkStep, OtherStep, Startup, talk, AppendMessage, EnsureIntake,
         PutMessage, QueueRun, MonitorVisits, SubmitRun, RecordRunning, ObserveUnfinished,
         BeginRun, FinishRun, PutAnswer, RefusePlan, PutPlanMessage, ApplyTitle, EndRun,
         ReviseTaskCard, PutEditMessage, PublishEdit, Confirm, ConfirmAgain, PassGate,
         AbortConfirm, EnterApplication, ApplicationTimesOut, ApplicationRefuses, PrepareSave,
         LandPlan, CommitSave, RecordPlanSaved, PrepareStart, ConfirmStart, RecordStarted,
         PutConfirmMessage, CompleteConfirm, OtherEnters, OtherCommits, AgentsReport, OtherTimesOut, SourceFails, Crash,
         Restart, RecoverSave, RecoverConfirm, RecoverRun, Recovered
<1>5. (\E r \in Revisions, s \in Selections : Confirm(r, s)) \/ AbortConfirm \/ RecordPlanSaved \/ RecordStarted \/ CompleteConfirm \/ intents' = intents
  BY DEF Next, Calls, WorkStep, OtherStep, Startup, AppendMessage, EnsureIntake, PutMessage,
         QueueRun, MonitorVisits, SubmitRun, RecordRunning, ObserveUnfinished, BeginRun,
         FinishRun, PutAnswer, RefusePlan, PutPlan, SupersedePending, PutPlanMessage, ApplyTitle,
         EndRun, ReviseTaskCard, PutEdit, SupersedeEdited, PutEditMessage, PublishEdit,
         ConfirmAgain, PassGate, EnterApplication, ApplicationTimesOut, ApplicationRefuses,
         PrepareSave, LandPlan, CommitSave, PrepareStart, ConfirmStart, PutConfirmed,
         PutConfirmMessage, OtherEnters, OtherCommits, AgentsReport, OtherTimesOut, SourceFails, Crash, Restart,
         RecoverSave, RecoverConfirm, RecoverRun, Recovered
<1>6. PrepareSave \/ CommitSave \/ (\E p \in Proposals : RecoverSave(p)) \/ saves' = saves
  BY DEF Next, Calls, WorkStep, OtherStep, Startup, board, AppendMessage, EnsureIntake,
         PutMessage, QueueRun, MonitorVisits, SubmitRun, RecordRunning, ObserveUnfinished,
         BeginRun, FinishRun, PutAnswer, RefusePlan, PutPlan, SupersedePending, PutPlanMessage,
         ApplyTitle, EndRun, ReviseTaskCard, PutEdit, SupersedeEdited, PutEditMessage,
         PublishEdit, Confirm, ConfirmAgain, PassGate, AbortConfirm, EnterApplication,
         ApplicationTimesOut, ApplicationRefuses, LandPlan, RecordPlanSaved, PrepareStart,
         ConfirmStart, RecordStarted, PutConfirmed, PutConfirmMessage, CompleteConfirm,
         OtherEnters, OtherCommits, AgentsReport, OtherTimesOut, SourceFails, Crash, Restart, RecoverConfirm, RecoverRun,
         Recovered
<1>7. LandPlan \/ (\E p \in Proposals : RecoverSave(p)) \/ landed' = landed
  BY DEF Next, Calls, WorkStep, OtherStep, Startup, board, AppendMessage, EnsureIntake,
         PutMessage, QueueRun, MonitorVisits, SubmitRun, RecordRunning, ObserveUnfinished,
         BeginRun, FinishRun, PutAnswer, RefusePlan, PutPlan, SupersedePending, PutPlanMessage,
         ApplyTitle, EndRun, ReviseTaskCard, PutEdit, SupersedeEdited, PutEditMessage,
         PublishEdit, Confirm, ConfirmAgain, PassGate, AbortConfirm, EnterApplication,
         ApplicationTimesOut, ApplicationRefuses, PrepareSave, CommitSave, RecordPlanSaved,
         PrepareStart, ConfirmStart, RecordStarted, PutConfirmed, PutConfirmMessage,
         CompleteConfirm, OtherEnters, OtherCommits, AgentsReport, OtherTimesOut, SourceFails, Crash, Restart,
         RecoverConfirm, RecoverRun, Recovered
<1>8. PrepareStart \/ starts' = starts
  BY DEF Next, Calls, WorkStep, OtherStep, Startup, board, AppendMessage, EnsureIntake,
         PutMessage, QueueRun, MonitorVisits, SubmitRun, RecordRunning, ObserveUnfinished,
         BeginRun, FinishRun, PutAnswer, RefusePlan, PutPlan, SupersedePending, PutPlanMessage,
         ApplyTitle, EndRun, ReviseTaskCard, PutEdit, SupersedeEdited, PutEditMessage,
         PublishEdit, Confirm, ConfirmAgain, PassGate, AbortConfirm, EnterApplication,
         ApplicationTimesOut, ApplicationRefuses, PrepareSave, LandPlan, CommitSave,
         RecordPlanSaved, ConfirmStart, RecordStarted, PutConfirmed, PutConfirmMessage,
         CompleteConfirm, OtherEnters, OtherCommits, AgentsReport, OtherTimesOut, SourceFails, Crash, Restart, RecoverSave,
         RecoverConfirm, RecoverRun, Recovered
<1>9. ApplyTitle \/ LandPlan \/ ConfirmStart \/ OtherCommits \/ AgentsReport \/ (\E p \in Proposals : RecoverSave(p)) \/ revision' = revision
  BY DEF Next, Calls, WorkStep, OtherStep, Startup, board, AppendMessage, EnsureIntake,
         PutMessage, QueueRun, MonitorVisits, SubmitRun, RecordRunning, ObserveUnfinished,
         BeginRun, FinishRun, PutAnswer, RefusePlan, PutPlan, SupersedePending, PutPlanMessage,
         EndRun, ReviseTaskCard, PutEdit, SupersedeEdited, PutEditMessage, PublishEdit, Confirm,
         ConfirmAgain, PassGate, AbortConfirm, EnterApplication, ApplicationTimesOut,
         ApplicationRefuses, PrepareSave, CommitSave, RecordPlanSaved, PrepareStart,
         RecordStarted, PutConfirmed, PutConfirmMessage, CompleteConfirm, OtherEnters,
         OtherTimesOut, SourceFails, Crash, Restart, RecoverConfirm, RecoverRun, Recovered
<1>10. LandPlan \/ ConfirmStart \/ OtherCommits \/ AgentsReport \/ (\E p \in Proposals : RecoverSave(p)) \/ task' = task
  BY DEF Next, Calls, WorkStep, OtherStep, Startup, board, AppendMessage, EnsureIntake,
         PutMessage, QueueRun, MonitorVisits, SubmitRun, RecordRunning, ObserveUnfinished,
         BeginRun, FinishRun, PutAnswer, RefusePlan, PutPlan, SupersedePending, PutPlanMessage,
         ApplyTitle, EndRun, ReviseTaskCard, PutEdit, SupersedeEdited, PutEditMessage,
         PublishEdit, Confirm, ConfirmAgain, PassGate, AbortConfirm, EnterApplication,
         ApplicationTimesOut, ApplicationRefuses, PrepareSave, CommitSave, RecordPlanSaved,
         PrepareStart, RecordStarted, PutConfirmed, PutConfirmMessage, CompleteConfirm,
         OtherEnters, OtherTimesOut, SourceFails, Crash, Restart, RecoverConfirm, RecoverRun,
         Recovered
<1>11. ApplyTitle \/ titled' = titled
  BY DEF Next, Calls, WorkStep, OtherStep, Startup, talk, AppendMessage, EnsureIntake,
         PutMessage, QueueRun, MonitorVisits, SubmitRun, RecordRunning, ObserveUnfinished,
         BeginRun, FinishRun, PutAnswer, RefusePlan, PutPlan, SupersedePending, PutPlanMessage,
         EndRun, ReviseTaskCard, PutEdit, SupersedeEdited, PutEditMessage, PublishEdit, Confirm,
         ConfirmAgain, PassGate, AbortConfirm, EnterApplication, ApplicationTimesOut,
         ApplicationRefuses, PrepareSave, LandPlan, CommitSave, RecordPlanSaved, PrepareStart,
         ConfirmStart, RecordStarted, PutConfirmed, PutConfirmMessage, CompleteConfirm,
         OtherEnters, OtherCommits, AgentsReport, OtherTimesOut, SourceFails, Crash, Restart, RecoverSave, RecoverConfirm,
         RecoverRun, Recovered
<1>. QED
  BY <1>1, <1>2, <1>3, <1>4, <1>5, <1>6, <1>7, <1>8, <1>9, <1>10, <1>11

(***************************************************************************)
(* Room for the revision that follows the latest one.                      *)
(***************************************************************************)
LEMMA Counts ==
  /\ IsFiniteSet(Messages) /\ IsFiniteSet(Edits)
  /\ Cardinality(Messages) \in Nat /\ Cardinality(Edits) \in Nat
<1>1. IsFiniteSet(Messages)
  BY MasterAssumption, FS_Singleton, FS_Union DEF Messages
<1>. QED
  BY <1>1, MasterAssumption, FS_CardinalityType

LEMMA Larger ==
  ASSUME NEW S, NEW T, NEW x \in T, IsFiniteSet(T), S \subseteq T, x \notin S
  PROVE  Cardinality(S) \in Nat /\ Cardinality(T) \in Nat /\ Cardinality(S) + 1 <= Cardinality(T)
<1>1. IsFiniteSet(S) /\ S \cup {x} \subseteq T
  BY FS_Subset
<1>2. Cardinality(S \cup {x}) = Cardinality(S) + 1
  BY <1>1, FS_AddElement
<1>. QED
  BY <1>1, <1>2, FS_Subset, FS_CardinalityType

LEMMA NotSmaller ==
  ASSUME NEW S, NEW T, IsFiniteSet(T), S \subseteq T
  PROVE  Cardinality(S) \in Nat /\ Cardinality(T) \in Nat /\ Cardinality(S) <= Cardinality(T)
  BY FS_Subset, FS_CardinalityType

LEMMA Room ==
  ASSUME TypeOK, CountInv,
         (\E m \in Messages : m \notin PlannedRuns) \/ (\E e \in Edits : e \notin PublishedEdits)
  PROVE  thread.latest + 1 \in Revisions
<1>1. thread.latest \in Nat
  BY Counts DEF TypeOK, Revisions
<1>2. PlannedRuns \subseteq Messages /\ PublishedEdits \subseteq Edits
  BY DEF PlannedRuns, PublishedEdits
<1>3. /\ Cardinality(PlannedRuns) \in Nat /\ Cardinality(PublishedEdits) \in Nat
      /\ Cardinality(PlannedRuns) <= Cardinality(Messages) /\ Cardinality(PublishedEdits) <= Cardinality(Edits)
  BY <1>2, Counts, NotSmaller
<1>4. CASE \E m \in Messages : m \notin PlannedRuns
  <2>1. Cardinality(PlannedRuns) + 1 <= Cardinality(Messages)
    BY <1>2, <1>4, Counts, Larger
  <2>. QED
    BY <1>1, <1>3, <2>1, Counts DEF CountInv, Revisions
<1>5. CASE \E e \in Edits : e \notin PublishedEdits
  <2>1. Cardinality(PublishedEdits) + 1 <= Cardinality(Edits)
    BY <1>2, <1>5, Counts, Larger
  <2>. QED
    BY <1>1, <1>3, <2>1, Counts DEF CountInv, Revisions
<1>. QED
  BY <1>4, <1>5

(***************************************************************************)
(* The type invariant.                                                     *)
(***************************************************************************)
LEMMA TypeParts ==
  TypeOK => /\ props \in [Proposals -> PropRecords] /\ runs \in [Messages -> RunRecords]
            /\ intents \in [Revisions -> IntentRecords]
            /\ work \in Operations \cup {None}
            /\ \A r \in Revisions : r \in Nat \ {0} /\ Plan(r) \in Proposals
            /\ \A e \in Edits : Edited(e) \in Proposals
            /\ thread.latest \in Nat /\ revision \in Nat
            /\ Messages \cap {None} = {}
<1>1. \A r \in Revisions : r \in Nat \ {0}
  BY Counts DEF Revisions
<1>2. Messages \cap {None} = {}
  BY MasterAssumption DEF Messages
<1>. QED
  BY <1>1, <1>2 DEF TypeOK, PropRecords, PropStatuses, RunRecords, IntentRecords, IntentStates, Proposals

LEMMA RunsTyped ==
  ASSUME TypeOK, CountInv, Next
  PROVE  /\ runs' \in [Messages -> RunRecords]
         /\ \A m \in Messages : runs[m].status \in {"PLAN_READY", "NEEDS_INPUT", "FAILED"} => runs'[m] = runs[m]
         /\ \A m \in Messages : runs'[m].status = "PLAN_READY" => runs[m].status = "PLAN_READY" \/ runs'[m].rev # 0
<1>0. runs \in [Messages -> RunRecords] /\ work \in Operations \cup {None}
  BY TypeParts
<1>1. CASE SubmitRun
  <2>1. work.id \in Messages
    BY <1>0, <1>1, Kinds DEF SubmitRun, RunSteps
  <2>2. CASE runs[work.id].status = "NONE"
    <3>1. runs' = [runs EXCEPT ![work.id].status = "QUEUED"]
      BY <1>0, <1>1, <2>1, <2>2 DEF SubmitRun
    <3>. QED
      BY <1>0, <2>1, <2>2, <3>1, SetRunStatus DEF RunStates
  <2>3. CASE runs[work.id].status # "NONE"
    <3>1. runs[work.id].status \in RunStates
      BY <1>0, <2>1 DEF RunRecords
    <3>2. runs' = [runs EXCEPT ![work.id].status = runs[work.id].status]
      BY <1>0, <1>1, <2>1, <2>3 DEF SubmitRun
    <3>3. runs' = runs
      BY <1>0, <2>1, <3>2 DEF RunRecords
    <3>. QED
      BY <1>0, <3>3
  <2>. QED
    BY <2>2, <2>3
<1>2. CASE BeginRun
  <2>1. exec \in Messages
    BY <1>2 DEF BeginRun, TypeOK
  <2>. QED
    BY <1>0, <1>2, <2>1, SetRunStatus DEF BeginRun, RunStates
<1>3. CASE FinishRun
  <2>1. exec \in Messages /\ runs[exec].status = "RUNNING"
    BY <1>3 DEF FinishRun, TypeOK
  <2>2. thread.latest + 1 \in Revisions
    BY <2>1, Room DEF PlannedRuns
  <2>3. PICK o \in Outcomes : runs' = [runs EXCEPT ![exec] = o]
    BY <1>3 DEF FinishRun
  <2>4. o \in RunRecords /\ (o.status = "PLAN_READY" => o.rev = thread.latest + 1)
    BY <2>2, <2>3 DEF Outcomes, RunRecords, RunStates
  <2>5. runs' = [n \in Messages |-> IF n = exec THEN o ELSE runs[n]]
    BY <1>0, <2>1, <2>3
  <2>6. thread.latest + 1 # 0
    BY <2>2, TypeParts
  <2>. QED
    BY <1>0, <2>1, <2>4, <2>5, <2>6
<1>. QED
  BY <1>0, <1>1, <1>2, <1>3, Writers

(* A proposal once stored keeps its revision. *)
LEMMA PropsTyped ==
  ASSUME TypeOK, CountInv, RunInv, ProposalInv, IntentInv, ConfirmInv, Next
  PROVE  /\ props' \in [Proposals -> PropRecords]
         /\ \A p \in Proposals : Stored(p) => props'[p].rev = props[p].rev
         /\ \A r \in Revisions : props'[Plan(r)].rev \in {0, r}
         /\ \A p \in Proposals : props'[p].status = "CONFIRMED" =>
              props[p].status = "CONFIRMED" \/ (PutConfirmed /\ p = Pid)
         /\ \A e \in Edits : props'[Edited(e)].rev = props[Edited(e)].rev \/ (PutEdit /\ work.id = e)
         /\ \A m \in Messages : PutPlan /\ work.id = m => Stored(PlanOf(m))'
<1>0. props \in [Proposals -> PropRecords] /\ work \in Operations \cup {None}
      /\ \A r \in Revisions : r \in Nat \ {0} /\ Plan(r) \in Proposals
  BY TypeParts
<1>1. CASE PutPlan
  <2>1. work.id \in Messages /\ runs[work.id].status = "PLAN_READY"
    BY <1>0, <1>1, Kinds DEF PutPlan, RunSteps
  <2>2. runs[work.id].rev \in Revisions
    BY <2>1 DEF TypeOK, RunInv, ThreadInv
  <2> DEFINE r == runs[work.id].rev
  <2>3. r \in Revisions /\ props' = [props EXCEPT ![Plan(r)].rev = r] /\ PlanOf(work.id) = Plan(r)
    BY <1>1, <2>2 DEF PutPlan, PlanOf
  <2> HIDE DEF r
  <2>5. /\ props' \in [Proposals -> PropRecords]
        /\ \A q \in Proposals : props'[q].status = props[q].status
        /\ \A q \in Proposals : q # Plan(r) => props'[q] = props[q]
        /\ props'[Plan(r)].rev = r
    BY <1>0, <2>3, SetPropRev
  <2>6. Stored(Plan(r)) => props[Plan(r)].rev = r
    BY <2>3 DEF ProposalInv, Stored
  <2>7. \A e \in Edits : Edited(e) # Plan(r) /\ Edited(e) \in Proposals
    BY DEF Edited, Plan, Proposals
  <2>8. \A q \in Revisions : Plan(q) = Plan(r) => q = r
    BY DEF Plan
  <2>9. \A m \in Messages : work.id = m => Stored(PlanOf(m))'
    BY <1>0, <1>1, <2>1, <2>3, <2>5 DEF Stored, PutPlan, PlanOf
  <2>10. \A q \in Revisions : props'[Plan(q)].rev \in {0, q}
    BY <1>0, <2>3, <2>5, <2>8 DEF ProposalInv
  <2>. QED
    BY <1>0, <2>5, <2>6, <2>7, <2>9, <2>10 DEF Stored
<1>2. CASE PutEdit
  <2>1. work.id \in Edits /\ At("put edit")
    BY <1>0, <1>2, Kinds DEF PutEdit, EditSteps
  <2>2. ~Stored(Edited(work.id)) /\ Edited(work.id) \in Proposals
    BY <2>1, TypeParts DEF ProposalInv
  <2>3. thread.latest + 1 \in Revisions
    BY <2>1, <2>2, Room DEF PublishedEdits
  <2> DEFINE e == Edited(work.id)
  <2>4. e \in Proposals /\ ~Stored(e) /\ props' = [props EXCEPT ![e].rev = thread.latest + 1]
    BY <1>2, <2>2 DEF PutEdit
  <2>5. \A r \in Revisions : Plan(r) # e
    BY DEF Edited, Plan
  <2>6. \A f \in Edits : Edited(f) = e => f = work.id
    BY DEF Edited
  <2> HIDE DEF e
  <2>7. /\ props' \in [Proposals -> PropRecords]
        /\ \A q \in Proposals : props'[q].status = props[q].status
        /\ \A q \in Proposals : q # e => props'[q] = props[q]
    BY <1>0, <2>3, <2>4, SetPropRev
  <2>8. ~PutPlan
    BY <1>2 DEF PutPlan, PutEdit, At
  <2>. QED
    BY <1>0, <1>2, <2>4, <2>5, <2>6, <2>7, <2>8, TypeParts DEF ProposalInv
<1>3. CASE SupersedePending \/ SupersedeEdited
  <2>1. PICK p \in Proposals : props' = [props EXCEPT ![p].status = "SUPERSEDED"]
    BY <1>3 DEF SupersedePending, SupersedeEdited, Outdated, ByRevision
  <2>2. ~PutPlan
    BY <1>3 DEF PutPlan, SupersedePending, SupersedeEdited, At
  <2>. QED
    BY <1>0, <2>1, <2>2, SetPropStatus, TypeParts DEF ProposalInv, PropStatuses
<1>4. CASE PutConfirmed
  <2>1. work.id \in Revisions /\ At("confirmed")
    BY <1>0, <1>4, Kinds DEF PutConfirmed, ConfirmSteps
  <2>2. Pid \in Proposals
    BY <2>1 DEF ConfirmInv, ConfirmWorkInv, IntentInv, Pid
  <2>3. props' = [props EXCEPT ![Pid].status = "CONFIRMED"]
    BY <1>4 DEF PutConfirmed
  <2>4. ~PutPlan
    BY <1>4 DEF PutPlan, PutConfirmed, At
  <2>. QED
    BY <1>0, <1>4, <2>2, <2>3, <2>4, SetPropStatus, TypeParts DEF ProposalInv, PropStatuses
<1>5. CASE props' = props
  <2>1. PutPlan => work.id \in Messages /\ runs[work.id].status = "PLAN_READY" /\ runs' = runs
    BY <1>0, Kinds DEF PutPlan, RunSteps
  <2>2. PutPlan => runs[work.id].rev \in Revisions /\ props' = [props EXCEPT ![Plan(runs[work.id].rev)].rev = runs[work.id].rev]
    BY <2>1 DEF TypeOK, RunInv, ThreadInv, PutPlan, PlanOf
  <2>3. PutPlan => props'[Plan(runs[work.id].rev)].rev = runs[work.id].rev
    BY <1>0, <2>2, SetPropRev
  <2>4. \A m \in Messages : PutPlan /\ work.id = m => Stored(PlanOf(m))'
    BY <1>0, <2>1, <2>2, <2>3 DEF Stored, PlanOf
  <2>. QED
    BY <1>0, <1>5, <2>4 DEF ProposalInv
<1>. QED
  BY <1>1, <1>2, <1>3, <1>4, <1>5, Writers

(* An intent once written keeps its proposal and the revision it was made for. *)
LEMMA IntentsTyped ==
  ASSUME TypeOK, Next
  PROVE  /\ intents' \in [Revisions -> IntentRecords]
         /\ \A r \in Revisions : intents[r].state # "NONE" =>
              /\ intents'[r].state # "NONE"
              /\ intents'[r].pid = intents[r].pid /\ intents'[r].expected = intents[r].expected
         /\ \A r \in Revisions : intents'[r] # intents[r] =>
              \/ \E s \in Selections : Confirm(r, s)
              \/ work.id = r /\ (AbortConfirm \/ RecordPlanSaved \/ RecordStarted \/ CompleteConfirm)
         /\ \A r \in Revisions, s \in Selections : Confirm(r, s) =>
              /\ intents'[r].state = "PREPARED" /\ intents'[r].expected = revision
              /\ intents'[r].pid \in Proposals /\ Confirmable(r, intents'[r].pid, revision)
         /\ RecordPlanSaved => intents'[work.id].state = "PLAN_SAVED"
         /\ RecordStarted => intents'[work.id].state = "STARTED"
         /\ CompleteConfirm => intents'[work.id].state = "COMPLETED"
         /\ AbortConfirm => intents'[work.id].state = "ABORTED"
<1>0. intents \in [Revisions -> IntentRecords] /\ work \in Operations \cup {None} /\ revision \in Nat
  BY TypeParts
<1>1. ASSUME NEW r \in Revisions, NEW s \in Selections, Confirm(r, s)
      PROVE  /\ intents[r].state = "NONE" /\ work = None
             /\ \E p \in Proposals :
                  /\ Confirmable(r, p, revision)
                  /\ intents' = [intents EXCEPT ![r] = [state |-> "PREPARED", pid |-> p,
                                                        expected |-> revision, selection |-> s]]
  BY <1>1 DEF Confirm, Free
<1>2. ASSUME NEW r \in Revisions, NEW s \in Selections, Confirm(r, s)
      PROVE  /\ intents' \in [Revisions -> IntentRecords]
             /\ \A q \in Revisions : q # r => intents'[q] = intents[q]
             /\ intents'[r].state = "PREPARED" /\ intents'[r].expected = revision
             /\ intents'[r].pid \in Proposals /\ Confirmable(r, intents'[r].pid, revision)
  <2>1. PICK p \in Proposals :
               /\ Confirmable(r, p, revision)
               /\ intents' = [intents EXCEPT ![r] = [state |-> "PREPARED", pid |-> p,
                                                     expected |-> revision, selection |-> s]]
    BY <1>1, <1>2
  <2> DEFINE i == [state |-> "PREPARED", pid |-> p, expected |-> revision, selection |-> s]
  <2>2. i \in IntentRecords /\ i.state = "PREPARED" /\ i.expected = revision /\ i.pid = p
    BY <1>0 DEF IntentRecords, IntentStates
  <2>3. intents' = [intents EXCEPT ![r] = i]
    BY <2>1
  <2> HIDE DEF i
  <2>. QED
    BY <1>0, <2>1, <2>2, <2>3
<1>3. ASSUME AbortConfirm \/ RecordPlanSaved \/ RecordStarted \/ CompleteConfirm
      PROVE  work # None /\ work.id \in Revisions
  BY <1>0, <1>3, Kinds DEF AbortConfirm, RecordPlanSaved, RecordStarted, CompleteConfirm, ConfirmSteps, At
<1>4. AbortConfirm => work.id \in Revisions /\ intents' = [intents EXCEPT ![work.id].state = "ABORTED"] /\ intents[work.id].state \in IntentStates
  BY <1>0, <1>3 DEF AbortConfirm, IntentRecords
<1>5. RecordPlanSaved => work.id \in Revisions /\ intents' = [intents EXCEPT ![work.id].state = "PLAN_SAVED"]
  BY <1>3 DEF RecordPlanSaved
<1>6. RecordStarted => work.id \in Revisions /\ intents' = [intents EXCEPT ![work.id].state = "STARTED"]
  BY <1>3 DEF RecordStarted
<1>7. CompleteConfirm => work.id \in Revisions /\ intents' = [intents EXCEPT ![work.id].state = "COMPLETED"]
  BY <1>3 DEF CompleteConfirm
<1>8. ASSUME NEW s \in {"ABORTED", "PLAN_SAVED", "STARTED", "COMPLETED"}, work.id \in Revisions,
             intents' = [intents EXCEPT ![work.id].state = s]
      PROVE  /\ intents' \in [Revisions -> IntentRecords]
             /\ \A q \in Revisions : q # work.id => intents'[q] = intents[q]
             /\ intents'[work.id].state = s /\ intents'[work.id].pid = intents[work.id].pid
             /\ intents'[work.id].expected = intents[work.id].expected
  BY <1>0, <1>8, SetIntentState DEF IntentStates
<1>9. CASE AbortConfirm
  <2>1. ~RecordPlanSaved /\ ~RecordStarted /\ ~CompleteConfirm
    BY <1>9 DEF AbortConfirm, RecordPlanSaved, RecordStarted, CompleteConfirm, At
  <2>. QED
    BY <1>0, <1>1, <1>3, <1>4, <1>8, <1>9, <2>1
<1>10. CASE RecordPlanSaved
  <2>1. ~AbortConfirm /\ ~RecordStarted /\ ~CompleteConfirm
    BY <1>10 DEF AbortConfirm, RecordPlanSaved, RecordStarted, CompleteConfirm, At
  <2>. QED
    BY <1>0, <1>1, <1>3, <1>5, <1>8, <1>10, <2>1
<1>11. CASE RecordStarted
  <2>1. ~AbortConfirm /\ ~RecordPlanSaved /\ ~CompleteConfirm
    BY <1>11 DEF AbortConfirm, RecordPlanSaved, RecordStarted, CompleteConfirm, At
  <2>. QED
    BY <1>0, <1>1, <1>3, <1>6, <1>8, <1>11, <2>1
<1>12. CASE CompleteConfirm
  <2>1. ~AbortConfirm /\ ~RecordPlanSaved /\ ~RecordStarted
    BY <1>12 DEF AbortConfirm, RecordPlanSaved, RecordStarted, CompleteConfirm, At
  <2>. QED
    BY <1>0, <1>1, <1>3, <1>7, <1>8, <1>12, <2>1
<1>13. CASE \E r \in Revisions, s \in Selections : Confirm(r, s)
  <2>1. PICK r \in Revisions, s \in Selections : Confirm(r, s)
    BY <1>13
  <2>2. ~AbortConfirm /\ ~RecordPlanSaved /\ ~RecordStarted /\ ~CompleteConfirm
    BY <1>1, <1>3, <2>1
  <2>. QED
    BY <1>0, <1>1, <1>2, <2>1, <2>2
<1>14. CASE /\ intents' = intents /\ ~AbortConfirm /\ ~RecordPlanSaved /\ ~RecordStarted /\ ~CompleteConfirm
            /\ ~\E r \in Revisions, s \in Selections : Confirm(r, s)
  BY <1>0, <1>14
<1>. QED
  BY <1>9, <1>10, <1>11, <1>12, <1>13, <1>14, Writers

LEMMA ThreadTyped ==
  ASSUME TypeOK, CountInv, RunInv, ProposalInv, Next
  PROVE  /\ thread' \in [latest : Revisions \cup {0}, msg : Messages \cup {None},
                         status : (RunStates \ {"QUEUED"}) \cup {"SUBMITTING"}]
         /\ thread'.latest = thread.latest \/ thread'.latest = thread.latest + 1
         /\ thread'.latest = thread.latest \/ EndRun \/ PublishEdit
         /\ QueueRun => thread'.msg = work.id /\ thread'.status = "SUBMITTING"
         /\ RecordRunning => thread'.msg = thread.msg /\ thread'.status = "RUNNING"
         /\ PublishEdit => thread'.msg = thread.msg /\ thread'.status = thread.status
                           /\ thread'.latest = thread.latest + 1
         /\ EndRun => /\ work.id \in Messages /\ thread'.msg = work.id /\ thread'.status = runs[work.id].status
                      /\ runs[work.id].status = "PLAN_READY" => thread'.latest = runs[work.id].rev
                      /\ runs[work.id].status # "PLAN_READY" => thread'.latest = thread.latest
<1>0. /\ work \in Operations \cup {None}
      /\ thread \in [latest : Revisions \cup {0}, msg : Messages \cup {None},
                     status : (RunStates \ {"QUEUED"}) \cup {"SUBMITTING"}]
  BY DEF TypeOK
<1>1. CASE QueueRun
  <2>1. work.id \in Messages
    BY <1>0, <1>1, Kinds DEF QueueRun, RunSteps
  <2>2. ~RecordRunning /\ ~PublishEdit /\ ~EndRun
    BY <1>1 DEF QueueRun, RecordRunning, PublishEdit, EndRun, At
  <2>. QED
    BY <1>0, <1>1, <2>1, <2>2 DEF QueueRun, RunStates
<1>2. CASE RecordRunning
  <2>1. ~QueueRun /\ ~PublishEdit /\ ~EndRun
    BY <1>2 DEF QueueRun, RecordRunning, PublishEdit, EndRun, At
  <2>. QED
    BY <1>0, <1>2, <2>1 DEF RecordRunning, RunStates
<1>3. CASE PublishEdit
  <2>1. ~QueueRun /\ ~RecordRunning /\ ~EndRun
    BY <1>3 DEF QueueRun, RecordRunning, PublishEdit, EndRun, At
  <2>2. work.id \in Edits /\ At("publish edit")
    BY <1>0, <1>3, Kinds DEF PublishEdit, EditSteps
  <2>3. props[Edited(work.id)].rev = thread.latest + 1
    BY <2>2 DEF ProposalInv
  <2>4. thread.latest + 1 \in Revisions
    <3>1. thread.latest \in Nat
      BY TypeParts
    <3>2. work.id \notin PublishedEdits
      BY <2>3, <3>1 DEF PublishedEdits
    <3>. QED
      BY <2>2, <3>2, Room
  <2>. QED
    BY <1>0, <1>3, <2>1, <2>4 DEF PublishEdit
<1>4. CASE EndRun
  <2>1. ~QueueRun /\ ~RecordRunning /\ ~PublishEdit
    BY <1>4 DEF QueueRun, RecordRunning, PublishEdit, EndRun, At
  <2>2. work.id \in Messages /\ At("end")
    BY <1>0, <1>4, Kinds DEF EndRun, RunSteps
  <2>3. /\ runs[work.id].status \in {"PLAN_READY", "NEEDS_INPUT", "FAILED"}
        /\ runs[work.id].status = "PLAN_READY" => runs[work.id].rev = thread.latest + 1
        /\ runs[work.id].rev \in Revisions \cup {0}
    BY <2>2 DEF RunInv, RunWorkInv, TypeOK
  <2>. QED
    BY <1>0, <1>4, <2>1, <2>2, <2>3 DEF EndRun, PublishRun, RunStates
<1>5. CASE thread' = thread /\ ~QueueRun /\ ~RecordRunning /\ ~PublishEdit /\ ~EndRun
  BY <1>0, <1>5
<1>. QED
  BY <1>1, <1>2, <1>3, <1>4, <1>5, Writers

(* What every step of a confirmation knows of its proposal. *)
LEMMA Confirming ==
  ASSUME TypeOK, IntentInv, ConfirmInv, NEW l \in ConfirmSteps, At(l)
  PROVE  /\ work.id \in Revisions /\ intents[work.id].state \in {"PREPARED", "PLAN_SAVED", "STARTED"}
         /\ Pid \in Proposals /\ props[Pid].rev = work.id
<1>1. work.id \in Revisions
  BY Kinds, TypeParts
<1>2. intents[work.id].state \in {"PREPARED", "PLAN_SAVED", "STARTED"}
  BY DEF ConfirmInv, ConfirmWorkInv, ConfirmSteps
<1>. QED
  BY <1>1, <1>2 DEF IntentInv, Pid

LEMMA BoardTyped ==
  ASSUME TypeOK, IntentInv, ConfirmInv, Next
  PROVE  /\ saves' \in [Proposals -> {"NONE", "PREPARED", "COMMITTED", "ABORTED"}]
         /\ landed' \in [Proposals -> Nat] /\ revision' \in Nat /\ revision <= revision'
         /\ task' \in TaskStatuses
         /\ \A p \in Proposals : landed'[p] # landed[p] =>
              /\ landed'[p] = revision + 1 /\ revision' = revision + 1
              /\ \/ LandPlan /\ p = Pid
                 \/ /\ RecoverSave(p) /\ landed[p] = 0
                    /\ revision = intents[props[p].rev].expected
         /\ LandPlan => landed'[Pid] = revision + 1
         /\ \A p \in Proposals : RecoverSave(p) =>
              \/ saves'[p] = "COMMITTED" /\ landed'[p] # 0
              \/ saves'[p] = "ABORTED" /\ landed[p] = 0 /\ revision # intents[props[p].rev].expected
         /\ \A p \in Proposals : saves'[p] # saves[p] =>
              \/ RecoverSave(p)
              \/ CommitSave /\ p = Pid /\ saves'[p] = "COMMITTED"
              \/ PrepareSave /\ p = Pid /\ saves[p] = "NONE" /\ saves'[p] = "PREPARED"
<1>0. /\ saves \in [Proposals -> {"NONE", "PREPARED", "COMMITTED", "ABORTED"}]
      /\ landed \in [Proposals -> Nat] /\ revision \in Nat /\ task \in TaskStatuses
  BY DEF TypeOK
<1>1. LandPlan \/ CommitSave \/ PrepareSave => Pid \in Proposals /\ work # None
  BY Confirming DEF LandPlan, CommitSave, PrepareSave, ConfirmSteps, At
<1>2. CASE LandPlan
  <2>1. ~CommitSave /\ ~PrepareSave /\ \A p \in Proposals : ~RecoverSave(p)
    BY <1>2 DEF LandPlan, CommitSave, PrepareSave, RecoverSave, Recovering, At
  <2>2. /\ landed' = [landed EXCEPT ![Pid] = revision + 1] /\ revision' = revision + 1
        /\ task' = (IF task = "DRAFT" THEN "AWAITING" ELSE task) /\ saves' = saves
    BY <1>2 DEF LandPlan, Land
  <2>3. task' \in TaskStatuses
    BY <1>0, <2>2 DEF TaskStatuses
  <2>4. landed' \in [Proposals -> Nat] /\ landed'[Pid] = revision + 1
        /\ \A p \in Proposals : p # Pid => landed'[p] = landed[p]
    BY <1>0, <1>1, <1>2, <2>2
  <2>. QED
    BY <1>0, <1>2, <2>1, <2>2, <2>3, <2>4
<1>3. CASE \E p \in Proposals : RecoverSave(p)
  <2>1. PICK p \in Proposals : RecoverSave(p)
    BY <1>3
  <2>2. ~LandPlan /\ ~CommitSave /\ ~PrepareSave
    BY <2>1 DEF LandPlan, CommitSave, PrepareSave, RecoverSave, Recovering, At
  <2> DEFINE fresh == revision = intents[props[p].rev].expected
  <2>3. /\ saves[p] = "PREPARED"
        /\ saves' = [saves EXCEPT ![p] = IF landed[p] # 0 \/ fresh THEN "COMMITTED" ELSE "ABORTED"]
        /\ IF landed[p] = 0 /\ fresh THEN Land(p) ELSE UNCHANGED <<landed, revision, task>>
    BY <2>1 DEF RecoverSave, Recoverable, Prepared
  <2>4. \A q \in Proposals : q # p => ~RecoverSave(q)
    <3>. SUFFICES ASSUME NEW q \in Proposals, q # p, RecoverSave(q) PROVE FALSE
      OBVIOUS
    <3>1. saves[q] = "PREPARED" /\ saves'[q] \in {"COMMITTED", "ABORTED"}
      BY <1>0 DEF RecoverSave, Recoverable, Prepared
    <3>. QED
      BY <1>0, <2>3, <3>1
  <2>5. CASE landed[p] = 0 /\ fresh
    <3>1. /\ landed' = [landed EXCEPT ![p] = revision + 1] /\ revision' = revision + 1
          /\ task' = IF task = "DRAFT" THEN "AWAITING" ELSE task
          /\ saves' = [saves EXCEPT ![p] = "COMMITTED"]
      BY <2>3, <2>5 DEF Land
    <3>2. task' \in TaskStatuses
      BY <1>0, <3>1 DEF TaskStatuses
    <3>3. /\ landed' \in [Proposals -> Nat] /\ landed'[p] = revision + 1 /\ landed'[p] # 0
          /\ \A q \in Proposals : q # p => landed'[q] = landed[q]
      BY <1>0, <3>1
    <3>. QED
      BY <1>0, <2>1, <2>2, <2>4, <2>5, <3>1, <3>2, <3>3
  <2>6. CASE ~(landed[p] = 0 /\ fresh)
    <3>1. landed' = landed /\ revision' = revision /\ task' = task
      BY <2>3, <2>6
    <3>2. CASE landed[p] # 0
      <4>1. saves' = [saves EXCEPT ![p] = "COMMITTED"]
        BY <2>3, <3>2
      <4>. QED
        BY <1>0, <2>1, <2>2, <2>4, <3>1, <3>2, <4>1
    <3>3. CASE landed[p] = 0 /\ ~fresh
      <4>1. saves' = [saves EXCEPT ![p] = "ABORTED"]
        BY <2>3, <3>3
      <4>. QED
        BY <1>0, <2>1, <2>2, <2>4, <3>1, <3>3, <4>1
    <3>. QED
      BY <2>6, <3>2, <3>3
  <2>. QED
    BY <2>5, <2>6
<1>4. CASE CommitSave
  <2>1. ~LandPlan /\ ~PrepareSave /\ \A p \in Proposals : ~RecoverSave(p)
    BY <1>4 DEF LandPlan, CommitSave, PrepareSave, RecoverSave, Recovering, At
  <2>2. landed' = landed /\ revision' = revision /\ task' = task
    BY <1>4 DEF CommitSave
  <2>3. saves' = [saves EXCEPT ![Pid] = "COMMITTED"]
    BY <1>4 DEF CommitSave
  <2>. QED
    BY <1>0, <1>1, <1>4, <2>1, <2>2, <2>3
<1>5. CASE PrepareSave
  <2>1. ~LandPlan /\ ~CommitSave /\ \A p \in Proposals : ~RecoverSave(p)
    BY <1>5 DEF LandPlan, CommitSave, PrepareSave, RecoverSave, Recovering, At
  <2>4. landed' = landed /\ revision' = revision /\ task' = task
    BY <1>5 DEF PrepareSave
  <2>2. CASE saves[Pid] = "NONE"
    <3>1. saves' = [saves EXCEPT ![Pid] = "PREPARED"]
      BY <1>0, <1>1, <1>5, <2>2 DEF PrepareSave
    <3>. QED
      BY <1>0, <1>1, <1>5, <2>1, <2>2, <2>4, <3>1
  <2>3. CASE saves[Pid] # "NONE"
    <3>1. saves' = saves
      BY <1>0, <1>1, <1>5, <2>3 DEF PrepareSave
    <3>. QED
      BY <1>0, <1>5, <2>1, <2>4, <3>1
  <2>. QED
    BY <2>2, <2>3
<1>6. CASE ~LandPlan /\ ~CommitSave /\ ~PrepareSave /\ \A p \in Proposals : ~RecoverSave(p)
  <2>1. saves' = saves /\ landed' = landed
    BY <1>6, Writers
  <2>2. ApplyTitle => revision' \in {revision, revision + 1}
    BY DEF ApplyTitle
  <2>3. ConfirmStart => revision' \in {revision, revision + 1} /\ task' = "RUNNING"
    BY DEF ConfirmStart
  <2>4. OtherCommits \/ AgentsReport => revision' = revision + 1 /\ task' \in TaskStatuses
    BY <1>0 DEF OtherCommits, AgentsReport, TaskStatuses
  <2>. QED
    <3>1. task' \in TaskStatuses
      <4>1. CASE ConfirmStart
        BY <2>3, <4>1 DEF TaskStatuses
      <4>2. CASE task' = task
        BY <1>0, <4>2
      <4>. QED
        BY <1>6, <2>4, <4>1, <4>2, Writers
    <3>2. revision' \in {revision, revision + 1}
      BY <1>6, <2>2, <2>3, <2>4, Writers
    <3>. QED
      BY <1>0, <1>6, <2>1, <3>1, <3>2
<1>. QED
  BY <1>2, <1>3, <1>4, <1>5, <1>6

LEMMA TalkTyped ==
  ASSUME TypeOK, RunInv, IntentInv, ConfirmInv, Next
  PROVE  /\ msgs \subseteq msgs'
         /\ msgs' \subseteq Messages \cup (Messages \X {"NEEDS_INPUT", "FAILED"})
                             \cup (Proposals \X {"proposed", "confirmed"})
         /\ titled \subseteq titled' /\ titled' \subseteq Messages
         /\ starts \subseteq starts' /\ starts' \subseteq Proposals
         /\ \A p \in starts' \ starts : PrepareStart /\ p = Pid
<1>0. work \in Operations \cup {None}
  BY DEF TypeOK
<1>1. PutMessage \/ PutAnswer \/ PutPlanMessage \/ ApplyTitle => work.id \in Messages
  BY <1>0, Kinds DEF PutMessage, PutAnswer, PutPlanMessage, ApplyTitle, RunSteps
<1>2. PutEditMessage => Edited(work.id) \in Proposals
  BY <1>0, Kinds, TypeParts DEF PutEditMessage, EditSteps
<1>3. PutConfirmMessage \/ PrepareStart => Pid \in Proposals
  BY Confirming DEF PutConfirmMessage, PrepareStart, ConfirmSteps
<1>4. PutPlanMessage => PlanOf(work.id) \in Proposals
  <2>1. PutPlanMessage => runs[work.id].rev \in Revisions
    BY <1>1 DEF PutPlanMessage, RunInv, ThreadInv, RunWorkInv, TypeOK
  <2>. QED
    BY <2>1, TypeParts DEF PlanOf
<1>5. /\ msgs \subseteq msgs'
      /\ msgs' \subseteq Messages \cup (Messages \X {"NEEDS_INPUT", "FAILED"})
                          \cup (Proposals \X {"proposed", "confirmed"})
  <2>0. msgs \subseteq Messages \cup (Messages \X {"NEEDS_INPUT", "FAILED"})
                          \cup (Proposals \X {"proposed", "confirmed"})
    BY DEF TypeOK
  <2>1. CASE PutMessage
    BY <1>1, <2>0, <2>1 DEF PutMessage
  <2>2. CASE PutAnswer
    BY <1>1, <2>0, <2>2 DEF PutAnswer
  <2>3. CASE PutPlanMessage
    BY <1>4, <2>0, <2>3 DEF PutPlanMessage
  <2>4. CASE PutEditMessage
    <3>1. <<Edited(work.id), "proposed">> \in Proposals \X {"proposed", "confirmed"}
      BY <1>2, <2>4
    <3>2. msgs' = msgs \cup {<<Edited(work.id), "proposed">>}
      BY <2>4 DEF PutEditMessage
    <3>. QED
      BY <2>0, <3>1, <3>2
  <2>5. CASE PutConfirmMessage
    <3>1. <<Pid, "confirmed">> \in Proposals \X {"proposed", "confirmed"}
      BY <1>3, <2>5
    <3>2. msgs' = msgs \cup {<<Pid, "confirmed">>}
      BY <2>5 DEF PutConfirmMessage
    <3>. QED
      BY <2>0, <3>1, <3>2
  <2>. QED
    BY <2>0, <2>1, <2>2, <2>3, <2>4, <2>5, Writers
<1>6. titled \subseteq titled' /\ titled' \subseteq Messages
  BY <1>1, Writers DEF ApplyTitle, TypeOK
<1>7. /\ starts \subseteq starts' /\ starts' \subseteq Proposals
      /\ \A p \in starts' \ starts : PrepareStart /\ p = Pid
  BY <1>3, Writers DEF PrepareStart, TypeOK
<1>. QED
  BY <1>5, <1>6, <1>7

LEMMA EnvTyped ==
  ASSUME TypeOK, RunInv, Next
  PROVE  /\ app' \in {None, "confirm", "other"} /\ exec' \in Messages \cup {None}
         /\ others' \in 0 .. MaxFaults /\ crashes' \in 0 .. MaxFaults
         /\ mode' \in {"up", "down", "recovering"}
<1>0. work \in Operations \cup {None} /\ MaxFaults \in Nat
  BY MasterAssumption DEF TypeOK
<1>1. app' \in {None, "confirm", "other"}
  BY DEF TypeOK,
         Next, Calls, WorkStep, OtherStep, Startup, AppendMessage, EnsureIntake, PutMessage,
         QueueRun, MonitorVisits, SubmitRun, RecordRunning, ObserveUnfinished, BeginRun,
         FinishRun, PutAnswer, RefusePlan, PutPlan, SupersedePending, PutPlanMessage, ApplyTitle,
         EndRun, ReviseTaskCard, PutEdit, SupersedeEdited, PutEditMessage, PublishEdit, Confirm,
         ConfirmAgain, PassGate, AbortConfirm, EnterApplication, ApplicationTimesOut,
         ApplicationRefuses, PrepareSave, LandPlan, CommitSave, RecordPlanSaved, PrepareStart,
         ConfirmStart, RecordStarted, PutConfirmed, PutConfirmMessage, CompleteConfirm,
         OtherEnters, OtherCommits, AgentsReport, OtherTimesOut, SourceFails, Crash, Restart, RecoverSave, RecoverConfirm,
         RecoverRun, Recovered
<1>2. exec' \in Messages \cup {None}
  <2>1. ObserveUnfinished => work.id \in Messages
    BY <1>0, Kinds DEF ObserveUnfinished, RunSteps
  <2>. QED
    BY <2>1 DEF TypeOK,
         Next, Calls, WorkStep, OtherStep, Startup, env, AppendMessage, EnsureIntake, PutMessage,
         QueueRun, MonitorVisits, SubmitRun, RecordRunning, ObserveUnfinished, BeginRun,
         FinishRun, PutAnswer, RefusePlan, PutPlan, SupersedePending, PutPlanMessage, ApplyTitle,
         EndRun, ReviseTaskCard, PutEdit, SupersedeEdited, PutEditMessage, PublishEdit, Confirm,
         ConfirmAgain, PassGate, AbortConfirm, EnterApplication, ApplicationTimesOut,
         ApplicationRefuses, PrepareSave, LandPlan, CommitSave, RecordPlanSaved, PrepareStart,
         ConfirmStart, RecordStarted, PutConfirmed, PutConfirmMessage, CompleteConfirm,
         OtherEnters, OtherCommits, AgentsReport, OtherTimesOut, SourceFails, Crash, Restart, RecoverSave, RecoverConfirm,
         RecoverRun, Recovered
<1>3. others' \in 0 .. MaxFaults /\ crashes' \in 0 .. MaxFaults
  <2>1. CASE OtherEnters
    BY <1>0, <2>1 DEF OtherEnters, TypeOK
  <2>2. CASE Crash
    BY <1>0, <2>2 DEF Crash, TypeOK
  <2>3. CASE SourceFails
    <3>1. others' = others + 1 /\ crashes' = crashes /\ others + crashes < MaxFaults
      BY <2>3 DEF SourceFails
    <3>. QED
      BY <1>0, <3>1 DEF TypeOK
  <2>4. OtherEnters \/ Crash \/ SourceFails \/ (others' = others /\ crashes' = crashes)
    BY DEF Next, Calls, WorkStep, OtherStep, Startup, env, AppendMessage, EnsureIntake, PutMessage,
         QueueRun, MonitorVisits, SubmitRun, RecordRunning, ObserveUnfinished, BeginRun,
         FinishRun, PutAnswer, RefusePlan, PutPlan, SupersedePending, PutPlanMessage, ApplyTitle,
         EndRun, ReviseTaskCard, PutEdit, SupersedeEdited, PutEditMessage, PublishEdit, Confirm,
         ConfirmAgain, PassGate, AbortConfirm, EnterApplication, ApplicationTimesOut,
         ApplicationRefuses, PrepareSave, LandPlan, CommitSave, RecordPlanSaved, PrepareStart,
         ConfirmStart, RecordStarted, PutConfirmed, PutConfirmMessage, CompleteConfirm,
         OtherCommits, AgentsReport, OtherTimesOut, Restart, RecoverSave, RecoverConfirm, RecoverRun, Recovered
  <2>. QED
    BY <2>1, <2>2, <2>3, <2>4 DEF TypeOK
<1>4. mode' \in {"up", "down", "recovering"}
  BY DEF TypeOK, Return, Raise, Go,
         Next, Calls, WorkStep, OtherStep, Startup, AppendMessage, EnsureIntake, PutMessage,
         QueueRun, MonitorVisits, SubmitRun, RecordRunning, ObserveUnfinished, BeginRun,
         FinishRun, PutAnswer, RefusePlan, PutPlan, SupersedePending, PutPlanMessage, ApplyTitle,
         EndRun, ReviseTaskCard, PutEdit, SupersedeEdited, PutEditMessage, PublishEdit, Confirm,
         ConfirmAgain, PassGate, AbortConfirm, EnterApplication, ApplicationTimesOut,
         ApplicationRefuses, PrepareSave, LandPlan, CommitSave, RecordPlanSaved, PrepareStart,
         ConfirmStart, RecordStarted, PutConfirmed, PutConfirmMessage, CompleteConfirm,
         OtherEnters, OtherCommits, AgentsReport, OtherTimesOut, SourceFails, Crash, Restart, RecoverSave, RecoverConfirm,
         RecoverRun, Recovered
<1>. QED
  BY <1>1, <1>2, <1>3, <1>4

LEMMA Typed ==
  ASSUME IInv, Next
  PROVE  TypeOK'
<1>1. runs' \in [Messages -> RunRecords] /\ props' \in [Proposals -> PropRecords]
      /\ intents' \in [Revisions -> IntentRecords]
  BY RunsTyped, PropsTyped, IntentsTyped DEF IInv
<1>2. /\ saves' \in [Proposals -> {"NONE", "PREPARED", "COMMITTED", "ABORTED"}]
      /\ landed' \in [Proposals -> Nat] /\ revision' \in Nat
      /\ task' \in TaskStatuses
  BY BoardTyped DEF IInv
<1>3. work' \in Operations \cup {None}
  BY WorkTyped DEF IInv
<1>4. thread' \in [latest : Revisions \cup {0}, msg : Messages \cup {None},
                   status : (RunStates \ {"QUEUED"}) \cup {"SUBMITTING"}]
  BY ThreadTyped DEF IInv
<1>. QED
  BY <1>1, <1>2, <1>3, <1>4, TalkTyped, EnvTyped
     DEF IInv, TypeOK, RunRecords, PropRecords, PropStatuses, IntentRecords, IntentStates

(***************************************************************************)
(* The label of an operation that goes on.                                 *)
(***************************************************************************)
LEMMA Goes ==
  ASSUME work \in Operations \cup {None}, RunMoves \/ EditMoves \/ ConfirmMoves
  PROVE  /\ work # None /\ work' # None /\ work'.id = work.id
         /\ \A l : Go(l) => work'.pc = l
         /\ \A l : Go(l) => \A k : At(k)' => k = l
<1>1. \/ work \in RunOps /\ \E l \in RunSteps : Go(l)
      \/ work \in EditOps /\ \E l \in EditSteps : Go(l)
      \/ work \in ConfirmOps /\ \E l \in ConfirmSteps : Go(l)
  BY Moves
<1>2. /\ work # None /\ work' # None /\ work'.id = work.id
      /\ \A l : Go(l) => work'.pc = l
  <2>1. CASE work \in RunOps /\ \E l \in RunSteps : Go(l)
    <3>1. PICK l \in RunSteps : work' = [work EXCEPT !.pc = l]
      BY <2>1 DEF Go
    <3>2. work' \in RunOps /\ work'.id = work.id /\ work'.pc = l
      BY <2>1, <3>1 DEF RunOps
    <3>3. \A k : Go(k) => work'.pc = k
      BY <2>1 DEF Go, RunOps
    <3>. QED
      BY <2>1, <3>2, <3>3, WorkIsNotNone
  <2>2. CASE work \in EditOps /\ \E l \in EditSteps : Go(l)
    <3>1. PICK l \in EditSteps : work' = [work EXCEPT !.pc = l]
      BY <2>2 DEF Go
    <3>2. work' \in EditOps /\ work'.id = work.id /\ work'.pc = l
      BY <2>2, <3>1 DEF EditOps
    <3>3. \A k : Go(k) => work'.pc = k
      BY <2>2 DEF Go, EditOps
    <3>. QED
      BY <2>2, <3>2, <3>3, WorkIsNotNone
  <2>3. CASE work \in ConfirmOps /\ \E l \in ConfirmSteps : Go(l)
    <3>1. PICK l \in ConfirmSteps : work' = [work EXCEPT !.pc = l]
      BY <2>3 DEF Go
    <3>2. work' \in ConfirmOps /\ work'.id = work.id /\ work'.pc = l
      BY <2>3, <3>1 DEF ConfirmOps
    <3>3. \A k : Go(k) => work'.pc = k
      BY <2>3 DEF Go, ConfirmOps
    <3>. QED
      BY <2>3, <3>2, <3>3, WorkIsNotNone
  <2>. QED
    BY <1>1, <2>1, <2>2, <2>3
<1>. QED
  BY <1>2 DEF At

(***************************************************************************)
(* Every revision of the thread is paid for by a run or an edit.           *)
(***************************************************************************)
LEMMA CountKept ==
  ASSUME IInv, Next
  PROVE  CountInv'
<1>0. /\ TypeOK /\ TypeOK' /\ CountInv /\ RunInv /\ ProposalInv
      /\ thread.latest \in Nat /\ thread'.latest \in Nat /\ work \in Operations \cup {None}
      /\ \A m \in Messages : runs[m].rev \in Nat /\ runs'[m].rev \in Nat
      /\ \A e \in Edits : Edited(e) \in Proposals
      /\ \A p \in Proposals : props[p].rev \in Nat /\ props'[p].rev \in Nat
  <2>1. TypeOK'
    BY Typed
  <2>4. Revisions \cup {0} \subseteq Nat
    BY Counts DEF Revisions
  <2>2. thread'.latest \in Nat /\ \A m \in Messages : runs'[m].rev \in Nat
    BY <2>1, <2>4 DEF TypeOK
  <2>3. \A p \in Proposals : props[p].rev \in Nat /\ props'[p].rev \in Nat
    BY <2>1, <2>4 DEF TypeOK, IInv
  <2>. QED
    BY <2>1, <2>2, <2>3, TypeParts DEF IInv, TypeOK
<1>1. thread.latest <= thread'.latest
  BY <1>0, ThreadTyped
<1>2. PlannedRuns \subseteq PlannedRuns' /\ PlannedRuns' \subseteq Messages
  BY <1>0, <1>1, RunsTyped DEF PlannedRuns
<1>3. PublishedEdits \subseteq PublishedEdits' /\ PublishedEdits' \subseteq Edits
  <2>1. \A e \in Edits : Stored(Edited(e)) => props'[Edited(e)].rev = props[Edited(e)].rev
    BY <1>0, PropsTyped DEF IInv
  <2>. QED
    BY <1>0, <1>1, <2>1 DEF PublishedEdits, Stored
<1>4. /\ Cardinality(PlannedRuns) \in Nat /\ Cardinality(PlannedRuns') \in Nat
      /\ Cardinality(PublishedEdits) \in Nat /\ Cardinality(PublishedEdits') \in Nat
      /\ IsFiniteSet(PlannedRuns') /\ IsFiniteSet(PublishedEdits')
      /\ Cardinality(PlannedRuns) <= Cardinality(PlannedRuns')
      /\ Cardinality(PublishedEdits) <= Cardinality(PublishedEdits')
  <2>1. IsFiniteSet(PlannedRuns') /\ IsFiniteSet(PublishedEdits')
    BY <1>2, <1>3, Counts, FS_Subset
  <2>. QED
    BY <1>2, <1>3, <2>1, NotSmaller
<1>5. CASE thread'.latest = thread.latest
  BY <1>0, <1>4, <1>5 DEF CountInv
<1>6. CASE EndRun /\ thread'.latest = thread.latest + 1
  <2>1. work.id \in Messages /\ At("end")
    BY <1>0, <1>6, Kinds DEF EndRun, RunSteps
  <2>2. runs[work.id].status = "PLAN_READY" /\ runs[work.id].rev = thread.latest + 1 /\ runs' = runs
    BY <1>0, <1>6, <2>1, ThreadTyped DEF RunInv, RunWorkInv, EndRun
  <2>3. work.id \in PlannedRuns' /\ work.id \notin PlannedRuns
    BY <1>0, <1>6, <2>1, <2>2 DEF PlannedRuns
  <2>4. Cardinality(PlannedRuns) + 1 <= Cardinality(PlannedRuns')
    BY <1>2, <1>4, <2>3, Larger
  <2>. QED
    BY <1>0, <1>4, <1>6, <2>4 DEF CountInv
<1>7. CASE PublishEdit /\ thread'.latest = thread.latest + 1
  <2>1. work.id \in Edits /\ At("publish edit")
    BY <1>0, <1>7, Kinds DEF PublishEdit, EditSteps
  <2>2. props[Edited(work.id)].rev = thread.latest + 1 /\ props' = props
    BY <1>0, <1>7, <2>1 DEF ProposalInv, PublishEdit
  <2>3. work.id \in PublishedEdits' /\ work.id \notin PublishedEdits
    <3>1. props'[Edited(work.id)].rev = thread'.latest /\ thread'.latest # 0
      BY <1>0, <1>7, <2>2
    <3>2. ~(props[Edited(work.id)].rev <= thread.latest)
      BY <1>0, <2>2
    <3>3. PublishedEdits' = {e \in Edits : props'[Edited(e)].rev # 0 /\ props'[Edited(e)].rev <= thread'.latest}
      BY DEF PublishedEdits, Stored
    <3>4. work.id \notin PublishedEdits
      BY <3>2 DEF PublishedEdits
    <3>6. props'[Edited(work.id)].rev # 0 /\ props'[Edited(work.id)].rev <= thread'.latest
      BY <1>0, <3>1
    <3>5. work.id \in PublishedEdits'
      BY <2>1, <3>3, <3>6
    <3>. QED
      BY <3>4, <3>5
  <2>4. Cardinality(PublishedEdits) + 1 <= Cardinality(PublishedEdits')
    BY <1>3, <1>4, <2>3, Larger
  <2>. QED
    BY <1>0, <1>4, <1>7, <2>4 DEF CountInv
<1>. QED
  BY <1>0, <1>5, <1>6, <1>7, ThreadTyped

(***************************************************************************)
(* What the thread shows of its run.                                       *)
(***************************************************************************)
LEMMA PlanKept ==
  ASSUME IInv, Next, NEW m \in Messages,
         runs[m].status \in {"PLAN_READY", "NEEDS_INPUT", "FAILED"}
  PROVE  /\ runs'[m] = runs[m]
         /\ runs[m].status = "PLAN_READY" /\ Stored(PlanOf(m)) => Stored(PlanOf(m))'
         /\ runs[m].status = "PLAN_READY" /\ Proposed(m) => Proposed(m)'
         /\ Answered(m) => Answered(m)'
<1>1. runs'[m] = runs[m]
  BY RunsTyped DEF IInv
<1>2. msgs \subseteq msgs'
  BY TalkTyped DEF IInv
<1>3. runs[m].status = "PLAN_READY" => runs[m].rev \in Revisions /\ PlanOf(m) \in Proposals
  BY TypeParts DEF IInv, TypeOK, RunInv, ThreadInv, PlanOf
<1>4. PlanOf(m)' = PlanOf(m)
  BY <1>1 DEF PlanOf
<1>5. runs[m].status = "PLAN_READY" /\ Stored(PlanOf(m)) => Stored(PlanOf(m))'
  <2>1. \A p \in Proposals : Stored(p) => props'[p].rev = props[p].rev
    BY PropsTyped DEF IInv
  <2>. QED
    BY <1>3, <1>4, <2>1 DEF Stored
<1>6. runs[m].status = "PLAN_READY" /\ Proposed(m) => Proposed(m)'
  BY <1>2, <1>4, <1>5 DEF Proposed
<1>7. Answered(m) => Answered(m)'
  BY <1>1, <1>2 DEF Answered
<1>. QED
  BY <1>1, <1>5, <1>6, <1>7

LEMMA ThreadKept ==
  ASSUME IInv, Next
  PROVE  ThreadInv'
<1>0. /\ TypeOK /\ ThreadInv /\ RunWorkInv /\ work \in Operations \cup {None} /\ None \notin Messages
      /\ thread.msg \in Messages \cup {None}
  BY MasterAssumption DEF IInv, RunInv, TypeOK, Messages
<1>1. \A m \in Messages : runs'[m].status = "PLAN_READY" => runs'[m].rev # 0
  BY RunsTyped DEF IInv, RunInv, ThreadInv
<1>2. /\ thread.latest <= thread'.latest
      /\ thread.latest \in Nat /\ thread'.latest \in Nat
      /\ \A m \in Messages : runs[m].rev \in Nat
  <2>1. thread.latest \in Nat /\ \A m \in Messages : runs[m].rev \in Nat
    BY <1>0, TypeParts, Counts DEF TypeOK, Revisions
  <2>. QED
    BY <2>1, ThreadTyped DEF IInv
<1>3. CASE thread'.msg = thread.msg /\ thread'.status = thread.status
  <2>1. ASSUME thread.status \in {"NEEDS_INPUT", "FAILED", "PLAN_READY"}
        PROVE  /\ thread.msg \in Messages /\ runs[thread.msg].status = thread.status
               /\ runs'[thread.msg] = runs[thread.msg]
    BY <1>0, <2>1, PlanKept DEF ThreadInv
  <2>2. ASSUME thread.status \in {"NEEDS_INPUT", "FAILED"}
        PROVE  <<thread'.msg, thread'.status>> \in msgs'
    BY <1>0, <1>3, <2>2, TalkTyped DEF ThreadInv, EndedRunIsReadable, IInv
  <2>3. ASSUME thread.status = "PLAN_READY"
        PROVE  /\ thread'.latest >= runs'[thread'.msg].rev
               /\ Proposed(thread.msg)' /\ thread'.msg \in titled'
    <3>1. thread.msg \in Messages /\ runs[thread.msg].status = "PLAN_READY" /\ Proposed(thread.msg)
          /\ thread.latest >= runs[thread.msg].rev /\ thread.msg \in titled
      BY <1>0, <2>1, <2>3 DEF ThreadInv, EndedRunIsReadable, Proposed
    <3>2. PICK m \in Messages : m = thread.msg
      BY <3>1
    <3>3. Proposed(m)'
      BY <3>1, <3>2, PlanKept
    <3>4. Proposed(thread.msg)'
      BY <1>3, <3>2, <3>3 DEF Proposed, PlanOf
    <3>5. thread'.latest >= runs'[thread'.msg].rev
      BY <1>2, <1>3, <2>1, <2>3, <3>1
    <3>. QED
      BY <1>3, <3>1, <3>4, <3>5, TalkTyped DEF IInv
  <2>4. EndedRunIsReadable'
    BY <1>3, <2>2, <2>3 DEF EndedRunIsReadable, Proposed
  <2>5. Active' => thread'.msg # None
    BY <1>0, <1>3 DEF Active, ThreadInv
  <2>. QED
    BY <1>1, <1>3, <2>1, <2>4, <2>5 DEF ThreadInv
<1>4. CASE QueueRun \/ RecordRunning
  <2>1. thread'.status \in {"SUBMITTING", "RUNNING"}
    BY <1>4, ThreadTyped DEF IInv
  <2>2. QueueRun => work.id \in Messages
    BY <1>0, Kinds DEF QueueRun, RunSteps
  <2>3. RecordRunning => thread.msg # None
    BY <1>0 DEF RecordRunning, RunWorkInv, ThreadInv, Active
  <2>4. thread'.msg # None
    BY <1>0, <1>4, <2>2, <2>3, ThreadTyped DEF IInv
  <2>. QED
    BY <1>1, <2>1, <2>4 DEF ThreadInv, EndedRunIsReadable
<1>5. CASE EndRun
  <2>1. work.id \in Messages /\ At("end")
    BY <1>0, <1>5, Kinds DEF EndRun, RunSteps
  <2>2. runs' = runs /\ msgs' = msgs /\ titled' = titled /\ props' = props
    BY <1>5 DEF EndRun
  <2>3. /\ thread'.msg = work.id /\ thread'.status = runs[work.id].status
        /\ runs[work.id].status = "PLAN_READY" => thread'.latest = runs[work.id].rev
    BY <1>5, ThreadTyped DEF IInv
  <2>4. \/ runs[work.id].status \in {"NEEDS_INPUT", "FAILED"} /\ Answered(work.id)
        \/ runs[work.id].status = "PLAN_READY" /\ Proposed(work.id) /\ work.id \in titled
    BY <1>0, <2>1 DEF RunWorkInv
  <2>5. CASE runs[work.id].status \in {"NEEDS_INPUT", "FAILED"} /\ Answered(work.id)
    <3>1. EndedRunIsReadable'
      BY <2>2, <2>3, <2>5 DEF EndedRunIsReadable, Answered
    <3>. QED
      BY <1>0, <1>1, <2>1, <2>2, <2>3, <2>5, <3>1 DEF ThreadInv, Active
  <2>6. CASE runs[work.id].status = "PLAN_READY" /\ Proposed(work.id) /\ work.id \in titled
    <3>0. PICK m \in Messages : m = work.id
      BY <2>1
    <3>1. Stored(PlanOf(m))' /\ <<PlanOf(m)', "proposed">> \in msgs' /\ PlanOf(thread.msg)' = PlanOf(m)'
      BY <2>2, <2>3, <2>6, <3>0 DEF Proposed, Stored, PlanOf
    <3>2. thread'.latest >= runs'[thread'.msg].rev
      BY <1>2, <2>1, <2>2, <2>3, <2>6
    <3>3. EndedRunIsReadable'
      BY <2>2, <2>3, <2>6, <3>0, <3>1, <3>2 DEF EndedRunIsReadable, Stored
    <3>. QED
      BY <1>0, <1>1, <2>1, <2>2, <2>3, <2>6, <3>3 DEF ThreadInv, Active
  <2>. QED
    BY <2>4, <2>5, <2>6
<1>6. PublishEdit => thread'.msg = thread.msg /\ thread'.status = thread.status
  BY ThreadTyped DEF IInv
<1>. QED
  BY <1>3, <1>4, <1>5, <1>6, Writers

(***************************************************************************)
(* What the operation on a run may rely on.                                *)
(***************************************************************************)
RunLabels == {"submit", "running", "observe", "supersede", "title", "end"}

LEMMA NoRunWork ==
  ASSUME \A l \in RunLabels : ~At(l)'
  PROVE  RunWorkInv'
  BY DEF RunWorkInv, RunLabels

LEMMA RunWorkKept ==
  ASSUME IInv, Next
  PROVE  RunWorkInv'
<1>0. /\ TypeOK /\ RunInv /\ ThreadInv /\ RunWorkInv /\ work \in Operations \cup {None} /\ None \notin Messages
      /\ thread.msg \in Messages \cup {None}
  BY MasterAssumption DEF IInv, RunInv, TypeOK, Messages
<1>1. CASE Ends
  BY <1>0, <1>1, Moves, NoRunWork DEF At
<1>2. CASE EditMoves \/ EditTakes \/ ConfirmMoves \/ ConfirmTakes
  <2>1. \/ work \in EditOps /\ \E l \in EditSteps : work' = [work EXCEPT !.pc = l]
        \/ work \in ConfirmOps /\ \E l \in ConfirmSteps : work' = [work EXCEPT !.pc = l]
        \/ work' \in EditOps \cup ConfirmOps
    BY <1>0, <1>2, Moves, Takes DEF Go
  <2>2. work' \in EditOps \cup ConfirmOps
    BY <2>1 DEF EditOps, ConfirmOps
  <2>3. \A l \in RunLabels : ~At(l)'
    BY <2>2 DEF EditOps, ConfirmOps, EditSteps, ConfirmSteps, RunLabels, At
  <2>. QED
    BY <2>3, NoRunWork
<1>3. CASE Outside
  <2>1. work' = work /\ thread' = thread /\ msgs' = msgs /\ props' = props /\ titled' = titled
    BY <1>3 DEF Outside, OtherEnters, OtherCommits, AgentsReport, OtherTimesOut, BeginRun, FinishRun, Restart, Recovered,
                RecoverSave, talk
  <2>2. CASE \E l \in RunLabels : At(l)
    <3>1. PICK m \in Messages : m = work.id
      BY <1>0, <2>2, Kinds DEF RunLabels, RunSteps
    <3>2. \A l : At(l)' <=> At(l)
      BY <2>1 DEF At
    <3>3. runs[m].status \in {"PLAN_READY", "NEEDS_INPUT", "FAILED"} =>
            /\ runs'[m] = runs[m]
            /\ (Proposed(m)' <=> Proposed(m)) /\ (Answered(m)' <=> Answered(m))
            /\ (Stored(PlanOf(m))' <=> Stored(PlanOf(m)))
      BY <2>1, PlanKept DEF Proposed, Answered, Stored, PlanOf
    <3>4. Proposed(work.id)' = Proposed(m)' /\ Answered(work.id)' = Answered(m)'
          /\ Stored(PlanOf(work.id))' = Stored(PlanOf(m))' /\ work'.id = m
          /\ runs'[work'.id].status = runs'[m].status
      BY <2>1, <3>1 DEF Proposed, Answered, Stored, PlanOf
    <3>5. At("supersede") \/ At("title") \/ At("end") => runs[m].status \in {"PLAN_READY", "NEEDS_INPUT", "FAILED"}
      BY <1>0, <3>1 DEF RunWorkInv
    <3>. QED
      BY <1>0, <2>1, <3>1, <3>2, <3>3, <3>4, <3>5 DEF RunWorkInv
  <2>3. CASE ~\E l \in RunLabels : At(l)
    BY <2>1, <2>3, NoRunWork DEF At
  <2>. QED
    BY <2>2, <2>3
<1>4. CASE RunTakes
  <2>1. CASE (\E m \in Users : AppendMessage(m)) \/ EnsureIntake
    <3>1. \E m \in Messages : work' = [kind |-> "ask", id |-> m, pc |-> "message"]
      BY <2>1 DEF AppendMessage, EnsureIntake, Take, Messages
    <3>2. \A l \in RunLabels : ~At(l)'
      BY <3>1 DEF At, RunLabels
    <3>. QED
      BY <3>2, NoRunWork
  <2>2. CASE MonitorVisits \/ RecoverRun
    <3>1. PICK k \in {"monitor", "recover"} : Active /\ Advance(k) /\ thread' = thread
      BY <2>2 DEF MonitorVisits, RecoverRun, talk
    <3>2. CASE thread.status = "SUBMITTING"
      <4>1. work' = [kind |-> k, id |-> thread.msg, pc |-> "submit"]
        BY <3>1, <3>2 DEF Advance, Take
      <4>2. \A l \in RunLabels : At(l)' => l = "submit"
        BY <4>1 DEF At
      <4>. QED
        BY <3>1, <3>2, <4>1, <4>2 DEF RunWorkInv, RunLabels
    <3>3. CASE thread.status = "RUNNING"
      <4>1. work' = [kind |-> k, id |-> thread.msg, pc |-> "observe"]
        BY <3>1, <3>3 DEF Advance, Take
      <4>2. \A l \in RunLabels : At(l)' => l = "observe"
        BY <4>1 DEF At
      <4>. QED
        BY <3>1, <3>3, <4>1, <4>2 DEF RunWorkInv, RunLabels
    <3>. QED
      BY <3>1, <3>2, <3>3 DEF Active
  <2>. QED
    BY <1>4, <2>1, <2>2 DEF RunTakes
<1>5. CASE RunMoves
  <2>0. PICK m \in Messages : m = work.id
    BY <1>0, <1>5, Moves DEF RunOps
  <2>1. work' # None /\ work'.id = m /\ \A l : Go(l) => \A k : At(k)' => k = l
    BY <1>0, <1>5, <2>0, Goes
  <2>2. Proposed(work.id)' = Proposed(m)' /\ Answered(work.id)' = Answered(m)'
        /\ Stored(PlanOf(work.id))' = Stored(PlanOf(m))' /\ runs'[work'.id] = runs'[m]
    BY <2>1 DEF Proposed, Answered, Stored, PlanOf
  <2>3. CASE PutMessage
    <3>1. \A l \in RunLabels : ~At(l)'
      BY <2>1, <2>3 DEF PutMessage, RunLabels
    <3>. QED
      BY <3>1, NoRunWork
  <2>4. CASE QueueRun
    <3>1. \A l \in RunLabels : At(l)' => l = "submit"
      BY <2>1, <2>4 DEF QueueRun
    <3>2. thread'.msg = m /\ thread'.status = "SUBMITTING"
      BY <2>0, <2>4, ThreadTyped DEF IInv
    <3>. QED
      BY <2>1, <3>1, <3>2 DEF RunWorkInv, RunLabels
  <2>5. CASE SubmitRun
    <3>1. \A l \in RunLabels : At(l)' => l = "running"
      BY <2>1, <2>5 DEF SubmitRun
    <3>2. thread'.msg = m /\ thread'.status = "SUBMITTING"
      BY <1>0, <2>0, <2>5 DEF SubmitRun, RunWorkInv
    <3>. QED
      BY <2>1, <3>1, <3>2 DEF RunWorkInv, RunLabels
  <2>6. CASE RecordRunning
    <3>1. \A l \in RunLabels : At(l)' => l = "observe"
      BY <2>1, <2>6 DEF RecordRunning
    <3>2. thread'.msg = m /\ thread'.status = "RUNNING"
      BY <1>0, <2>0, <2>6, ThreadTyped DEF RecordRunning, RunWorkInv, IInv
    <3>. QED
      BY <2>1, <3>1, <3>2 DEF RunWorkInv, RunLabels
  <2>7. CASE PutAnswer
    <3>1. \A l \in RunLabels : At(l)' => l = "end"
      BY <2>1, <2>7 DEF PutAnswer
    <3>2. thread' = thread /\ thread.msg = m /\ thread.status = "RUNNING"
      BY <1>0, <2>0, <2>7 DEF PutAnswer, RunWorkInv
    <3>3. runs'[m].status \in {"NEEDS_INPUT", "FAILED"} /\ Answered(m)'
      BY <2>0, <2>7 DEF PutAnswer, Answered
    <3>. QED
      BY <2>1, <2>2, <3>1, <3>2, <3>3 DEF RunWorkInv, RunLabels
  <2>8. CASE PutPlan
    <3>1. \A l \in RunLabels : At(l)' => l = "supersede"
      BY <2>1, <2>8 DEF PutPlan
    <3>2. thread' = thread /\ thread.msg = m /\ thread.status = "RUNNING"
      BY <1>0, <2>0, <2>8 DEF PutPlan, RunWorkInv
    <3>3. runs'[m].status = "PLAN_READY" /\ runs'[m].rev = thread'.latest + 1
      BY <2>0, <2>8, <3>2 DEF PutPlan, Publishable
    <3>4. Stored(PlanOf(m))'
      BY <2>0, <2>8, PropsTyped DEF IInv
    <3>. QED
      BY <2>1, <2>2, <3>1, <3>2, <3>3, <3>4 DEF RunWorkInv, RunLabels
  <2>9. CASE SupersedePending
    <3>1. \A l \in RunLabels : At(l)' => l = "supersede"
      BY <2>1, <2>9 DEF SupersedePending
    <3>2. /\ thread' = thread /\ thread.msg = m /\ thread.status = "RUNNING"
          /\ runs[m].status = "PLAN_READY" /\ Stored(PlanOf(m)) /\ runs[m].rev = thread.latest + 1
      BY <1>0, <2>0, <2>9 DEF SupersedePending, RunWorkInv
    <3>. QED
      BY <2>1, <2>2, <3>1, <3>2, PlanKept DEF RunWorkInv, RunLabels
  <2>10. CASE PutPlanMessage
    <3>1. \A l \in RunLabels : At(l)' => l = "title"
      BY <2>1, <2>10 DEF PutPlanMessage
    <3>2. /\ thread' = thread /\ thread.msg = m /\ thread.status = "RUNNING"
          /\ runs[m].status = "PLAN_READY" /\ Stored(PlanOf(m)) /\ runs[m].rev = thread.latest + 1
      BY <1>0, <2>0, <2>10 DEF PutPlanMessage, RunWorkInv
    <3>3. Stored(PlanOf(m))' /\ Proposed(m)'
      BY <2>0, <2>10, <3>2 DEF PutPlanMessage, Proposed, Stored, PlanOf
    <3>. QED
      BY <2>1, <2>2, <3>1, <3>2, <3>3, PlanKept DEF RunWorkInv, RunLabels
  <2>11. CASE ApplyTitle
    <3>1. \A l \in RunLabels : At(l)' => l = "end"
      BY <2>1, <2>11 DEF ApplyTitle
    <3>2. /\ thread' = thread /\ thread.msg = m /\ thread.status = "RUNNING"
          /\ runs[m].status = "PLAN_READY" /\ Proposed(m) /\ runs[m].rev = thread.latest + 1
      BY <1>0, <2>0, <2>11 DEF ApplyTitle, RunWorkInv
    <3>3. m \in titled'
      BY <2>0, <2>11 DEF ApplyTitle
    <3>. QED
      BY <2>1, <2>2, <3>1, <3>2, <3>3, PlanKept DEF RunWorkInv, RunLabels
  <2>. QED
    BY <1>5, <2>3, <2>4, <2>5, <2>6, <2>7, <2>8, <2>9, <2>10, <2>11 DEF RunMoves
<1>. QED
  BY <1>1, <1>2, <1>3, <1>4, <1>5, Steps

(***************************************************************************)
(* Proposals, intents and the plans on the board.                          *)
(***************************************************************************)
EditLabels == {"put edit", "supersede edited", "edit message", "publish edit"}

LEMMA ProposalKept ==
  ASSUME IInv, Next
  PROVE  ProposalInv'
<1>0. TypeOK /\ RunInv /\ ProposalInv /\ work \in Operations \cup {None}
  BY DEF IInv, TypeOK
<1>1. \A r \in Revisions : props'[Plan(r)].rev \in {0, r}
  BY PropsTyped DEF IInv
<1>2. ASSUME \A l \in EditLabels : ~At(l)'
      PROVE  ProposalInv'
  BY <1>1, <1>2 DEF ProposalInv, EditLabels
<1>3. CASE Ends
  BY <1>0, <1>2, <1>3, Moves DEF At
<1>4. CASE RunMoves \/ RunTakes \/ ConfirmMoves \/ ConfirmTakes
  <2>1. \/ work \in RunOps /\ \E l \in RunSteps : work' = [work EXCEPT !.pc = l]
        \/ work \in ConfirmOps /\ \E l \in ConfirmSteps : work' = [work EXCEPT !.pc = l]
        \/ work' \in RunOps \cup ConfirmOps
    BY <1>0, <1>4, Moves, Takes DEF Go
  <2>2. work' \in RunOps \cup ConfirmOps
    BY <2>1 DEF RunOps, ConfirmOps
  <2>3. \A l \in EditLabels : ~At(l)'
    BY <2>2 DEF RunOps, ConfirmOps, RunSteps, ConfirmSteps, EditLabels, At
  <2>. QED
    BY <1>2, <2>3
<1>5. CASE Outside
  <2>1. work' = work /\ thread' = thread /\ props' = props
    BY <1>5 DEF Outside, OtherEnters, OtherCommits, AgentsReport, OtherTimesOut, BeginRun, FinishRun, Restart, Recovered,
                RecoverSave, talk
  <2>. QED
    BY <1>0, <2>1 DEF ProposalInv, At, Stored
<1>6. CASE EditTakes
  <2>1. PICK e \in Edits : ReviseTaskCard(e)
    BY <1>6 DEF EditTakes
  <2>2. work' = [kind |-> "revise", id |-> e, pc |-> "put edit"] /\ ~Stored(Edited(e)) /\ props' = props
    BY <2>1 DEF ReviseTaskCard, Take, talk
  <2>3. \A l \in EditLabels : At(l)' => l = "put edit"
    BY <2>2 DEF At
  <2>4. work'.id = e
    BY <2>2
  <2>. QED
    BY <1>1, <2>2, <2>3, <2>4 DEF ProposalInv, EditLabels, Stored
<1>7. CASE EditMoves
  <2>0. PICK e \in Edits : e = work.id
    BY <1>0, <1>7, Moves DEF EditOps
  <2>1. work'.id = e /\ \A l : Go(l) => \A k : At(k)' => k = l
    BY <1>0, <1>7, <2>0, Goes
  <2>2. Edited(e) \in Proposals /\ thread.latest + 1 # 0
    BY <1>0, TypeParts
  <2>3. CASE PutEdit
    <3>1. \A l \in EditLabels : At(l)' => l = "supersede edited"
      BY <2>1, <2>3 DEF PutEdit
    <3>2. thread' = thread /\ props'[Edited(e)].rev = thread.latest + 1
      <4>1. props' = [props EXCEPT ![Edited(e)].rev = thread.latest + 1] /\ thread' = thread
        BY <2>0, <2>3 DEF PutEdit
      <4>2. thread.latest + 1 \in Revisions
        <5>1. ~Stored(Edited(e))
          BY <1>0, <2>0, <2>3 DEF PutEdit, ProposalInv
        <5>. QED
          BY <1>0, <5>1, Room DEF PublishedEdits, IInv
      <4>. QED
        BY <1>0, <2>2, <4>1, <4>2, TypeParts, SetPropRev
    <3>. QED
      BY <1>1, <2>1, <3>1, <3>2 DEF ProposalInv, EditLabels
  <2>4. CASE SupersedeEdited \/ PutEditMessage
    <3>1. \A l \in EditLabels : At(l)' => l \in {"edit message", "publish edit"}
      BY <2>1, <2>4 DEF SupersedeEdited, PutEditMessage
    <3>2. props[Edited(e)].rev = thread.latest + 1 /\ thread' = thread
      BY <1>0, <2>0, <2>4 DEF ProposalInv, SupersedeEdited, PutEditMessage
    <3>3. props'[Edited(e)].rev = props[Edited(e)].rev
      BY <2>2, <3>2, PropsTyped DEF Stored, IInv
    <3>. QED
      BY <1>1, <2>1, <3>1, <3>2, <3>3 DEF ProposalInv, EditLabels
  <2>. QED
    BY <1>7, <2>3, <2>4 DEF EditMoves
<1>. QED
  BY <1>3, <1>4, <1>5, <1>6, <1>7, Steps

LEMMA IntentKept ==
  ASSUME IInv, Next
  PROVE  IntentInv'
<1>0. /\ TypeOK /\ IntentInv /\ revision \in Nat /\ revision' \in Nat /\ revision <= revision'
      /\ \A r \in Revisions : r # 0 /\ intents[r].expected \in Nat
  BY BoardTyped, TypeParts DEF IInv, IntentRecords
<1>1. \A p \in Proposals : Stored(p) => props'[p].rev = props[p].rev
  BY PropsTyped DEF IInv
<1>. SUFFICES ASSUME NEW r \in Revisions, intents'[r].state # "NONE"
              PROVE  /\ intents'[r].pid \in Proposals /\ props'[intents'[r].pid].rev = r
                     /\ intents'[r].expected <= revision'
  BY DEF IntentInv
<1>2. CASE intents[r].state # "NONE"
  <2>1. intents'[r].pid = intents[r].pid /\ intents'[r].expected = intents[r].expected
    BY <1>0, <1>2, IntentsTyped
  <2>. QED
    BY <1>0, <1>1, <1>2, <2>1 DEF IntentInv, Stored
<1>3. CASE intents[r].state = "NONE"
  <2>1. PICK s \in Selections : Confirm(r, s)
    <3>1. \/ \E s \in Selections : Confirm(r, s)
          \/ work.id = r /\ (AbortConfirm \/ RecordPlanSaved \/ RecordStarted \/ CompleteConfirm)
      BY <1>0, <1>3, IntentsTyped
    <3>2. AbortConfirm \/ RecordPlanSaved \/ RecordStarted \/ CompleteConfirm
            => intents[work.id].state # "NONE"
      BY Confirming DEF AbortConfirm, RecordPlanSaved, RecordStarted, CompleteConfirm, ConfirmSteps, IInv
    <3>. QED
      BY <1>3, <3>1, <3>2
  <2>2. intents'[r].pid \in Proposals /\ intents'[r].expected = revision
        /\ Confirmable(r, intents'[r].pid, revision)
    BY <1>0, <2>1, IntentsTyped
  <2>3. props[intents'[r].pid].rev = r
    BY <2>2 DEF Confirmable, ByRevision
  <2>. QED
    BY <1>0, <1>1, <2>2, <2>3 DEF Stored
<1>. QED
  BY <1>2, <1>3

LEMMA LandKept ==
  ASSUME IInv, Next
  PROVE  LandInv'
<1>0. /\ TypeOK /\ IntentInv /\ LandInv /\ ConfirmInv
      /\ revision \in Nat /\ revision' \in Nat /\ revision <= revision'
      /\ \A r \in Revisions : intents[r].expected \in Nat /\ r # 0
      /\ \A p \in Proposals : props[p].rev \in Revisions \cup {0}
  BY BoardTyped, TypeParts DEF IInv, IntentRecords, PropRecords
<1>1. \A p \in Proposals : Stored(p) => props'[p].rev = props[p].rev
  BY PropsTyped DEF IInv
<1>2. LandPlan \/ CommitSave \/ PrepareSave =>
        /\ Pid \in Proposals /\ work.id \in Revisions /\ props[Pid].rev = work.id
        /\ intents[work.id].state # "NONE" /\ intents[work.id].pid = Pid
  BY <1>0, Confirming DEF LandPlan, CommitSave, PrepareSave, ConfirmSteps, Pid
<1>3. ASSUME NEW p \in Proposals, landed'[p] # 0 \/ saves'[p] # "NONE"
      PROVE  /\ Stored(p) /\ props[p].rev \in Revisions
             /\ intents[props[p].rev].state # "NONE" /\ intents[props[p].rev].pid = p
  <2>1. \/ landed[p] # 0 \/ saves[p] # "NONE"
        \/ p = Pid /\ (LandPlan \/ CommitSave \/ PrepareSave)
        \/ RecoverSave(p)
    BY <1>0, <1>3, BoardTyped
  <2>2. RecoverSave(p) => saves[p] # "NONE"
    BY DEF RecoverSave, Recoverable, Prepared
  <2>3. CASE landed[p] # 0 \/ saves[p] # "NONE"
    BY <1>0, <2>3 DEF LandInv, Stored
  <2>4. CASE p = Pid /\ (LandPlan \/ CommitSave \/ PrepareSave)
    BY <1>0, <1>2, <2>4 DEF Stored
  <2>. QED
    BY <2>1, <2>2, <2>3, <2>4
<1>4. ASSUME NEW p \in Proposals, landed'[p] # 0 \/ saves'[p] # "NONE"
      PROVE  /\ Stored(p)' /\ intents'[props'[p].rev].state # "NONE" /\ intents'[props'[p].rev].pid = p
             /\ props'[p].rev = props[p].rev
             /\ intents'[props'[p].rev].expected = intents[props[p].rev].expected
  <2>1. props'[p].rev = props[p].rev
    BY <1>1, <1>3, <1>4
  <2>2. PICK r \in Revisions : r = props[p].rev
    BY <1>3, <1>4
  <2>3. intents'[r].state # "NONE" /\ intents'[r].pid = p /\ intents'[r].expected = intents[r].expected
    BY <1>0, <1>3, <1>4, <2>2, IntentsTyped
  <2>. QED
    BY <1>3, <1>4, <2>1, <2>2, <2>3 DEF Stored
<1>5. ASSUME NEW p \in Proposals, landed'[p] # 0 \/ saves'[p] = "ABORTED"
      PROVE  intents'[props'[p].rev].expected < revision'
  <2>1. PICK r \in Revisions : r = props[p].rev
    BY <1>3, <1>5
  <2>2. intents'[props'[p].rev].expected = intents[r].expected
    BY <1>4, <1>5, <2>1
  <2>3. intents[r].expected <= revision /\ intents[r].expected \in Nat
    BY <1>0, <1>3, <1>5, <2>1 DEF IntentInv
  <2>4. CASE landed[p] # 0 \/ saves[p] = "ABORTED"
    <3>1. intents[r].expected < revision
      BY <1>0, <2>1, <2>4 DEF LandInv
    <3>. QED
      BY <1>0, <2>2, <2>3, <3>1
  <2>5. CASE landed'[p] # landed[p]
    <3>1. revision' = revision + 1
      BY <1>0, <2>5, BoardTyped
    <3>. QED
      BY <1>0, <2>2, <2>3, <3>1
  <2>6. CASE saves'[p] = "ABORTED" /\ saves[p] # "ABORTED"
    <3>1. RecoverSave(p)
      BY <1>0, <2>6, BoardTyped
    <3>2. revision # intents[r].expected
      BY <1>0, <2>1, <2>6, <3>1, BoardTyped
    <3>. QED
      BY <1>0, <2>2, <2>3, <3>2
  <2>. QED
    BY <1>5, <2>4, <2>5, <2>6
<1>6. ASSUME NEW p \in Proposals, saves'[p] = "COMMITTED"
      PROVE  landed'[p] # 0
  <2>1. CASE landed[p] # 0
    BY <1>0, <2>1, BoardTyped
  <2>2. CASE landed[p] = 0
    <3>1. saves[p] # "COMMITTED"
      BY <1>0, <2>2 DEF LandInv
    <3>2. RecoverSave(p) \/ (CommitSave /\ p = Pid)
      BY <1>0, <1>6, <3>1, BoardTyped
    <3>3. CommitSave => landed[Pid] # 0
      BY <1>0 DEF CommitSave, ConfirmInv, ConfirmWorkInv
    <3>4. RecoverSave(p) => landed'[p] # 0
      BY <1>0, <1>6, BoardTyped
    <3>. QED
      BY <2>2, <3>2, <3>3, <3>4
  <2>. QED
    BY <2>1, <2>2
<1>7. \A p \in Proposals : landed'[p] # 0 \/ saves'[p] # "NONE" =>
         Stored(p)' /\ intents'[props'[p].rev].state # "NONE" /\ intents'[props'[p].rev].pid = p
  BY <1>4
<1>. QED
  BY <1>5, <1>6, <1>7 DEF LandInv

(***************************************************************************)
(* A prepared save keeps everybody else from the thread.                   *)
(***************************************************************************)
LEMMA WhilePrepared ==
  ASSUME IInv, Next, Prepared # {}
  PROVE  /\ LandPlan \/ CommitSave \/ Crash \/ (Outside /\ ~OtherCommits /\ ~AgentsReport)
         /\ Recoverable # {}
<1>0. TypeOK /\ PreparedInv /\ LandInv /\ IntentInv /\ ConfirmInv
  BY DEF IInv
<1>p. PICK p \in Prepared : TRUE
  OBVIOUS
<1>i. p \in Proposals /\ (landed[p] = 0 => Saveable(p))
      /\ ((work = None /\ mode # "up") \/ ((At("land") \/ At("commit save")) /\ Pid = p))
  BY <1>0, <1>p DEF PreparedInv, Prepared
<1>1. (work = None /\ mode # "up") \/ At("land") \/ At("commit save")
  BY <1>i
<1>r. Recoverable # {}
  BY <1>p, <1>i DEF Recoverable
<1>l. At("land") => landed[Pid] = 0
  <2>. SUFFICES ASSUME At("land") PROVE landed[Pid] = 0
    OBVIOUS
  <2>1. Pid \in Proposals /\ work.id \in Revisions /\ props[Pid].rev = work.id
    BY <1>0, Confirming DEF ConfirmSteps
  <2>2. revision = intents[work.id].expected
    BY <1>0 DEF ConfirmInv, ConfirmWorkInv, Confirmable
  <2>3. landed[Pid] # 0 => intents[work.id].expected < revision
    BY <1>0, <2>1 DEF LandInv
  <2>4. revision \in Nat
    BY <1>0, TypeParts
  <2>. QED
    BY <2>2, <2>3, <2>4
<1>a. ~ApplicationRefuses
  <2>1. At("land") => Saveable(Pid)
    BY <1>i, <1>l DEF At
  <2>. QED
    BY <1>1, <2>1 DEF ApplicationRefuses, Refusal, At
<1>f. ~Free
  BY <1>1 DEF Free, At
<1>2. RunMoves \/ EditMoves \/ ConfirmMoves \/ Ends => LandPlan \/ CommitSave \/ Crash
  <2>1. RunMoves => ~At("land") /\ ~At("commit save") /\ work # None
    BY DEF RunMoves, PutMessage, QueueRun, SubmitRun, RecordRunning, PutAnswer, PutPlan,
           SupersedePending, PutPlanMessage, ApplyTitle, At
  <2>2. EditMoves => ~At("land") /\ ~At("commit save") /\ work # None
    BY DEF EditMoves, PutEdit, SupersedeEdited, PutEditMessage, At
  <2>3. ConfirmMoves => LandPlan \/ CommitSave \/ (~At("land") /\ ~At("commit save") /\ work # None)
    BY DEF ConfirmMoves, PassGate, EnterApplication, PrepareSave, RecordPlanSaved,
           PrepareStart, ConfirmStart, RecordStarted, PutConfirmed, PutConfirmMessage, At
  <2>4. Ends => Crash \/ (~At("land") /\ ~At("commit save") /\ work # None)
    BY <1>a DEF Ends, ObserveUnfinished, RefusePlan, EndRun, PublishEdit, AbortConfirm, ApplicationTimesOut,
           CompleteConfirm, SourceFails, At
  <2>. QED
    BY <1>1, <2>1, <2>2, <2>3, <2>4
<1>3. ~(RunTakes \/ EditTakes \/ ConfirmTakes)
  BY <1>1, <1>r DEF RunTakes, EditTakes, ConfirmTakes, AppendMessage, EnsureIntake, MonitorVisits, RecoverRun,
              ReviseTaskCard, ConfirmAgain, RecoverConfirm, Confirm, Free, Recovering, At
<1>4. ~OtherCommits /\ ~AgentsReport
  BY <1>f DEF OtherCommits, AgentsReport
<1>. QED
  BY <1>r, <1>2, <1>3, <1>4, Steps

LEMMA PreparedKept ==
  ASSUME IInv, Next
  PROVE  PreparedInv'
<1>0. /\ TypeOK /\ PreparedInv /\ ConfirmInv /\ IntentInv /\ ModeInv /\ work \in Operations \cup {None}
      /\ saves \in [Proposals -> {"NONE", "PREPARED", "COMMITTED", "ABORTED"}]
  BY DEF IInv, TypeOK
<1>. SUFFICES ASSUME NEW p \in Proposals, saves'[p] = "PREPARED"
              PROVE  /\ \/ work' = None /\ mode' # "up"
                        \/ (At("land") \/ At("commit save"))' /\ Pid' = p
                     /\ landed'[p] = 0 =>
                          /\ ByRevision(thread.latest)' = {p} /\ props'[p].status = "PENDING_CONFIRMATION"
                          /\ Saveable(p)'
  BY DEF PreparedInv, Prepared
<1>1. CASE saves[p] = "PREPARED"
  <2>1. /\ (work = None /\ mode # "up") \/ ((At("land") \/ At("commit save")) /\ Pid = p)
        /\ landed[p] = 0 =>
             /\ ByRevision(thread.latest) = {p} /\ props[p].status = "PENDING_CONFIRMATION"
             /\ Saveable(p)
        /\ Prepared # {}
    BY <1>0, <1>1 DEF PreparedInv, Prepared
  <2>2. /\ LandPlan \/ CommitSave \/ Crash \/ (Outside /\ ~OtherCommits /\ ~AgentsReport)
        /\ Recoverable # {}
    BY <1>0, <2>1, WhilePrepared
  <2>3. thread' = thread /\ props' = props
    BY <2>2 DEF LandPlan, CommitSave, Crash, Outside, OtherEnters, OtherCommits, AgentsReport, OtherTimesOut, BeginRun, FinishRun,
                Restart, Recovered, RecoverSave, talk
  <2>4. landed'[p] = 0 => landed[p] = 0
    BY <1>0, TypeParts, BoardTyped
  <2>5. landed'[p] = 0 =>
             ByRevision(thread.latest)' = {p} /\ props'[p].status = "PENDING_CONFIRMATION"
    BY <2>1, <2>3, <2>4 DEF ByRevision
  <2>7. landed'[p] = 0 => Saveable(p)'
    <3>. SUFFICES ASSUME landed'[p] = 0 PROVE Saveable(p)'
      OBVIOUS
    <3>1. landed[p] = 0 /\ Saveable(p)
      BY <2>1, <2>4
    <3>2. task' = task
      <4>1. CASE LandPlan
        <5>1. Pid = p
          BY <2>1, <4>1 DEF LandPlan, At
        <5>2. landed'[Pid] = revision + 1 /\ revision \in Nat
          BY <1>0, <4>1, BoardTyped, TypeParts
        <5>. QED
          BY <5>1, <5>2
      <4>2. CASE CommitSave \/ Crash
        BY <4>2 DEF CommitSave, Crash, board
      <4>3. ASSUME NEW q \in Proposals, RecoverSave(q)
            PROVE  task' = task
        <5>1. CASE landed[q] = 0 /\ revision = intents[props[q].rev].expected
          <6>1. q \in Prepared
            BY <4>3 DEF RecoverSave, Recoverable
          <6>2. q = p
            BY <1>0, <2>1, <3>1, <5>1, <6>1 DEF PreparedInv
          <6>3. landed' = [landed EXCEPT ![p] = revision + 1]
            BY <4>3, <5>1, <6>2 DEF RecoverSave, Land
          <6>4. landed \in [Proposals -> Nat] /\ revision \in Nat
            BY <1>0 DEF TypeOK
          <6>. QED
            BY <6>3, <6>4
        <5>2. CASE ~(landed[q] = 0 /\ revision = intents[props[q].rev].expected)
          BY <4>3, <5>2 DEF RecoverSave
        <5>. QED
          BY <5>1, <5>2
      <4>4. CASE OtherEnters \/ OtherTimesOut \/ BeginRun \/ FinishRun \/ Restart \/ Recovered
        BY <4>4 DEF OtherEnters, OtherTimesOut, BeginRun, FinishRun, Restart, Recovered, board
      <4>. QED
        BY <2>2, <4>1, <4>2, <4>3, <4>4 DEF Outside
    <3>. QED
      BY <3>1, <3>2 DEF Saveable
  <2>6. \/ work' = None /\ mode' # "up"
        \/ (At("land") \/ At("commit save"))' /\ Pid' = p
    <3>1. CASE LandPlan
      <4>1. Pid = p /\ At("land")
        BY <2>1, <3>1 DEF LandPlan, At
      <4>2. work' # None /\ work'.id = work.id /\ work'.pc = "commit save" /\ intents' = intents
        BY <1>0, <3>1, Goes DEF ConfirmMoves, LandPlan
      <4>. QED
        BY <4>1, <4>2 DEF At, Pid
    <3>2. CASE CommitSave
      <4>1. Pid = p
        BY <2>1, <3>2 DEF CommitSave, At
      <4>2. saves'[p] = "COMMITTED"
        BY <1>0, <3>2, <4>1 DEF CommitSave
      <4>. QED
        BY <4>2
    <3>3. CASE Crash
      BY <3>3 DEF Crash
    <3>4. CASE Outside
      <4>1. work' = work /\ intents' = intents
        BY <3>4 DEF Outside, OtherEnters, OtherCommits, AgentsReport, OtherTimesOut, BeginRun, FinishRun,
                    Restart, Recovered, RecoverSave
      <4>2. mode' = mode \/ mode' = "recovering"
        BY <2>1, <2>2, <3>4 DEF Outside, OtherEnters, OtherCommits, AgentsReport, OtherTimesOut, BeginRun, FinishRun,
                    Restart, Recovered, RecoverSave
      <4>. QED
        BY <2>1, <4>1, <4>2 DEF At, Pid
    <3>. QED
      BY <2>2, <3>1, <3>2, <3>3, <3>4
  <2>. QED
    BY <2>5, <2>6, <2>7
<1>2. CASE saves[p] # "PREPARED"
  <2>1. PrepareSave /\ p = Pid /\ saves[p] = "NONE"
    <3>1. \/ RecoverSave(p)
          \/ PrepareSave /\ p = Pid /\ saves[p] = "NONE"
      BY <1>0, <1>2, BoardTyped
    <3>2. ~RecoverSave(p)
      BY <1>2 DEF RecoverSave, Recoverable, Prepared
    <3>. QED
      BY <3>1, <3>2
  <2>2. work' # None /\ work'.id = work.id /\ work'.pc = "land" /\ intents' = intents
    BY <1>0, <2>1, Goes DEF ConfirmMoves, PrepareSave
  <2>3. Confirmable(work.id, Pid, intents[work.id].expected) /\ thread' = thread /\ props' = props
    BY <1>0, <2>1 DEF PrepareSave, ConfirmInv, ConfirmWorkInv, talk
  <2>4. ByRevision(thread.latest)' = {p} /\ props'[p].status = "PENDING_CONFIRMATION"
    BY <2>1, <2>3 DEF Confirmable, ByRevision
  <2>5. At("land")' /\ Pid' = p
    BY <2>1, <2>2 DEF At, Pid
  <2>6. Saveable(p)'
    <3>1. Saveable(p) /\ task' = task
      BY <2>1 DEF PrepareSave, Refusal, At
    <3>. QED
      BY <3>1 DEF Saveable
  <2>. QED
    BY <2>4, <2>5, <2>6
<1>. QED
  BY <1>1, <1>2

LEMMA ModeKept ==
  ASSUME IInv, Next
  PROVE  ModeInv'
<1>0. ModeInv /\ TypeOK /\ RunInv /\ work \in Operations \cup {None}
  BY DEF IInv, TypeOK
<1>1. CASE RunMoves \/ EditMoves \/ ConfirmMoves
  <2>1. work # None /\ mode' = mode
    BY <1>0, <1>1, Moves, Goes DEF Go
  <2>. QED
    BY <1>0, <2>1 DEF ModeInv
<1>2. CASE Ends
  BY <1>0, <1>2, Moves DEF ModeInv
<1>3. CASE RunTakes \/ EditTakes \/ ConfirmTakes
  <2>1. mode # "down" /\ mode' = mode
    BY <1>3 DEF RunTakes, EditTakes, ConfirmTakes, AppendMessage, EnsureIntake, MonitorVisits, RecoverRun,
                ReviseTaskCard, ConfirmAgain, RecoverConfirm, Confirm, Free, Recovering
  <2>. QED
    BY <2>1 DEF ModeInv
<1>4. CASE Outside
  <2>1. work' = work /\ (mode' = mode \/ mode' # "down")
    BY <1>4 DEF Outside, OtherEnters, OtherCommits, AgentsReport, OtherTimesOut, BeginRun, FinishRun, Restart, Recovered, RecoverSave
  <2>. QED
    BY <1>0, <2>1 DEF ModeInv
<1>. QED
  BY <1>1, <1>2, <1>3, <1>4, Steps

(***************************************************************************)
(* What came of the confirmations.                                         *)
(***************************************************************************)
LEMMA OutcomeKept ==
  ASSUME IInv, Next
  PROVE  OutcomeInv'
<1>0. /\ TypeOK /\ ConfirmWorkInv /\ OutcomeInv /\ IntentInv /\ ConfirmInv
      /\ landed \in [Proposals -> Nat] /\ revision \in Nat /\ starts \subseteq Proposals
  BY DEF IInv, TypeOK, ConfirmInv
<1>1. \A p \in Proposals : landed[p] # 0 => landed'[p] # 0
  BY <1>0, BoardTyped DEF IInv
<1>2. starts \subseteq starts' /\ msgs \subseteq msgs' /\ \A p \in starts' \ starts : PrepareStart /\ p = Pid
  BY TalkTyped DEF IInv
<1>3. ASSUME NEW r \in Revisions, intents'[r].state \in {"PLAN_SAVED", "STARTED", "COMPLETED"}
      PROVE  /\ intents[r].state # "NONE" /\ intents'[r].pid = intents[r].pid /\ intents[r].pid \in Proposals
             /\ landed[intents[r].pid] # 0
             /\ intents'[r].state \in {"STARTED", "COMPLETED"} => intents[r].pid \in starts
             /\ intents'[r].state = "COMPLETED" =>
                  intents[r].state = "COMPLETED" \/ <<intents[r].pid, "confirmed">> \in msgs
  <2>1. CASE intents'[r] = intents[r]
    BY <1>0, <1>3, <2>1 DEF OutcomeInv, IntentInv
  <2>2. CASE intents'[r] # intents[r]
    <3>1. work.id = r /\ (RecordPlanSaved \/ RecordStarted \/ CompleteConfirm)
      BY <1>0, <1>3, <2>2, IntentsTyped
    <3>2. intents[r].state # "NONE" /\ Pid = intents[r].pid /\ Pid \in Proposals
      BY <1>0, <3>1, Confirming DEF RecordPlanSaved, RecordStarted, CompleteConfirm, ConfirmSteps, Pid
    <3>3. intents'[r].pid = intents[r].pid
      BY <1>0, <3>2, IntentsTyped
    <3>4. CASE RecordPlanSaved
      <4>1. intents'[r].state = "PLAN_SAVED" /\ landed[Pid] # 0
        BY <1>0, <3>1, <3>4, IntentsTyped DEF RecordPlanSaved, ConfirmWorkInv
      <4>. QED
        BY <3>2, <3>3, <4>1
    <3>5. CASE RecordStarted
      <4>1. intents'[r].state = "STARTED" /\ intents[r].state = "PLAN_SAVED" /\ Pid \in starts
        BY <1>0, <3>1, <3>5, IntentsTyped DEF RecordStarted, ConfirmWorkInv
      <4>. QED
        BY <1>0, <3>2, <3>3, <4>1 DEF OutcomeInv
    <3>6. CASE CompleteConfirm
      <4>1. intents[r].state = "STARTED" /\ <<Pid, "confirmed">> \in msgs
        BY <1>0, <3>1, <3>6 DEF CompleteConfirm, ConfirmWorkInv
      <4>. QED
        BY <1>0, <3>2, <3>3, <4>1 DEF OutcomeInv
    <3>. QED
      BY <3>1, <3>4, <3>5, <3>6
  <2>. QED
    BY <2>1, <2>2
<1>4. ASSUME NEW p \in Proposals, p \in starts'
      PROVE  landed'[p] # 0
  <2>1. CASE p \in starts
    BY <1>0, <1>1, <2>1 DEF OutcomeInv, ConfirmedIsStarted
  <2>2. CASE p \notin starts
    <3>1. PrepareStart /\ p = Pid
      BY <1>2, <1>4, <2>2
    <3>2. work.id \in Revisions /\ intents[work.id].state = "PLAN_SAVED"
      BY <1>0, <3>1, Confirming DEF PrepareStart, ConfirmSteps, ConfirmWorkInv
    <3>. QED
      BY <1>0, <1>1, <3>1, <3>2 DEF OutcomeInv, Pid
  <2>. QED
    BY <2>1, <2>2
<1>5. ASSUME NEW p \in Proposals, props'[p].status = "CONFIRMED"
      PROVE  p \in starts'
  <2>1. CASE props[p].status = "CONFIRMED"
    BY <1>0, <1>2, <2>1 DEF OutcomeInv, ConfirmedIsStarted
  <2>2. CASE PutConfirmed /\ p = Pid
    <3>1. work.id \in Revisions /\ intents[work.id].state = "STARTED"
      BY <1>0, <2>2, Confirming DEF PutConfirmed, ConfirmSteps, ConfirmWorkInv
    <3>. QED
      BY <1>0, <1>2, <2>2, <3>1 DEF OutcomeInv, Pid
  <2>. QED
    BY <1>5, <2>1, <2>2, PropsTyped DEF IInv
<1>6. ASSUME NEW p \in Proposals, NEW r \in Revisions, intents'[r].pid = p, intents'[r].state = "COMPLETED"
      PROVE  p \in starts' /\ <<p, "confirmed">> \in msgs'
  <2>1. intents[r].pid = p /\ p \in starts /\
        (intents[r].state = "COMPLETED" \/ <<intents[r].pid, "confirmed">> \in msgs)
    BY <1>3, <1>6
  <2>. QED
    BY <1>0, <1>2, <2>1 DEF OutcomeInv, ConfirmedIsStarted
<1>7. ConfirmedIsStarted'
  BY <1>4, <1>5, <1>6 DEF ConfirmedIsStarted
<1>8. \A r \in Revisions : intents'[r].state \in {"PLAN_SAVED", "STARTED", "COMPLETED"} =>
         landed'[intents'[r].pid] # 0
  BY <1>1, <1>3
<1>9. \A r \in Revisions : intents'[r].state \in {"STARTED", "COMPLETED"} => intents'[r].pid \in starts'
  BY <1>2, <1>3
<1>. QED
  BY <1>7, <1>8, <1>9 DEF OutcomeInv

(***************************************************************************)
(* What the steps of a confirmation may rely on.                           *)
(***************************************************************************)
LEMMA NoConfirmWork ==
  ASSUME \A l \in ConfirmSteps : ~At(l)'
  PROVE  ConfirmWorkInv'
  BY DEF ConfirmWorkInv, ConfirmSteps

LEMMA ConfirmOutside ==
  ASSUME IInv, Next, Outside
  PROVE  ConfirmWorkInv'
<1>0. TypeOK /\ ConfirmWorkInv
  BY DEF IInv, ConfirmInv
<1>1. /\ work' = work /\ thread' = thread /\ msgs' = msgs /\ props' = props /\ intents' = intents
      /\ starts' = starts
  BY DEF Outside, OtherEnters, OtherCommits, AgentsReport, OtherTimesOut, BeginRun, FinishRun, Restart, Recovered,
         RecoverSave, talk, board
<1>2. work # None => landed' = landed /\ revision' = revision
  BY DEF Outside, OtherEnters, OtherCommits, AgentsReport, OtherTimesOut, BeginRun, FinishRun, Restart, Recovered,
         RecoverSave, Recovering, Free, board
<1>3. CASE work = None
  BY <1>1, <1>3, NoConfirmWork DEF At
<1>4. CASE work # None
  <2>1. UNCHANGED <<work, thread, msgs, props, intents, starts, landed, revision>>
    BY <1>1, <1>2, <1>4
  <2>2. \A l : At(l)' <=> At(l)
    BY <2>1 DEF At
  <2>3. Pid' = Pid /\ Confirmable(work.id, Pid, intents[work.id].expected)' = Confirmable(work.id, Pid, intents[work.id].expected)
    BY <2>1 DEF Pid, Confirmable, ByRevision
  <2>. QED
    BY <1>0, <2>1, <2>2, <2>3 DEF ConfirmWorkInv
<1>. QED
  BY <1>3, <1>4

LEMMA ConfirmTaken ==
  ASSUME IInv, Next, ConfirmTakes
  PROVE  ConfirmWorkInv'
<1>0. TypeOK /\ RunInv /\ intents \in [Revisions -> IntentRecords]
  BY TypeParts DEF IInv
<1>1. PICK r \in Revisions : ConfirmAgain(r) \/ RecoverConfirm(r) \/ \E s \in Selections : Confirm(r, s)
  BY DEF ConfirmTakes
<1>2. CASE \E s \in Selections : Confirm(r, s)
  <2>1. work' = [kind |-> "confirm", id |-> r, pc |-> "gate"]
    BY <1>2 DEF Confirm, Take
  <2>2. intents'[r].state = "PREPARED"
    BY <1>0, <1>2, IntentsTyped
  <2>3. work'.id = r /\ \A l \in ConfirmSteps : At(l)' => l = "gate"
    BY <2>1 DEF At
  <2>. QED
    BY <2>2, <2>3 DEF ConfirmWorkInv, ConfirmSteps
<1>3. CASE ConfirmAgain(r) \/ RecoverConfirm(r)
  <2>0. intents' = intents /\ intents[r].state \in {"PREPARED", "PLAN_SAVED", "STARTED"}
    BY <1>3 DEF ConfirmAgain, RecoverConfirm, Unfinished
  <2>1. CASE intents[r].state = "STARTED"
    <3>1. work' = [kind |-> "confirm", id |-> r, pc |-> "confirmed"]
      BY <1>3, <2>1 DEF ConfirmAgain, RecoverConfirm, Resume, Take
    <3>2. work'.id = r /\ \A l \in ConfirmSteps : At(l)' => l = "confirmed"
      BY <3>1 DEF At
    <3>. QED
      BY <2>0, <2>1, <3>2 DEF ConfirmWorkInv, ConfirmSteps
  <2>2. CASE intents[r].state # "STARTED"
    <3>1. work' = [kind |-> "confirm", id |-> r, pc |-> "gate"]
      BY <1>3, <2>2 DEF ConfirmAgain, RecoverConfirm, Resume, Take
    <3>2. work'.id = r /\ \A l \in ConfirmSteps : At(l)' => l = "gate"
      BY <3>1 DEF At
    <3>. QED
      BY <2>0, <2>2, <3>2 DEF ConfirmWorkInv, ConfirmSteps
  <2>. QED
    BY <2>1, <2>2
<1>. QED
  BY <1>1, <1>2, <1>3

LEMMA ConfirmMoved ==
  ASSUME IInv, Next, ConfirmMoves
  PROVE  ConfirmWorkInv'
<1>0. /\ TypeOK /\ ConfirmWorkInv /\ OutcomeInv /\ IntentInv /\ LandInv /\ ConfirmInv
      /\ work \in Operations \cup {None}
      /\ intents \in [Revisions -> IntentRecords]
  BY TypeParts DEF IInv, ConfirmInv, TypeOK
<1>1. PICK r \in Revisions : r = work.id
  BY <1>0, Moves DEF ConfirmOps
<1>2. work' # None /\ work'.id = r /\ \A l : Go(l) => \A k : At(k)' => k = l
  BY <1>0, <1>1, Goes
<1>3. /\ Pid = intents[r].pid /\ Pid \in Proposals /\ props[Pid].rev = r
      /\ intents[r].state \in {"PREPARED", "PLAN_SAVED", "STARTED"}
      /\ intents'[r].pid = intents[r].pid /\ Pid' = Pid /\ intents'[r].expected = intents[r].expected
  <2>1. \E l \in ConfirmSteps : At(l)
    BY DEF ConfirmMoves, PassGate, EnterApplication, PrepareSave, LandPlan, CommitSave, RecordPlanSaved,
           PrepareStart, ConfirmStart, RecordStarted, PutConfirmed, PutConfirmMessage, ConfirmSteps
  <2>2. /\ Pid = intents[r].pid /\ Pid \in Proposals /\ props[Pid].rev = r
        /\ intents[r].state \in {"PREPARED", "PLAN_SAVED", "STARTED"}
    BY <1>0, <1>1, <2>1, Confirming DEF Pid
  <2>. QED
    BY <1>0, <1>2, <2>2, IntentsTyped DEF Pid
<1>4. CASE PassGate
  <2>1. GateOpen /\ intents' = intents /\ thread' = thread /\ props' = props /\ revision' = revision
    BY <1>4 DEF PassGate, talk, board
  <2>2. intents[r].state \in {"PREPARED", "PLAN_SAVED"}
    BY <1>0, <1>1, <1>4 DEF PassGate, ConfirmWorkInv
  <2>3. CASE intents[r].state = "PREPARED"
    <3>1. \A l \in ConfirmSteps : At(l)' => l = "save"
      BY <1>1, <1>2, <1>4, <2>3 DEF PassGate
    <3>2. Confirmable(work.id, Pid, intents[work.id].expected)'
      BY <1>1, <1>2, <1>3, <2>1, <2>3 DEF GateOpen, GateExpects, Confirmable, ByRevision, Pid
    <3>. QED
      BY <1>2, <2>1, <2>3, <3>1, <3>2 DEF ConfirmWorkInv, ConfirmSteps
  <2>4. CASE intents[r].state = "PLAN_SAVED"
    <3>1. \A l \in ConfirmSteps : At(l)' => l = "start"
      BY <1>1, <1>2, <1>4, <2>4 DEF PassGate
    <3>. QED
      BY <1>2, <2>1, <2>4, <3>1 DEF ConfirmWorkInv, ConfirmSteps
  <2>. QED
    BY <2>2, <2>3, <2>4
<1>5. CASE EnterApplication
  <2>1. intents' = intents /\ thread' = thread /\ props' = props /\ revision' = revision
    BY <1>5 DEF EnterApplication, talk, board
  <2>2. CASE At("save")
    <3>1. \A l \in ConfirmSteps : At(l)' => l = "prepare save"
      BY <1>2, <1>5, <2>2 DEF EnterApplication, At
    <3>2. intents[r].state = "PREPARED" /\ Confirmable(work.id, Pid, intents[work.id].expected)
      BY <1>0, <1>1, <2>2 DEF ConfirmWorkInv
    <3>3. Confirmable(work.id, Pid, intents[work.id].expected)'
      BY <1>1, <1>2, <1>3, <2>1, <3>2 DEF Confirmable, ByRevision, Pid
    <3>. QED
      BY <1>2, <2>1, <3>1, <3>2, <3>3 DEF ConfirmWorkInv, ConfirmSteps
  <2>3. CASE At("start")
    <3>1. \A l \in ConfirmSteps : At(l)' => l = "prepare start"
      BY <1>2, <1>5, <2>3 DEF EnterApplication, At
    <3>2. intents[r].state = "PLAN_SAVED"
      BY <1>0, <1>1, <2>3 DEF ConfirmWorkInv
    <3>. QED
      BY <1>2, <2>1, <3>1, <3>2 DEF ConfirmWorkInv, ConfirmSteps
  <2>. QED
    BY <1>5, <2>2, <2>3 DEF EnterApplication
<1>6. CASE PrepareSave
  <2>1. intents' = intents /\ thread' = thread /\ props' = props /\ revision' = revision /\ landed' = landed
    BY <1>6 DEF PrepareSave, talk
  <2>2. intents[r].state = "PREPARED" /\ Confirmable(work.id, Pid, intents[work.id].expected)
    BY <1>0, <1>1, <1>6 DEF PrepareSave, ConfirmWorkInv
  <2>3. CASE saves[Pid] = "COMMITTED"
    <3>1. \A l \in ConfirmSteps : At(l)' => l = "commit save"
      BY <1>2, <1>6, <2>3 DEF PrepareSave
    <3>2. landed[Pid] # 0
      BY <1>0, <1>3, <2>3 DEF LandInv
    <3>. QED
      BY <1>2, <1>3, <2>1, <2>2, <3>1, <3>2 DEF ConfirmWorkInv, ConfirmSteps
  <2>4. CASE saves[Pid] # "COMMITTED"
    <3>1. \A l \in ConfirmSteps : At(l)' => l = "land"
      BY <1>2, <1>6, <2>4 DEF PrepareSave
    <3>2. Confirmable(work.id, Pid, intents[work.id].expected)'
      BY <1>1, <1>2, <1>3, <2>1, <2>2 DEF Confirmable, ByRevision, Pid
    <3>. QED
      BY <1>2, <2>1, <2>2, <3>1, <3>2 DEF ConfirmWorkInv, ConfirmSteps
  <2>. QED
    BY <2>3, <2>4
<1>7. CASE LandPlan
  <2>1. intents' = intents /\ landed'[Pid] = revision + 1 /\ revision + 1 # 0
    <3>1. landed'[Pid] = revision + 1
      BY <1>0, <1>7, BoardTyped
    <3>2. intents' = intents /\ revision \in Nat
      BY <1>0, <1>7, TypeParts DEF LandPlan
    <3>. QED
      BY <3>1, <3>2
  <2>2. intents[r].state = "PREPARED"
    BY <1>0, <1>1, <1>7 DEF LandPlan, ConfirmWorkInv
  <2>3. \A l \in ConfirmSteps : At(l)' => l = "commit save"
    BY <1>2, <1>7 DEF LandPlan
  <2>. QED
    BY <1>2, <1>3, <2>1, <2>2, <2>3 DEF ConfirmWorkInv, ConfirmSteps
<1>8. CASE CommitSave
  <2>1. intents' = intents /\ landed' = landed /\ intents[r].state = "PREPARED" /\ landed[Pid] # 0
    BY <1>0, <1>1, <1>8 DEF CommitSave, ConfirmWorkInv
  <2>2. \A l \in ConfirmSteps : At(l)' => l = "plan saved"
    BY <1>2, <1>8 DEF CommitSave
  <2>. QED
    BY <1>2, <1>3, <2>1, <2>2 DEF ConfirmWorkInv, ConfirmSteps
<1>9. CASE RecordPlanSaved
  <2>1. \A l \in ConfirmSteps : At(l)' => l = "gate"
    BY <1>2, <1>9 DEF RecordPlanSaved
  <2>2. intents'[r].state = "PLAN_SAVED"
    BY <1>0, <1>1, <1>9, IntentsTyped
  <2>. QED
    BY <1>2, <2>1, <2>2 DEF ConfirmWorkInv, ConfirmSteps
<1>10. CASE PrepareStart
  <2>1. intents' = intents /\ Pid \in starts' /\ intents[r].state = "PLAN_SAVED"
    BY <1>0, <1>1, <1>10 DEF PrepareStart, ConfirmWorkInv
  <2>2. \A l \in ConfirmSteps : At(l)' => l = "confirm start"
    BY <1>2, <1>10 DEF PrepareStart
  <2>. QED
    BY <1>2, <1>3, <2>1, <2>2 DEF ConfirmWorkInv, ConfirmSteps
<1>11. CASE ConfirmStart
  <2>1. intents' = intents /\ starts' = starts /\ Pid \in starts /\ intents[r].state = "PLAN_SAVED"
    BY <1>0, <1>1, <1>11 DEF ConfirmStart, ConfirmWorkInv
  <2>2. \A l \in ConfirmSteps : At(l)' => l = "started"
    BY <1>2, <1>11 DEF ConfirmStart
  <2>. QED
    BY <1>2, <1>3, <2>1, <2>2 DEF ConfirmWorkInv, ConfirmSteps
<1>12. CASE RecordStarted
  <2>1. \A l \in ConfirmSteps : At(l)' => l = "confirmed"
    BY <1>2, <1>12 DEF RecordStarted
  <2>2. intents'[r].state = "STARTED"
    BY <1>0, <1>1, <1>12, IntentsTyped
  <2>. QED
    BY <1>2, <2>1, <2>2 DEF ConfirmWorkInv, ConfirmSteps
<1>13. CASE PutConfirmed
  <2>1. intents' = intents /\ intents[r].state = "STARTED"
    BY <1>0, <1>1, <1>13 DEF PutConfirmed, ConfirmWorkInv
  <2>2. \A l \in ConfirmSteps : At(l)' => l = "confirm message"
    BY <1>2, <1>13 DEF PutConfirmed
  <2>. QED
    BY <1>2, <2>1, <2>2 DEF ConfirmWorkInv, ConfirmSteps
<1>14. CASE PutConfirmMessage
  <2>1. intents' = intents /\ intents[r].state = "STARTED" /\ <<Pid, "confirmed">> \in msgs'
    BY <1>0, <1>1, <1>14 DEF PutConfirmMessage, ConfirmWorkInv
  <2>2. \A l \in ConfirmSteps : At(l)' => l = "complete"
    BY <1>2, <1>14 DEF PutConfirmMessage
  <2>. QED
    BY <1>2, <1>3, <2>1, <2>2 DEF ConfirmWorkInv, ConfirmSteps
<1>. QED
  BY <1>4, <1>5, <1>6, <1>7, <1>8, <1>9, <1>10, <1>11, <1>12, <1>13, <1>14 DEF ConfirmMoves

LEMMA ConfirmWorkKept ==
  ASSUME IInv, Next
  PROVE  ConfirmWorkInv'
<1>0. TypeOK /\ RunInv /\ work \in Operations \cup {None}
  BY DEF IInv, TypeOK
<1>1. CASE Ends
  BY <1>0, <1>1, Moves, NoConfirmWork DEF At
<1>2. CASE RunMoves \/ RunTakes \/ EditMoves \/ EditTakes
  <2>1. \/ work \in RunOps /\ \E l \in RunSteps : work' = [work EXCEPT !.pc = l]
        \/ work \in EditOps /\ \E l \in EditSteps : work' = [work EXCEPT !.pc = l]
        \/ work' \in RunOps \cup EditOps
    BY <1>0, <1>2, Moves, Takes DEF Go
  <2>2. work' \in RunOps \cup EditOps
    BY <2>1 DEF RunOps, EditOps
  <2>3. \A l \in ConfirmSteps : ~At(l)'
    BY <2>2 DEF RunOps, EditOps, RunSteps, EditSteps, ConfirmSteps, At
  <2>. QED
    BY <2>3, NoConfirmWork
<1>. QED
  BY <1>1, <1>2, Steps, ConfirmOutside, ConfirmTaken, ConfirmMoved

-----------------------------------------------------------------------------
(* The theorems.                                                           *)

LEMMA InitIInv == Init => IInv
<1>. SUFFICES ASSUME Init PROVE IInv
  OBVIOUS
<1>1. Revisions \subseteq Nat \ {0} /\ IsFiniteSet(Messages) /\ IsFiniteSet(Edits)
  BY Counts DEF Revisions
<1>2. TypeOK
  <2>1. thread \in [latest : Revisions \cup {0}, msg : Messages \cup {None},
                   status : (RunStates \ {"QUEUED"}) \cup {"SUBMITTING"}]
    BY DEF Init, RunStates
  <2>2. runs \in [Messages -> [status : RunStates, rev : Revisions \cup {0}]]
    BY DEF Init, RunStates
  <2>3. props \in [Proposals -> [rev : Revisions \cup {0},
                                status : {"PENDING_CONFIRMATION", "CONFIRMED", "SUPERSEDED"}]]
    BY DEF Init
  <2>4. intents \in [Revisions ->
                    [state : {"NONE", "PREPARED", "PLAN_SAVED", "STARTED", "COMPLETED", "ABORTED"},
                     pid : Proposals \cup {None}, expected : Nat, selection : Selections]]
    BY DEF Init, Selections
  <2>5. task \in TaskStatuses
    BY DEF Init, TaskStatuses
  <2>. QED
    BY <2>1, <2>2, <2>3, <2>4, <2>5, MasterAssumption DEF Init, TypeOK
<1>3. \A l : ~At(l)
  BY DEF Init, At
<1>4. CountInv
  <2>1. PlannedRuns = {} /\ PublishedEdits = {}
    BY TypeParts, <1>2 DEF Init, PlannedRuns, PublishedEdits, Stored
  <2>. QED
    BY <2>1, FS_EmptySet DEF Init, CountInv
<1>5. RunInv
  BY <1>3 DEF Init, RunInv, ThreadInv, RunWorkInv, EndedRunIsReadable, Active
<1>6. ProposalInv
  BY <1>2, <1>3, TypeParts DEF Init, ProposalInv
<1>7. IntentInv /\ LandInv /\ PreparedInv
  <2>1. /\ \A r \in Revisions : intents[r].state = "NONE"
        /\ \A p \in Proposals : landed[p] = 0 /\ saves[p] = "NONE"
    BY DEF Init
  <2>. QED
    BY <2>1 DEF IntentInv, LandInv, PreparedInv, Prepared
<1>8. ConfirmInv
  <2>1. /\ \A r \in Revisions : intents[r].state = "NONE"
        /\ \A p \in Proposals : props[p].status = "PENDING_CONFIRMATION"
        /\ starts = {}
    BY DEF Init
  <2>. QED
    BY <1>3, <2>1 DEF ConfirmInv, ConfirmWorkInv, OutcomeInv, ConfirmedIsStarted
<1>9. ModeInv
  BY DEF Init, ModeInv
<1>. QED
  BY <1>2, <1>4, <1>5, <1>6, <1>7, <1>8, <1>9 DEF IInv

LEMMA NextIInv == IInv /\ [Next]_vars => IInv'
<1>1. ASSUME IInv, Next PROVE IInv'
  BY <1>1, Typed, CountKept, ThreadKept, RunWorkKept, ProposalKept, IntentKept, LandKept, PreparedKept,
     ConfirmWorkKept, OutcomeKept, ModeKept DEF IInv, RunInv, ConfirmInv
<1>2. ASSUME IInv, UNCHANGED vars PROVE IInv'
  <2>1. TypeOK'
    BY <1>2 DEF vars, IInv, TypeOK
  <2>2. CountInv'
    BY <1>2 DEF vars, IInv, CountInv, PlannedRuns, PublishedEdits, Stored
  <2>3. ThreadInv'
    BY <1>2 DEF vars, IInv, RunInv, ThreadInv, EndedRunIsReadable, Active, PlanOf, Stored
  <2>4. RunWorkInv'
    BY <1>2 DEF vars, IInv, RunInv, RunWorkInv, At, Answered, Proposed, PlanOf, Stored
  <2>5. ProposalInv' /\ IntentInv' /\ LandInv' /\ ModeInv'
    BY <1>2 DEF vars, IInv, ProposalInv, IntentInv, LandInv, ModeInv, At, Stored
  <2>6. PreparedInv'
    BY <1>2 DEF vars, IInv, PreparedInv, Prepared, Saveable, ByRevision, At, Pid
  <2>7. ConfirmWorkInv'
    BY <1>2 DEF vars, IInv, ConfirmInv, ConfirmWorkInv, Confirmable, ByRevision, At, Pid
  <2>8. OutcomeInv'
    BY <1>2 DEF vars, IInv, ConfirmInv, OutcomeInv, ConfirmedIsStarted
  <2>. QED
    BY <2>1, <2>2, <2>3, <2>4, <2>5, <2>6, <2>7, <2>8 DEF IInv, RunInv, ConfirmInv
<1>. QED
  BY <1>1, <1>2

(***************************************************************************)
(* The invariant holds throughout, for any number of messages and edits.   *)
(***************************************************************************)
THEOREM InvariantHolds == Spec => []IInv
  BY InitIInv, NextIInv, PTL DEF Spec

(***************************************************************************)
(* The state stays well typed; in particular no revision is ever given     *)
(* out that is not paid for by a run or an edit of its own (the "latest"   *)
(* of thread.json never runs ahead, _store_orchestrated_plan and           *)
(* revise_task_card).                                                      *)
(***************************************************************************)
THEOREM ThreadTypesCorrect == Spec => []TypeOK
  BY InvariantHolds, PTL DEF IInv

(***************************************************************************)
(* A run shown as ended has all of its result, a proposal shown as         *)
(* confirmed has a start operation, and a plan that is started is on the   *)
(* board, whatever interrupts the writes of _store_orchestrated_plan and   *)
(* of _resume_confirm.                                                     *)
(***************************************************************************)
THEOREM StatusesAreTrueAlways == Spec => []StatusesAreTrue
<1>1. IInv => StatusesAreTrue
  BY DEF IInv, RunInv, ThreadInv, ConfirmInv, OutcomeInv, StatusesAreTrue
<1>. QED
  BY <1>1, InvariantHolds, PTL

(***************************************************************************)
(* Only the plan that was confirmed on the current revision of the task    *)
(* reaches the board, once, through _resume_confirm or through the         *)
(* recovery of its save-plan operation.                                    *)
(***************************************************************************)
LEMMA LandsReviewed ==
  ASSUME IInv, Next, NEW p \in Proposals, landed'[p] # landed[p]
  PROVE  /\ landed[p] = 0
         /\ ByRevision(thread.latest) = {p}
         /\ props[p].status = "PENDING_CONFIRMATION"
         /\ revision = intents[thread.latest].expected
<1>0. TypeOK /\ IntentInv /\ LandInv /\ PreparedInv /\ ConfirmInv /\ ConfirmWorkInv
      /\ revision \in Nat /\ landed[p] \in Nat
      /\ \A r \in Revisions : intents[r].expected \in Nat
  BY TypeParts DEF IInv, ConfirmInv, TypeOK, IntentRecords
<1>1. CASE LandPlan /\ p = Pid
  <2>1. work.id \in Revisions /\ props[Pid].rev = work.id
    BY <1>0, <1>1, Confirming DEF LandPlan, ConfirmSteps
  <2>2. Confirmable(work.id, Pid, intents[work.id].expected)
    BY <1>0, <1>1 DEF LandPlan, ConfirmWorkInv
  <2>3. /\ thread.latest = work.id /\ ByRevision(work.id) = {p}
        /\ props[p].status = "PENDING_CONFIRMATION" /\ revision = intents[work.id].expected
    BY <1>1, <2>2 DEF Confirmable
  <2>4. landed[p] = 0
    <3>1. landed[p] # 0 => intents[work.id].expected < revision
      BY <1>0, <1>1, <2>1 DEF LandInv
    <3>. QED
      BY <1>0, <2>1, <2>3, <3>1
  <2>. QED
    BY <2>3, <2>4
<1>2. CASE RecoverSave(p) /\ landed[p] = 0 /\ revision = intents[props[p].rev].expected
  <2>1. ByRevision(thread.latest) = {p} /\ props[p].status = "PENDING_CONFIRMATION"
    BY <1>0, <1>2 DEF RecoverSave, Recoverable, PreparedInv
  <2>2. props[p].rev = thread.latest
    BY <2>1 DEF ByRevision
  <2>. QED
    BY <1>2, <2>1, <2>2
<1>. QED
  BY <1>0, <1>1, <1>2, BoardTyped

THEOREM OnlyReviewedPlansLandAlways == Spec => OnlyReviewedPlansLand
<1>1. IInv /\ [Next]_vars =>
        [\A p \in Proposals : landed'[p] # landed[p] =>
          /\ landed[p] = 0
          /\ ByRevision(thread.latest) = {p}
          /\ props[p].status = "PENDING_CONFIRMATION"
          /\ revision = intents[thread.latest].expected]_vars
  BY LandsReviewed DEF vars
<1>. QED
  BY <1>1, InvariantHolds, PTL DEF Spec, OnlyReviewedPlansLand
=============================================================================
