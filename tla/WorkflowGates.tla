--------------------------- MODULE WorkflowGates ---------------------------
(***************************************************************************)
(* The approval gates of an Image Agent's workflow:                        *)
(* services/application_delivery.py (observe_instance, resolve_approval),  *)
(* services/approvals.py and the gate handling of adapters/image.py.       *)
(*                                                                         *)
(* The Agent stops at a gate until somebody advances it: the control       *)
(* process for a human decision, or the Agent's own workbench.  An         *)
(* observer polls it without a lock and then persists what it saw under    *)
(* the task lock and the task guard, fenced by the task revision; a        *)
(* decision runs under the task lock alone.  Both keep the adapter's state *)
(* in one file that each of them reads, changes and writes back without a  *)
(* lock.  A gate is known by its step and the job the adapter remembers.   *)
(* What follows the last gate is the subject of Publication.               *)
(***************************************************************************)
EXTENDS Naturals, Sequences, FiniteSets

CONSTANTS
  Gates,        \* sequence: the gates of the Agent's workflow, [step, action]
  Workbench,    \* numbers of the gates the workbench may pass by itself
  Ops,          \* operation ids of the human's decisions
  Command,      \* [Ops -> [verdict, action]]
  First,        \* the job that started the workflow
  Observer, None,
  MaxCrashes,   \* bound on crashes of the control process
  MaxExits      \* bound on failures and exits of the Agent

ASSUME ConstAssumption ==
  /\ Len(Gates) \in Nat /\ Workbench \subseteq 1..Len(Gates)
  /\ \A o \in Ops : Command[o].verdict \in {"APPROVED", "REJECTED"}
  /\ MaxCrashes \in Nat /\ MaxExits \in Nat

VARIABLES
  agent,        \* the Agent: [at, phase, job, taken]
  adapter,      \* the adapter's state file: [job, settling]
  inst,         \* status of the instance
  gate,         \* WORKFLOW approvals by gate identity: [status, by]
  note,         \* their notifications
  failNote,     \* the notification of a failed or crashed instance
  intent,       \* RESOLVE_APPROVAL intents: [state, gate]
  passed,       \* ghost: who advanced a gate
  lock,         \* holder of the task lock
  th,           \* threads: [pc, copy, seen]
  fresh,        \* no commit moved the task revision since the observer read it
  mode, todo, crashes, exits

external == <<agent, passed>>
inbox == <<gate, note, failNote>>
control == <<mode, todo, crashes, exits>>
vars == <<external, adapter, inst, inbox, intent, lock, th, fresh, control>>

Numbers == 1..Len(Gates)
Jobs == Ops \cup {First}
Steps == {Gates[k].step : k \in Numbers}
Ids == Steps \X Jobs
Threads == Ops \cup {Observer}
\* The ids and sentinels are told apart.
ASSUME IdAssumption == First \notin Ops /\ Observer \notin Ops /\ None \notin Threads \cup Jobs \cup Ids

Approves(o) == Command[o].verdict = "APPROVED"

NoCopy == [job |-> None, settling |-> 0]
Unseen == [status |-> "NONE", at |-> 0]
Idle == [pc |-> "idle", copy |-> NoCopy, seen |-> Unseen]
Free == lock = None
Running(t, label) == mode # "down" /\ th[t].pc = label
Go(t, label) == th' = [th EXCEPT ![t].pc = label] /\ lock' = lock
Return(t) == th' = [th EXCEPT ![t] = Idle] /\ lock' = IF lock = t THEN None ELSE lock
\* A loop over the files of a directory: the order of their names is all it depends on.
Pick(S) == CHOOSE x \in S : TRUE
Observed == inst \in {"RUNNING", "WAITING_APPROVAL"}
\* The guard is held while an observation is persisted.
Guarded == lock = Observer

-----------------------------------------------------------------------------
(* The Agent.                                                              *)

Alive == agent.phase # "dead"
Beyond(a) == [a EXCEPT !.at = @ + 1, !.phase = "working", !.job = None]

ReachGate ==
  /\ agent.phase = "working" /\ agent.at \in Numbers
  /\ agent' = [agent EXCEPT !.phase = "waiting"]
  /\ UNCHANGED <<passed, adapter, inst, inbox, intent, lock, th, fresh, control>>

PassInWorkbench ==
  /\ agent.phase = "waiting" /\ agent.at \in Workbench
  /\ agent' = Beyond(agent)
  /\ UNCHANGED <<passed, adapter, inst, inbox, intent, lock, th, fresh, control>>

\* The job of an advance ends; the project may show the old gate a while longer.
JobEnds ==
  /\ agent.phase \in {"active", "lagging"}
  /\ agent' \in {Beyond(agent), [agent EXCEPT !.phase = "lagging", !.job = None]} \ {agent}
  /\ UNCHANGED <<passed, adapter, inst, inbox, intent, lock, th, fresh, control>>

AgentFails ==
  /\ agent.phase \in {"working", "active"} /\ exits < MaxExits
  /\ agent' = [agent EXCEPT !.phase = "failed", !.job = None]
  /\ exits' = exits + 1
  /\ UNCHANGED <<passed, adapter, inst, inbox, intent, lock, th, fresh, mode, todo, crashes>>

\* The process exits and the supervisor records it.
AgentExit ==
  /\ mode # "down" /\ Alive /\ ~Guarded /\ Observed
  /\ exits < MaxExits
  /\ agent' = [agent EXCEPT !.phase = "dead", !.job = None]
  /\ inst' = IF inst = "RUNNING" THEN "CRASHED" ELSE "FAILED"
  /\ exits' = exits + 1 /\ fresh' = FALSE
  /\ UNCHANGED <<passed, adapter, inbox, intent, lock, th, mode, todo, crashes>>

-----------------------------------------------------------------------------
(* The adapter: get_status.                                                *)

\* _observation, with the job the caller read from the state file.
Raw(copy) ==
  CASE agent.phase = "failed" -> "FAILED"
    [] agent.phase = "active" /\ agent.job = copy.job -> "RUNNING"
    [] agent.phase \in {"waiting", "lagging"} \/ (agent.phase = "active" /\ agent.job # copy.job)
         -> "WAITING_APPROVAL"
    [] OTHER -> "RUNNING"

KeepsHiding(copy) ==
  IF copy.settling = 0 \/ Raw(copy) = "FAILED" THEN [status |-> Raw(copy), settling |-> 0]
  ELSE [status |-> "RUNNING", settling |-> copy.settling]
\* _stabilize_advanced_gate hides a gate that was advanced until the boundary moves.
Stabilized(copy) ==
  IF copy.settling = 0 \/ Raw(copy) = "FAILED" \/ agent.at # copy.settling
  THEN [status |-> Raw(copy), settling |-> 0]
  ELSE [status |-> "RUNNING", settling |-> copy.settling]

ReadState(t, label) == th' = [th EXCEPT ![t] = [pc |-> label, copy |-> adapter, seen |-> Unseen]]

\* The poll, and the write of the state file that was read before it.
Poll(t) ==
  /\ Alive
  /\ adapter' = [job |-> th[t].copy.job, settling |-> Stabilized(th[t].copy).settling]
Seen(t) == [status |-> Stabilized(th[t].copy).status, at |-> agent.at]
IdOf(t) == <<Gates[th[t].seen.at].step, th[t].copy.job>>

-----------------------------------------------------------------------------
(* observe_instance.                                                       *)

Observe ==
  /\ mode = "up" /\ th[Observer] = Idle /\ Observed
  /\ ReadState(Observer, "poll")
  /\ fresh' = TRUE
  /\ UNCHANGED <<external, adapter, inst, inbox, intent, lock, control>>

ObservePoll ==
  /\ mode = "up" /\ Running(Observer, "poll")
  /\ IF Alive THEN Poll(Observer) /\ th' = [th EXCEPT ![Observer].pc = "enter", ![Observer].seen = Seen(Observer)]
     ELSE adapter' = adapter /\ th' = [th EXCEPT ![Observer] = Idle]
  /\ UNCHANGED <<external, inst, inbox, intent, lock, fresh, control>>

Stale == ~fresh \/ ~Observed
Resolved == /\ th[Observer].seen.status = "WAITING_APPROVAL"
            /\ gate[IdOf(Observer)].status \notin {"NONE", "PENDING"}
Pending == {g \in Ids : gate[g].status = "PENDING"}

\* A stale observation is dropped; a resolved gate only repairs a stranded instance.
Project ==
  /\ Running(Observer, "enter") /\ Free
  /\ CASE Stale -> Return(Observer) /\ UNCHANGED <<inst, fresh>>
       [] ~Stale /\ Resolved ->
            /\ Return(Observer)
            /\ IF inst = "WAITING_APPROVAL" /\ Pending = {}
               THEN inst' = "RUNNING" /\ fresh' = FALSE ELSE UNCHANGED <<inst, fresh>>
       [] OTHER -> th' = [th EXCEPT ![Observer].pc = "ack"] /\ lock' = Observer /\ UNCHANGED <<inst, fresh>>
  /\ UNCHANGED <<external, adapter, inbox, intent, control>>

\* acknowledge_external_workflow_approvals closes the gates passed elsewhere ...
OthersNone == {}
Others ==
  IF th[Observer].seen.status = "WAITING_APPROVAL" THEN Pending \ {IdOf(Observer)} ELSE Pending
Acknowledge ==
  /\ Running(Observer, "ack")
  /\ IF Others = {} THEN Go(Observer, "acknotes") /\ gate' = gate
     ELSE /\ gate' = [gate EXCEPT ![Pick(Others)] = [status |-> "APPROVED", by |-> Observer]]
          /\ UNCHANGED <<th, lock>>
  /\ UNCHANGED <<external, adapter, inst, note, failNote, intent, fresh, control>>

\* ... and their notifications, those of an interrupted observation too.
StillOpen == {g \in Ids : gate[g].by = Observer /\ note[g] = "OPEN"}
AcknowledgeNotes ==
  /\ Running(Observer, "acknotes")
  /\ IF StillOpen = {} THEN Go(Observer, "move") /\ note' = note
     ELSE note' = [note EXCEPT ![Pick(StillOpen)] = "HANDLED"] /\ UNCHANGED <<th, lock>>
  /\ UNCHANGED <<external, adapter, inst, gate, failNote, intent, fresh, control>>

MoveInstance ==
  LET s == th[Observer].seen.status IN
  /\ Running(Observer, "move")
  /\ inst' = s
  /\ fresh' = (fresh /\ s = inst)
  /\ CASE s = "WAITING_APPROVAL" -> Go(Observer, "ask")
       [] s = "FAILED" -> Go(Observer, "fail")
       [] OTHER -> Return(Observer)
  /\ UNCHANGED <<external, adapter, inbox, intent, control>>

\* ensure_workflow_approval and its notification.
EnsureApproval ==
  LET g == IdOf(Observer) IN
  /\ Running(Observer, "ask")
  /\ gate' = IF gate[g].status = "NONE" THEN [gate EXCEPT ![g].status = "PENDING"] ELSE gate
  /\ Go(Observer, "asknote")
  /\ UNCHANGED <<external, adapter, inst, note, failNote, intent, fresh, control>>

EnsureNotification ==
  LET g == IdOf(Observer) IN
  /\ Running(Observer, "asknote")
  /\ note' = [note EXCEPT ![g] = IF @ = "NONE" THEN "OPEN" ELSE @]
  /\ Return(Observer)
  /\ UNCHANGED <<external, adapter, inst, gate, failNote, intent, fresh, control>>

TellFailure ==
  /\ Running(Observer, "fail")
  /\ failNote' = TRUE
  /\ Return(Observer)
  /\ UNCHANGED <<external, adapter, inst, gate, note, intent, fresh, control>>

-----------------------------------------------------------------------------
(* resolve_approval and _resume_approval.                                  *)

Entry(o, state) == IF Approves(o) /\ state = "PREPARED" THEN "advance" ELSE "decide"
Enter(o, state) == th' = [th EXCEPT ![o] = [Idle EXCEPT !.pc = Entry(o, state)]] /\ lock' = o

Resolve(o) ==
  /\ mode = "up" /\ Free /\ th[o] = Idle
  /\ intent[o].state # "COMMITTED"
  /\ IF intent[o].state = "NONE"
     THEN \E g \in Pending :
            /\ Approves(o) => \E k \in Numbers : Gates[k] = [step |-> g[1], action |-> Command[o].action]
            /\ intent' = [intent EXCEPT ![o] = [state |-> "PREPARED", gate |-> g]]
            /\ Enter(o, "PREPARED")
     ELSE intent' = intent /\ Enter(o, intent[o].state)
  /\ UNCHANGED <<external, adapter, inst, inbox, fresh, control>>

\* request_advance polls, and raises unless the Agent waits and offers the action.
AdvanceReads(o) ==
  /\ Running(o, "advance")
  /\ ReadState(o, "check") /\ lock' = lock
  /\ UNCHANGED <<external, adapter, inst, inbox, intent, fresh, control>>

Offered(o) == Seen(o).status = "WAITING_APPROVAL" /\ Gates[agent.at].action = Command[o].action

AdvanceChecks(o) ==
  /\ Running(o, "check")
  /\ IF ~Alive THEN adapter' = adapter /\ Return(o)
     ELSE /\ Poll(o)
          /\ IF Offered(o)
             THEN th' = [th EXCEPT ![o].pc = "post", ![o].seen = Seen(o)] /\ lock' = lock
             ELSE Return(o)
  /\ UNCHANGED <<external, inst, inbox, intent, fresh, control>>

\* The Agent answers a known key with its job and refuses an action it does not offer.
AdvancePosts(o) ==
  /\ Running(o, "post")
  /\ IF o \in agent.taken THEN Go(o, "record") /\ UNCHANGED external
     ELSE IF agent.phase = "waiting" /\ Gates[agent.at].action = Command[o].action
     THEN /\ agent' = [agent EXCEPT !.phase = "active", !.job = o, !.taken = @ \cup {o}]
          /\ passed' = [passed EXCEPT ![agent.at] = o]
          /\ Go(o, "record")
     ELSE Return(o) /\ UNCHANGED external
  /\ UNCHANGED <<adapter, inst, inbox, intent, fresh, control>>

AdvanceRecords(o) ==
  /\ Running(o, "record")
  /\ adapter' = [job |-> o, settling |-> th[o].seen.at]
  /\ Go(o, "accepted")
  /\ UNCHANGED <<external, inst, inbox, intent, fresh, control>>

AdvanceAccepted(o) ==
  /\ Running(o, "accepted")
  /\ intent' = [intent EXCEPT ![o].state = "ADVANCE_ACCEPTED"]
  /\ Go(o, "decide")
  /\ UNCHANGED <<external, adapter, inst, inbox, fresh, control>>

TargetIsVerdict(o) == Command[o].verdict
Target(o) == IF Approves(o) THEN "RUNNING" ELSE "FAILED"

\* The transition raises for an instance that left WAITING_APPROVAL for another status.
MoveDecided(o) ==
  /\ Running(o, "decide")
  /\ IF inst \in {Target(o), "WAITING_APPROVAL"}
     THEN inst' = Target(o) /\ fresh' = (fresh /\ inst = Target(o)) /\ Go(o, "commit")
     ELSE UNCHANGED <<inst, fresh>> /\ Return(o)
  /\ UNCHANGED <<external, adapter, inbox, intent, control>>

Committable(o) == gate[intent[o].gate].status = "PENDING"

\* commit_resolution: repeated by its key, refused for a gate that is decided.
CommitResolution(o) ==
  LET g == intent[o].gate IN
  /\ Running(o, "commit")
  /\ CASE gate[g].by = o -> gate' = gate /\ Go(o, "handle")
       [] gate[g].by # o /\ Committable(o) ->
            gate' = [gate EXCEPT ![g] = [status |-> Command[o].verdict, by |-> o]] /\ Go(o, "handle")
       [] OTHER -> gate' = gate /\ Return(o)
  /\ UNCHANGED <<external, adapter, inst, note, failNote, intent, fresh, control>>

HandleNotification(o) ==
  /\ Running(o, "handle")
  /\ note' = [note EXCEPT ![intent[o].gate] = IF @ = "OPEN" THEN "HANDLED" ELSE @]
  /\ Go(o, "tell")
  /\ UNCHANGED <<external, adapter, inst, gate, failNote, intent, fresh, control>>

TellRejection(o) ==
  /\ Running(o, "tell")
  /\ failNote' = (failNote \/ ~Approves(o))
  /\ Go(o, "finish")
  /\ UNCHANGED <<external, adapter, inst, gate, note, intent, fresh, control>>

FinishIntent(o) ==
  /\ Running(o, "finish")
  /\ intent' = [intent EXCEPT ![o].state = "COMMITTED"]
  /\ Return(o)
  /\ UNCHANGED <<external, adapter, inst, inbox, fresh, control>>

-----------------------------------------------------------------------------
(* Crash and startup; the Agents live on.                                  *)

Crash ==
  /\ mode # "down" /\ crashes < MaxCrashes
  /\ crashes' = crashes + 1
  /\ mode' = "down" /\ todo' = {}
  /\ th' = [t \in Threads |-> Idle] /\ lock' = None /\ fresh' = FALSE
  /\ UNCHANGED <<external, adapter, inst, inbox, intent, exits>>

ResumesPrepared == {o \in Ops : intent[o].state = "PREPARED"}
Resumable == {o \in Ops : intent[o].state \notin {"NONE", "COMMITTED"}}
Start ==
  /\ mode = "down"
  /\ mode' = "recovering" /\ todo' = Resumable
  /\ UNCHANGED <<external, adapter, inst, inbox, intent, lock, th, fresh, crashes, exits>>

\* An error leaves the intent for the next restart or a repetition of the call.
RecoverIntent ==
  /\ mode = "recovering" /\ Free /\ todo # {}
  /\ LET o == Pick(todo) IN Enter(o, intent[o].state) /\ todo' = todo \ {o}
  /\ UNCHANGED <<external, adapter, inst, inbox, intent, fresh, mode, crashes, exits>>

Recovered ==
  /\ mode = "recovering" /\ Free /\ todo = {}
  /\ failNote' = (failNote \/ ~Observed)
  /\ mode' = "up"
  /\ UNCHANGED <<external, adapter, inst, gate, note, intent, lock, th, fresh, todo, crashes, exits>>

-----------------------------------------------------------------------------
Init ==
  /\ agent = [at |-> 1, phase |-> "working", job |-> None, taken |-> {}]
  /\ adapter = [job |-> First, settling |-> 0]
  /\ inst = "RUNNING"
  /\ gate = [g \in Ids |-> [status |-> "NONE", by |-> None]]
  /\ note = [g \in Ids |-> "NONE"] /\ failNote = FALSE
  /\ intent = [o \in Ops |-> [state |-> "NONE", gate |-> None]]
  /\ passed = [k \in Numbers |-> None]
  /\ lock = None /\ th = [t \in Threads |-> Idle] /\ fresh = FALSE
  /\ mode = "up" /\ todo = {} /\ crashes = 0 /\ exits = 0

AgentSteps == ReachGate \/ JobEnds
Persisting ==
  \/ Acknowledge \/ AcknowledgeNotes \/ MoveInstance \/ EnsureApproval \/ EnsureNotification \/ TellFailure
Deciding(o) ==
  \/ AdvanceReads(o) \/ AdvanceChecks(o) \/ AdvancePosts(o) \/ AdvanceRecords(o) \/ AdvanceAccepted(o)
  \/ MoveDecided(o) \/ CommitResolution(o) \/ HandleNotification(o) \/ TellRejection(o) \/ FinishIntent(o)
Startup == Start \/ RecoverIntent \/ Recovered

Next ==
  \/ AgentSteps \/ PassInWorkbench \/ AgentFails \/ AgentExit
  \/ Observe \/ ObservePoll \/ Project \/ Persisting
  \/ \E o \in Ops : Resolve(o) \/ Deciding(o)
  \/ Crash \/ Startup

Spec == Init /\ [][Next]_vars

\* The Agent works on, the observer comes back every two seconds and gets the task lock
\* sooner or later, a thread inside a call goes on and the process is started again.
FairSpec ==
  /\ Spec
  /\ WF_vars(AgentSteps)
  /\ WF_vars(Observe) /\ WF_vars(ObservePoll) /\ SF_vars(Project) /\ WF_vars(Persisting)
  /\ \A o \in Ops : WF_vars(Deciding(o))
  /\ WF_vars(Startup)

-----------------------------------------------------------------------------
(* Properties.                                                             *)

\* The types of the files, of the Agent and of the threads.
TypeOK ==
  /\ agent.at \in 1..(Len(Gates) + 1) /\ agent.job \in Ops \cup {None} /\ agent.taken \subseteq Ops
  /\ agent.phase \in {"working", "waiting", "active", "lagging", "failed", "dead"}
  /\ adapter.job \in Jobs /\ adapter.settling \in 0..Len(Gates)
  /\ inst \in {"RUNNING", "WAITING_APPROVAL", "FAILED", "CRASHED"}
  /\ \A g \in Ids : /\ gate[g].status \in {"NONE", "PENDING", "APPROVED", "REJECTED"}
                    /\ gate[g].by \in Threads \cup {None}
                    /\ note[g] \in {"NONE", "OPEN", "HANDLED"}
                    /\ gate[g].status = "NONE" => note[g] = "NONE"
  /\ \A o \in Ops : /\ intent[o].state \in {"NONE", "PREPARED", "ADVANCE_ACCEPTED", "COMMITTED"}
                    /\ intent[o].gate \in Ids \cup {None}
                    /\ intent[o].state = "NONE" <=> intent[o].gate = None
  /\ lock \in Threads \cup {None} /\ failNote \in BOOLEAN /\ fresh \in BOOLEAN

\* Another gate offers the action of the decision as well; request_advance compares the action alone.
Shared(o) ==
  \E j, k \in Numbers : j # k /\ Gates[j].action = Command[o].action /\ Gates[k].action = Command[o].action

\* A decision that is recorded took effect: an approval of the human advanced the Agent, at the
\* step the human saw unless another gate offers the same action, and a rejection stopped the
\* instance.
DecisionsTakeEffect ==
  \A g \in Ids : \A o \in Ops : gate[g].by = o =>
    /\ gate[g].status = Command[o].verdict
    /\ Approves(o) => \E k \in Numbers : passed[k] = o /\ (Gates[k].step = g[1] \/ Shared(o))
    /\ ~Approves(o) => ~Observed

\* Only an approval advances the Agent, with the action the human chose and at the step the human
\* saw unless another gate offers it too; none advances it twice, whatever is repeated after a crash.
AdvancesAreApproved ==
  \A k \in Numbers : passed[k] # None =>
    /\ Approves(passed[k]) /\ intent[passed[k]].gate # None
    /\ Gates[k].action = Command[passed[k]].action
    /\ Gates[k].step = intent[passed[k]].gate[1] \/ Shared(passed[k])
    /\ \A j \in Numbers \ {k} : passed[j] # passed[k]

\* At most one gate of the instance is open, and whoever decides holds the only open one.
OneGateIsOpen == (mode = "up" /\ Free) => Cardinality(Pending) <= 1

\* The three together, on the files that hold a decision.
DecisionsHold ==
  /\ DecisionsTakeEffect
  /\ AdvancesAreApproved
  /\ OneGateIsOpen

\* A restart completes every decision whose advance was recorded, unless its approval was closed
\* by another decision or as passed elsewhere, and tells of every failure, as long as the Agent
\* is alive.
RestartCompletesDecisions ==
  [][mode = "recovering" /\ mode' = "up" =>
       /\ Observed => \A o \in Ops :
            intent[o].state = "ADVANCE_ACCEPTED" => gate[intent[o].gate].by \notin {None, o}
       /\ ~Observed => failNote']_vars

\* An approval has advanced a gate that its human did not see.
Strayed == \E k \in Numbers : passed[k] # None /\ Gates[k].step # intent[passed[k]].gate[1]

\* The gate is hidden as settled, after an advance of another gate with this action was repeated.
Mistaken(k) ==
  /\ adapter.settling = k
  /\ \E j \in Numbers \ {k} : Gates[j].action = Gates[k].action

\* A gate the control process advanced and recorded does not come back to the inbox, neither
\* through an observation that was under way nor while the Agent still shows it.
DecidedGatesStayDecided ==
  \A k \in Numbers : (passed[k] # None /\ intent[passed[k]].state = "COMMITTED") =>
    \A g \in Pending : g[1] # Gates[k].step

\* A gate at which the Agent waits comes to the operator, unless somebody passes it first or
\* the instance ends.
GatesReachTheOperator ==
  \A k \in Numbers :
    (agent.phase = "waiting" /\ agent.at = k)
       ~> (\/ ~(agent.phase = "waiting" /\ agent.at = k)
           \/ (inst = "WAITING_APPROVAL" /\ \E g \in Pending : g[1] = Gates[k].step /\ note[g] = "OPEN")
           \/ ~Observed \/ Strayed \/ Mistaken(k))

Outdated == {g \in Ids : gate[g].status \in {"APPROVED", "REJECTED"} /\ note[g] = "OPEN"}

\* An instance does not wait for a gate that is gone, and decided gates leave the inbox.
AttentionIsReleased ==
  /\ (inst = "WAITING_APPROVAL") ~> (Pending # {} \/ inst # "WAITING_APPROVAL")
  /\ (Outdated # {}) ~> (Outdated = {} \/ ~Observed)

\* The inbox follows the Agent: gates come to it, leave it and stay away, unless several gates
\* offer one action and an approval was taken for another gate than its own.
InboxFollowsGates ==
  GatesReachTheOperator /\ AttentionIsReleased /\ [](Strayed \/ DecidedGatesStayDecided)
=============================================================================
