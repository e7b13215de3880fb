----------------------- MODULE StartOperationsProofs -----------------------
(***************************************************************************)
(* Proofs about StartOperations, for any number of instances, operations,  *)
(* attempts and faults.                                                    *)
(***************************************************************************)
EXTENDS StartOperations, TLAPS

-----------------------------------------------------------------------------
(* The inductive invariant.                                                *)

\* Where the runner holds the lock of its instance, and where it does not.
Held == {"stop", "stopped", "start", "prepared", "spawn", "spawned", "recorded", "waiting",
         "ready", "readied", "startFailed", "startFailed2"}
Unheld == {"idle", "batch", "prepare", "decide", "failed", "process", "agent", "request",
           "posted", "accept", "commit"}

RunType == [pc : Held \cup Unheld, op : Ops \cup {None}, i : Instances \cup {None},
            a : 0..MaxAttempts, prev : Stages, reused : BOOLEAN, keep : BOOLEAN,
            old : Launches \cup {None}]

\* The runner knows its operation, its instance and the number of its attempt.
RunInv ==
  /\ run \in RunType
  /\ run.pc # "idle" => run.op \in Ops /\ cursor \in 1..Len(Order)
  /\ run.pc \notin {"idle", "batch"} => run.i \in Targets[run.op] /\ run.a \in 1..MaxAttempts
  /\ run.pc = "stopped" => run.old \in Launches

\* So do the monitor and the cancellation.
MonInv ==
  /\ mon \in [pc : {"idle", "promoted", "exited", "promoted2", "exited2"}, launch : Launches \cup {None}]
  /\ mon.pc # "idle" => mon.launch \in Launches
CancelInv ==
  /\ cancel \in [pc : {"idle", "closed", "move"}, i : Instances \cup {None}, launch : Launches \cup {None}]
  /\ cancel.pc # "idle" => cancel.i \in Instances
  /\ cancel.pc = "closed" => cancel.launch \in Launches

\* Only the targets of an operation have progress.
ProgressInv ==
  \A o \in Ops, i \in Instances : progress[o][i].state # "PENDING" => i \in Targets[o]

TypeInv == TypeOK /\ RunInv /\ MonInv /\ CancelInv /\ ProgressInv

\* The lock of an instance has one holder; recovery runs alone.
LockInv ==
  /\ run.pc \in Held => lock[run.i] = "runner"
  /\ mon.pc # "idle" => lock[mon.launch[2]] = "monitor"
  /\ cancel.pc # "idle" => lock[cancel.i] = "cancel"
  /\ mode # "up" => run.pc = "idle" /\ cancel.pc = "idle"
  /\ mode = "down" => mon.pc = "idle"

\* A status is CANCELLED when nothing runs any more.
CancelledInv == \A i \in Instances : status[i] = "CANCELLED" => ActiveOf(i) = {}

\* A record names a process once it is past its preparation, and not before.
PidInv ==
  /\ \A l \in Launches : rec[l].state \in {"STARTING", "RUNNING"} => rec[l].pid
  /\ \A l \in Launches : rec[l].pid => rec[l].state \notin {"NONE", "PREPARED"}

\* What the lock protects: nothing is active before the runner writes its record or the
\* cancellation moves the status, and the record of a start is where the runner put it.
RunnerKnows ==
  /\ run.pc \in {"stopped", "start"} => ActiveOf(run.i) = {}
  /\ run.pc \in {"stop", "stopped", "start"} => rec[Launch].state = "NONE"
  /\ run.pc \in {"prepared", "spawn", "spawned"} => rec[Launch].state = "PREPARED"
  /\ run.pc \in {"recorded", "waiting"} => rec[Launch].state = "STARTING"
  /\ run.pc \in {"ready", "readied"} => rec[Launch].state = "RUNNING"
  /\ run.pc \in {"stop", "stopped", "start"} /\ run.keep => status[run.i] # "CANCELLED"
HolderInv == RunnerKnows /\ (cancel.pc # "idle" => ActiveOf(cancel.i) = {})

LaunchInv ==
  LockInv /\ OneActiveLaunch /\ RecordedProcessesAreOwned /\ CancelledInv /\ PidInv /\ HolderInv

-----------------------------------------------------------------------------
(* Which actions write what.                                               *)

\* The status of an instance changes by a transition of the runner, of the supervisor, of a
\* cancellation, of the observer or of the end of the reconciliation.
MovesByRunner ==
  RecordFailure \/ Prepare \/ Reuse \/ AcceptJob \/ MoveToStarting \/ MoveToRunning \/ MoveToFailed
LEMMA StatusWriters ==
  Next => \/ UNCHANGED status
          \/ MovesByRunner \/ SuperviseMoves \/ CancelMoves \/ FinishReconcile
          \/ \E i \in Instances : Observe(i)
  BY DEF MovesByRunner, Next, Run, Monitor, Cancel, Restarting, Accept, Retry, Supersede, Claim, Rescan, BatchInstance,
         BatchDone, LaunchExists, StartRefused, BeginStart, RestartStops, RestartProjects,
         StartIneligible, WriteRecord, Spawn, RecordPid, ProjectStarting, ProbeReady, ProjectRunning,
         StartFails, ProjectFailed, Persisted, RecoverJob, RecoverFails, AnnounceRequest, PostJob,
         PostFails, JobAccepted, CommitOperation, PrepareFails, StartUnprepared, RevisionConflict,
         FailureConflict, Adopt, RestoreProjection, Promote, HandleExit, SuperviseProjects,
         CancelBegins, CancelProjects, AgentStep, AgentDies, Crash, StartReconcile

\* Its process projection.
ProjectsByRunner == RestartProjects \/ ProjectStarting \/ ProjectRunning \/ ProjectFailed
LEMMA ProcWriters ==
  Next => \/ UNCHANGED proc
          \/ ProjectsByRunner \/ SuperviseProjects \/ CancelProjects
          \/ \E l \in Launches : RestoreProjection(l)
  BY DEF ProjectsByRunner, Next, Run, Monitor, Cancel, Restarting, Accept, Retry, Supersede, Claim, Rescan, BatchInstance,
         BatchDone, RecordFailure, Prepare, Reuse, AcceptJob, MoveToStarting, MoveToRunning, MoveToFailed,
         LaunchExists, StartRefused, BeginStart, RestartStops,
         StartIneligible, WriteRecord, Spawn, RecordPid, ProbeReady,
         StartFails, Persisted, RecoverJob, RecoverFails, AnnounceRequest, PostJob,
         PostFails, JobAccepted, CommitOperation, PrepareFails, StartUnprepared, RevisionConflict,
         FailureConflict, Adopt, Promote, HandleExit, SuperviseMoves, Observe, CancelMoves,
         CancelBegins, AgentStep, AgentDies, Crash, StartReconcile, FinishReconcile

-----------------------------------------------------------------------------
(* Types, variable by variable.                                            *)

\* The parts of a launch, and the statuses of the catalog.
LEMMA LaunchParts ==
  /\ \A l \in Launches : l[1] \in Ops /\ l[2] \in Instances /\ l[3] \in 1..MaxAttempts
  /\ \A o \in Ops, i \in Instances, a \in 1..MaxAttempts : <<o, i, a>> \in Launches /\ <<o, i, a>>[2] = i
  BY DEF Launches

LEMMA StatusesAre ==
  Statuses = {"READY", "STARTING", "RUNNING", "WAITING_APPROVAL", "FAILED_TO_START", "FAILED",
              "CRASHED", "CANCELLED"}
  BY DEF Statuses, Catalog

\* The runner's launch, once it has an instance.
LEMMA RunnerFacts ==
  ASSUME TypeInv, run.pc \notin {"idle", "batch"}
  PROVE  /\ run.op \in Ops /\ run.i \in Instances /\ run.i \in Targets[run.op]
         /\ run.a \in 1..MaxAttempts /\ Launch \in Launches /\ Launch[2] = run.i
<1>1. run.op \in Ops /\ run.i \in Targets[run.op] /\ run.a \in 1..MaxAttempts
  BY DEF TypeInv, RunInv
<1>2. run.i \in Instances
  BY <1>1, ConstAssumption
<1>. QED
  BY <1>1, <1>2, LaunchParts DEF Launch

\* A transition leaves statuses.
LEMMA MoveTyped ==
  ASSUME status \in [Instances -> Statuses], NEW i \in Instances, NEW s \in Statuses, NEW key,
         Move(i, s) \/ Transition(key, i, s)
  PROVE  status' \in [Instances -> Statuses]
  BY DEF Move, Transition

LEMMA StatusTyped ==
  ASSUME TypeInv, Next
  PROVE  status' \in [Instances -> Statuses]
<1>0. status \in [Instances -> Statuses]
  BY DEF TypeInv, TypeOK
<1>1. CASE MovesByRunner
  <2>1. run.pc \notin {"idle", "batch"}
    BY <1>1 DEF MovesByRunner, RecordFailure, Prepare, Reuse, AcceptJob, MoveToStarting, MoveToRunning,
                MoveToFailed
  <2>2. run.i \in Instances
    BY <2>1, RunnerFacts
  <2>3. \/ UNCHANGED status
        \/ \E key : \E s \in Statuses : Move(run.i, s) \/ Transition(key, run.i, s)
    BY <1>1, StatusesAre DEF MovesByRunner, RecordFailure, Prepare, Reuse, AcceptJob, MoveToStarting,
                MoveToRunning, MoveToFailed
  <2>. QED
    BY <1>0, <2>2, <2>3, MoveTyped
<1>2. CASE SuperviseMoves
  <2>1. mon.launch[2] \in Instances
    BY <1>2, LaunchParts DEF SuperviseMoves, TypeInv, MonInv
  <2>2. \A s \in DOMAIN AfterExit : AfterExit[s] \in Statuses
    BY StatusesAre DEF AfterExit
  <2>3. UNCHANGED status \/ \E s \in Statuses : Move(mon.launch[2], s)
    BY <1>2, <2>2, StatusesAre DEF SuperviseMoves
  <2>. QED
    BY <1>0, <2>1, <2>3, MoveTyped
<1>3. CASE CancelMoves
  <2>1. cancel.i \in Instances
    BY <1>3 DEF CancelMoves, TypeInv, CancelInv
  <2>. QED
    BY <1>0, <1>3, <2>1, MoveTyped, StatusesAre DEF CancelMoves
<1>4. CASE FinishReconcile
  BY <1>0, <1>4, StatusesAre DEF FinishReconcile
<1>5. ASSUME NEW i \in Instances, Observe(i) PROVE status' \in [Instances -> Statuses]
  <2>1. \E s \in Statuses : Move(i, s)
    BY <1>5, StatusesAre DEF Observe
  <2>. QED
    BY <1>0, <2>1, MoveTyped
<1>. QED
  BY <1>0, <1>1, <1>2, <1>3, <1>4, <1>5, StatusWriters

ProcType == [Instances -> [launch : Launches, state : {"STARTING", "RUNNING", "EXITED"}] \cup {NoProcess}]

LEMMA ProjectTyped ==
  ASSUME proc \in ProcType, NEW l \in Launches, NEW s \in {"STARTING", "RUNNING", "EXITED"}, Project(l, s)
  PROVE  proc' \in ProcType
  BY LaunchParts DEF ProcType, Project

LEMMA ProcTyped ==
  ASSUME TypeInv, LaunchInv, Next
  PROVE  proc' \in ProcType
<1>0. proc \in ProcType
  BY DEF TypeInv, TypeOK, ProcType
<1>1. CASE RestartProjects
  BY <1>0, <1>1, ProjectTyped DEF RestartProjects, TypeInv, RunInv
<1>2. CASE ProjectStarting \/ ProjectRunning \/ ProjectFailed
  <2>1. Launch \in Launches
    BY <1>2, RunnerFacts DEF ProjectStarting, ProjectRunning, ProjectFailed
  <2>. QED
    BY <1>0, <1>2, <2>1, ProjectTyped DEF ProjectStarting, ProjectRunning, ProjectFailed
<1>3. CASE SuperviseProjects
  <2>1. mon.launch \in Launches
    BY <1>3 DEF SuperviseProjects, TypeInv, MonInv
  <2>. QED
    BY <1>0, <1>3, <2>1, ProjectTyped DEF SuperviseProjects
<1>4. CASE CancelProjects
  BY <1>0, <1>4, ProjectTyped DEF CancelProjects, TypeInv, CancelInv
<1>5. ASSUME NEW l \in Launches, RestoreProjection(l) PROVE proc' \in ProcType
  <2>1. rec[l].state \in {"STARTING", "RUNNING"}
    <3>1. rec[l].pid /\ Live(l)
      BY <1>5 DEF RestoreProjection
    <3>2. RecordedProcessesAreOwned /\ PidInv
      BY DEF LaunchInv
    <3>3. Active(l)
      BY <3>1, <3>2 DEF RecordedProcessesAreOwned
    <3>4. rec[l].state # "PREPARED"
      BY <3>1, <3>2 DEF PidInv
    <3>. QED
      BY <3>3, <3>4 DEF Active
  <2>. QED
    BY <1>0, <1>5, <2>1, ProjectTyped DEF RestoreProjection
<1>. QED
  BY <1>0, <1>1, <1>2, <1>3, <1>4, <1>5, ProcWriters DEF ProjectsByRunner

\* The launch records and the operating system's view of a launch.
RecordsByRunner == RestartStops \/ WriteRecord \/ Spawn \/ RecordPid \/ ProbeReady \/ StartFails
LEMMA RecWriters ==
  Next => \/ UNCHANGED <<rec, os>>
          \/ RecordsByRunner
          \/ \E l \in Launches : Adopt(l) \/ Promote(l) \/ HandleExit(l) \/ AgentStep(l) \/ AgentDies(l)
          \/ \E i \in Instances : CancelBegins(i)
  BY DEF RecordsByRunner, Next, Run, Monitor, Cancel, Restarting, Accept, Retry, Supersede, Claim, Rescan, BatchInstance,
         BatchDone, RecordFailure, Prepare, Reuse, AcceptJob, MoveToStarting, MoveToRunning, MoveToFailed,
         LaunchExists, StartRefused, BeginStart, RestartProjects, ProjectStarting, ProjectRunning,
         StartIneligible, ProjectFailed, Persisted, RecoverJob, RecoverFails, AnnounceRequest, PostJob,
         PostFails, JobAccepted, CommitOperation, PrepareFails, StartUnprepared, RevisionConflict,
         FailureConflict, RestoreProjection, SuperviseProjects, SuperviseMoves, Observe, CancelProjects, CancelMoves,
         Crash, StartReconcile, FinishReconcile, agents

RecType == [Launches -> [state : {"NONE", "PREPARED", "STARTING", "RUNNING", "EXITED", "FAILED_TO_START"},
                         pid : BOOLEAN]]
OsType == [Launches -> {"none", "spawned", "alive", "ready", "dead"}]

RecStates == {"NONE", "PREPARED", "STARTING", "RUNNING", "EXITED", "FAILED_TO_START"}

\* A record whose state moves, or that gets its process.
LEMMA StateTyped ==
  ASSUME rec \in RecType, NEW l \in Launches, NEW s \in RecStates, rec' = [rec EXCEPT ![l].state = s]
  PROVE  rec' \in RecType
<1>1. [rec[l] EXCEPT !.state = s] \in [state : RecStates, pid : BOOLEAN]
  BY DEF RecType, RecStates
<1>. QED
  BY <1>1 DEF RecType, RecStates

LEMMA NamedTyped ==
  ASSUME rec \in RecType, NEW l \in Launches, rec' = [rec EXCEPT ![l] = [state |-> "STARTING", pid |-> TRUE]]
  PROVE  rec' \in RecType
  BY DEF RecType

\* A record that is closed, and the process killed with it.
LEMMA CloseTyped ==
  ASSUME rec \in RecType, os \in OsType, NEW l \in Launches, NEW s \in {"EXITED", "FAILED_TO_START"},
         CloseRecord(l, s)
  PROVE  rec' \in RecType /\ os' \in OsType
  BY DEF RecType, OsType, CloseRecord, Killed

LEMMA RecTyped ==
  ASSUME TypeInv, Next
  PROVE  rec' \in RecType /\ os' \in OsType
<1>0. rec \in RecType /\ os \in OsType
  BY DEF TypeInv, TypeOK, RecType, OsType
<1>1. CASE RestartStops
  <2>1. PICK l \in ActiveOf(run.i) : CloseRecord(l, "EXITED")
    BY <1>1 DEF RestartStops
  <2>. QED
    BY <1>0, <2>1, CloseTyped DEF ActiveOf, Of
<1>2. CASE WriteRecord \/ Spawn \/ RecordPid \/ ProbeReady \/ StartFails
  <2>1. Launch \in Launches
    BY <1>2, RunnerFacts DEF WriteRecord, Spawn, RecordPid, ProbeReady, StartFails
  <2>2. CASE StartFails
    BY <1>0, <2>1, <2>2, CloseTyped DEF StartFails
  <2>3. CASE WriteRecord \/ RecordPid \/ ProbeReady
    <3>1. \/ \E s \in {"PREPARED", "RUNNING"} : rec' = [rec EXCEPT ![Launch].state = s]
          \/ rec' = [rec EXCEPT ![Launch] = [state |-> "STARTING", pid |-> TRUE]]
      BY <2>3 DEF WriteRecord, RecordPid, ProbeReady
    <3>2. os' = os
      BY <2>3 DEF WriteRecord, RecordPid, ProbeReady, agents
    <3>. QED
      BY <1>0, <2>1, <3>1, <3>2, StateTyped, NamedTyped DEF RecStates
  <2>4. CASE Spawn
    BY <1>0, <2>1, <2>4 DEF OsType, Spawn
  <2>. QED
    BY <1>2, <2>2, <2>3, <2>4
<1>3. ASSUME NEW l \in Launches, Adopt(l) \/ Promote(l)
      PROVE  rec' \in RecType /\ os' \in OsType
  <2>1. \/ rec' = [rec EXCEPT ![l].state = "RUNNING"]
        \/ rec' = [rec EXCEPT ![l] = [state |-> "STARTING", pid |-> TRUE]]
    BY <1>3 DEF Adopt, Promote
  <2>2. os' = os
    BY <1>3 DEF Adopt, Promote, agents
  <2>. QED
    BY <1>0, <2>1, <2>2, StateTyped, NamedTyped DEF RecStates
<1>6. ASSUME NEW l \in Launches, AgentStep(l) \/ AgentDies(l)
      PROVE  rec' \in RecType /\ os' \in OsType
  BY <1>0, <1>6 DEF OsType, AgentStep, AgentDies
<1>4. ASSUME NEW l \in Launches, HandleExit(l) PROVE rec' \in RecType /\ os' \in OsType
  BY <1>0, <1>4, CloseTyped DEF HandleExit
<1>5. ASSUME NEW i \in Instances, CancelBegins(i) PROVE rec' \in RecType /\ os' \in OsType
  BY <1>0, <1>5, CloseTyped DEF CancelBegins, Cancels, ActiveOf, Of
<1>. QED
  BY <1>0, <1>1, <1>2, <1>3, <1>4, <1>5, <1>6, RecWriters DEF RecordsByRunner

\* The agents' projects and the jobs the adapters know are of instances.
LEMMA ProjectsTyped ==
  ASSUME TypeInv, Next
  PROVE  projects' \subseteq Instances /\ known' \subseteq Instances
<1>1. projects \subseteq Instances /\ known \subseteq Instances
  BY DEF TypeInv, TypeOK
<1>2. CASE PostJob \/ JobAccepted
  <2>1. run.i \in Instances
    BY <1>2, RunnerFacts DEF PostJob, JobAccepted
  <2>. QED
    BY <1>1, <1>2, <2>1 DEF PostJob, JobAccepted
<1>3. CASE ~(PostJob \/ JobAccepted)
  <2>1. UNCHANGED <<projects, known>>
    BY <1>3 DEF Next, Run, Monitor, Cancel, Restarting, Accept, Retry, Supersede, Claim, Rescan, BatchInstance,
         BatchDone, RecordFailure, Prepare, Reuse, AcceptJob, MoveToStarting, MoveToRunning, MoveToFailed,
         LaunchExists, StartRefused, BeginStart, RestartProjects, ProjectStarting, ProjectRunning,
         RestartStops, WriteRecord, Spawn, RecordPid, ProbeReady, StartFails, Adopt, Promote, HandleExit,
         AgentStep, AgentDies, CancelBegins, CloseRecord,
         StartIneligible, ProjectFailed, Persisted, RecoverJob, RecoverFails, AnnounceRequest,
         PostFails, CommitOperation, PrepareFails, StartUnprepared, RevisionConflict,
         FailureConflict, RestoreProjection, SuperviseProjects, SuperviseMoves, Observe, CancelProjects, CancelMoves,
         Crash, StartReconcile, FinishReconcile, agents
  <2>. QED
    BY <1>1, <2>1
<1>. QED
  BY <1>2, <1>3

-----------------------------------------------------------------------------
(* The intents and the runner.                                             *)

IntentType == [Ops -> {"NONE", "QUEUED", "RUNNING", "RETRYABLE_FAILED", "ABORTED", "COMMITTED", "SUPERSEDED"}]
Entries == [state : {"PENDING", "RUNNING", "RETRYABLE_FAILED", "ABORTED"}, attempt : 0..MaxAttempts, stage : Stages]
ProgressType == [Ops -> [Instances -> Entries]]

\* One entry of the progress replaced.
LEMMA ProgressEntry ==
  ASSUME progress \in ProgressType, ProgressInv, NEW o \in Ops, NEW i \in Targets[o], NEW e \in Entries,
         progress' = [progress EXCEPT ![o] = [progress[o] EXCEPT ![i] = e]]
  PROVE  progress' \in ProgressType /\ ProgressInv'
<1>1. i \in Instances
  BY ConstAssumption
<1>2. progress' \in ProgressType
  BY <1>1 DEF ProgressType
<1>3. \A p \in Ops, j \in Instances : p # o \/ j # i => progress'[p][j] = progress[p][j]
  BY <1>1 DEF ProgressType
<1>. QED
  BY <1>2, <1>3 DEF ProgressInv

\* What the runner writes into its entry leaves an entry.
LEMMA RunnerEntry ==
  ASSUME TypeInv, run.pc \notin {"idle", "batch"}, NEW s \in {"RUNNING", "RETRYABLE_FAILED", "ABORTED"},
         NEW g \in Stages,
         \/ progress' = [progress EXCEPT ![run.op][run.i] = [@ EXCEPT !.state = s, !.attempt = run.a]]
         \/ progress' = [progress EXCEPT ![run.op][run.i] = [@ EXCEPT !.state = s, !.stage = g]]
         \/ progress' = [progress EXCEPT ![run.op][run.i].attempt = run.a]
         \/ progress' = [progress EXCEPT ![run.op][run.i].stage = g]
         \/ progress' = progress
  PROVE  progress' \in ProgressType /\ ProgressInv'
<1>. DEFINE o == run.op
            i == run.i
            x == progress[o][i]
<1>0. /\ progress \in ProgressType /\ ProgressInv
      /\ o \in Ops /\ i \in Targets[o] /\ i \in Instances /\ run.a \in 0..MaxAttempts
  BY RunnerFacts DEF TypeInv, TypeOK, ProgressType, Entries
<1>1. x \in Entries
  BY <1>0 DEF ProgressType
<1>2. /\ [x EXCEPT !.state = s, !.attempt = run.a] \in Entries
      /\ [x EXCEPT !.state = s, !.stage = g] \in Entries
      /\ [x EXCEPT !.attempt = run.a] \in Entries
      /\ [x EXCEPT !.stage = g] \in Entries
  BY <1>0, <1>1 DEF Entries
<1>3. \/ \E e \in Entries : progress' = [progress EXCEPT ![o] = [progress[o] EXCEPT ![i] = e]]
      \/ progress' = progress
  BY <1>0, <1>2 DEF ProgressType
<1>. QED
  BY <1>0, <1>3, ProgressEntry DEF ProgressInv

\* The ways in which a step of the runner ends.
Fails == \E retryable \in BOOLEAN : FailedAs(retryable)
Labels == (Held \cup Unheld) \ {"idle", "stopped"}
Continues == \E label \in Labels : GoOn(label)
Leaves == Finished \/ Escaped
Turns == Prepare \/ Reuse \/ BeginStart \/ RestartStops \/ RestartProjects \/ MoveToRunning

LEMMA RunWriters ==
  Next => \/ UNCHANGED <<run, cursor>>
          \/ run.pc \notin {"idle", "batch"} /\ UNCHANGED cursor /\ (Fails \/ Continues \/ Turns)
          \/ run.pc # "idle" /\ Leaves
          \/ Claim \/ BatchInstance \/ Rescan \/ Crash
<1>. DEFINE Ended == \/ run.pc \notin {"idle", "batch"} /\ UNCHANGED cursor /\ (Fails \/ Continues \/ Turns)
                     \/ run.pc # "idle" /\ Leaves
<1>1. RecordFailure \/ BatchDone \/ CommitOperation \/ FailureConflict => Ended
  BY DEF Leaves, RecordFailure, BatchDone, CommitOperation, FailureConflict
<1>2. ASSUME \/ StartRefused \/ StartIneligible \/ StartUnprepared \/ MoveToFailed \/ RecoverFails
             \/ PostFails \/ PrepareFails \/ RevisionConflict
      PROVE  Ended
  <2>1. run.pc \notin {"idle", "batch"} /\ UNCHANGED cursor
    BY <1>2 DEF StartRefused, StartIneligible, StartUnprepared, MoveToFailed, RecoverFails, PostFails,
                PrepareFails, RevisionConflict, Transitions
  <2>2. Fails
    BY <1>2 DEF Fails, StartRefused, StartIneligible, StartUnprepared, MoveToFailed, RecoverFails, PostFails,
                PrepareFails, RevisionConflict
  <2>. QED
    BY <2>1, <2>2
<1>3. ASSUME \/ WriteRecord \/ MoveToStarting \/ Spawn \/ RecordPid \/ ProjectStarting \/ ProbeReady
             \/ ProjectRunning \/ StartFails \/ ProjectFailed \/ Persisted \/ RecoverJob
             \/ AnnounceRequest \/ PostJob \/ JobAccepted \/ AcceptJob
      PROVE  Ended
  <2>1. run.pc \notin {"idle", "batch"} /\ UNCHANGED cursor
    BY <1>3 DEF WriteRecord, MoveToStarting, Spawn, RecordPid, ProjectStarting, ProbeReady,
                ProjectRunning, StartFails, ProjectFailed, Persisted, RecoverJob,
                AnnounceRequest, PostJob, JobAccepted, AcceptJob
  <2>2. Continues
    BY <1>3 DEF Continues, Labels, Held, Unheld, WriteRecord, MoveToStarting, Spawn, RecordPid,
                ProjectStarting, ProbeReady, ProjectRunning, StartFails, ProjectFailed, Persisted,
                RecoverJob, AnnounceRequest, PostJob, JobAccepted, AcceptJob
  <2>. QED
    BY <2>1, <2>2
<1>4. LaunchExists => Ended
  BY DEF LaunchExists, Fails, Continues, Labels, Held, Unheld
<1>5. Turns => Ended
  BY DEF Turns, Prepare, Reuse, BeginStart, RestartStops, RestartProjects, MoveToRunning
<1>6. ASSUME \/ \E o \in Ops : Accept(o) \/ Retry(o)
             \/ Supersede \/ Monitor \/ Cancel \/ Restarting
             \/ \E i \in Instances : CancelBegins(i) \/ Observe(i)
             \/ \E l \in Launches : AgentStep(l) \/ AgentDies(l)
      PROVE  UNCHANGED <<run, cursor>>
  BY <1>6 DEF Accept, Retry, Supersede, Monitor, Adopt, RestoreProjection, Promote, HandleExit,
              SuperviseProjects, SuperviseMoves, Cancel, CancelProjects, CancelMoves, Restarting,
              StartReconcile, FinishReconcile, CancelBegins, Observe, AgentStep, AgentDies, runner
<1>. HIDE DEF Ended
<1>7. Next => Ended \/ UNCHANGED <<run, cursor>> \/ Claim \/ BatchInstance \/ Rescan \/ Crash
  BY <1>1, <1>2, <1>3, <1>4, <1>5, <1>6 DEF Next, Run, Turns
<1>. QED
  BY <1>7 DEF Ended

\* A step that keeps operation, instance and attempt.
LEMMA RunKept ==
  ASSUME TypeInv, run.pc \notin {"idle", "batch"}, UNCHANGED cursor, run' \in RunType,
         run'.op = run.op, run'.i = run.i, run'.a = run.a, run'.pc # "idle",
         run'.pc = "stopped" => run'.old \in Launches
  PROVE  RunInv'
  BY DEF TypeInv, RunInv

LEMMA RunTyped ==
  ASSUME TypeInv, Next
  PROVE  RunInv' /\ cursor' \in 1..(Len(Order) + 1)
<1>0. /\ run \in RunType /\ Len(Order) \in Nat /\ cursor \in 1..(Len(Order) + 1)
      /\ RunInv /\ progress \in ProgressType
  BY ConstAssumption DEF TypeInv, RunInv, TypeOK, ProgressType, Entries
<1>1. CASE UNCHANGED <<run, cursor>>
  BY <1>0, <1>1 DEF RunInv, RunType
<1>2. CASE run.pc \notin {"idle", "batch"} /\ UNCHANGED cursor /\ Fails
  <2>1. run' = [run EXCEPT !.pc = "failed", !.prev = "NONE", !.reused = FALSE, !.keep = FALSE]
    BY <1>2 DEF Fails, FailedAs
  <2>2. run' \in RunType /\ run'.op = run.op /\ run'.i = run.i /\ run'.a = run.a /\ run'.pc = "failed"
    BY <1>0, <2>1 DEF RunType, Held, Unheld, Stages
  <2>. QED
    BY <1>0, <1>2, <2>2, RunKept
<1>3. CASE run.pc \notin {"idle", "batch"} /\ UNCHANGED cursor /\ Continues
  <2>1. PICK label \in Labels : run' = [run EXCEPT !.pc = label]
    BY <1>3 DEF Continues, GoOn
  <2>2. run' \in RunType /\ run'.op = run.op /\ run'.i = run.i /\ run'.a = run.a /\ run'.pc = label
    BY <1>0, <2>1 DEF RunType, Labels
  <2>. QED
    BY <1>0, <1>3, <2>2, RunKept DEF Labels
<1>4. CASE run.pc \notin {"idle", "batch"} /\ UNCHANGED cursor /\ Turns
  <2>1. ASSUME Prepare \/ Reuse \/ BeginStart \/ MoveToRunning PROVE RunInv'
    <3>1. progress[run.op][run.i].stage \in Stages
      BY <1>0, <1>4, RunnerFacts DEF ProgressType, Entries
    <3>2. \/ run' = [run EXCEPT !.pc = "failed", !.prev = "NONE", !.reused = FALSE, !.keep = FALSE]
          \/ run' = [run EXCEPT !.pc = "decide", !.prev = progress[run.op][run.i].stage]
          \/ run' = [run EXCEPT !.pc = "process", !.reused = TRUE]
          \/ \E l \in {"stop", "start"}, k \in BOOLEAN : run' = [run EXCEPT !.keep = k, !.pc = l]
          \/ run' = [run EXCEPT !.pc = "process", !.keep = FALSE]
      BY <2>1 DEF Prepare, FailedAs, Reuse, BeginStart, MoveToRunning, Preserves
    <3>3. /\ run' \in RunType /\ run'.op = run.op /\ run'.i = run.i /\ run'.a = run.a
          /\ run'.pc \notin {"idle", "stopped"}
      BY <1>0, <3>1, <3>2 DEF RunType, Held, Unheld, Stages
    <3>. QED
      BY <1>4, <3>3, RunKept
  <2>2. ASSUME RestartStops PROVE RunInv'
    <3>1. PICK l \in Launches : run' = [run EXCEPT !.pc = "stopped", !.old = l]
      BY <2>2 DEF RestartStops, ActiveOf, Of
    <3>2. /\ run' \in RunType /\ run'.op = run.op /\ run'.i = run.i /\ run'.a = run.a
          /\ run'.pc = "stopped" /\ run'.old \in Launches
      BY <1>0, <3>1 DEF RunType, Held, Unheld
    <3>. QED
      BY <1>4, <3>2, RunKept
  <2>3. ASSUME RestartProjects PROVE RunInv'
    <3>1. run' = [run EXCEPT !.pc = "start", !.old = None]
      BY <2>3 DEF RestartProjects
    <3>2. /\ run' \in RunType /\ run'.op = run.op /\ run'.i = run.i /\ run'.a = run.a
          /\ run'.pc = "start"
      BY <1>0, <3>1 DEF RunType, Held, Unheld
    <3>. QED
      BY <1>4, <3>2, RunKept
  <2>4. RunInv'
    BY <1>4, <2>1, <2>2, <2>3 DEF Turns
  <2>. QED
    BY <1>0, <1>4, <2>4
<1>5. NoRun \in RunType /\ NoRun.pc = "idle"
  BY ConstAssumption DEF NoRun, RunType, Unheld, Stages
<1>6. ASSUME run' = NoRun PROVE RunInv'
  BY <1>5, <1>6 DEF RunInv, RunType
<1>7. CASE run.pc # "idle" /\ Leaves
  <2>1. run' = NoRun /\ cursor' \in {cursor + 1, 1}
    BY <1>7 DEF Leaves, Finished, Escaped
  <2>2. cursor \in 1..Len(Order)
    BY <1>0, <1>7 DEF RunInv
  <2>. QED
    BY <1>0, <1>6, <2>1, <2>2
<1>8. CASE Rescan \/ Crash
  <2>1. run' \in {run, NoRun} /\ cursor' = 1
    BY <1>8 DEF Rescan, Crash
  <2>2. CASE run' = run
    <3>1. run.pc # "idle" => 1 \in 1..Len(Order)
      BY <1>0 DEF RunInv
    <3>. QED
      BY <1>0, <2>1, <2>2, <3>1 DEF RunInv, RunType
  <2>. QED
    BY <1>0, <1>6, <2>1, <2>2
<1>9. ASSUME NEW o \in Ops, NEW i \in Targets[o], Take(o, i), cursor' \in 1..Len(Order) PROVE RunInv'
  <2>1. i \in Instances /\ progress[o][i].attempt \in 0..MaxAttempts
    BY <1>0, ConstAssumption DEF ProgressType, Entries
  <2>. DEFINE n == progress[o][i].attempt
              a == IF n = 0 THEN 1 ELSE n
  <2>2. run' = [NoRun EXCEPT !.pc = "prepare", !.op = o, !.i = i, !.a = a]
    BY <1>9 DEF Take
  <2>4. a \in 1..MaxAttempts
    <3>1. MaxAttempts \in Nat /\ MaxAttempts >= 1
      BY ConstAssumption
    <3>2. n \in Nat /\ n <= MaxAttempts
      BY <2>1, <3>1
    <3>. HIDE DEF n
    <3>. QED
      BY <3>1, <3>2
  <2>. HIDE DEF a
  <2>3. /\ run' \in RunType /\ run'.op = o /\ run'.i = i /\ run'.a = a /\ run'.pc = "prepare"
    <3>1. a \in 0..MaxAttempts
      BY <2>4, ConstAssumption
    <3>2. run' \in RunType
      BY <1>5, <1>9, <2>1, <2>2, <3>1 DEF RunType, Held, Unheld
    <3>. QED
      BY <1>5, <2>2, <3>2 DEF RunType
  <2>. QED
    BY <1>9, <2>3, <2>4 DEF RunInv
<1>10. CASE Claim
  <2>1. PICK n \in Resumable :
          /\ cursor' = n
          /\ IF Batch(Order[n]) THEN run' = [NoRun EXCEPT !.pc = "batch", !.op = Order[n]]
             ELSE \E i \in Targets[Order[n]] : Take(Order[n], i)
    BY <1>10 DEF Claim
  <2>2. n \in 1..Len(Order) /\ Order[n] \in Ops
    BY <1>0, <2>1, ConstAssumption DEF Resumable
  <2>3. CASE Batch(Order[n])
    <3>1. run' = [NoRun EXCEPT !.pc = "batch", !.op = Order[n]]
      BY <2>1, <2>3
    <3>2. run' \in RunType /\ run'.op = Order[n] /\ run'.pc = "batch"
      BY <1>5, <2>2, <3>1 DEF RunType, Held, Unheld
    <3>. QED
      BY <2>1, <2>2, <3>2 DEF RunInv
  <2>4. CASE ~Batch(Order[n])
    <3>1. PICK i \in Targets[Order[n]] : Take(Order[n], i)
      BY <2>1, <2>4
    <3>. QED
      BY <1>9, <2>1, <2>2, <3>1
  <2>. QED
    BY <2>3, <2>4
<1>11. CASE BatchInstance
  <2>1. PICK i \in Targets[run.op] : Escaped \/ (Take(run.op, i) /\ cursor' = cursor)
    BY <1>11 DEF BatchInstance
  <2>2. run.pc = "batch" /\ run.op \in Ops /\ cursor \in 1..Len(Order)
    BY <1>0, <1>11 DEF BatchInstance, RunInv
  <2>3. CASE Escaped
    BY <1>0, <1>6, <2>3 DEF Escaped
  <2>4. CASE Take(run.op, i) /\ cursor' = cursor
    BY <1>0, <1>9, <2>2, <2>4
  <2>. QED
    BY <2>1, <2>3, <2>4
<1>. QED
  BY <1>1, <1>2, <1>3, <1>4, <1>7, <1>8, <1>10, <1>11, <1>0, RunWriters DEF RunInv

\* The intents are written when an operation is accepted, retried, superseded, claimed or
\* ended, its progress by the runner and by a retry.
RunnerWrites == Prepare \/ Persisted \/ AnnounceRequest \/ AcceptJob
IntentMoves == Supersede \/ Claim \/ BatchDone \/ CommitOperation
LEMMA IntentWriters ==
  Next => \/ UNCHANGED intents
          \/ run.pc \notin {"idle", "batch"} /\ Fails
          \/ RunnerWrites \/ IntentMoves
          \/ \E o \in Ops : Accept(o) \/ Retry(o)
<1>1. ASSUME \/ StartRefused \/ StartIneligible \/ StartUnprepared \/ MoveToFailed \/ RecoverFails
             \/ PostFails \/ PrepareFails \/ RevisionConflict
      PROVE  run.pc \notin {"idle", "batch"} /\ Fails
  <2>1. run.pc \notin {"idle", "batch"}
    BY <1>1 DEF StartRefused, StartIneligible, StartUnprepared, MoveToFailed, RecoverFails, PostFails,
                PrepareFails, RevisionConflict, Transitions
  <2>2. Fails
    BY <1>1 DEF Fails, StartRefused, StartIneligible, StartUnprepared, MoveToFailed, RecoverFails, PostFails,
                PrepareFails, RevisionConflict
  <2>. QED
    BY <2>1, <2>2
<1>2. LaunchExists => UNCHANGED intents \/ (run.pc \notin {"idle", "batch"} /\ Fails)
  BY DEF LaunchExists, Fails
<1>3. ASSUME \/ WriteRecord \/ MoveToStarting \/ Spawn \/ RecordPid \/ ProjectStarting \/ ProbeReady
             \/ ProjectRunning \/ StartFails \/ ProjectFailed \/ RecoverJob \/ PostJob \/ JobAccepted
             \/ Rescan \/ BatchInstance \/ RecordFailure \/ Reuse \/ BeginStart \/ RestartStops
             \/ RestartProjects \/ MoveToRunning \/ FailureConflict
             \/ Monitor \/ Cancel \/ Restarting \/ Crash
             \/ \E i \in Instances : CancelBegins(i) \/ Observe(i)
             \/ \E l \in Launches : AgentStep(l) \/ AgentDies(l)
      PROVE  UNCHANGED intents
  BY <1>3 DEF intents, WriteRecord, MoveToStarting, Spawn, RecordPid, ProjectStarting, ProbeReady,
              ProjectRunning, StartFails, ProjectFailed, RecoverJob, PostJob, JobAccepted,
              Rescan, BatchInstance, RecordFailure, Reuse, BeginStart, RestartStops,
              RestartProjects, MoveToRunning, FailureConflict, Crash,
              Monitor, Adopt, RestoreProjection, Promote, HandleExit, SuperviseProjects,
              SuperviseMoves, Cancel, CancelProjects, CancelMoves, Restarting, StartReconcile,
              FinishReconcile, CancelBegins, Observe, AgentStep, AgentDies
<1>. QED
  BY <1>1, <1>2, <1>3 DEF Next, Run, RunnerWrites, IntentMoves

\* A retry adds an attempt to what failed, within the limit.
LEMMA RetryTyped ==
  ASSUME progress \in ProgressType, ProgressInv, NEW o \in Ops, Retry(o)
  PROVE  progress' \in ProgressType /\ ProgressInv'
<1>. DEFINE new == [i \in Instances |-> Retried(progress[o][i])]
<1>1. RetryAllowed(o) /\ progress' = [progress EXCEPT ![o] = new]
  BY DEF Retry
<1>2. ASSUME NEW i \in Instances
      PROVE  /\ Retried(progress[o][i]) \in Entries
             /\ Retried(progress[o][i]).state # "PENDING" => i \in Targets[o]
  <2>. DEFINE x == progress[o][i]
  <2>1. /\ x \in Entries /\ x.attempt \in 0..MaxAttempts
        /\ x.state # "PENDING" => i \in Targets[o]
    BY DEF ProgressType, Entries, ProgressInv
  <2>2. CASE x.state = "RETRYABLE_FAILED"
    <3>1. x.attempt < MaxAttempts
      BY <1>1, <2>1, <2>2 DEF RetryAllowed
    <3>2. Retried(x) = [x EXCEPT !.state = "PENDING", !.attempt = x.attempt + 1]
      BY <2>2 DEF Retried
    <3>3. MaxAttempts \in Nat
      BY ConstAssumption
    <3>4. x.attempt + 1 \in 0..MaxAttempts
      BY <2>1, <3>1, <3>3
    <3>. HIDE DEF x
    <3>5. Retried(x) \in Entries /\ Retried(x).state = "PENDING"
      BY <2>1, <3>2, <3>4 DEF Entries
    <3>. QED
      BY <3>5 DEF x
  <2>3. CASE x.state # "RETRYABLE_FAILED"
    BY <2>1, <2>3 DEF Retried
  <2>. QED
    BY <2>2, <2>3
<1>3. new \in [Instances -> Entries] /\ \A i \in Instances : new[i].state # "PENDING" => i \in Targets[o]
  BY <1>2
<1>. HIDE DEF new
<1>4. progress' \in ProgressType
  BY <1>1, <1>3 DEF ProgressType
<1>5. \A p \in Ops, j \in Instances : progress'[p][j] = IF p = o THEN new[j] ELSE progress[p][j]
  BY <1>1 DEF ProgressType
<1>. QED
  BY <1>3, <1>4, <1>5 DEF ProgressInv

LEMMA IntentsTyped ==
  ASSUME TypeInv, Next
  PROVE  intent' \in IntentType /\ progress' \in ProgressType /\ ProgressInv'
<1>0. intent \in IntentType /\ progress \in ProgressType /\ ProgressInv
  BY DEF TypeInv, TypeOK, IntentType, ProgressType, Entries
<1>1. CASE UNCHANGED intents
  BY <1>0, <1>1 DEF intents, ProgressInv
<1>2. CASE run.pc \notin {"idle", "batch"} /\ Fails
  <2>1. PICK s \in {"RETRYABLE_FAILED", "ABORTED"} :
          /\ intent' = [intent EXCEPT ![run.op] = s]
          /\ progress' = [progress EXCEPT ![run.op][run.i] = [@ EXCEPT !.state = s, !.attempt = run.a]]
    BY <1>2 DEF Fails, FailedAs, FailedState
  <2>2. intent' \in IntentType
    BY <1>0, <1>2, <2>1 DEF IntentType
  <2>3. "NONE" \in Stages
    BY DEF Stages
  <2>. QED
    BY <1>2, <2>1, <2>2, <2>3, RunnerEntry
<1>3. CASE RunnerWrites
  <2>1. run.pc \notin {"idle", "batch"}
    BY <1>3 DEF RunnerWrites, Prepare, Persisted, AnnounceRequest, AcceptJob
  <2>2. \/ \E s \in {"RUNNING", "RETRYABLE_FAILED", "ABORTED"}, g \in Stages :
             \/ progress' = [progress EXCEPT ![run.op][run.i] = [@ EXCEPT !.state = s, !.attempt = run.a]]
             \/ progress' = [progress EXCEPT ![run.op][run.i] = [@ EXCEPT !.state = s, !.stage = g]]
             \/ progress' = [progress EXCEPT ![run.op][run.i].stage = g]
        \/ progress' = [progress EXCEPT ![run.op][run.i].attempt = run.a]
    BY <1>3 DEF RunnerWrites, Prepare, FailedAs, FailedState, Persisted, AnnounceRequest, Stage, AcceptJob, Stages
  <2>3. "NONE" \in Stages
    BY DEF Stages
  <2>4. progress' \in ProgressType /\ ProgressInv'
    BY <2>1, <2>2, <2>3, RunnerEntry
  <2>5. \/ UNCHANGED intent
        \/ \E s \in {"RETRYABLE_FAILED", "ABORTED"} : intent' = [intent EXCEPT ![run.op] = s]
    BY <1>3 DEF RunnerWrites, Prepare, FailedAs, FailedState, Persisted, AnnounceRequest, AcceptJob
  <2>6. intent' \in IntentType
    BY <1>0, <2>5 DEF IntentType
  <2>. QED
    BY <2>4, <2>6
<1>4. CASE IntentMoves
  <2>1. UNCHANGED progress
    BY <1>4 DEF IntentMoves, Supersede, Claim, BatchDone, CommitOperation
  <2>2. \/ \E o : \E s \in {"RUNNING", "COMMITTED"} : intent' = [intent EXCEPT ![o] = s]
        \/ Supersede
    BY <1>4 DEF IntentMoves, Claim, BatchDone, CommitOperation
  <2>3. intent' \in IntentType
    BY <1>0, <2>2 DEF IntentType, Supersede
  <2>. QED
    BY <1>0, <2>1, <2>3 DEF ProgressInv
<1>5. ASSUME NEW o \in Ops, Accept(o) \/ Retry(o)
      PROVE  intent' \in IntentType /\ progress' \in ProgressType /\ ProgressInv'
  <2>1. intent' \in IntentType
    BY <1>0, <1>5 DEF IntentType, Accept, Retry
  <2>2. CASE Accept(o)
    BY <1>0, <2>1, <2>2 DEF Accept, ProgressInv
  <2>3. CASE Retry(o)
    BY <1>0, <2>1, <2>3, RetryTyped
  <2>. QED
    BY <1>5, <2>2, <2>3
<1>. QED
  BY <1>1, <1>2, <1>3, <1>4, <1>5, IntentWriters

\* The monitor and the cancellation.
LEMMA MonTyped ==
  ASSUME TypeInv, Next
  PROVE  MonInv'
<1>0. MonInv
  BY DEF TypeInv
<1>1. CASE UNCHANGED mon
  BY <1>0, <1>1 DEF MonInv
<1>2. ASSUME NEW l \in Launches, Promote(l) \/ HandleExit(l) PROVE MonInv'
  <2>1. \E p \in {"promoted", "exited"} : mon' = [pc |-> p, launch |-> l]
    BY <1>2 DEF Promote, HandleExit, Supervise
  <2>. QED
    BY <2>1 DEF MonInv
<1>3. CASE SuperviseProjects
  <2>1. mon.pc # "idle" /\ \E p \in {"promoted2", "exited2"} : mon' = [mon EXCEPT !.pc = p]
    BY <1>3 DEF SuperviseProjects
  <2>. QED
    BY <1>0, <2>1 DEF MonInv
<1>4. CASE SuperviseMoves \/ Crash
  <2>1. mon' = NoMon
    BY <1>4 DEF SuperviseMoves, Crash
  <2>. QED
    BY <2>1 DEF MonInv, NoMon
<1>. QED
  BY <1>1, <1>2, <1>3, <1>4
  DEF Next, Run, Monitor, Cancel, Restarting, Accept, Retry, Supersede, Claim, Rescan, BatchInstance,
      BatchDone, RecordFailure, Prepare, Reuse, AcceptJob, MoveToStarting, MoveToRunning, MoveToFailed,
      LaunchExists, StartRefused, BeginStart, RestartStops, RestartProjects, ProjectStarting,
      ProjectRunning, StartIneligible, WriteRecord, Spawn, RecordPid, ProbeReady, StartFails,
      ProjectFailed, Persisted, RecoverJob, RecoverFails, AnnounceRequest, PostJob, PostFails,
      JobAccepted, CommitOperation, PrepareFails, StartUnprepared, RevisionConflict, FailureConflict,
      Adopt, RestoreProjection, CancelBegins, CancelProjects, CancelMoves, Observe, AgentStep,
      AgentDies, StartReconcile, FinishReconcile

LEMMA CancelTyped ==
  ASSUME TypeInv, Next
  PROVE  CancelInv'
<1>0. CancelInv
  BY DEF TypeInv
<1>1. CASE UNCHANGED cancel
  BY <1>0, <1>1 DEF CancelInv
<1>2. ASSUME NEW i \in Instances, CancelBegins(i) PROVE CancelInv'
  <2>1. \/ cancel' = [pc |-> "move", i |-> i, launch |-> None]
        \/ \E l \in Launches : cancel' = [pc |-> "closed", i |-> i, launch |-> l]
    BY <1>2 DEF CancelBegins, Cancels, ActiveOf, Of
  <2>. QED
    BY <2>1 DEF CancelInv
<1>3. CASE CancelProjects
  <2>1. cancel.pc # "idle" /\ cancel' = [cancel EXCEPT !.pc = "move"]
    BY <1>3 DEF CancelProjects
  <2>. QED
    BY <1>0, <2>1 DEF CancelInv
<1>4. CASE CancelMoves \/ Crash
  <2>1. cancel' = NoCancel
    BY <1>4 DEF CancelMoves, Crash
  <2>. QED
    BY <2>1 DEF CancelInv, NoCancel
<1>. QED
  BY <1>1, <1>2, <1>3, <1>4
  DEF Next, Run, Monitor, Cancel, Restarting, Accept, Retry, Supersede, Claim, Rescan, BatchInstance,
      BatchDone, RecordFailure, Prepare, Reuse, AcceptJob, MoveToStarting, MoveToRunning, MoveToFailed,
      LaunchExists, StartRefused, BeginStart, RestartStops, RestartProjects, ProjectStarting,
      ProjectRunning, StartIneligible, WriteRecord, Spawn, RecordPid, ProbeReady, StartFails,
      ProjectFailed, Persisted, RecoverJob, RecoverFails, AnnounceRequest, PostJob, PostFails,
      JobAccepted, CommitOperation, PrepareFails, StartUnprepared, RevisionConflict, FailureConflict,
      Adopt, RestoreProjection, Promote, HandleExit, SuperviseProjects, SuperviseMoves, Observe,
      AgentStep, AgentDies, StartReconcile, FinishReconcile

\* The lock and the mode.
LockType == [Instances -> {None, "runner", "monitor", "cancel"}]
Unlocks == StartIneligible \/ StartUnprepared \/ MoveToRunning \/ MoveToFailed
LEMMA LockWriters ==
  Next => \/ UNCHANGED <<lock, mode>>
          \/ BeginStart \/ Unlocks \/ SuperviseMoves \/ CancelMoves \/ Crash \/ Restarting
          \/ \E l \in Launches : Promote(l) \/ HandleExit(l)
          \/ \E i \in Instances : CancelBegins(i)
  BY DEF Unlocks, Next, Run, Monitor, Cancel, Accept, Retry, Supersede, Claim, Rescan, BatchInstance,
      BatchDone, RecordFailure, Prepare, Reuse, AcceptJob, MoveToStarting,
      LaunchExists, StartRefused, RestartStops, RestartProjects, ProjectStarting,
      ProjectRunning, WriteRecord, Spawn, RecordPid, ProbeReady, StartFails,
      ProjectFailed, Persisted, RecoverJob, RecoverFails, AnnounceRequest, PostJob, PostFails,
      JobAccepted, CommitOperation, PrepareFails, RevisionConflict, FailureConflict,
      Adopt, RestoreProjection, SuperviseProjects, CancelProjects, Observe,
      AgentStep, AgentDies, lifecycle

LEMMA LockTyped ==
  ASSUME TypeInv, Next
  PROVE  lock' \in LockType /\ mode' \in {"up", "down", "reconciling"}
<1>0. lock \in LockType /\ mode \in {"up", "down", "reconciling"}
  BY DEF TypeInv, TypeOK, LockType
<1>1. CASE UNCHANGED <<lock, mode>>
  BY <1>0, <1>1
<1>2. CASE BeginStart \/ Unlocks
  <2>1. UNCHANGED mode /\ \E h \in {None, "runner"} : lock' = [lock EXCEPT ![run.i] = h]
    BY <1>2 DEF BeginStart, Unlocks, StartIneligible, StartUnprepared, MoveToRunning, MoveToFailed, Unlock, lifecycle
  <2>. QED
    BY <1>0, <2>1 DEF LockType
<1>3. CASE SuperviseMoves \/ CancelMoves
  <2>1. UNCHANGED mode /\ \E i : lock' = [lock EXCEPT ![i] = None]
    BY <1>3 DEF SuperviseMoves, CancelMoves, lifecycle
  <2>. QED
    BY <1>0, <2>1 DEF LockType
<1>4. CASE Crash \/ Restarting
  BY <1>0, <1>4 DEF LockType, Crash, Restarting, StartReconcile, FinishReconcile
<1>5. ASSUME NEW l \in Launches, Promote(l) \/ HandleExit(l)
      PROVE  lock' \in LockType /\ mode' \in {"up", "down", "reconciling"}
  BY <1>0, <1>5 DEF LockType, Promote, HandleExit, Supervise, lifecycle
<1>6. ASSUME NEW i \in Instances, CancelBegins(i)
      PROVE  lock' \in LockType /\ mode' \in {"up", "down", "reconciling"}
  BY <1>0, <1>6 DEF LockType, CancelBegins, lifecycle
<1>. QED
  BY <1>1, <1>2, <1>3, <1>4, <1>5, <1>6, LockWriters

LEMMA TypeStep ==
  ASSUME TypeInv, LaunchInv, [Next]_vars
  PROVE  TypeInv'
<1>1. CASE Next
  BY <1>1, StatusTyped, ProcTyped, RecTyped, ProjectsTyped, RunTyped, IntentsTyped, MonTyped, CancelTyped,
     LockTyped DEF TypeInv, TypeOK, ProcType, RecType, OsType, IntentType, ProgressType, Entries, LockType
<1>2. CASE UNCHANGED vars
  BY <1>2 DEF vars, lifecycle, intents, agents, runner, TypeInv, TypeOK, RunInv, MonInv, CancelInv, ProgressInv
<1>. QED
  BY <1>1, <1>2

-----------------------------------------------------------------------------
(* Launches are owned: lemmas about what a step does to the records.       *)

\* No instance becomes cancelled in a step.
NoCancellation == \A i \in Instances : status'[i] = "CANCELLED" => status[i] = "CANCELLED"

\* What is said of the records alone.
RecordInv == OneActiveLaunch /\ RecordedProcessesAreOwned /\ PidInv

\* A step that leaves the records and the processes alone, or advances a process.
LEMMA RecordsKept ==
  ASSUME RecordInv, UNCHANGED rec, \A l \in Launches : Live(l)' => Live(l) \/ ~rec[l].pid
  PROVE  RecordInv' /\ \A i : ActiveOf(i)' = ActiveOf(i)
  BY DEF RecordInv, OneActiveLaunch, RecordedProcessesAreOwned, PidInv, ActiveOf, Of, Active

\* A record that is closed with its process.
LEMMA Closes ==
  ASSUME TypeInv, RecordInv, NEW l \in Launches, NEW s \in {"EXITED", "FAILED_TO_START"}, CloseRecord(l, s)
  PROVE  /\ RecordInv'
         /\ \A i : ActiveOf(i)' = ActiveOf(i) \ {l}
         /\ \A m \in Launches : m # l => rec'[m] = rec[m]
<1>1. rec \in RecType /\ os \in OsType
  BY DEF TypeInv, TypeOK, RecType, OsType
<1>2. /\ rec'[l] = [rec[l] EXCEPT !.state = s]
      /\ \A m \in Launches : m # l => rec'[m] = rec[m]
      /\ \A m \in Launches : m # l => os'[m] = os[m]
      /\ rec[l].pid => os'[l] \notin {"spawned", "alive", "ready"}
  BY <1>1 DEF CloseRecord, Killed, RecType, OsType, Live
<1>3. rec'[l].state = s /\ rec'[l].pid = rec[l].pid
  BY <1>1, <1>2 DEF RecType
<1>4. ~Active(l)' /\ \A m \in Launches : m # l => (Active(m)' <=> Active(m))
  BY <1>2, <1>3 DEF Active
<1>5. \A m \in Launches : rec'[m].pid /\ Live(m)' => m # l /\ rec[m].pid /\ Live(m)
  BY <1>2, <1>3 DEF Live
<1>6. RecordInv'
  <2>1. OneActiveLaunch'
    BY <1>4 DEF RecordInv, OneActiveLaunch
  <2>2. RecordedProcessesAreOwned'
    BY <1>4, <1>5 DEF RecordInv, RecordedProcessesAreOwned
  <2>3. PidInv'
    BY <1>2, <1>3 DEF RecordInv, PidInv
  <2>. QED
    BY <2>1, <2>2, <2>3 DEF RecordInv
<1>. QED
  BY <1>2, <1>4, <1>6 DEF ActiveOf, Of

\* A record that is active and gets a process, or keeps it.
LEMMA Advances ==
  ASSUME TypeInv, RecordInv, NEW l \in Launches, Active(l), NEW s \in {"STARTING", "RUNNING"},
         NEW r, r.state = s, r.pid, rec' = [rec EXCEPT ![l] = r], UNCHANGED os
  PROVE  /\ RecordInv'
         /\ \A i : ActiveOf(i)' = ActiveOf(i)
         /\ rec'[l].state = s
         /\ \A m \in Launches : m # l => rec'[m] = rec[m]
<1>1. rec \in RecType
  BY DEF TypeInv, TypeOK, RecType
<1>2. /\ rec'[l] = r
      /\ \A m \in Launches : m # l => rec'[m] = rec[m]
  BY <1>1 DEF RecType
<1>3. rec'[l].state = s /\ rec'[l].pid
  BY <1>2
<1>4. \A m \in Launches : Active(m)' <=> Active(m)
  BY <1>2, <1>3 DEF Active
<1>5. RecordInv'
  <2>1. OneActiveLaunch'
    BY <1>4 DEF RecordInv, OneActiveLaunch
  <2>2. RecordedProcessesAreOwned'
    <3>1. \A m \in Launches : m # l => (rec'[m].pid /\ Live(m)' => Active(m)')
      BY <1>2, <1>4 DEF RecordInv, RecordedProcessesAreOwned, Live
    <3>2. Active(l)'
      BY <1>4
    <3>. QED
      BY <3>1, <3>2 DEF RecordedProcessesAreOwned
  <2>3. PidInv'
    BY <1>2, <1>3 DEF RecordInv, PidInv
  <2>. QED
    BY <2>1, <2>2, <2>3 DEF RecordInv
<1>. QED
  BY <1>2, <1>3, <1>4, <1>5 DEF ActiveOf, Of

\* A started record that becomes running keeps its process.
LEMMA Promotes ==
  ASSUME TypeInv, RecordInv, NEW l \in Launches, rec[l].state = "STARTING",
         rec' = [rec EXCEPT ![l].state = "RUNNING"]
  PROVE  /\ Active(l)
         /\ \E r : r.state = "RUNNING" /\ r.pid /\ rec' = [rec EXCEPT ![l] = r]
<1>1. rec[l] \in [state : RecStates, pid : BOOLEAN] /\ rec[l].pid
  BY DEF TypeInv, TypeOK, RecStates, RecordInv, PidInv
<1>2. [rec[l] EXCEPT !.state = "RUNNING"].state = "RUNNING" /\ [rec[l] EXCEPT !.state = "RUNNING"].pid
  BY <1>1
<1>3. rec' = [rec EXCEPT ![l] = [rec[l] EXCEPT !.state = "RUNNING"]]
  OBVIOUS
<1>. QED
  BY <1>2, <1>3 DEF Active

-----------------------------------------------------------------------------
(* Launches are owned: steps that start no launch and end none.            *)

\* What the holder of a lock knows survives the steps of the others.
LEMMA HolderKept ==
  ASSUME TypeInv, HolderInv, run' = run \/ run'.pc \notin Held, cancel' = cancel \/ cancel'.pc = "idle",
         NoCancellation,
         \A l \in Launches : run.pc \in Held /\ l[2] = run.i => rec'[l] = rec[l],
         \A i \in Instances : ActiveOf(i)' \subseteq ActiveOf(i)
  PROVE  HolderInv'
<1>1. cancel'.pc # "idle" => ActiveOf(cancel.i)' = {} /\ cancel'.i = cancel.i
  BY DEF HolderInv, RunnerKnows, TypeInv, CancelInv
<1>2. CASE run.pc \in Held /\ run' = run
  <2>1. Launch \in Launches /\ Launch[2] = run.i /\ run.i \in Instances
    BY <1>2, RunnerFacts DEF Held
  <2>2. rec'[Launch] = rec[Launch] /\ Launch' = Launch
    BY <1>2, <2>1 DEF Launch
  <2>. HIDE DEF Launch
  <2>. QED
    BY <1>1, <1>2, <2>1, <2>2 DEF HolderInv, RunnerKnows, NoCancellation, ActiveOf, Of, Active
<1>3. CASE run'.pc \notin Held
  BY <1>1, <1>3 DEF HolderInv, RunnerKnows, Held, ActiveOf, Of, Active
<1>. QED
  BY <1>2, <1>3

LEMMA CancelledKept ==
  ASSUME CancelledInv, NoCancellation, \A i \in Instances : ActiveOf(i)' \subseteq ActiveOf(i)
  PROVE  CancelledInv'
  BY DEF CancelledInv, NoCancellation

\* A step of the runner outside its critical section, or out of it.
Frames ==
  /\ UNCHANGED <<rec, os, mon, cancel, mode>>
  /\ \/ UNCHANGED lock
     \/ run.pc \in Held /\ run'.pc \notin Held /\ lock' = [lock EXCEPT ![run.i] = None]
  /\ run' = run \/ (mode = "up" /\ run'.pc \notin Held)
  /\ NoCancellation

LEMMA FrameLocks ==
  ASSUME TypeInv, LockInv, Frames
  PROVE  LockInv'
<1>0. lock \in LockType
  BY DEF TypeInv, TypeOK, LockType
<1>1. CASE UNCHANGED lock
  BY <1>1 DEF Frames, LockInv
<1>2. CASE run.pc \in Held /\ run'.pc \notin Held /\ lock' = [lock EXCEPT ![run.i] = None]
  <2>1. run.i \in Instances /\ lock[run.i] = "runner"
    BY <1>2, RunnerFacts DEF Held, LockInv
  <2>2. mon.pc # "idle" => mon.launch[2] \in Instances /\ mon.launch[2] # run.i
    BY <2>1, LaunchParts DEF TypeInv, MonInv, LockInv
  <2>3. cancel.pc # "idle" => cancel.i \in Instances /\ cancel.i # run.i
    BY <2>1 DEF TypeInv, CancelInv, LockInv
  <2>4. \A i \in Instances : i # run.i => lock'[i] = lock[i]
    BY <1>0, <1>2 DEF LockType
  <2>. QED
    BY <1>2, <2>2, <2>3, <2>4 DEF Frames, LockInv
<1>. QED
  BY <1>1, <1>2 DEF Frames

LEMMA FrameKeeps ==
  ASSUME TypeInv, LaunchInv, Frames
  PROVE  LaunchInv'
<1>1. RecordInv' /\ \A i : ActiveOf(i)' = ActiveOf(i)
  BY RecordsKept DEF LaunchInv, RecordInv, Frames, Live
<1>2. LockInv'
  BY FrameLocks DEF LaunchInv
<1>3. CancelledInv'
  BY <1>1, CancelledKept DEF LaunchInv, Frames
<1>4. HolderInv'
  BY <1>1, HolderKept DEF LaunchInv, Frames
<1>. QED
  BY <1>1, <1>2, <1>3, <1>4 DEF LaunchInv, RecordInv

\* The steps of which this is so.
LEMMA RunnerLeaves ==
  ASSUME TypeInv
  PROVE  /\ Fails => run'.pc \notin Held
         /\ Leaves => run'.pc \notin Held
         /\ \A o, i : Take(o, i) => run'.pc \notin Held
         /\ \A l \in Unheld : GoOn(l) => run'.pc \notin Held
<1>1. run \in RunType
  BY DEF TypeInv, RunInv
<1>2. Fails => run'.pc = "failed"
  BY <1>1 DEF Fails, FailedAs, RunType
<1>3. Leaves => run'.pc = "idle"
  BY DEF Leaves, Finished, Escaped, NoRun
<1>4. \A o, i : Take(o, i) => run'.pc = "prepare"
  BY DEF Take, NoRun
<1>5. \A l : GoOn(l) => run'.pc = l
  BY <1>1 DEF GoOn, RunType
<1>. QED
  BY <1>2, <1>3, <1>4, <1>5 DEF Held, Unheld

LEMMA TransitionCancelsNothing ==
  ASSUME TypeInv, NEW i \in Instances, NEW s, s # "CANCELLED", NEW key, Move(i, s) \/ Transition(key, i, s)
  PROVE  NoCancellation
  BY DEF TypeInv, TypeOK, Move, Transition, NoCancellation

LEMMA NothingCancelled ==
  ASSUME TypeInv, UNCHANGED status
  PROVE  NoCancellation
  BY DEF NoCancellation

\* The steps of which this is so: those that keep the runner where it is,
QuietSteps ==
  \/ \E o \in Ops : Accept(o) \/ Retry(o)
  \/ Supersede \/ Rescan
  \/ \E l \in Launches : RestoreProjection(l)
  \/ \E i \in Instances : Observe(i)
LEMMA QuietFrames ==
  ASSUME TypeInv, QuietSteps
  PROVE  Frames
<1>1. UNCHANGED <<run, rec, os, mon, cancel, mode, lock>>
  BY DEF QuietSteps, Accept, Retry, Supersede, Rescan, RestoreProjection, Observe, agents, lifecycle, runner
<1>2. UNCHANGED status \/ \E i \in Instances : Observe(i)
  BY DEF QuietSteps, Accept, Retry, Supersede, Rescan, RestoreProjection
<1>3. NoCancellation
  <2>1. ASSUME NEW i \in Instances, Observe(i) PROVE NoCancellation
    <3>1. \E s \in {"RUNNING", "WAITING_APPROVAL", "FAILED"} : Move(i, s)
      BY <2>1 DEF Observe
    <3>. QED
      BY <3>1, TransitionCancelsNothing
  <2>. QED
    BY <1>2, <2>1, NothingCancelled
<1>. QED
  BY <1>1, <1>3 DEF Frames

\* those outside its critical section,
OutsideSteps ==
  \/ StartRefused \/ PrepareFails \/ RevisionConflict \/ RecoverFails \/ PostFails \/ LaunchExists
  \/ BatchDone \/ CommitOperation \/ FailureConflict \/ RecordFailure \/ Claim \/ BatchInstance
  \/ Persisted \/ RecoverJob \/ AnnounceRequest \/ PostJob \/ JobAccepted \/ AcceptJob
  \/ Prepare \/ Reuse
LEMMA OutsideFrames ==
  ASSUME TypeInv, OutsideSteps
  PROVE  Frames
<1>1. UNCHANGED <<rec, os, mon, cancel, mode, lock>> /\ mode = "up"
  BY DEF OutsideSteps, StartRefused, PrepareFails, RevisionConflict, RecoverFails, PostFails, LaunchExists,
         BatchDone, CommitOperation, FailureConflict, RecordFailure, Claim, BatchInstance,
         Persisted, RecoverJob, AnnounceRequest, PostJob, JobAccepted, AcceptJob, Prepare, Reuse,
         agents, lifecycle
<1>2. run'.pc \notin Held
  <2>1. CASE StartRefused \/ PrepareFails \/ RevisionConflict \/ RecoverFails \/ PostFails
    BY <2>1, RunnerLeaves DEF Fails, StartRefused, PrepareFails, RevisionConflict, RecoverFails, PostFails
  <2>2. CASE LaunchExists
    BY <2>2, RunnerLeaves DEF Fails, LaunchExists, Unheld
  <2>3. CASE BatchDone \/ CommitOperation \/ FailureConflict \/ RecordFailure
    BY <2>3, RunnerLeaves DEF Leaves, BatchDone, CommitOperation, FailureConflict, RecordFailure
  <2>4. CASE Claim \/ BatchInstance
    <3>1. (\E o : run' = [NoRun EXCEPT !.pc = "batch", !.op = o]) \/ (\E o, i : Take(o, i)) \/ Leaves
      BY <2>4 DEF Claim, BatchInstance, Leaves
    <3>2. ASSUME NEW o, run' = [NoRun EXCEPT !.pc = "batch", !.op = o] PROVE run'.pc = "batch"
      BY <3>2 DEF NoRun
    <3>. QED
      BY <3>1, <3>2, RunnerLeaves DEF Held
  <2>5. CASE Persisted \/ RecoverJob \/ AnnounceRequest \/ PostJob \/ JobAccepted \/ AcceptJob
    BY <2>5, RunnerLeaves DEF Unheld, Persisted, RecoverJob, AnnounceRequest, PostJob, JobAccepted, AcceptJob
  <2>6. CASE Prepare \/ Reuse
    <3>1. run \in RunType
      BY DEF TypeInv, RunInv
    <3>2. Fails \/ run'.pc \in {"decide", "process"}
      BY <2>6, <3>1 DEF Prepare, Reuse, Fails, RunType
    <3>. QED
      BY <3>2, RunnerLeaves DEF Held
  <2>. QED
    BY <2>1, <2>2, <2>3, <2>4, <2>5, <2>6 DEF OutsideSteps
<1>3. NoCancellation
  <2>1. \/ UNCHANGED status
        \/ /\ run.pc \notin {"idle", "batch"}
           /\ \E key : \E s \in {"READY", "STARTING", "RUNNING", "FAILED_TO_START"} : Transition(key, run.i, s)
    BY DEF OutsideSteps, StartRefused, PrepareFails, RevisionConflict, RecoverFails, PostFails, LaunchExists,
         BatchDone, CommitOperation, FailureConflict, RecordFailure, Claim, BatchInstance,
         Persisted, RecoverJob, AnnounceRequest, PostJob, JobAccepted, AcceptJob, Prepare, Reuse
  <2>. QED
    BY <2>1, NothingCancelled, TransitionCancelsNothing, RunnerFacts
<1>. QED
  BY <1>1, <1>2, <1>3 DEF Frames

\* and those that leave it.
LEMMA UnlockFrames ==
  ASSUME TypeInv, Unlocks
  PROVE  Frames
<1>1. UNCHANGED <<rec, os, mon, cancel, mode>> /\ mode = "up" /\ run.pc \in Held /\ Unlock
  BY DEF Unlocks, StartIneligible, StartUnprepared, MoveToRunning, MoveToFailed, agents, lifecycle, Held
<1>2. run'.pc \notin Held
  <2>1. run \in RunType
    BY DEF TypeInv, RunInv
  <2>2. Fails \/ run'.pc = "process"
    BY <2>1 DEF Unlocks, StartIneligible, StartUnprepared, MoveToRunning, MoveToFailed, Fails, RunType
  <2>. QED
    BY <2>2, RunnerLeaves DEF Held
<1>3. NoCancellation
  <2>1. UNCHANGED status \/ \E s \in {"FAILED", "RUNNING", "FAILED_TO_START"} : Move(run.i, s)
    BY DEF Unlocks, StartIneligible, StartUnprepared, MoveToRunning, MoveToFailed
  <2>2. run.i \in Instances
    BY <1>1, RunnerFacts DEF Held
  <2>. QED
    BY <2>1, <2>2, NothingCancelled, TransitionCancelsNothing
<1>. QED
  BY <1>1, <1>2, <1>3 DEF Frames, Unlock

-----------------------------------------------------------------------------
(* Launches are owned: the runner's critical section.                      *)

\* A step within it changes nothing for the other instances and their locks.
LEMMA HeldStep ==
  ASSUME TypeInv, LaunchInv, run.pc \in Held, run'.pc \in Held, run'.i = run.i,
         UNCHANGED <<lock, mon, cancel, mode>>, RecordInv', RunnerKnows', NoCancellation,
         \A i \in Instances : i # run.i => ActiveOf(i)' = ActiveOf(i),
         status'[run.i] = "CANCELLED" => ActiveOf(run.i)' = {}
  PROVE  LaunchInv'
<1>1. LockInv'
  BY DEF LaunchInv, LockInv, Held
<1>2. CancelledInv'
  BY DEF LaunchInv, CancelledInv, NoCancellation
<1>3. cancel.pc # "idle" => cancel.i \in Instances /\ cancel.i # run.i
  BY DEF LaunchInv, LockInv, TypeInv, CancelInv
<1>4. HolderInv'
  BY <1>3 DEF LaunchInv, HolderInv
<1>. QED
  BY <1>1, <1>2, <1>4 DEF LaunchInv, RecordInv

\* The instance of the runner is not cancelled while it starts without a record.
LEMMA Startable ==
  ASSUME LaunchInv, run.pc = "start", run.keep \/ Eligible
  PROVE  status[run.i] # "CANCELLED"
  BY DEF LaunchInv, HolderInv, RunnerKnows, Eligible

LEMMA GoesOn ==
  ASSUME TypeInv, NEW l, GoOn(l)
  PROVE  /\ run'.pc = l /\ run'.op = run.op /\ run'.i = run.i /\ run'.a = run.a /\ run'.keep = run.keep
         /\ Launch' = Launch
<1>1. run \in RunType
  BY DEF TypeInv, RunInv
<1>2. run'.pc = l /\ run'.op = run.op /\ run'.i = run.i /\ run'.a = run.a /\ run'.keep = run.keep
  BY <1>1 DEF GoOn, RunType
<1>. QED
  BY <1>2 DEF Launch

LEMMA BeginStartOwned ==
  ASSUME TypeInv, LaunchInv, BeginStart
  PROVE  LaunchInv'
<1>0. run \in RunType /\ lock \in LockType /\ run.i \in Instances /\ run.pc = "decide" /\ lock[run.i] = None
  BY RunnerFacts DEF BeginStart, TypeInv, RunInv, TypeOK, LockType
<1>1. UNCHANGED <<rec, os, status, mon, cancel, mode>> /\ mode = "up"
  BY DEF BeginStart, agents, lifecycle
<1>2. /\ run'.op = run.op /\ run'.i = run.i /\ run'.a = run.a
      /\ run'.keep = Preserves
      /\ run'.pc = IF Restart(run.op) /\ ActiveOf(run.i) # {} THEN "stop" ELSE "start"
  BY <1>0 DEF BeginStart, RunType
<1>3. Launch' = Launch
  BY <1>2 DEF Launch
<1>4. RecordInv' /\ \A i : ActiveOf(i)' = ActiveOf(i)
  BY <1>1, RecordsKept DEF LaunchInv, RecordInv, Live
<1>5. LockInv'
  <2>1. lock' = [lock EXCEPT ![run.i] = "runner"]
    BY DEF BeginStart
  <2>2. lock'[run.i] = "runner" /\ \A i \in Instances : i # run.i => lock'[i] = lock[i]
    BY <1>0, <2>1 DEF LockType
  <2>3. None \notin {"monitor", "cancel"}
    BY ConstAssumption
  <2>4. mon.pc # "idle" => mon.launch[2] \in Instances /\ mon.launch[2] # run.i
    BY <1>0, <2>3, LaunchParts DEF TypeInv, MonInv, LaunchInv, LockInv
  <2>5. cancel.pc # "idle" => cancel.i \in Instances /\ cancel.i # run.i
    BY <1>0, <2>3 DEF TypeInv, CancelInv, LaunchInv, LockInv
  <2>. QED
    BY <1>1, <1>2, <2>2, <2>4, <2>5 DEF LaunchInv, LockInv
<1>6. CancelledInv'
  BY <1>1, <1>4 DEF LaunchInv, CancelledInv
<1>7. HolderInv'
  <2>1. rec[Launch].state = "NONE" /\ (ActiveOf(run.i) # {} => Restart(run.op))
    BY DEF BeginStart, Occupied
  <2>2. Preserves => status[run.i] # "CANCELLED"
    BY DEF Preserves
  <2>3. RunnerKnows'
    BY <1>1, <1>2, <1>3, <1>4, <2>1, <2>2 DEF RunnerKnows
  <2>. QED
    BY <1>1, <1>4, <2>3 DEF LaunchInv, HolderInv
<1>. QED
  BY <1>4, <1>5, <1>6, <1>7 DEF LaunchInv, RecordInv

LEMMA RestartStopsOwned ==
  ASSUME TypeInv, LaunchInv, RestartStops
  PROVE  LaunchInv'
<1>0. run \in RunType /\ run.i \in Instances /\ run.pc = "stop" /\ Launch \in Launches
  BY RunnerFacts DEF RestartStops, TypeInv, RunInv
<1>1. UNCHANGED <<status, lock, mon, cancel, mode>>
  BY DEF RestartStops, lifecycle
<1>2. PICK l \in ActiveOf(run.i) : CloseRecord(l, "EXITED") /\ run' = [run EXCEPT !.pc = "stopped", !.old = l]
  BY DEF RestartStops
<1>3. l \in Launches /\ l[2] = run.i /\ Active(l)
  BY <1>2 DEF ActiveOf, Of
<1>4. /\ run'.pc = "stopped" /\ run'.op = run.op /\ run'.i = run.i /\ run'.a = run.a /\ run'.keep = run.keep
  BY <1>0, <1>2 DEF RunType
<1>5. Launch' = Launch
  BY <1>4 DEF Launch
<1>6. /\ RecordInv' /\ \A i : ActiveOf(i)' = ActiveOf(i) \ {l}
      /\ \A m \in Launches : m # l => rec'[m] = rec[m]
  BY <1>2, <1>3, Closes DEF LaunchInv, RecordInv
<1>7. ActiveOf(run.i) \subseteq {l}
  BY <1>3 DEF LaunchInv, OneActiveLaunch, ActiveOf, Of
<1>8. ActiveOf(run.i)' = {}
  BY <1>4, <1>6, <1>7
<1>9. rec[Launch].state = "NONE" /\ Launch # l
  BY <1>0, <1>3 DEF LaunchInv, HolderInv, RunnerKnows, Active
<1>10. RunnerKnows'
  <2>1. rec'[Launch].state = "NONE"
    BY <1>0, <1>6, <1>9
  <2>2. run.keep => status[run.i] # "CANCELLED"
    BY <1>0 DEF LaunchInv, HolderInv, RunnerKnows
  <2>. HIDE DEF Launch
  <2>. QED
    BY <1>1, <1>4, <1>5, <1>8, <2>1, <2>2 DEF RunnerKnows
<1>11. \A i \in Instances : i # run.i => ActiveOf(i)' = ActiveOf(i)
  BY <1>3, <1>6 DEF ActiveOf, Of
<1>. QED
  BY <1>0, <1>1, <1>4, <1>6, <1>8, <1>10, <1>11, HeldStep DEF Held, NoCancellation

LEMMA RestartProjectsOwned ==
  ASSUME TypeInv, LaunchInv, RestartProjects
  PROVE  LaunchInv'
<1>0. run \in RunType /\ run.i \in Instances /\ run.pc = "stopped"
  BY RunnerFacts DEF RestartProjects, TypeInv, RunInv
<1>1. UNCHANGED <<rec, os, status, lock, mon, cancel, mode>>
  BY DEF RestartProjects, lifecycle, agents
<1>2. run'.pc = "start" /\ run'.op = run.op /\ run'.i = run.i /\ run'.a = run.a /\ run'.keep = run.keep
  BY <1>0 DEF RestartProjects, RunType
<1>3. Launch' = Launch
  BY <1>2 DEF Launch
<1>4. RecordInv' /\ \A i : ActiveOf(i)' = ActiveOf(i)
  BY <1>1, RecordsKept DEF LaunchInv, RecordInv, Live
<1>5. RunnerKnows'
  BY <1>0, <1>1, <1>2, <1>3, <1>4 DEF LaunchInv, HolderInv, RunnerKnows
<1>6. ActiveOf(run.i)' = {}
  BY <1>0, <1>2, <1>4 DEF LaunchInv, HolderInv, RunnerKnows
<1>. QED
  BY <1>0, <1>1, <1>2, <1>4, <1>5, <1>6, HeldStep DEF Held, NoCancellation

\* The only step that makes a launch active.
LEMMA WriteRecordOwned ==
  ASSUME TypeInv, LaunchInv, WriteRecord
  PROVE  LaunchInv'
<1>a. PICK l \in Launches : l = Launch /\ run.pc = "start" /\ run.i \in Instances /\ l[2] = run.i
  BY RunnerFacts DEF WriteRecord
<1>0. run.i \in Instances /\ run.pc = "start" /\ l \in Launches /\ l[2] = run.i /\ rec \in RecType
  BY <1>a DEF TypeInv, TypeOK, RecType
<1>1. UNCHANGED <<os, status, lock, mon, cancel, mode>>
  BY DEF WriteRecord, lifecycle, agents
<1>2. /\ run'.pc = "prepared" /\ run'.op = run.op /\ run'.i = run.i /\ run'.a = run.a
      /\ Launch' = l
  BY <1>a, GoesOn DEF WriteRecord
<1>3. status[run.i] # "CANCELLED"
  BY <1>0, Startable DEF WriteRecord
<1>4. rec[l].state = "NONE" /\ ActiveOf(run.i) = {}
  BY <1>0, <1>a DEF LaunchInv, HolderInv, RunnerKnows
<1>5. rec' = [rec EXCEPT ![l].state = "PREPARED"]
  BY <1>a DEF WriteRecord
<1>6. /\ rec'[l].state = "PREPARED" /\ rec'[l].pid = rec[l].pid
      /\ \A m \in Launches : m # l => rec'[m] = rec[m]
  <2>1. rec[l] \in [state : RecStates, pid : BOOLEAN]
    BY <1>0 DEF RecType, RecStates
  <2>2. rec'[l] = [rec[l] EXCEPT !.state = "PREPARED"] /\ \A m \in Launches : m # l => rec'[m] = rec[m]
    BY <1>0, <1>5 DEF RecType
  <2>. QED
    BY <2>1, <2>2
<1>7. ~(rec[l].pid)
  BY <1>0, <1>4 DEF LaunchInv, PidInv
<1>8. Active(l)' /\ \A m \in Launches : m # l => (Active(m)' <=> Active(m))
  BY <1>6 DEF Active
<1>9. \A m \in Launches : m[2] = run.i => ~Active(m)
  BY <1>4 DEF ActiveOf, Of
<1>10. OneActiveLaunch'
  BY <1>0, <1>8, <1>9 DEF LaunchInv, OneActiveLaunch
<1>11. RecordedProcessesAreOwned'
  <2>1. \A m \in Launches : m # l => (rec'[m].pid /\ Live(m)' => Active(m)')
    BY <1>1, <1>6, <1>8 DEF LaunchInv, RecordedProcessesAreOwned, Live
  <2>. QED
    BY <1>8, <2>1 DEF RecordedProcessesAreOwned
<1>12. PidInv'
  BY <1>6, <1>7 DEF LaunchInv, PidInv
<1>13. \A i \in Instances : i # run.i => ActiveOf(i)' = ActiveOf(i)
  BY <1>0, <1>8 DEF ActiveOf, Of
<1>14. RunnerKnows'
  BY <1>2, <1>6 DEF RunnerKnows
<1>15. run.pc \in Held /\ run'.pc \in Held
  BY <1>0, <1>2 DEF Held
<1>. QED
  BY <1>1, <1>2, <1>3, <1>10, <1>11, <1>12, <1>13, <1>14, <1>15, HeldStep DEF RecordInv, NoCancellation

\* While the runner starts a launch, it knows the state of its record.
LEMMA StateKnown ==
  ASSUME LaunchInv
  PROVE  /\ run.pc \in {"prepared", "spawn", "spawned"} => rec[Launch].state = "PREPARED"
         /\ run.pc \in {"recorded", "waiting"} => rec[Launch].state = "STARTING"
         /\ run.pc \in {"ready", "readied"} => rec[Launch].state = "RUNNING"
  BY DEF LaunchInv, HolderInv, RunnerKnows

\* Steps of a start that leave the record alone.
LEMMA StartGoesOn ==
  ASSUME TypeInv, LaunchInv, MoveToStarting \/ Spawn \/ ProjectStarting \/ ProjectRunning \/ ProjectFailed
  PROVE  LaunchInv'
<1>0. run.pc \in {"prepared", "spawn", "recorded", "ready", "startFailed"}
  BY DEF MoveToStarting, Spawn, ProjectStarting, ProjectRunning, ProjectFailed
<1>1. run.i \in Instances /\ Launch \in Launches /\ Launch[2] = run.i
  BY <1>0, RunnerFacts
<1>2. UNCHANGED <<rec, lock, mon, cancel, mode>>
  BY DEF MoveToStarting, Spawn, ProjectStarting, ProjectRunning, ProjectFailed, lifecycle, agents
<1>3. /\ GoOn(CASE run.pc = "prepared" -> "spawn" [] run.pc = "spawn" -> "spawned"
                [] run.pc = "recorded" -> "waiting" [] run.pc = "ready" -> "readied"
                [] run.pc = "startFailed" -> "startFailed2")
  BY DEF MoveToStarting, Spawn, ProjectStarting, ProjectRunning, ProjectFailed
<1>4. /\ run'.pc = (CASE run.pc = "prepared" -> "spawn" [] run.pc = "spawn" -> "spawned"
                      [] run.pc = "recorded" -> "waiting" [] run.pc = "ready" -> "readied"
                      [] run.pc = "startFailed" -> "startFailed2")
      /\ run'.op = run.op /\ run'.i = run.i /\ run'.a = run.a /\ Launch' = Launch
  BY <1>3, GoesOn
<1>5. \A l \in Launches : Live(l)' => Live(l) \/ ~rec[l].pid
  <2>1. CASE Spawn
    <3>1. ~(rec[Launch].pid)
      BY <1>1, <2>1, StateKnown DEF LaunchInv, PidInv, Spawn
    <3>2. os' = [os EXCEPT ![Launch] = "spawned"] /\ os \in OsType
      BY <2>1 DEF Spawn, TypeInv, TypeOK, OsType
    <3>3. \A l \in Launches : l # Launch => os'[l] = os[l]
      BY <3>2 DEF OsType
    <3>. HIDE DEF Launch
    <3>. QED
      BY <3>1, <3>3 DEF Live
  <2>2. CASE ~Spawn
    BY <2>2 DEF Live, MoveToStarting, ProjectStarting, ProjectRunning, ProjectFailed, agents
  <2>. QED
    BY <2>1, <2>2
<1>6. RecordInv' /\ \A i : ActiveOf(i)' = ActiveOf(i)
  BY <1>2, <1>5, RecordsKept DEF LaunchInv, RecordInv
<1>7. NoCancellation
  <2>1. UNCHANGED status \/ Move(run.i, "STARTING")
    BY DEF MoveToStarting, Spawn, ProjectStarting, ProjectRunning, ProjectFailed
  <2>. QED
    BY <1>1, <2>1, NothingCancelled, TransitionCancelsNothing
<1>8. run.pc \in Held /\ run'.pc \in {"spawn", "spawned", "waiting", "readied", "startFailed2"}
  BY <1>0, <1>4 DEF Held
<1>9. RunnerKnows'
  BY <1>0, <1>2, <1>4, StateKnown DEF RunnerKnows
<1>10. status'[run.i] = "CANCELLED" => ActiveOf(run.i)' = {}
  BY <1>1, <1>4, <1>6, <1>7 DEF NoCancellation, LaunchInv, CancelledInv
<1>. QED
  BY <1>2, <1>4, <1>6, <1>7, <1>8, <1>9, <1>10, HeldStep DEF Held

\* Steps of a start that give the record its process or promote it.
LEMMA StartAdvances ==
  ASSUME TypeInv, LaunchInv, RecordPid \/ ProbeReady
  PROVE  LaunchInv'
<1>a. PICK l \in Launches : l = Launch /\ run.i \in Instances /\ l[2] = run.i
  BY RunnerFacts DEF RecordPid, ProbeReady
<1>0. run.pc \in {"spawned", "waiting"}
  BY DEF RecordPid, ProbeReady
<1>1. UNCHANGED <<os, status, lock, mon, cancel, mode>>
  BY DEF RecordPid, ProbeReady, lifecycle, agents
<1>2. RecordInv
  BY DEF LaunchInv, RecordInv
<1>3. Active(l) /\ \E s \in {"STARTING", "RUNNING"} : \E r :
        /\ r.state = s /\ r.pid /\ rec' = [rec EXCEPT ![l] = r]
        /\ run'.pc \in IF s = "STARTING" THEN {"recorded"} ELSE {"ready"}
        /\ run'.op = run.op /\ run'.i = run.i /\ run'.a = run.a /\ Launch' = l
  <2>1. CASE RecordPid
    <3>. DEFINE r == [state |-> "STARTING", pid |-> TRUE]
    <3>3. r.state = "STARTING" /\ r.pid /\ rec' = [rec EXCEPT ![l] = r]
      BY <1>a, <2>1 DEF RecordPid
    <3>4. Active(l)
      BY <1>a, <2>1, StateKnown DEF RecordPid, Active
    <3>5. /\ run'.pc = "recorded" /\ run'.op = run.op /\ run'.i = run.i /\ run'.a = run.a
          /\ Launch' = l
      BY <1>a, <2>1, GoesOn DEF RecordPid
    <3>. HIDE DEF r
    <3>. QED
      BY <3>3, <3>4, <3>5
  <2>2. CASE ProbeReady
    <3>1. rec[l].state = "STARTING" /\ rec' = [rec EXCEPT ![l].state = "RUNNING"] /\ rec \in RecType
      BY <1>a, <2>2, StateKnown DEF ProbeReady, TypeInv, TypeOK, RecType
    <3>2. PICK r : Active(l) /\ r.state = "RUNNING" /\ r.pid /\ rec' = [rec EXCEPT ![l] = r]
      BY <1>2, <3>1, Promotes
    <3>4. /\ run'.pc = "ready" /\ run'.op = run.op /\ run'.i = run.i /\ run'.a = run.a
          /\ Launch' = l
      BY <1>a, <2>2, GoesOn DEF ProbeReady
    <3>. QED
      BY <3>2, <3>4
  <2>. QED
    BY <2>1, <2>2
<1>4. PICK s \in {"STARTING", "RUNNING"} : \E r :
        /\ r.state = s /\ r.pid /\ rec' = [rec EXCEPT ![l] = r]
        /\ run'.pc \in IF s = "STARTING" THEN {"recorded"} ELSE {"ready"}
        /\ run'.op = run.op /\ run'.i = run.i /\ run'.a = run.a /\ Launch' = l
  BY <1>3
<1>5. RecordInv' /\ (\A i : ActiveOf(i)' = ActiveOf(i)) /\ rec'[l].state = s
  BY <1>1, <1>2, <1>3, <1>4, Advances
<1>6. RunnerKnows'
  BY <1>4, <1>5 DEF RunnerKnows
<1>7. status'[run.i] = "CANCELLED" => ActiveOf(run.i)' = {}
  BY <1>a, <1>1, <1>4, <1>5 DEF LaunchInv, CancelledInv
<1>8. run.pc \in Held /\ run'.pc \in Held
  BY <1>0, <1>4 DEF Held
<1>. QED
  BY <1>1, <1>4, <1>5, <1>6, <1>7, <1>8, HeldStep DEF NoCancellation

LEMMA StartFailsOwned ==
  ASSUME TypeInv, LaunchInv, StartFails
  PROVE  LaunchInv'
<1>a. PICK l \in Launches : l = Launch /\ run.i \in Instances /\ l[2] = run.i
  BY RunnerFacts DEF StartFails
<1>1. UNCHANGED <<status, lock, mon, cancel, mode>> /\ run.pc \in Held
  BY DEF StartFails, lifecycle, Held
<1>2. run'.pc = "startFailed" /\ run'.op = run.op /\ run'.i = run.i /\ run'.a = run.a
  BY GoesOn DEF StartFails
<1>3. /\ RecordInv' /\ \A i : ActiveOf(i)' = ActiveOf(i) \ {l}
  BY <1>a, Closes DEF StartFails, LaunchInv, RecordInv
<1>4. \A i \in Instances : i # run.i => ActiveOf(i)' = ActiveOf(i)
  BY <1>a, <1>3 DEF ActiveOf, Of
<1>5. status'[run.i] = "CANCELLED" => ActiveOf(run.i)' = {}
  BY <1>a, <1>1, <1>2, <1>3 DEF LaunchInv, CancelledInv
<1>6. RunnerKnows'
  BY <1>2 DEF RunnerKnows
<1>7. run'.pc \in Held
  BY <1>2 DEF Held
<1>. QED
  BY <1>1, <1>2, <1>3, <1>4, <1>5, <1>6, <1>7, HeldStep DEF NoCancellation

-----------------------------------------------------------------------------
(* Launches are owned: the monitor, the cancellation and the environment.  *)

\* A launch that the monitor may examine is not the runner's nor a cancellation's.
LEMMA ExaminedApart ==
  ASSUME TypeInv, LaunchInv, NEW l \in Launches, Examined(l)
  PROVE  /\ mon.pc = "idle" /\ mode # "down"
         /\ run.pc \in Held => lock[run.i] = "runner" /\ run.i # l[2]
         /\ cancel.pc # "idle" => lock[cancel.i] = "cancel" /\ cancel.i # l[2]
BY ConstAssumption DEF Examined, LaunchInv, LockInv, Held

\* Taking the lock of a launch for the monitor.
LEMMA SuperviseLocks ==
  ASSUME TypeInv, LaunchInv, NEW l \in Launches, Examined(l), NEW label \in {"promoted", "exited"},
         Supervise(label, l), UNCHANGED <<run, cancel, mode>>
  PROVE  LockInv'
<1>1. lock \in LockType /\ l[2] \in Instances
  BY LaunchParts DEF TypeInv, TypeOK, LockType
<1>2. lock'[l[2]] = "monitor" /\ \A i \in Instances : i # l[2] => lock'[i] = lock[i]
  BY <1>1 DEF Supervise, LockType
<1>3. run.pc \in Held => run.i \in Instances
  BY RunnerFacts DEF Held
<1>4. cancel.pc # "idle" => cancel.i \in Instances
  BY DEF TypeInv, CancelInv
<1>5. mon'.launch = l
  BY DEF Supervise
<1>. QED
  BY <1>2, <1>3, <1>4, <1>5, ExaminedApart DEF LaunchInv, LockInv, Examined

LEMMA PromoteOwned ==
  ASSUME TypeInv, LaunchInv, NEW l \in Launches, Promote(l) \/ Adopt(l)
  PROVE  LaunchInv'
<1>0. Examined(l) /\ UNCHANGED <<os, status, run, cancel, mode>>
  BY DEF Promote, Adopt, agents, lifecycle, runner
<1>1. RecordInv
  BY DEF LaunchInv, RecordInv
<1>2. Active(l) /\ \E s \in {"STARTING", "RUNNING"} : \E r :
        r.state = s /\ r.pid /\ rec' = [rec EXCEPT ![l] = r]
  <2>1. CASE Promote(l)
    BY <1>1, <2>1, Promotes DEF Promote, Ready
  <2>2. CASE Adopt(l)
    BY <2>2 DEF Adopt, Adoptable, Active
  <2>. QED
    BY <2>1, <2>2
<1>3. /\ RecordInv' /\ \A i : ActiveOf(i)' = ActiveOf(i)
      /\ \A m \in Launches : m # l => rec'[m] = rec[m]
  BY <1>0, <1>1, <1>2, Advances
<1>4. LockInv'
  <2>1. CASE Promote(l)
    BY <1>0, <2>1, SuperviseLocks DEF Promote
  <2>2. CASE Adopt(l)
    BY <1>0, <2>2 DEF Adopt, LaunchInv, LockInv
  <2>. QED
    BY <2>1, <2>2
<1>5. CancelledInv'
  BY <1>0, <1>3 DEF LaunchInv, CancelledInv
<1>6. HolderInv'
  BY <1>0, <1>3, ExaminedApart, HolderKept DEF LaunchInv, NoCancellation
<1>. QED
  BY <1>3, <1>4, <1>5, <1>6 DEF LaunchInv, RecordInv

LEMMA HandleExitOwned ==
  ASSUME TypeInv, LaunchInv, NEW l \in Launches, HandleExit(l)
  PROVE  LaunchInv'
<1>0. Examined(l) /\ UNCHANGED <<status, run, cancel, mode>> /\ CloseRecord(l, "EXITED")
  BY DEF HandleExit, lifecycle, runner
<1>1. /\ RecordInv' /\ (\A i : ActiveOf(i)' = ActiveOf(i) \ {l})
      /\ \A m \in Launches : m # l => rec'[m] = rec[m]
  BY <1>0, Closes DEF LaunchInv, RecordInv
<1>2. LockInv'
  BY <1>0, SuperviseLocks DEF HandleExit
<1>3. CancelledInv'
  BY <1>0, <1>1 DEF LaunchInv, CancelledInv
<1>4. HolderInv'
  BY <1>0, <1>1, ExaminedApart, HolderKept DEF LaunchInv, NoCancellation
<1>. QED
  BY <1>1, <1>2, <1>3, <1>4 DEF LaunchInv, RecordInv

\* The monitor gives the lock back.
LEMMA SuperviseOwned ==
  ASSUME TypeInv, LaunchInv, SuperviseProjects \/ SuperviseMoves
  PROVE  LaunchInv'
<1>0. UNCHANGED <<rec, os, run, cancel, mode>> /\ mon.pc # "idle" /\ mode # "down"
  BY DEF SuperviseProjects, SuperviseMoves, agents, lifecycle, runner
<1>1. mon.launch \in Launches /\ mon.launch[2] \in Instances /\ lock[mon.launch[2]] = "monitor"
  BY <1>0, LaunchParts DEF TypeInv, MonInv, LaunchInv, LockInv
<1>2. RecordInv' /\ \A i : ActiveOf(i)' = ActiveOf(i)
  BY <1>0, RecordsKept DEF LaunchInv, RecordInv, Live
<1>3. NoCancellation
  <2>1. UNCHANGED status \/ \E s \in Statuses \ {"CANCELLED"} : Move(mon.launch[2], s)
    <3>1. \A s \in DOMAIN AfterExit : AfterExit[s] \in Statuses \ {"CANCELLED"}
      BY StatusesAre DEF AfterExit
    <3>. QED
      BY <3>1, StatusesAre DEF SuperviseProjects, SuperviseMoves
  <2>. QED
    BY <1>1, <2>1, NothingCancelled, TransitionCancelsNothing
<1>4. LockInv'
  <2>1. CASE SuperviseProjects
    <3>1. UNCHANGED lock /\ mon'.launch = mon.launch
      BY <2>1 DEF SuperviseProjects, TypeInv, MonInv
    <3>. QED
      BY <1>0, <1>1, <3>1 DEF LaunchInv, LockInv
  <2>2. CASE SuperviseMoves
    <3>1. mon'.pc = "idle" /\ \A i \in Instances : i # mon.launch[2] => lock'[i] = lock[i]
      BY <1>1, <2>2 DEF SuperviseMoves, NoMon, TypeInv, TypeOK
    <3>2. run.pc \in Held => run.i \in Instances
      BY RunnerFacts DEF Held
    <3>3. cancel.pc # "idle" => cancel.i \in Instances
      BY DEF TypeInv, CancelInv
    <3>. QED
      BY <1>0, <1>1, <3>1, <3>2, <3>3 DEF LaunchInv, LockInv
  <2>. QED
    BY <2>1, <2>2
<1>5. CancelledInv'
  BY <1>2, <1>3, CancelledKept DEF LaunchInv
<1>6. HolderInv'
  BY <1>0, <1>2, <1>3, HolderKept DEF LaunchInv
<1>. QED
  BY <1>2, <1>4, <1>5, <1>6 DEF LaunchInv, RecordInv

\* A cancellation takes the lock and stops what runs.
LEMMA CancelBeginsOwned ==
  ASSUME TypeInv, LaunchInv, NEW i \in Instances, CancelBegins(i)
  PROVE  LaunchInv'
<1>0. /\ UNCHANGED <<status, run, mon, mode>> /\ mode = "up" /\ cancel.pc = "idle" /\ lock[i] = None
      /\ cancel'.i = i
  BY DEF CancelBegins, lifecycle, runner
<1>1. lock'[i] = "cancel" /\ \A j \in Instances : j # i => lock'[j] = lock[j]
  BY DEF CancelBegins, TypeInv, TypeOK
<1>2. run.pc \in Held => run.i \in Instances /\ run.i # i
  BY <1>0, ConstAssumption, RunnerFacts DEF Held, LaunchInv, LockInv
<1>3. mon.pc # "idle" => mon.launch[2] \in Instances /\ mon.launch[2] # i
  BY <1>0, ConstAssumption, LaunchParts DEF TypeInv, MonInv, LaunchInv, LockInv
<1>4. LockInv'
  BY <1>0, <1>1, <1>2, <1>3 DEF LaunchInv, LockInv
<1>5. /\ RecordInv' /\ (\A j \in Instances : ActiveOf(j)' \subseteq ActiveOf(j)) /\ ActiveOf(i)' = {}
      /\ \A m \in Launches : m[2] # i => rec'[m] = rec[m]
  <2>1. CASE ActiveOf(i) = {}
    <3>1. UNCHANGED <<rec, os>>
      BY <2>1 DEF CancelBegins, Cancels
    <3>. QED
      BY <2>1, <3>1, RecordsKept DEF LaunchInv, RecordInv, Live
  <2>2. CASE ActiveOf(i) # {}
    <3>1. PICK l \in ActiveOf(i) : CloseRecord(l, "EXITED")
      BY <2>2 DEF CancelBegins, Cancels
    <3>2. l \in Launches /\ l[2] = i /\ Active(l)
      BY <3>1 DEF ActiveOf, Of
    <3>3. /\ RecordInv' /\ (\A j : ActiveOf(j)' = ActiveOf(j) \ {l})
          /\ \A m \in Launches : m # l => rec'[m] = rec[m]
      BY <3>1, <3>2, Closes DEF LaunchInv, RecordInv
    <3>4. ActiveOf(i) \subseteq {l}
      BY <3>2 DEF LaunchInv, OneActiveLaunch, ActiveOf, Of
    <3>. QED
      BY <3>2, <3>3, <3>4
  <2>. QED
    BY <2>1, <2>2
<1>6. CancelledInv'
  BY <1>0, <1>5 DEF LaunchInv, CancelledInv
<1>7. HolderInv'
  <2>1. run.pc \in Held => Launch \in Launches /\ Launch[2] = run.i /\ Launch' = Launch
    BY <1>0, RunnerFacts DEF Held, Launch
  <2>2. RunnerKnows
    BY DEF LaunchInv, HolderInv
  <2>3. CASE run.pc \in Held
    <3>1. rec'[Launch] = rec[Launch] /\ (ActiveOf(run.i) = {} => ActiveOf(run.i)' = {})
      BY <1>0, <1>2, <1>5, <2>1, <2>3
    <3>2. RunnerKnows'
      <4>. HIDE DEF Launch, ActiveOf
      <4>. QED
        BY <1>0, <2>1, <2>2, <2>3, <3>1 DEF RunnerKnows
    <3>. QED
      BY <1>0, <1>5, <3>2 DEF HolderInv
  <2>4. CASE run.pc \notin Held
    BY <1>0, <1>5, <2>4 DEF HolderInv, RunnerKnows, Held
  <2>. QED
    BY <2>3, <2>4
<1>. QED
  BY <1>4, <1>5, <1>6, <1>7 DEF LaunchInv, RecordInv

\* It moves the status when nothing is active any more, and gives the lock back.
LEMMA CancelOwned ==
  ASSUME TypeInv, LaunchInv, CancelProjects \/ CancelMoves
  PROVE  LaunchInv'
<1>0. /\ UNCHANGED <<rec, os, run, mon, mode>> /\ mode = "up" /\ cancel.pc # "idle"
      /\ cancel'.pc # "idle" => cancel'.i = cancel.i /\ UNCHANGED <<lock, status>>
  BY DEF CancelProjects, CancelMoves, agents, lifecycle, runner, TypeInv, CancelInv, NoCancel
<1>1. cancel.i \in Instances /\ lock[cancel.i] = "cancel" /\ ActiveOf(cancel.i) = {}
  BY <1>0 DEF TypeInv, CancelInv, LaunchInv, LockInv, HolderInv
<1>2. \A i \in Instances : i # cancel.i => lock'[i] = lock[i] /\ status'[i] = status[i]
  BY <1>1 DEF CancelProjects, CancelMoves, Move, TypeInv, TypeOK
<1>3. RecordInv' /\ \A i : ActiveOf(i)' = ActiveOf(i)
  BY <1>0, RecordsKept DEF LaunchInv, RecordInv, Live
<1>4. run.pc \in Held => run.i \in Instances /\ run.i # cancel.i
  BY <1>1, RunnerFacts DEF Held, LaunchInv, LockInv
<1>5. mon.pc # "idle" => mon.launch[2] \in Instances /\ mon.launch[2] # cancel.i
  BY <1>1, LaunchParts DEF TypeInv, MonInv, LaunchInv, LockInv
<1>6. LockInv'
  BY <1>0, <1>1, <1>2, <1>4, <1>5 DEF LaunchInv, LockInv
<1>7. CancelledInv'
  BY <1>1, <1>2, <1>3 DEF LaunchInv, CancelledInv
<1>8. HolderInv'
  <2>1. UNCHANGED Launch
    BY <1>0 DEF Launch
  <2>2. RunnerKnows'
    BY <1>0, <1>2, <1>3, <1>4, <2>1 DEF LaunchInv, HolderInv, RunnerKnows, Held
  <2>. QED
    BY <1>0, <1>1, <1>3, <2>2 DEF HolderInv
<1>. QED
  BY <1>3, <1>6, <1>7, <1>8 DEF LaunchInv, RecordInv

\* The agent processes, and the control process.
LEMMA AgentOwned ==
  ASSUME TypeInv, LaunchInv, NEW l \in Launches, AgentStep(l) \/ AgentDies(l)
  PROVE  LaunchInv'
<1>0. UNCHANGED <<rec, status, lock, run, mon, cancel, mode>>
  BY DEF AgentStep, AgentDies, lifecycle, runner
<1>1. \A m \in Launches : Live(m)' => Live(m) \/ ~rec[m].pid
  BY DEF AgentStep, AgentDies, Live, TypeInv, TypeOK
<1>2. RecordInv' /\ \A i : ActiveOf(i)' = ActiveOf(i)
  BY <1>0, <1>1, RecordsKept DEF LaunchInv, RecordInv
<1>3. LockInv'
  BY <1>0 DEF LaunchInv, LockInv
<1>4. NoCancellation
  BY <1>0, NothingCancelled
<1>. QED
  BY <1>0, <1>2, <1>3, <1>4, HolderKept, CancelledKept DEF LaunchInv, RecordInv

LEMMA RestartOwned ==
  ASSUME TypeInv, LaunchInv, Crash \/ Restarting
  PROVE  LaunchInv'
<1>0. UNCHANGED <<rec, os>> /\ run'.pc = "idle" /\ cancel'.pc = "idle" /\ mon'.pc = "idle"
  BY DEF Crash, Restarting, StartReconcile, FinishReconcile, NoRun, NoCancel, NoMon, agents, runner,
         LaunchInv, LockInv
<1>1. RecordInv' /\ \A i : ActiveOf(i)' = ActiveOf(i)
  BY <1>0, RecordsKept DEF LaunchInv, RecordInv, Live
<1>2. NoCancellation
  BY DEF NoCancellation, Crash, Restarting, StartReconcile, FinishReconcile
<1>3. LockInv'
  BY <1>0 DEF LockInv, Held
<1>4. HolderInv'
  BY <1>0 DEF HolderInv, RunnerKnows
<1>. QED
  BY <1>1, <1>2, <1>3, <1>4, CancelledKept DEF LaunchInv, RecordInv

LEMMA LaunchStep ==
  ASSUME TypeInv, LaunchInv, [Next]_vars
  PROVE  LaunchInv'
<1>1. CASE UNCHANGED vars
  <2>1. Frames
    BY <1>1, NothingCancelled DEF Frames, vars, lifecycle, agents, runner
  <2>. QED
    BY <2>1, FrameKeeps
<1>2. CASE QuietSteps \/ OutsideSteps \/ Unlocks
  BY <1>2, QuietFrames, OutsideFrames, UnlockFrames, FrameKeeps
<1>3. CASE Next /\ ~(QuietSteps \/ OutsideSteps \/ Unlocks)
  BY <1>3, BeginStartOwned, RestartStopsOwned, RestartProjectsOwned, WriteRecordOwned, StartGoesOn,
     StartAdvances, StartFailsOwned, PromoteOwned, HandleExitOwned, SuperviseOwned, CancelBeginsOwned,
     CancelOwned, AgentOwned, RestartOwned
  DEF Next, Run, Monitor, Cancel, Restarting, QuietSteps, OutsideSteps, Unlocks
<1>. QED
  BY <1>1, <1>2, <1>3

-----------------------------------------------------------------------------
(* The theorems.                                                           *)

LEMMA InitInv == Init => TypeInv /\ LaunchInv
<1>. SUFFICES ASSUME Init PROVE TypeInv /\ LaunchInv
  OBVIOUS
<1>1. MaxAttempts \in Nat /\ Len(Order) \in Nat
  BY ConstAssumption
<1>2. TypeOK
  BY <1>1, StatusesAre DEF Init, TypeOK, NoRecord, Fresh, Stages
<1>3. RunInv
  BY <1>1 DEF Init, RunInv, RunType, NoRun, Held, Unheld, Stages
<1>4. MonInv /\ CancelInv /\ ProgressInv
  BY DEF Init, MonInv, NoMon, CancelInv, NoCancel, ProgressInv, Fresh
<1>5. \A l \in Launches : rec[l].state = "NONE" /\ ~(rec[l].pid) /\ ~Live(l)
  BY DEF Init, NoRecord, Live
<1>6. LockInv
  BY DEF Init, LockInv, NoRun, NoMon, NoCancel, Held
<1>7. RecordInv /\ CancelledInv
  BY <1>5 DEF RecordInv, OneActiveLaunch, RecordedProcessesAreOwned, PidInv, CancelledInv, ActiveOf, Of, Active
<1>8. HolderInv
  BY DEF Init, NoRun, NoCancel, HolderInv, RunnerKnows
<1>. QED
  BY <1>2, <1>3, <1>4, <1>6, <1>7, <1>8 DEF TypeInv, LaunchInv, RecordInv

\* Both invariants, of every behaviour: the types of runner, monitor and cancellation need
\* the ownership of launches, and the other way round.
THEOREM InvariantsHold == Spec => [](TypeInv /\ LaunchInv)
<1>1. (TypeInv /\ LaunchInv) /\ [Next]_vars => (TypeInv /\ LaunchInv)'
  BY TypeStep, LaunchStep
<1>. QED
  BY InitInv, <1>1, PTL DEF Spec

\* The files and the threads of the start operations keep their types (application.py,
\* supervisor.py and supervisor_lifecycle.py).
THEOREM StartTypesCorrect == Spec => []TypeOK
<1>1. TypeInv => TypeOK
  BY DEF TypeInv
<1>. QED
  BY <1>1, InvariantsHold, PTL

\* Whatever is accepted, started, restarted, retried, cancelled, killed or recovered: an
\* instance never has two active launches, a recorded process never outlives its record, and
\* a cancelled instance has no launch.
THEOREM LaunchesAreOwnedAlways == Spec => []LaunchesAreOwned
<1>1. LaunchInv => LaunchesAreOwned
  BY DEF LaunchInv, LaunchesAreOwned, CancelledInv, CancelledIsDown
<1>. QED
  BY <1>1, InvariantsHold, PTL

\* A reconciliation closes no launch whose wrapper has shaken hands.
LEMMA ReconcileKeeps ==
  ASSUME TypeInv, LaunchInv, [Next]_vars, mode = "reconciling",
         NEW l \in Launches, Active(l), os[l] \in {"alive", "ready"}
  PROVE  Active(l)'
<1>1. CASE UNCHANGED rec
  BY <1>1 DEF Active
<1>2. ASSUME NEW m \in Launches, HandleExit(m) PROVE Active(l)'
  <2>1. Gone(m) /\ CloseRecord(m, "EXITED")
    BY <1>2 DEF HandleExit
  <2>2. m # l
    <3>1. ~(rec[l].pid) => rec[l].state = "PREPARED"
      BY DEF LaunchInv, PidInv, Active
    <3>. QED
      BY <2>1, <3>1 DEF Gone, Live, Adoptable
  <2>. QED
    BY <2>1, <2>2, Closes DEF LaunchInv, RecordInv, Active
<1>3. ASSUME NEW m \in Launches, Adopt(m) \/ Promote(m) PROVE Active(l)'
  <2>1. rec \in RecType
    BY DEF TypeInv, TypeOK, RecType
  <2>2. \/ rec' = [rec EXCEPT ![m].state = "RUNNING"]
        \/ rec' = [rec EXCEPT ![m] = [state |-> "STARTING", pid |-> TRUE]]
    BY <1>3 DEF Adopt, Promote
  <2>3. rec'[l] = rec[l] \/ rec'[l].state \in {"STARTING", "RUNNING"}
    BY <2>1, <2>2 DEF RecType
  <2>. QED
    BY <2>3 DEF Active
<1>4. CASE Next
  <2>1. ~RecordsByRunner /\ \A i \in Instances : ~CancelBegins(i)
    BY DEF RecordsByRunner, RestartStops, WriteRecord, Spawn, RecordPid, ProbeReady, StartFails, CancelBegins
  <2>2. \A m \in Launches : AgentStep(m) \/ AgentDies(m) => UNCHANGED rec
    BY DEF AgentStep, AgentDies
  <2>. QED
    BY <1>1, <1>2, <1>3, <1>4, <2>1, <2>2, RecWriters
<1>. QED
  BY <1>1, <1>4 DEF vars

\* A restart of the control process gives up no agent that lives: reconcile() closes a
\* launch only when neither its pid nor its handshake names a living process.
THEOREM RestartKeepsAgentsAlways == Spec => RestartKeepsAgents
<1>1. TypeInv /\ LaunchInv /\ [Next]_vars =>
        [mode = "reconciling" =>
           \A l \in Launches : Active(l) /\ os[l] \in {"alive", "ready"} => Active(l)']_vars
  BY ReconcileKeeps
<1>. QED
  BY <1>1, InvariantsHold, PTL DEF Spec, RestartKeepsAgents
=============================================================================
