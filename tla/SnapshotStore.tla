---------------------------- MODULE SnapshotStore ----------------------------
(***************************************************************************)
(* The revisioned file repository under every aggregate of the harness:    *)
(* backend/harness/storage/repository.py (SnapshotRepository.put, delete), *)
(* ndjson.py (the checksummed journal of a task), locks.py (FileLock) and  *)
(* store.py (recover, the two index projections).                          *)
(*                                                                         *)
(* Every task directory has one append-only journal and one lock file; an  *)
(* object has one snapshot file.  A put appends a commit event to the      *)
(* journal, replaces the snapshot and rebuilds the index, all under the    *)
(* lock of its task.  Request threads of the single control process        *)
(* interleave; the process may crash between any two file operations (and  *)
(* within an append, which leaves a torn tail) and is started again.       *)
(*                                                                         *)
(* The objects modelled are those with an after_commit index (task, inbox);*)
(* the task has no plan yet, so that recovery has no projections to        *)
(* complete.  Those belong to module AggregateCommit.                      *)
(***************************************************************************)
EXTENDS Integers, Sequences

CONSTANTS
  Threads,      \* request threads of the control process
  Objects,      \* snapshot files
  Tasks,        \* task directories
  TaskOf,       \* [Objects -> Tasks]: the directory an object lives in
  Payloads,     \* abstract object contents
  None,         \* "no thread", "no payload", "no object"
  MaxCalls,     \* bound on the puts and deletes of a behaviour
  MaxCrashes,   \* bound on the crashes of a behaviour
  MaxIOErrors   \* bound on the failed writes of a behaviour (IOSpec)

ASSUME ConstAssumption ==
  /\ TaskOf \in [Objects -> Tasks]
  /\ None \notin Threads
  /\ None \notin Payloads
  /\ None \notin Objects
  /\ MaxCalls \in Nat
  /\ MaxCrashes \in Nat
  /\ MaxIOErrors \in Nat

VARIABLES
  mode,      \* "down", "recovering", "up", "failed" (start() raised)
  replayed,  \* tasks whose journal this recovery has read
  rebuilt,   \* objects whose snapshot this recovery has handled
  log,       \* [Tasks -> Seq(Line)]: events.ndjson
  snap,      \* [Objects -> Version]: snapshot files, Absent when missing
  lock,      \* [Tasks -> Threads \cup {None}]: task-<id>.lock
  pc,        \* [Threads -> Labels]
  op,        \* [Threads -> Op]: the put or delete a thread is executing
  scan,      \* [Threads -> [Objects -> Version \cup {Unread}]]
  index,     \* [Objects -> Version]: indexes/*.json
  acked,     \* history: commits whose put returned to its caller
  calls, crashes, ioErrors

files == <<log, snap, index>>
recovery == <<mode, replayed, rebuilt>>
threads == <<lock, pc, op, scan>>
budget == <<calls, crashes, ioErrors>>
vars == <<recovery, files, threads, acked, budget>>

-----------------------------------------------------------------------------
(* Versions, journal lines and what a reader of a journal gets.            *)

Absent == [rev |-> 0, payload |-> None]
Version == [rev : Nat, payload : Payloads \cup {None}]
Unread == [rev |-> -1, payload |-> None]

LineType == {"OBJECT_COMMITTED", "OBJECT_REMOVED", "TORN", "GARBLED"}
Line == [type : LineType, obj : Objects, rev : Nat, payload : Payloads \cup {None}]

\* A line whose checksum does not verify: a torn write, or a torn write with the
\* next record appended to it.
Bad(l) == l.type \in {"TORN", "GARBLED"}

\* _recover_records raises on a bad line that is not the last one.
Readable(l) == \A i \in 1..Len(l) : Bad(l[i]) => i = Len(l)

\* _recover_records drops a bad last line and truncates the file there.
TrimNothing(l) == l
Trim(l) == IF Len(l) > 0 /\ Bad(l[Len(l)]) THEN SubSeq(l, 1, Len(l) - 1) ELSE l

\* append_record opens with O_APPEND: what follows a torn line joins it.
AppendLine(l, r) ==
  IF Len(l) > 0 /\ l[Len(l)].type = "TORN"
  THEN [l EXCEPT ![Len(l)] = [r EXCEPT !.type = IF r.type = "TORN" THEN "TORN" ELSE "GARBLED"]]
  ELSE Append(l, r)

Commits(l, o) == {i \in 1..Len(l) : l[i].type = "OBJECT_COMMITTED" /\ l[i].obj = o}

TopRevisionForgotten(l, o) == 0

\* max(... default=0) over the commit events of an object in put.
TopCommit(l, o) == CHOOSE i \in Commits(l, o) : \A j \in Commits(l, o) : l[j].rev <= l[i].rev
TopRevision(l, o) == IF Commits(l, o) = {} THEN 0 ELSE l[TopCommit(l, o)].rev

\* The event recover() keeps in latest: the first one with the greatest revision.
IsLatest(l, o, i) ==
  \A j \in Commits(l, o) : l[j].rev <= l[i].rev /\ (l[j].rev = l[i].rev => i <= j)
LatestCommit(l, o) == CHOOSE i \in Commits(l, o) : IsLatest(l, o, i)
Latest(l, o) ==
  IF Commits(l, o) = {} THEN Absent
  ELSE [rev |-> l[LatestCommit(l, o)].rev, payload |-> l[LatestCommit(l, o)].payload]

-----------------------------------------------------------------------------
(* The request threads.                                                    *)

Labels == {"idle", "ready", "append", "apply", "scan"}
Op == [kind : {"put", "delete"}, obj : Objects, payload : Payloads \cup {None},
       seen : Version, rev : Nat]
NoOp == [kind |-> "none", obj |-> None, payload |-> None, seen |-> Absent, rev |-> 0]
NoScan == [o \in Objects |-> Unread]

Journal(t) == TaskOf[op[t].obj]
Event(t) ==
  [type |-> IF op[t].kind = "put" THEN "OBJECT_COMMITTED" ELSE "OBJECT_REMOVED",
   obj |-> op[t].obj, rev |-> op[t].rev,
   payload |-> IF op[t].kind = "put" THEN op[t].payload ELSE op[t].seen.payload]

RevisionMatches(t) == op[t].seen.rev = snap[op[t].obj].rev

\* With the lock, put of an object without a snapshot scans the journal, which
\* raises on interior corruption.
Unreadable(t) ==
  op[t].kind = "put" /\ snap[op[t].obj] = Absent /\ ~Readable(log[Journal(t)])

\* With the lock: the object changed (REVISION_CONFLICT), or it is already gone
\* and delete returns False, or the journal does not tell the next revision.
Refused(t) ==
  \/ ~RevisionMatches(t)
  \/ op[t].kind = "delete" /\ snap[op[t].obj] = Absent
  \/ Unreadable(t)

\* put or delete returns or raises; what the thread held in memory is gone.
ReturnHalf(t) == op' = [op EXCEPT ![t] = NoOp] /\ scan' = [scan EXCEPT ![t] = NoScan] /\ pc' = pc
Return(t) ==
  /\ pc' = [pc EXCEPT ![t] = "idle"]
  /\ op' = [op EXCEPT ![t] = NoOp]
  /\ scan' = [scan EXCEPT ![t] = NoScan]

ReleaseNothing(t) == lock' = lock /\ Return(t)
Release(t) == lock' = [lock EXCEPT ![Journal(t)] = None] /\ Return(t)

\* A caller reads the wrapper of an object and calls put or delete with its
\* revision as expected_revision.
Call(t, kind, o, p) ==
  /\ mode = "up"
  /\ pc[t] = "idle"
  /\ calls < MaxCalls
  /\ calls' = calls + 1
  /\ op' = [op EXCEPT ![t] = [kind |-> kind, obj |-> o, payload |-> p,
                              seen |-> snap[o], rev |-> 0]]
  /\ pc' = [pc EXCEPT ![t] = "ready"]
  /\ UNCHANGED <<recovery, files, lock, scan, acked, crashes, ioErrors>>

\* FileLock.acquire gives up at its deadline: REVISION_CONFLICT to the caller.
LockTimeout(t) ==
  /\ mode = "up"
  /\ pc[t] = "ready"
  /\ lock[Journal(t)] # None
  /\ Return(t)
  /\ UNCHANGED <<recovery, files, lock, acked, budget>>

Refuse(t) ==
  /\ mode = "up"
  /\ pc[t] = "ready"
  /\ lock[Journal(t)] = None
  /\ Refused(t)
  /\ Return(t)
  /\ UNCHANGED <<recovery, files, lock, acked, budget>>

\* put up to the append: the revision check, and the revision of the new wrapper,
\* which continues the journal's when the snapshot is gone.
PutChecked(t) ==
  LET o == op[t].obj
      k == Journal(t) IN
  /\ mode = "up"
  /\ pc[t] = "ready"
  /\ op[t].kind = "put"
  /\ lock[k] = None
  /\ RevisionMatches(t)
  /\ IF snap[o] = Absent
     THEN /\ ~Unreadable(t)
          /\ log' = [log EXCEPT ![k] = Trim(log[k])]
          /\ op' = [op EXCEPT ![t].rev = TopRevision(Trim(log[k]), o) + 1]
     ELSE /\ log' = log
          /\ op' = [op EXCEPT ![t].rev = snap[o].rev + 1]
  /\ lock' = [lock EXCEPT ![k] = t]
  /\ pc' = [pc EXCEPT ![t] = "append"]
  /\ UNCHANGED <<recovery, snap, index, scan, acked, budget>>

\* delete up to the append; its event repeats the revision of the object.
DeleteChecked(t) ==
  LET o == op[t].obj IN
  /\ mode = "up"
  /\ pc[t] = "ready"
  /\ op[t].kind = "delete"
  /\ lock[Journal(t)] = None
  /\ snap[o] # Absent
  /\ RevisionMatches(t)
  /\ op' = [op EXCEPT ![t].rev = snap[o].rev]
  /\ lock' = [lock EXCEPT ![Journal(t)] = t]
  /\ pc' = [pc EXCEPT ![t] = "append"]
  /\ UNCHANGED <<recovery, files, scan, acked, budget>>

\* append_record: write, flush and fsync of one line.
AppendEvent(t) ==
  /\ mode = "up"
  /\ pc[t] = "append"
  /\ log' = [log EXCEPT ![Journal(t)] = AppendLine(@, Event(t))]
  /\ pc' = [pc EXCEPT ![t] = "apply"]
  /\ UNCHANGED <<recovery, snap, index, lock, op, scan, acked, budget>>

\* atomic_write_json of the new wrapper, or unlink.
ApplySnapshot(t) ==
  /\ mode = "up"
  /\ pc[t] = "apply"
  /\ snap' = [snap EXCEPT ![op[t].obj] =
                IF op[t].kind = "put" THEN [rev |-> op[t].rev, payload |-> op[t].payload]
                ELSE Absent]
  /\ pc' = [pc EXCEPT ![t] = "scan"]
  /\ UNCHANGED <<recovery, log, index, lock, op, scan, acked, budget>>

\* after_commit reads the snapshots of every task, one file after the other.  It
\* holds the lock of its own task only, and the order of the files is fixed.
NextFile(t) == CHOOSE o \in Objects : scan[t][o] = Unread
ScanSnapshot(t) ==
  /\ mode = "up"
  /\ pc[t] = "scan"
  /\ \E o \in Objects : scan[t][o] = Unread
  /\ scan' = [scan EXCEPT ![t][NextFile(t)] = snap[NextFile(t)]]
  /\ UNCHANGED <<recovery, files, lock, pc, op, acked, budget>>

\* ... and replaces the index with what it read; put returns, the lock is free.
WriteIndex(t) ==
  /\ mode = "up"
  /\ pc[t] = "scan"
  /\ \A o \in Objects : scan[t][o] # Unread
  /\ index' = scan[t]
  /\ Release(t)
  /\ acked' = IF op[t].kind = "put"
              THEN acked \cup {[obj |-> op[t].obj, rev |-> op[t].rev, payload |-> op[t].payload]}
              ELSE acked
  /\ UNCHANGED <<recovery, log, snap, budget>>

-----------------------------------------------------------------------------
(* Crash and recovery (FileStateStore.start and recover).                  *)

\* The process dies: locks are released by the operating system, threads are gone.
\* An append in flight may leave a torn line.
Crash ==
  /\ mode \in {"up", "recovering"}
  /\ crashes < MaxCrashes
  /\ crashes' = crashes + 1
  /\ mode' = "down"
  /\ \/ log' = log
     \/ \E t \in Threads :
          /\ pc[t] = "append"
          /\ log' = [log EXCEPT ![Journal(t)] = AppendLine(@, [Event(t) EXCEPT !.type = "TORN"])]
  /\ pc' = [t \in Threads |-> "idle"]
  /\ lock' = [k \in Tasks |-> None]
  /\ op' = [t \in Threads |-> NoOp]
  /\ scan' = [t \in Threads |-> NoScan]
  /\ UNCHANGED <<replayed, rebuilt, snap, index, acked, calls, ioErrors>>

Start ==
  /\ mode = "down"
  /\ mode' = "recovering"
  /\ replayed' = {}
  /\ rebuilt' = {}
  /\ UNCHANGED <<files, threads, acked, budget>>

\* recover_records on the journal of one task; interior corruption is fatal.
RecoverJournal(k) ==
  /\ mode = "recovering"
  /\ k \notin replayed
  /\ IF Readable(log[k])
     THEN /\ log' = [log EXCEPT ![k] = Trim(log[k])]
          /\ replayed' = replayed \cup {k}
          /\ mode' = mode
     ELSE mode' = "failed" /\ UNCHANGED <<log, replayed>>
  /\ UNCHANGED <<rebuilt, snap, index, threads, acked, budget>>

\* What recover() leaves in the snapshot file of an object whose latest event is e:
\* the event's version when the file is missing, older, or differs.
RecoveredIfMissing(current, e) == IF current = Absent THEN e ELSE current
Recovered(current, e) == IF current # e THEN e ELSE current

\* One object of latest; a snapshot newer than the journal is fatal.
RecoverSnapshot(o) ==
  LET k == TaskOf[o]
      e == Latest(log[k], o) IN
  /\ mode = "recovering"
  /\ k \in replayed
  /\ o \notin rebuilt
  /\ Commits(log[k], o) # {}
  /\ IF snap[o].rev > e.rev
     THEN mode' = "failed" /\ UNCHANGED <<snap, rebuilt>>
     ELSE /\ snap' = [snap EXCEPT ![o] = Recovered(@, e)]
          /\ rebuilt' = rebuilt \cup {o}
          /\ mode' = mode
  /\ UNCHANGED <<replayed, log, index, threads, acked, budget>>

RebuiltIndex == snap

\* The last checks: a snapshot without a commit event is fatal; otherwise both
\* indexes are rebuilt and the store is ready.
FinishRecovery ==
  /\ mode = "recovering"
  /\ replayed = Tasks
  /\ \A o \in Objects : Commits(log[TaskOf[o]], o) # {} => o \in rebuilt
  /\ IF \E o \in Objects : snap[o] # Absent /\ Commits(log[TaskOf[o]], o) = {}
     THEN mode' = "failed" /\ index' = index
     ELSE mode' = "up" /\ index' = RebuiltIndex
  /\ UNCHANGED <<replayed, rebuilt, log, snap, threads, acked, budget>>

-----------------------------------------------------------------------------
(* Writes that fail while the process keeps running (ENOSPC, EIO, a denied *)
(* os.replace): the exception leaves the with block, the lock is released  *)
(* and the caller gets an error.                                           *)

WriteError(t) ==
  /\ mode = "up"
  /\ ioErrors < MaxIOErrors
  /\ ioErrors' = ioErrors + 1
  /\ Release(t)
  /\ UNCHANGED <<recovery, acked, calls, crashes>>

\* append_record raises after a part of the line was written.
AppendFails(t) ==
  /\ pc[t] = "append"
  /\ log' = [log EXCEPT ![Journal(t)] = AppendLine(@, [Event(t) EXCEPT !.type = "TORN"])]
  /\ WriteError(t)
  /\ UNCHANGED <<snap, index>>

\* atomic_write_json or unlink raises: the event is durable, the snapshot is not.
ApplyFails(t) ==
  /\ pc[t] = "apply"
  /\ WriteError(t)
  /\ UNCHANGED files

\* The index rebuild raises after the snapshot was replaced.
IndexFails(t) ==
  /\ pc[t] = "scan"
  /\ WriteError(t)
  /\ UNCHANGED files

-----------------------------------------------------------------------------
Init ==
  /\ mode = "down"
  /\ replayed = {}
  /\ rebuilt = {}
  /\ log = [k \in Tasks |-> <<>>]
  /\ snap = [o \in Objects |-> Absent]
  /\ index = [o \in Objects |-> Absent]
  /\ lock = [k \in Tasks |-> None]
  /\ pc = [t \in Threads |-> "idle"]
  /\ op = [t \in Threads |-> NoOp]
  /\ scan = [t \in Threads |-> NoScan]
  /\ acked = {}
  /\ calls = 0
  /\ crashes = 0
  /\ ioErrors = 0

Request(t) ==
  \/ \E o \in Objects, p \in Payloads : Call(t, "put", o, p)
  \/ \E o \in Objects : Call(t, "delete", o, None)

Progress(t) ==
  \/ Refuse(t)
  \/ PutChecked(t)
  \/ DeleteChecked(t)
  \/ AppendEvent(t)
  \/ ApplySnapshot(t)
  \/ ScanSnapshot(t)
  \/ WriteIndex(t)

Recover ==
  \/ Start
  \/ \E k \in Tasks : RecoverJournal(k)
  \/ \E o \in Objects : RecoverSnapshot(o)
  \/ FinishRecovery

Next ==
  \/ \E t \in Threads : Request(t) \/ LockTimeout(t) \/ Progress(t)
  \/ Crash
  \/ Recover

Spec == Init /\ [][Next]_vars

IONext == Next \/ \E t \in Threads : AppendFails(t) \/ ApplyFails(t) \/ IndexFails(t)
IOSpec == Init /\ [][IONext]_vars

\* The service is started again after a crash and its recovery runs to the end; a
\* thread that is inside put or delete keeps running: it either gets the task lock
\* or reaches the deadline of FileLock.acquire.
FairIOSpec ==
  /\ IOSpec
  /\ WF_vars(Recover)
  /\ \A t \in Threads : WF_vars(Progress(t) \/ LockTimeout(t))

-----------------------------------------------------------------------------
(* Properties.                                                             *)

Held(k) == lock[k] # None
Settled(o) == mode = "up" /\ ~Held(TaskOf[o])

\* The journal line that speaks last about an object.
LastAbout(l, o) ==
  LET about == {i \in 1..Len(l) : l[i].type \in {"OBJECT_COMMITTED", "OBJECT_REMOVED"}
                                  /\ l[i].obj = o}
  IN CHOOSE i \in about : \A j \in about : j <= i
LastLine(l, o) == l[LastAbout(l, o)]
Removed(o) == Commits(log[TaskOf[o]], o) # {} /\ LastLine(log[TaskOf[o]], o).type = "OBJECT_REMOVED"

\* The types of the variables of the repository and of its threads.
TypeOK ==
  /\ mode \in {"down", "recovering", "up", "failed"}
  /\ replayed \subseteq Tasks
  /\ rebuilt \subseteq Objects
  /\ log \in [Tasks -> Seq(Line)]
  /\ snap \in [Objects -> Version]
  /\ index \in [Objects -> Version]
  /\ lock \in [Tasks -> Threads \cup {None}]
  /\ pc \in [Threads -> Labels]
  /\ op \in [Threads -> Op \cup {NoOp}]
  /\ \A t \in Threads : pc[t] # "idle" => op[t] \in Op
  /\ scan \in [Threads -> [Objects -> Version \cup {Unread}]]
  /\ acked \in SUBSET [obj : Objects, rev : Nat, payload : Payloads \cup {None}]
  /\ calls \in Nat
  /\ crashes \in Nat
  /\ ioErrors \in Nat

\* Every commit that put returned to its caller is an event of the journal, at any
\* later time: in the middle of another append, after a crash, during recovery.
AckedCommitsAreDurable ==
  \A c \in acked : \E i \in Commits(log[TaskOf[c.obj]], c.obj) :
    log[TaskOf[c.obj]][i].rev = c.rev /\ log[TaskOf[c.obj]][i].payload = c.payload

\* The version a put replaces, or a delete removes, is the very version its caller
\* read, although only the revision is compared (no lost update, no ABA through
\* a removal and a new object of the same name).
CommitReplacesWhatWasRead ==
  \A t \in Threads : pc[t] \in {"append", "apply"} => snap[op[t].obj] = op[t].seen

\* As long as no write fails under a living process, no commit is lost: neither one
\* that was acknowledged, nor one that a later put replaced unseen.
CommitsAreKept == ioErrors = 0 => AckedCommitsAreDurable /\ CommitReplacesWhatWasRead

\* Unless a write failed under a living process: whenever the store is ready and
\* nobody holds the lock of a task, the snapshot of an object is the latest commit
\* of the journal, or is missing because the object was removed; and, if the objects
\* are all of one directory, the index shows the snapshots when that is not locked
\* (the lock of one directory does not keep the others still during a scan).
SnapshotIsLatestCommit ==
  ioErrors = 0 =>
    /\ \A o \in Objects : Settled(o) =>
         \/ snap[o] = Latest(log[TaskOf[o]], o)
         \/ snap[o] = Absent /\ Removed(o)
    /\ (\A j, k \in Tasks : j = k) /\ mode = "up" /\ (\A k \in Tasks : ~Held(k)) => index = snap

\* Every put and delete ends: it commits, is refused, or its lock wait times out;
\* or the process dies.
CallsReturn == \A t \in Threads : pc[t] # "idle" ~> pc[t] = "idle"

\* A task lock does not stay held, whatever write fails under it.
LocksAreReleased == \A k \in Tasks : Held(k) ~> ~Held(k)

\* After the last crash the store becomes ready again, unless a write failed under a
\* living process.
StoreBecomesReady == mode # "up" ~> mode = "up" \/ ioErrors > 0

\* The three together: no failed write, refused call or crash stops the store.
StoreMovesOn == CallsReturn /\ LocksAreReleased /\ StoreBecomesReady

\* The repository implements the registers of RevisionedStore: a put takes effect
\* at the append of its event and is published by the snapshot or by recovery; as
\* long as no write fails under a living process, every step is theirs.
Registers == INSTANCE RevisionedStore WITH
  committed <- [o \in Objects |-> Latest(log[TaskOf[o]], o)],
  visible <- snap,
  pending <- {o \in Objects :
                /\ Commits(log[TaskOf[o]], o) # {}
                /\ CASE mode = "recovering" -> o \notin rebuilt
                     [] mode = "up" -> \E t \in Threads : /\ pc[t] = "apply"
                                                          /\ op[t].kind = "put"
                                                          /\ op[t].obj = o
                     [] OTHER -> TRUE}
ImplementsRegisters ==
  Registers!Init /\ [][ioErrors' = 0 => [Registers!Next]_(Registers!regs)]_vars
=============================================================================
