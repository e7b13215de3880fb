------------------------ MODULE WorkflowGatesProofs ------------------------
(***************************************************************************)
(* Proofs about WorkflowGates, for any gates, decisions and crashes.       *)
(***************************************************************************)
EXTENDS WorkflowGates, FiniteSetTheorems, TLAPS

-----------------------------------------------------------------------------
(* The inductive invariant.                                                *)

\* Where the observer and a decision are.
Projecting == {"ack", "acknotes", "move", "ask", "asknote", "fail"}
Watching == {"enter"} \cup Projecting
Advancing == {"advance", "check", "post", "record", "accepted"}
Concluding == {"decide", "commit", "handle", "tell", "finish"}
Labels == {"idle", "poll"} \cup Watching \cup Advancing \cup Concluding
At(t, labels) == th[t].pc \in labels

Phases == {"working", "waiting", "active", "lagging", "failed", "dead"}
Reports == {"RUNNING", "WAITING_APPROVAL", "FAILED"}
Copy == [job : Jobs \cup {None}, settling : 0..Len(Gates)]
Sight == [status : Reports \cup {"NONE"}, at : 0..(Len(Gates) + 1)]
Thread == [pc : Labels, copy : Copy, seen : Sight]

\* The types of all variables.
AgentTypes ==
  /\ agent \in [at : 1..(Len(Gates) + 1), phase : Phases, job : Ops \cup {None}, taken : SUBSET Ops]
  /\ agent.phase \in {"waiting", "active", "lagging"} => agent.at \in Numbers
  /\ passed \in [Numbers -> Ops \cup {None}]
GateTypes ==
  /\ gate \in [Ids -> [status : {"NONE", "PENDING", "APPROVED", "REJECTED"}, by : Threads \cup {None}]]
  /\ note \in [Ids -> {"NONE", "OPEN", "HANDLED"}]
  /\ \A g \in Ids : gate[g].status = "NONE" => note[g] = "NONE"
IntentTypes ==
  /\ intent \in [Ops -> [state : {"NONE", "PREPARED", "ADVANCE_ACCEPTED", "COMMITTED"}, gate : Ids \cup {None}]]
  /\ \A o \in Ops : intent[o].state = "NONE" <=> intent[o].gate = None
AdapterTypes ==
  /\ adapter \in [job : Jobs, settling : 0..Len(Gates)]
  /\ inst \in {"RUNNING", "WAITING_APPROVAL", "FAILED", "CRASHED"}
ControlTypes ==
  /\ lock \in Threads \cup {None}
  /\ mode \in {"up", "down", "recovering"} /\ todo \subseteq Ops /\ crashes \in Nat /\ exits \in Nat
FlagTypes == failNote \in BOOLEAN /\ fresh \in BOOLEAN

\* What the place of a thread says of its copy, of what it saw and of its intent.
Observes(x) ==
  /\ x.pc \in {"idle", "poll"} \cup Watching
  /\ x.pc \in {"poll"} \cup Watching => x.copy.job # None
  /\ x.pc \in Watching => x.seen.status \in Reports
  /\ x.seen.status = "WAITING_APPROVAL" => x.seen.at \in Numbers
  /\ x.pc \in {"ask", "asknote"} => x.seen.status = "WAITING_APPROVAL"
Decides(x) ==
  /\ x.pc \in {"idle"} \cup Advancing \cup Concluding
  /\ x.pc = "check" => x.copy.job # None
  /\ x.pc \in {"post", "record"} => x.seen.at \in Numbers
ThreadTypes ==
  /\ th \in [Threads -> Thread]
  /\ Observes(th[Observer])
  /\ \A o \in Ops : Decides(th[o])
PlaceTypes ==
  /\ At(Observer, {"asknote"}) => gate[IdOf(Observer)].status # "NONE"
  /\ \A o \in Ops : ~At(o, {"idle"}) => intent[o].state # "NONE"

FileTypes == GateTypes /\ IntentTypes /\ AdapterTypes
TypeInv == AgentTypes /\ FileTypes /\ ControlTypes /\ FlagTypes /\ ThreadTypes /\ PlaceTypes

\* Recovery has begun operations to look after, and no other mode has.
TodoInv ==
  /\ mode # "recovering" => todo = {}
  /\ mode = "down" => \A o \in Ops : th[o].pc = "idle"
  /\ \A o \in todo : intent[o].state \in {"PREPARED", "ADVANCE_ACCEPTED"} /\ th[o].pc = "idle"

\* The task lock: a decision under way holds it, and so does the observer while it persists.
LockInv ==
  /\ \A o \in Ops : ~At(o, {"idle"}) => lock = o
  /\ At(Observer, Projecting) => lock = Observer
  /\ At(Observer, {"ack", "acknotes", "move"}) => Observed
  /\ At(Observer, {"ask", "asknote"}) => inst = "WAITING_APPROVAL"
  /\ mode = "down" => lock = None
  /\ mode # "up" => At(Observer, {"idle"})

\* The Agent: the advances it took lie at or before the gate it is at, one for each operation.
AgentInv ==
  /\ \A k \in Numbers : passed[k] # None =>
       /\ k <= agent.at
       /\ k = agent.at => agent.phase \in {"active", "lagging", "failed", "dead"}
  /\ \A o \in Ops : o \in agent.taken <=> \E k \in Numbers : passed[k] = o
  /\ \A j, k \in Numbers : (passed[j] = passed[k] /\ passed[k] # None) => j = k
  /\ agent.phase = "active" => agent.job = passed[agent.at]
  /\ agent.phase = "dead" => ~Observed

\* The intent keeps up with the place of its decision, and names an approval that was asked for.
IntentInv ==
  \A o \in Ops :
    /\ At(o, Advancing) => Approves(o) /\ intent[o].state = "PREPARED"
    /\ At(o, Concluding) => intent[o].state = IF Approves(o) THEN "ADVANCE_ACCEPTED" ELSE "PREPARED"
    /\ intent[o].state = "ADVANCE_ACCEPTED" => Approves(o)
    /\ Approves(o) /\ intent[o].state # "NONE" =>
         \E k \in Numbers : Gates[k].step = intent[o].gate[1] /\ Gates[k].action = Command[o].action
    /\ intent[o].state # "NONE" => gate[intent[o].gate].status # "NONE"
    /\ (Approves(o) /\ (intent[o].state \in {"ADVANCE_ACCEPTED", "COMMITTED"} \/ At(o, {"record", "accepted"})))
         => o \in agent.taken
    /\ (intent[o].state = "COMMITTED" \/ At(o, {"handle", "tell", "finish"})) => gate[intent[o].gate].by = o
    /\ ~Approves(o) /\ At(o, {"commit", "handle", "tell", "finish"}) => ~Observed

\* Who advanced a gate approved that gate.
PassedInv ==
  \A k \in Numbers : passed[k] # None =>
    /\ Approves(passed[k]) /\ intent[passed[k]].state # "NONE"
    /\ Gates[k].action = Command[passed[k]].action

\* A verdict is the one of the operation that wrote it, and its instance has moved.
GateInv ==
  \A g \in Ids :
    /\ gate[g].status \in {"NONE", "PENDING"} <=> gate[g].by = None
    /\ \A o \in Ops : gate[g].by = o =>
         /\ gate[g].status = Command[o].verdict /\ intent[o].gate = g
         /\ Approves(o) => intent[o].state \in {"ADVANCE_ACCEPTED", "COMMITTED"}
         /\ ~Approves(o) => ~Observed

\* One approval is open at a time, and the observer is about to ask for the same one again.
OpenInv ==
  /\ \A g, h \in Pending : g = h
  /\ At(Observer, {"acknotes", "move", "ask", "asknote"}) =>
       \A g \in Pending : th[Observer].seen.status = "WAITING_APPROVAL" /\ g = IdOf(Observer)

\* Recovery is still to look after the operation.
ToRecover(o) == mode = "down" \/ (mode = "recovering" /\ o \in todo)

\* An accepted advance is being completed or looked after, or its approval was closed by somebody
\* else.
AcceptInv ==
  \A o \in Ops : Observed /\ intent[o].state = "ADVANCE_ACCEPTED" =>
    lock = o \/ ToRecover(o) \/ gate[intent[o].gate].by \notin {None, o}

\* The inductive invariant of the decisions.
DecisionInv == LockInv /\ AgentInv /\ IntentInv /\ PassedInv /\ GateInv /\ OpenInv /\ AcceptInv

-----------------------------------------------------------------------------
(* Threads.                                                                *)

\* A choice from a set that is not empty is one of its elements.  The lemma is Zenon's, and
\* the choice is never expanded elsewhere.
LEMMA PickIs ==
  ASSUME NEW S, S # {} PROVE Pick(S) \in S
<1>1. \E x : x \in S
  BY Zenon
<1>. QED
  BY Zenon, <1>1 DEF Pick

\* Thread t goes on as x says.
Moves(t, x) == th' = [th EXCEPT ![t] = x]
Goes(t, label) == [pc |-> label, copy |-> th[t].copy, seen |-> th[t].seen]

LEMMA ThreadRecords ==
  /\ \A x \in Thread : x.pc \in Labels /\ x.copy \in Copy /\ x.seen \in Sight
  /\ \A l \in Labels, c \in Copy, s \in Sight : [pc |-> l, copy |-> c, seen |-> s] \in Thread
  BY DEF Thread

LEMMA IdleThread == Idle \in Thread /\ Observes(Idle) /\ Decides(Idle)
  BY ConstAssumption DEF Idle, NoCopy, Unseen, Thread, Copy, Sight, Labels, Observes, Decides, Watching, Projecting, Advancing, Concluding, Reports

LEMMA GoMoves ==
  ASSUME ThreadTypes, NEW t \in Threads, NEW label \in Labels, Go(t, label)
  PROVE  Moves(t, Goes(t, label)) /\ lock' = lock /\ Goes(t, label) \in Thread
<1>1. th[t] \in Thread
  BY DEF ThreadTypes
<1>2. [th[t] EXCEPT !.pc = label] = Goes(t, label)
  BY <1>1 DEF Thread, Goes
<1>3. th' = [th EXCEPT ![t] = [th[t] EXCEPT !.pc = label]]
  BY DEF Go
<1>. QED
  BY <1>1, <1>2, <1>3, ThreadRecords DEF Moves, Goes, Go

LEMMA MovesFacts ==
  ASSUME ThreadTypes, NEW t \in Threads, NEW x \in Thread, Moves(t, x)
  PROVE  /\ th' \in [Threads -> Thread] /\ th'[t] = x
         /\ \A u \in Threads \ {t} : th'[u] = th[u]
  BY DEF Moves, ThreadTypes

LEMMA ObserverTypes ==
  ASSUME ThreadTypes, NEW x \in Thread, Moves(Observer, x), Observes(x)
  PROVE  ThreadTypes'
<1>1. Observer \in Threads /\ Ops \subseteq Threads \ {Observer}
  BY IdAssumption DEF Threads
<1>. QED
  BY <1>1, MovesFacts DEF ThreadTypes

LEMMA DecisionTypes ==
  ASSUME ThreadTypes, NEW o \in Ops, NEW x \in Thread, Moves(o, x), Decides(x)
  PROVE  ThreadTypes'
<1>1. Observer \in Threads \ {o} /\ Ops \subseteq Threads
  BY IdAssumption DEF Threads
<1>2. \A q \in Ops : Decides(th'[q])
  BY <1>1, MovesFacts DEF ThreadTypes
<1>. QED
  BY <1>1, <1>2, MovesFacts DEF ThreadTypes

LEMMA TypeInit == Init => TypeInv
<1> SUFFICES ASSUME Init PROVE TypeInv
  OBVIOUS
<1>1. AgentTypes
  BY ConstAssumption DEF Init, AgentTypes, Phases, Numbers
<1>2. GateTypes /\ IntentTypes
  BY IdAssumption DEF Init, GateTypes, IntentTypes
<1>3. AdapterTypes /\ ControlTypes
  BY ConstAssumption DEF Init, AdapterTypes, ControlTypes, Jobs
<1>4. FlagTypes
  BY DEF Init, FlagTypes
<1>5. ThreadTypes /\ PlaceTypes
  BY IdleThread DEF Init, ThreadTypes, PlaceTypes, At, Threads, Idle
<1>. QED
  BY <1>1, <1>2, <1>3, <1>4, <1>5 DEF TypeInv, FileTypes

\* The moves of the Agent.
LEMMA TypeAgent ==
  ASSUME TypeInv, ReachGate \/ PassInWorkbench \/ JobEnds \/ AgentFails \/ AgentExit
  PROVE  TypeInv'
<1>1. AgentTypes'
  <2>1. agent.at \in Numbers => agent.at + 1 \in 1..(Len(Gates) + 1)
    BY ConstAssumption DEF Numbers
  <2>2. CASE ReachGate
    BY <2>2 DEF TypeInv, AgentTypes, Phases, ReachGate
  <2>3. CASE PassInWorkbench
    BY <2>1, <2>3 DEF TypeInv, AgentTypes, Phases, PassInWorkbench, Beyond
  <2>4. CASE JobEnds
    BY <2>1, <2>4 DEF TypeInv, AgentTypes, Phases, JobEnds, Beyond
  <2>5. CASE AgentFails \/ AgentExit
    BY <2>5 DEF TypeInv, AgentTypes, Phases, AgentFails, AgentExit
  <2>. QED
    BY <2>2, <2>3, <2>4, <2>5
<1>2. GateTypes' /\ IntentTypes' /\ ThreadTypes' /\ PlaceTypes'
  BY DEF TypeInv, FileTypes, GateTypes, IntentTypes, ThreadTypes, PlaceTypes, At, IdOf, ReachGate, PassInWorkbench, JobEnds, AgentFails, AgentExit, inbox
<1>3. AdapterTypes' /\ ControlTypes'
  BY DEF TypeInv, FileTypes, AdapterTypes, ControlTypes, ReachGate, PassInWorkbench, JobEnds, AgentFails, AgentExit, control
<1>4. FlagTypes'
  BY DEF TypeInv, FlagTypes, ReachGate, PassInWorkbench, JobEnds, AgentFails, AgentExit, inbox
<1>. QED
  BY <1>1, <1>2, <1>3, <1>4 DEF TypeInv, FileTypes

\* What a poll with copy c writes and sees.
Polled(c) == [job |-> c.job, settling |-> Stabilized(c).settling]
Sees(c, label) ==
  [pc |-> label, copy |-> c, seen |-> [status |-> Stabilized(c).status, at |-> agent.at]]
Reads(label) == [pc |-> label, copy |-> adapter, seen |-> Unseen]
Enters(label) == [pc |-> label, copy |-> NoCopy, seen |-> Unseen]

LEMMA PollFacts ==
  ASSUME TypeInv, NEW c \in Copy
  PROVE  /\ Raw(c) \in Reports
         /\ Stabilized(c) = [status |-> Stabilized(c).status, settling |-> Stabilized(c).settling]
         /\ Stabilized(c).status \in {Raw(c), "RUNNING"}
         /\ Stabilized(c).settling \in {0, c.settling}
         /\ [status |-> Stabilized(c).status, at |-> agent.at] \in Sight
         /\ Stabilized(c).status = "WAITING_APPROVAL" =>
              agent.at \in Numbers /\ agent.phase \in {"waiting", "active", "lagging"}
<1>1. Raw(c) \in Reports /\ (Raw(c) = "WAITING_APPROVAL" => agent.phase \in {"waiting", "active", "lagging"})
  BY DEF Raw, Reports
<1>2. \/ Stabilized(c) = [status |-> Raw(c), settling |-> 0]
      \/ Stabilized(c) = [status |-> "RUNNING", settling |-> c.settling]
  BY DEF Stabilized
<1>3. agent.phase \in {"waiting", "active", "lagging"} => agent.at \in Numbers
  BY DEF TypeInv, AgentTypes
<1>4. agent.at \in 0..(Len(Gates) + 1)
  BY ConstAssumption DEF TypeInv, AgentTypes
<1>5. Stabilized(c).status \in Reports /\ "RUNNING" # "WAITING_APPROVAL"
  BY <1>1, <1>2 DEF Reports
<1>. QED
  BY <1>1, <1>2, <1>3, <1>4, <1>5 DEF Sight

LEMMA PolledTypes ==
  ASSUME TypeInv, NEW c \in Copy, c.job \in Jobs
  PROVE  Polled(c) \in [job : Jobs, settling : 0..Len(Gates)]
<1>1. c.settling \in 0..Len(Gates) /\ 0 \in 0..Len(Gates)
  BY ConstAssumption DEF Copy
<1>2. Stabilized(c).settling \in 0..Len(Gates)
  BY <1>1, PollFacts
<1>. QED
  BY <1>2 DEF Polled

LEMMA ReadMoves ==
  ASSUME TypeInv, NEW t \in Threads, NEW label \in Labels, ReadState(t, label)
  PROVE  /\ Moves(t, Reads(label)) /\ Reads(label) \in Thread
         /\ adapter \in Copy /\ adapter.job # None
<1>1. adapter \in Copy /\ adapter.job # None
  BY IdAssumption DEF TypeInv, FileTypes, AdapterTypes, Copy
<1>2. Unseen \in Sight
  BY ConstAssumption DEF Unseen, Sight, Reports
<1>. QED
  BY <1>1, <1>2, ThreadRecords DEF ReadState, Reads, Moves

LEMMA WritePlaceAndSight ==
  ASSUME NEW x \in Thread, NEW label, NEW s
  PROVE  [[x EXCEPT !.pc = label] EXCEPT !.seen = s] = [pc |-> label, copy |-> x.copy, seen |-> s]
<1>1. [x EXCEPT !.pc = label] = [pc |-> label, copy |-> x.copy, seen |-> x.seen]
  BY DEF Thread
<1>2. [[pc |-> label, copy |-> x.copy, seen |-> x.seen] EXCEPT !.seen = s]
        = [pc |-> label, copy |-> x.copy, seen |-> s]
  OBVIOUS
<1>. QED
  BY <1>1, <1>2

LEMMA PollMoves ==
  ASSUME TypeInv, NEW t \in Threads, NEW label \in Labels,
         th' = [th EXCEPT ![t].pc = label, ![t].seen = Seen(t)]
  PROVE  Moves(t, Sees(th[t].copy, label)) /\ Sees(th[t].copy, label) \in Thread
<1>1. th[t] \in Thread /\ th[t].copy \in Copy /\ th \in [Threads -> Thread]
  BY ThreadRecords DEF TypeInv, ThreadTypes
<1>2. Seen(t) = [status |-> Stabilized(th[t].copy).status, at |-> agent.at]
  BY DEF Seen
<1>3. [[th[t] EXCEPT !.pc = label] EXCEPT !.seen = Seen(t)] = Sees(th[t].copy, label)
  <2>1. [[th[t] EXCEPT !.pc = label] EXCEPT !.seen = Seen(t)]
          = [pc |-> label, copy |-> th[t].copy, seen |-> Seen(t)]
    BY <1>1, WritePlaceAndSight
  <2>. QED
    BY <2>1, <1>2 DEF Sees
<1>4. th' = [th EXCEPT ![t] = [[th[t] EXCEPT !.pc = label] EXCEPT !.seen = Seen(t)]]
  BY <1>1
<1>. QED
  BY <1>1, <1>3, <1>4, PollFacts, ThreadRecords DEF Moves, Sees

LEMMA EnterMoves ==
  ASSUME TypeInv, NEW o \in Ops, NEW state, Enter(o, state)
  PROVE  /\ Moves(o, Enters(Entry(o, state))) /\ Enters(Entry(o, state)) \in Thread
         /\ lock' = o /\ Entry(o, state) \in {"advance", "decide"}
<1>1. Entry(o, state) \in {"advance", "decide"}
  BY DEF Entry
<1>2. [Idle EXCEPT !.pc = Entry(o, state)] = Enters(Entry(o, state))
  BY DEF Idle, Enters
<1>3. NoCopy \in Copy /\ Unseen \in Sight
  BY ConstAssumption DEF NoCopy, Unseen, Copy, Sight
<1>4. Entry(o, state) \in Labels
  BY <1>1 DEF Labels, Advancing, Concluding
<1>. QED
  BY <1>1, <1>2, <1>3, <1>4, ThreadRecords DEF Enter, Moves, Enters

LEMMA GoObserves ==
  ASSUME TypeInv, NEW label
  PROVE  LET x == Goes(Observer, label) IN
         /\ x.pc = label /\ x.copy = th[Observer].copy /\ x.seen = th[Observer].seen
         /\ (/\ th[Observer].pc \in Watching
             /\ label \in Watching
             /\ label \in {"ask", "asknote"} => th[Observer].seen.status = "WAITING_APPROVAL")
            => Observes(x)
  BY DEF Goes, Observes, TypeInv, ThreadTypes

\* The place of the observer matters to the approval it is about to announce only.
LEMMA ObserverPlaces ==
  ASSUME TypeInv, NEW x \in Thread, Moves(Observer, x), intent' = intent,
         x.pc = "asknote" => gate'[<<Gates[x.seen.at].step, x.copy.job>>].status # "NONE"
  PROVE  PlaceTypes'
<1>1. Observer \in Threads /\ Ops \subseteq Threads \ {Observer}
  BY IdAssumption DEF Threads
<1>2. th'[Observer] = x /\ \A o \in Ops : th'[o] = th[o]
  BY <1>1, MovesFacts DEF TypeInv
<1>. QED
  BY <1>2 DEF TypeInv, PlaceTypes, At, IdOf

LEMMA ObserverPosition ==
  ASSUME TypeInv
  PROVE  /\ Observer \in Threads /\ th[Observer] \in Thread
         /\ th[Observer].copy \in Copy /\ th[Observer].seen \in Sight
         /\ th[Observer].seen.status = "WAITING_APPROVAL" /\ th[Observer].copy.job # None => IdOf(Observer) \in Ids
<1>1. Observer \in Threads /\ th[Observer] \in Thread
  BY DEF Threads, TypeInv, ThreadTypes
<1>2. th[Observer].seen.status = "WAITING_APPROVAL" => th[Observer].seen.at \in Numbers
  BY DEF TypeInv, ThreadTypes, Observes
<1>3. th[Observer].copy.job # None => th[Observer].copy.job \in Jobs
  BY <1>1 DEF Thread, Copy
<1>. QED
  BY <1>1, <1>2, <1>3, ThreadRecords DEF IdOf, Ids, Steps

LEMMA TypeObserves ==
  ASSUME TypeInv, Observe \/ ObservePoll
  PROVE  TypeInv'
<1>1. Observer \in Threads /\ th[Observer].copy \in Copy /\ {"poll", "enter"} \subseteq Labels
  BY ObserverPosition DEF Labels, Watching
<1>2. CASE Observe
  <2>1. Moves(Observer, Reads("poll")) /\ Reads("poll") \in Thread /\ adapter \in Copy /\ adapter.job # None
    BY <1>1, <1>2, ReadMoves DEF Observe
  <2>2. Observes(Reads("poll")) /\ Reads("poll").pc = "poll"
    BY <2>1 DEF Observes, Reads, Unseen, Watching, Projecting
  <2>3. ThreadTypes' /\ PlaceTypes'
    BY <1>2, <2>1, <2>2, ObserverTypes, ObserverPlaces DEF TypeInv, Observe
  <2>4. AgentTypes' /\ FileTypes' /\ ControlTypes'
    BY <1>2 DEF Observe, ReadState, TypeInv, AgentTypes, FileTypes, GateTypes, IntentTypes, AdapterTypes, ControlTypes, external, inbox, control
  <2>5. FlagTypes'
    BY <1>2 DEF Observe, TypeInv, FlagTypes, inbox
  <2>. QED
    BY <2>3, <2>4, <2>5 DEF TypeInv
<1>3. CASE ObservePoll /\ Alive
  <2> DEFINE c == th[Observer].copy
  <2>1. th' = [th EXCEPT ![Observer].pc = "enter", ![Observer].seen = Seen(Observer)] /\ Poll(Observer)
    BY <1>3 DEF ObservePoll
  <2>2. Moves(Observer, Sees(c, "enter")) /\ Sees(c, "enter") \in Thread
    BY <1>1, <2>1, PollMoves
  <2>3. c.job # None /\ c.job \in Jobs
    BY <1>1, <1>3 DEF ObservePoll, Running, TypeInv, ThreadTypes, Observes, Copy
  <2>4. Observes(Sees(c, "enter")) /\ Sees(c, "enter").pc = "enter"
    BY <1>1, <2>3, PollFacts DEF Observes, Sees, Watching, Projecting, Reports
  <2>5. ThreadTypes' /\ PlaceTypes'
    BY <1>3, <2>2, <2>4, ObserverTypes, ObserverPlaces DEF TypeInv, ObservePoll
  <2>6. adapter' \in [job : Jobs, settling : 0..Len(Gates)]
    BY <1>1, <2>1, <2>3, PolledTypes DEF Poll, Polled
  <2>7. AgentTypes' /\ FileTypes' /\ ControlTypes'
    BY <1>3, <2>6 DEF ObservePoll, TypeInv, AgentTypes, FileTypes, GateTypes, IntentTypes, AdapterTypes, ControlTypes, external, inbox, control
  <2>8. FlagTypes'
    BY <1>3 DEF ObservePoll, TypeInv, FlagTypes, inbox
  <2>. QED
    BY <2>5, <2>7, <2>8 DEF TypeInv
<1>4. CASE ObservePoll /\ ~Alive
  <2>1. Moves(Observer, Idle) /\ adapter' = adapter
    BY <1>4 DEF ObservePoll, Moves
  <2>2. ThreadTypes' /\ PlaceTypes'
    BY <1>4, <2>1, IdleThread, ObserverTypes, ObserverPlaces DEF TypeInv, ObservePoll, Idle
  <2>3. AgentTypes' /\ FileTypes' /\ ControlTypes'
    BY <1>4, <2>1 DEF ObservePoll, TypeInv, AgentTypes, FileTypes, GateTypes, IntentTypes, AdapterTypes, ControlTypes, external, inbox, control
  <2>4. FlagTypes'
    BY <1>4 DEF ObservePoll, TypeInv, FlagTypes, inbox
  <2>. QED
    BY <2>2, <2>3, <2>4 DEF TypeInv
<1>. QED
  BY <1>2, <1>3, <1>4

\* A step of the observer that only moves on.
LEMMA ObserverGoes ==
  ASSUME TypeInv, NEW label \in Watching, Go(Observer, label), th[Observer].pc \in Watching, intent' = intent,
         label \in {"ask", "asknote"} => th[Observer].seen.status = "WAITING_APPROVAL",
         label = "asknote" => gate'[IdOf(Observer)].status # "NONE"
  PROVE  ThreadTypes' /\ PlaceTypes' /\ lock' = lock
<1> DEFINE x == Goes(Observer, label)
<1>1. label \in Labels
  BY DEF Labels
<1>2. Moves(Observer, x) /\ x \in Thread /\ lock' = lock
  BY <1>1, GoMoves, ObserverPosition DEF TypeInv
<1>3. Observes(x) /\ x.pc = label /\ <<Gates[x.seen.at].step, x.copy.job>> = IdOf(Observer)
  BY GoObserves DEF IdOf
<1> HIDE DEF x
<1>. QED
  BY <1>2, <1>3, ObserverTypes, ObserverPlaces DEF TypeInv

LEMMA ObserverReturns ==
  ASSUME TypeInv, Return(Observer), intent' = intent
  PROVE  ThreadTypes' /\ PlaceTypes' /\ lock' \in {lock, None}
<1>1. Moves(Observer, Idle) /\ lock' \in {lock, None}
  BY DEF Return, Moves
<1>2. Idle.pc = "idle"
  BY DEF Idle
<1>. QED
  BY <1>1, <1>2, IdleThread, ObserverTypes, ObserverPlaces DEF TypeInv

\* What may be written over an approval.
LEMMA GateWrites ==
  ASSUME TypeInv, NEW g \in Ids, NEW s \in {"PENDING", "APPROVED", "REJECTED"}, NEW b \in Threads \cup {None},
         gate' = [gate EXCEPT ![g] = [status |-> s, by |-> b]], note' = note
  PROVE  GateTypes'
  BY DEF TypeInv, FileTypes, GateTypes

LEMMA GateAsks ==
  ASSUME TypeInv, NEW g \in Ids, gate' = [gate EXCEPT ![g].status = "PENDING"], note' = note
  PROVE  GateTypes' /\ gate'[g].status # "NONE"
  BY DEF TypeInv, FileTypes, GateTypes

LEMMA NoteWrites ==
  ASSUME TypeInv, NEW g \in Ids, NEW n \in {"NONE", "OPEN", "HANDLED"},
         note' = [note EXCEPT ![g] = n], gate' = gate, gate[g].status = "NONE" => n = "NONE"
  PROVE  GateTypes'
  BY DEF TypeInv, FileTypes, GateTypes

LEMMA TypeProject == ASSUME TypeInv, Project PROVE TypeInv'
<1>1. AgentTypes' /\ GateTypes' /\ IntentTypes' /\ adapter' = adapter
  BY DEF Project, TypeInv, AgentTypes, FileTypes, GateTypes, IntentTypes, external, inbox
<1>2. inst' \in {inst, "RUNNING"} /\ (fresh' = fresh \/ fresh' = FALSE) /\ failNote' = failNote
  BY DEF Project, inbox
<1>3. AdapterTypes' /\ FlagTypes'
  BY <1>1, <1>2 DEF TypeInv, FileTypes, AdapterTypes, FlagTypes
<1>4. intent' = intent /\ th[Observer].pc = "enter" /\ Observer \in Threads
  BY DEF Project, Running, Threads
<1>5. ASSUME Return(Observer) PROVE ThreadTypes' /\ PlaceTypes' /\ lock' \in {lock, None, Observer}
  BY <1>4, <1>5, ObserverReturns
<1>6. ASSUME th' = [th EXCEPT ![Observer].pc = "ack"], lock' = Observer
      PROVE  ThreadTypes' /\ PlaceTypes' /\ lock' \in {lock, None, Observer}
  <2> DEFINE x == Goes(Observer, "ack")
  <2>1. th[Observer] \in Thread /\ "ack" \in Labels
    BY ObserverPosition DEF Labels, Watching, Projecting
  <2>2. [th[Observer] EXCEPT !.pc = "ack"] = x
    BY <2>1 DEF Thread, Goes
  <2>3. Moves(Observer, x) /\ x \in Thread
    BY <1>6, <2>1, <2>2, ThreadRecords DEF Moves, Goes
  <2>4. Observes(x) /\ x.pc = "ack"
    BY <1>4, GoObserves DEF Watching, Projecting
  <2> HIDE DEF x
  <2>. QED
    BY <1>4, <1>6, <2>3, <2>4, ObserverTypes, ObserverPlaces DEF TypeInv
<1>7. ThreadTypes' /\ PlaceTypes' /\ lock' \in {lock, None, Observer}
  BY <1>5, <1>6 DEF Project
<1>8. ControlTypes'
  BY <1>4, <1>7 DEF Project, TypeInv, ControlTypes, control
<1>. QED
  BY <1>1, <1>3, <1>7, <1>8 DEF TypeInv, FileTypes

LEMMA TypePersisting == ASSUME TypeInv, Persisting PROVE TypeInv'
<1> USE DEF Watching, Projecting
<1>1. AgentTypes' /\ IntentTypes' /\ adapter' = adapter /\ intent' = intent
  BY DEF Persisting, Acknowledge, AcknowledgeNotes, MoveInstance, EnsureApproval, EnsureNotification, TellFailure,
         TypeInv, AgentTypes, FileTypes, IntentTypes, external
<1>2. FlagTypes'
  BY DEF Persisting, Acknowledge, AcknowledgeNotes, MoveInstance, EnsureApproval, EnsureNotification, TellFailure,
         TypeInv, FlagTypes, inbox
<1>3. mode' = mode /\ todo' = todo /\ crashes' = crashes /\ exits' = exits
  BY DEF Persisting, Acknowledge, AcknowledgeNotes, MoveInstance, EnsureApproval, EnsureNotification, TellFailure, control
<1>4. AdapterTypes' /\ GateTypes' /\ ThreadTypes' /\ PlaceTypes' /\ lock' \in {lock, None}
  <2> DEFINE s == th[Observer].seen.status
             g == IdOf(Observer)
  <2>1. th[Observer].pc \in Watching => s \in Reports /\ th[Observer].copy.job # None
    BY DEF TypeInv, ThreadTypes, Observes
  <2>2. th[Observer].pc \in {"ask", "asknote"} => s = "WAITING_APPROVAL" /\ g \in Ids
    BY <2>1, ObserverPosition DEF TypeInv, ThreadTypes, Observes
  <2>3. CASE Acknowledge
    <3> DEFINE h == Pick(Others)
    <3>1. Others # {} => h \in Ids
      BY PickIs DEF Others, Pending
    <3>2. inst' = inst /\ note' = note /\ th[Observer].pc = "ack" /\ Observer \in Threads
      BY <2>3 DEF Acknowledge, Running, Threads
    <3>3. CASE Others = {}
      <4>1. Go(Observer, "acknotes") /\ gate' = gate
        BY <2>3, <3>3 DEF Acknowledge
      <4>. QED
        BY <1>1, <3>2, <4>1, ObserverGoes DEF TypeInv, FileTypes, AdapterTypes, GateTypes
    <3>4. CASE Others # {}
      <4>1. gate' = [gate EXCEPT ![h] = [status |-> "APPROVED", by |-> Observer]] /\ th' = th /\ lock' = lock
        BY <2>3, <3>4 DEF Acknowledge
      <4>2. GateTypes'
        BY <3>1, <3>2, <3>4, <4>1, GateWrites
      <4>3. AdapterTypes' /\ ThreadTypes' /\ PlaceTypes'
        BY <1>1, <3>2, <4>1 DEF TypeInv, FileTypes, AdapterTypes, ThreadTypes, PlaceTypes, At
      <4>. QED
        BY <4>1, <4>2, <4>3
    <3>. QED
      BY <3>3, <3>4
  <2>4. CASE AcknowledgeNotes
    <3> DEFINE h == Pick(StillOpen)
    <3>1. StillOpen # {} => h \in Ids /\ note[h] = "OPEN"
      BY PickIs DEF StillOpen
    <3>2. inst' = inst /\ gate' = gate /\ th[Observer].pc = "acknotes"
      BY <2>4 DEF AcknowledgeNotes, Running
    <3>3. CASE StillOpen = {}
      <4>1. Go(Observer, "move") /\ note' = note
        BY <2>4, <3>3 DEF AcknowledgeNotes
      <4>. QED
        BY <1>1, <3>2, <4>1, ObserverGoes DEF TypeInv, FileTypes, AdapterTypes, GateTypes
    <3>4. CASE StillOpen # {}
      <4>1. note' = [note EXCEPT ![h] = "HANDLED"] /\ th' = th /\ lock' = lock
        BY <2>4, <3>4 DEF AcknowledgeNotes
      <4>2. GateTypes'
        BY <3>1, <3>2, <3>4, <4>1, NoteWrites DEF TypeInv, FileTypes, GateTypes
      <4>3. AdapterTypes' /\ ThreadTypes' /\ PlaceTypes'
        BY <1>1, <3>2, <4>1 DEF TypeInv, FileTypes, AdapterTypes, ThreadTypes, PlaceTypes, At, IdOf
      <4>. QED
        BY <4>1, <4>2, <4>3
    <3>. QED
      BY <3>3, <3>4
  <2>5. CASE MoveInstance
    <3>1. inst' = s /\ gate' = gate /\ note' = note /\ th[Observer].pc = "move"
      BY <2>5 DEF MoveInstance, Running, inbox
    <3>2. AdapterTypes' /\ GateTypes'
      BY <1>1, <2>1, <3>1 DEF TypeInv, FileTypes, AdapterTypes, GateTypes, Reports
    <3>3. \/ s = "WAITING_APPROVAL" /\ Go(Observer, "ask")
          \/ Go(Observer, "fail")
          \/ Return(Observer)
      BY <2>5 DEF MoveInstance
    <3>. QED
      BY <1>1, <3>1, <3>2, <3>3, ObserverGoes, ObserverReturns
  <2>6. CASE EnsureApproval
    <3>1. Go(Observer, "asknote") /\ note' = note /\ inst' = inst /\ th[Observer].pc = "ask"
      BY <2>6 DEF EnsureApproval, Running
    <3>2. GateTypes' /\ gate'[g].status # "NONE"
      BY <2>2, <2>6, <3>1, GateAsks DEF EnsureApproval, TypeInv, FileTypes, GateTypes
    <3>3. AdapterTypes'
      BY <1>1, <3>1 DEF TypeInv, FileTypes, AdapterTypes
    <3>. QED
      BY <1>1, <2>2, <3>1, <3>2, <3>3, ObserverGoes
  <2>7. CASE EnsureNotification
    <3>1. Return(Observer) /\ gate' = gate /\ inst' = inst /\ th[Observer].pc = "asknote"
      BY <2>7 DEF EnsureNotification, Running
    <3>2. gate[g].status # "NONE" /\ g \in Ids
      BY <2>2, <3>1 DEF TypeInv, PlaceTypes, At
    <3>3. GateTypes'
      <4> DEFINE n == IF note[g] = "NONE" THEN "OPEN" ELSE note[g]
      <4>1. note' = [note EXCEPT ![g] = n]
        BY <2>7, <3>2 DEF EnsureNotification
      <4>2. n \in {"NONE", "OPEN", "HANDLED"}
        BY <3>2 DEF TypeInv, FileTypes, GateTypes
      <4>. QED
        BY <3>1, <3>2, <4>1, <4>2, NoteWrites
    <3>4. AdapterTypes'
      BY <1>1, <3>1 DEF TypeInv, FileTypes, AdapterTypes
    <3>. QED
      BY <1>1, <3>1, <3>3, <3>4, ObserverReturns
  <2>8. CASE TellFailure
    <3>1. Return(Observer) /\ gate' = gate /\ note' = note /\ inst' = inst
      BY <2>8 DEF TellFailure
    <3>2. AdapterTypes' /\ GateTypes'
      BY <1>1, <3>1 DEF TypeInv, FileTypes, AdapterTypes, GateTypes
    <3>. QED
      BY <1>1, <3>1, <3>2, ObserverReturns
  <2>. QED
    BY <2>3, <2>4, <2>5, <2>6, <2>7, <2>8 DEF Persisting
<1>5. ControlTypes'
  BY <1>3, <1>4 DEF TypeInv, ControlTypes
<1>. QED
  BY <1>1, <1>2, <1>4, <1>5 DEF TypeInv, FileTypes

\* Approvals and intents that exist stay.
Stays ==
  /\ \A g \in Ids : gate[g].status # "NONE" => gate'[g].status # "NONE"
  /\ \A o \in Ops : intent[o].state # "NONE" => intent'[o].state # "NONE"

LEMMA DecisionPlaces ==
  ASSUME TypeInv, NEW o \in Ops, NEW x \in Thread, Moves(o, x), Stays,
         x.pc # "idle" => intent'[o].state # "NONE"
  PROVE  PlaceTypes'
<1>1. o \in Threads /\ Observer \in Threads \ {o}
  BY IdAssumption DEF Threads
<1>2. th'[o] = x /\ \A u \in Threads \ {o} : th'[u] = th[u]
  BY <1>1, MovesFacts DEF TypeInv
<1>3. At(Observer, {"asknote"})' => gate'[IdOf(Observer)'].status # "NONE"
  <2>1. At(Observer, {"asknote"})' => At(Observer, {"asknote"}) /\ IdOf(Observer)' = IdOf(Observer)
    BY <1>1, <1>2 DEF At, IdOf
  <2>2. At(Observer, {"asknote"}) => IdOf(Observer) \in Ids /\ gate[IdOf(Observer)].status # "NONE"
    BY ObserverPosition DEF TypeInv, ThreadTypes, PlaceTypes, Observes, At, Watching, Projecting
  <2>. QED
    BY <2>1, <2>2 DEF Stays
<1>4. \A q \in Ops : ~At(q, {"idle"})' => intent'[q].state # "NONE"
  BY <1>1, <1>2 DEF At, Stays, TypeInv, PlaceTypes, Threads
<1>. QED
  BY <1>3, <1>4 DEF PlaceTypes

\* A step of a decision that only moves on, or ends.
LEMMA DecisionGoes ==
  ASSUME TypeInv, NEW o \in Ops, NEW label \in Advancing \cup Concluding, Go(o, label), Stays,
         th[o].pc # "idle", label # "check",
         label \in {"post", "record"} => th[o].seen.at \in Numbers
  PROVE  ThreadTypes' /\ PlaceTypes' /\ lock' = lock
<1> DEFINE x == Goes(o, label)
<1>1. label \in Labels /\ o \in Threads
  BY DEF Labels, Threads
<1>2. Moves(o, x) /\ x \in Thread /\ lock' = lock
  BY <1>1, GoMoves DEF TypeInv
<1>3. Decides(x) /\ x.pc # "idle"
  BY DEF Goes, Decides, Advancing, Concluding
<1>4. intent'[o].state # "NONE"
  BY DEF Stays, TypeInv, PlaceTypes, At
<1> HIDE DEF x
<1>. QED
  BY <1>2, <1>3, <1>4, DecisionTypes, DecisionPlaces DEF TypeInv

LEMMA DecisionReturns ==
  ASSUME TypeInv, NEW o \in Ops, Return(o), Stays
  PROVE  ThreadTypes' /\ PlaceTypes' /\ lock' \in {lock, None}
<1>1. Moves(o, Idle) /\ lock' \in {lock, None}
  BY DEF Return, Moves
<1>2. Idle.pc = "idle"
  BY DEF Idle
<1>. QED
  BY <1>1, <1>2, IdleThread, DecisionTypes, DecisionPlaces DEF TypeInv

LEMMA DecisionEnters ==
  ASSUME TypeInv, NEW o \in Ops, NEW state, Enter(o, state), Stays, intent'[o].state # "NONE"
  PROVE  ThreadTypes' /\ PlaceTypes' /\ lock' = o
<1> DEFINE x == Enters(Entry(o, state))
<1>1. Moves(o, x) /\ x \in Thread /\ lock' = o /\ Entry(o, state) \in {"advance", "decide"}
  BY EnterMoves
<1>2. Decides(x) /\ x.pc # "idle"
  BY <1>1 DEF Enters, Decides, Advancing, Concluding
<1> HIDE DEF x
<1>. QED
  BY <1>1, <1>2, DecisionTypes, DecisionPlaces DEF TypeInv

LEMMA IntentWrites ==
  ASSUME TypeInv, NEW o \in Ops, NEW s \in {"PREPARED", "ADVANCE_ACCEPTED", "COMMITTED"},
         intent' = [intent EXCEPT ![o].state = s], intent[o].state # "NONE"
  PROVE  IntentTypes' /\ \A q \in Ops : intent[q].state # "NONE" => intent'[q].state # "NONE"
  BY DEF TypeInv, FileTypes, IntentTypes

LEMMA IntentBegins ==
  ASSUME TypeInv, NEW o \in Ops, NEW g \in Ids, intent' = [intent EXCEPT ![o] = [state |-> "PREPARED", gate |-> g]]
  PROVE  /\ IntentTypes' /\ intent'[o].state # "NONE"
         /\ \A q \in Ops : intent[q].state # "NONE" => intent'[q].state # "NONE"
  BY IdAssumption DEF TypeInv, FileTypes, IntentTypes

LEMMA TypeResolve == ASSUME TypeInv, NEW o \in Ops, Resolve(o) PROVE TypeInv'
<1>1. AgentTypes' /\ AdapterTypes' /\ GateTypes' /\ gate' = gate
  BY DEF Resolve, TypeInv, AgentTypes, FileTypes, AdapterTypes, GateTypes, external, inbox
<1>2. FlagTypes'
  BY DEF Resolve, TypeInv, FlagTypes, inbox
<1>3. mode' = mode /\ todo' = todo /\ crashes' = crashes /\ exits' = exits
  BY DEF Resolve, control
<1>4. CASE intent[o].state = "NONE"
  <2>1. PICK g \in Pending : /\ intent' = [intent EXCEPT ![o] = [state |-> "PREPARED", gate |-> g]]
                             /\ Enter(o, "PREPARED")
    BY <1>4 DEF Resolve
  <2>2. IntentTypes' /\ intent'[o].state # "NONE" /\ Stays
    BY <1>1, <2>1, IntentBegins DEF Pending, Stays
  <2>3. ThreadTypes' /\ PlaceTypes' /\ lock' = o
    BY <2>1, <2>2, DecisionEnters
  <2>4. ControlTypes'
    BY <1>3, <2>3 DEF TypeInv, ControlTypes, Threads
  <2>. QED
    BY <1>1, <1>2, <2>2, <2>3, <2>4 DEF TypeInv, FileTypes
<1>5. CASE intent[o].state # "NONE"
  <2>1. intent' = intent /\ Enter(o, intent[o].state)
    BY <1>5 DEF Resolve
  <2>2. IntentTypes' /\ Stays
    BY <1>1, <2>1 DEF TypeInv, FileTypes, IntentTypes, Stays
  <2>3. ThreadTypes' /\ PlaceTypes' /\ lock' = o
    BY <1>5, <2>1, <2>2, DecisionEnters
  <2>4. ControlTypes'
    BY <1>3, <2>3 DEF TypeInv, ControlTypes, Threads
  <2>. QED
    BY <1>1, <1>2, <2>2, <2>3, <2>4 DEF TypeInv, FileTypes
<1>. QED
  BY <1>4, <1>5

AdvanceStep(o) ==
  AdvanceReads(o) \/ AdvanceChecks(o) \/ AdvancePosts(o) \/ AdvanceRecords(o) \/ AdvanceAccepted(o)
ConcludeStep(o) ==
  MoveDecided(o) \/ CommitResolution(o) \/ HandleNotification(o) \/ TellRejection(o) \/ FinishIntent(o)

LEMMA TypeAdvance == ASSUME TypeInv, NEW o \in Ops, AdvanceStep(o) PROVE TypeInv'
<1> DEFINE T == ThreadTypes' /\ PlaceTypes' /\ lock' \in {lock, None}
<1>1. GateTypes' /\ gate' = gate /\ inst' = inst
  BY DEF AdvanceStep, AdvanceReads, AdvanceChecks, AdvancePosts, AdvanceRecords, AdvanceAccepted,
         TypeInv, FileTypes, GateTypes, inbox
<1>2. FlagTypes'
  BY DEF AdvanceStep, AdvanceReads, AdvanceChecks, AdvancePosts, AdvanceRecords, AdvanceAccepted, TypeInv, FlagTypes, inbox
<1>3. mode' = mode /\ todo' = todo /\ crashes' = crashes /\ exits' = exits
  BY DEF AdvanceStep, AdvanceReads, AdvanceChecks, AdvancePosts, AdvanceRecords, AdvanceAccepted, control
<1>4. o \in Threads /\ th[o].copy \in Copy /\ th[o].seen \in Sight /\ th[o] \in Thread /\ Decides(th[o])
  BY ThreadRecords DEF TypeInv, ThreadTypes, Threads
<1>5. th[o].pc # "idle" => intent[o].state # "NONE"
  BY DEF TypeInv, PlaceTypes, At
<1>6. CASE AdvanceReads(o)
  <2>1. th[o].pc = "advance" /\ intent' = intent /\ lock' = lock /\ ReadState(o, "check") /\ Stays
    BY <1>1, <1>6 DEF AdvanceReads, Running, Stays
  <2>2. Moves(o, Reads("check")) /\ Reads("check") \in Thread /\ adapter.job # None
    BY <1>4, <2>1, ReadMoves DEF Labels, Advancing
  <2>3. Decides(Reads("check"))
    BY <2>2 DEF Reads, Decides, Advancing
  <2>4. T
    BY <1>5, <2>1, <2>2, <2>3, DecisionTypes, DecisionPlaces DEF TypeInv
  <2>5. AgentTypes' /\ IntentTypes' /\ AdapterTypes'
    BY <1>6 DEF AdvanceReads, TypeInv, AgentTypes, FileTypes, IntentTypes, AdapterTypes, external
  <2>. QED
    BY <1>1, <1>2, <1>3, <2>4, <2>5 DEF TypeInv, FileTypes, ControlTypes
<1>7. CASE AdvanceChecks(o)
  <2>1. th[o].pc = "check" /\ intent' = intent /\ Stays
    BY <1>1, <1>7 DEF AdvanceChecks, Running, Stays
  <2>2. AgentTypes' /\ IntentTypes'
    BY <1>7 DEF AdvanceChecks, TypeInv, AgentTypes, FileTypes, IntentTypes, external
  <2>3. th[o].copy.job \in Jobs
    BY <1>4, <2>1 DEF Decides, Copy
  <2>4. AdapterTypes'
    <3>1. adapter' = adapter \/ adapter' = Polled(th[o].copy)
      BY <1>7 DEF AdvanceChecks, Poll, Polled
    <3>. QED
      BY <1>1, <1>4, <2>3, <3>1, PolledTypes DEF TypeInv, FileTypes, AdapterTypes
  <2>5. T
    <3>1. CASE Return(o)
      BY <2>1, <3>1, DecisionReturns
    <3>2. ASSUME Offered(o), lock' = lock, th' = [th EXCEPT ![o].pc = "post", ![o].seen = Seen(o)]
          PROVE  T
      <4> DEFINE x == Sees(th[o].copy, "post")
      <4>1. Moves(o, x) /\ x \in Thread
        BY <1>4, <3>2, PollMoves DEF Labels, Advancing
      <4>2. agent.at \in Numbers
        BY <1>4, <3>2, PollFacts DEF Offered, Seen
      <4>3. Decides(x) /\ x.pc # "idle"
        BY <4>2 DEF Sees, Decides, Advancing
      <4> HIDE DEF x
      <4>. QED
        BY <1>5, <2>1, <3>2, <4>1, <4>3, DecisionTypes, DecisionPlaces DEF TypeInv
    <3>. QED
      BY <1>7, <3>1, <3>2 DEF AdvanceChecks
  <2>. QED
    BY <1>1, <1>2, <1>3, <2>2, <2>4, <2>5 DEF TypeInv, FileTypes, ControlTypes
<1>8. CASE AdvancePosts(o)
  <2>1. th[o].pc = "post" /\ intent' = intent /\ adapter' = adapter /\ Stays
    BY <1>1, <1>8 DEF AdvancePosts, Running, Stays
  <2>2. Go(o, "record") \/ Return(o)
    BY <1>8 DEF AdvancePosts
  <2>3. T
    BY <1>4, <2>1, <2>2, DecisionGoes, DecisionReturns DEF Advancing, Decides
  <2>4. AgentTypes'
    <3>1. CASE UNCHANGED external
      BY <3>1 DEF TypeInv, AgentTypes, external
    <3>2. CASE /\ agent.phase = "waiting"
               /\ agent' = [agent EXCEPT !.phase = "active", !.job = o, !.taken = @ \cup {o}]
               /\ passed' = [passed EXCEPT ![agent.at] = o]
      BY <3>2 DEF TypeInv, AgentTypes, Phases
    <3>. QED
      BY <1>8, <3>1, <3>2 DEF AdvancePosts
  <2>5. IntentTypes' /\ AdapterTypes'
    BY <1>1, <2>1 DEF TypeInv, FileTypes, IntentTypes, AdapterTypes
  <2>. QED
    BY <1>1, <1>2, <1>3, <2>3, <2>4, <2>5 DEF TypeInv, FileTypes, ControlTypes
<1>9. CASE AdvanceRecords(o)
  <2>1. th[o].pc = "record" /\ intent' = intent /\ Go(o, "accepted") /\ Stays
    BY <1>1, <1>9 DEF AdvanceRecords, Running, Stays
  <2>2. T
    BY <2>1, DecisionGoes DEF Advancing
  <2>3. AdapterTypes'
    <3>1. th[o].seen.at \in 0..Len(Gates)
      BY <1>4, <2>1, ConstAssumption DEF Decides, Numbers
    <3>. QED
      BY <1>1, <1>9, <3>1 DEF AdvanceRecords, TypeInv, FileTypes, AdapterTypes, Jobs
  <2>4. AgentTypes' /\ IntentTypes'
    BY <1>9 DEF AdvanceRecords, TypeInv, AgentTypes, FileTypes, IntentTypes, external
  <2>. QED
    BY <1>1, <1>2, <1>3, <2>2, <2>3, <2>4 DEF TypeInv, FileTypes, ControlTypes
<1>10. CASE AdvanceAccepted(o)
  <2>1. th[o].pc = "accepted" /\ Go(o, "decide") /\ intent' = [intent EXCEPT ![o].state = "ADVANCE_ACCEPTED"]
    BY <1>10 DEF AdvanceAccepted, Running
  <2>2. IntentTypes' /\ Stays
    BY <1>1, <1>5, <2>1, IntentWrites DEF Stays
  <2>3. T
    BY <2>1, <2>2, DecisionGoes DEF Concluding
  <2>4. AgentTypes' /\ AdapterTypes'
    BY <1>10 DEF AdvanceAccepted, TypeInv, AgentTypes, FileTypes, AdapterTypes, external
  <2>. QED
    BY <1>1, <1>2, <1>3, <2>2, <2>3, <2>4 DEF TypeInv, FileTypes, ControlTypes
<1>. QED
  BY <1>6, <1>7, <1>8, <1>9, <1>10 DEF AdvanceStep

LEMMA TypeConclude == ASSUME TypeInv, NEW o \in Ops, ConcludeStep(o) PROVE TypeInv'
<1> DEFINE T == ThreadTypes' /\ PlaceTypes' /\ lock' \in {lock, None}
<1>1. AgentTypes' /\ adapter' = adapter
  BY DEF ConcludeStep, MoveDecided, CommitResolution, HandleNotification, TellRejection, FinishIntent,
         TypeInv, AgentTypes, external
<1>2. mode' = mode /\ todo' = todo /\ crashes' = crashes /\ exits' = exits
  BY DEF ConcludeStep, MoveDecided, CommitResolution, HandleNotification, TellRejection, FinishIntent, control
<1>3. o \in Threads /\ Decides(th[o]) /\ (th[o].pc # "idle" => intent[o].state # "NONE")
  BY DEF TypeInv, ThreadTypes, PlaceTypes, At, Threads
<1>4. intent[o].state # "NONE" => intent[o].gate \in Ids
  BY DEF TypeInv, FileTypes, IntentTypes
<1>5. FlagTypes'
  BY DEF ConcludeStep, MoveDecided, CommitResolution, HandleNotification, TellRejection, FinishIntent,
         TypeInv, FlagTypes, inbox
<1>6. CASE MoveDecided(o)
  <2>1. /\ th[o].pc = "decide" /\ intent' = intent /\ gate' = gate /\ note' = note /\ Stays
        /\ Go(o, "commit") \/ Return(o)
    BY <1>6 DEF MoveDecided, Running, Stays, inbox
  <2>2. T
    BY <2>1, DecisionGoes, DecisionReturns DEF Concluding
  <2>3. inst' \in {inst, Target(o)} /\ Target(o) \in {"RUNNING", "FAILED"}
    BY <1>6 DEF MoveDecided, Target
  <2>4. FileTypes'
    BY <1>1, <2>1, <2>3 DEF TypeInv, FileTypes, GateTypes, IntentTypes, AdapterTypes
  <2>. QED
    BY <1>1, <1>2, <1>5, <2>2, <2>4 DEF TypeInv, ControlTypes
<1>7. CASE CommitResolution(o)
  <2> DEFINE g == intent[o].gate
  <2>1. /\ th[o].pc = "commit" /\ intent' = intent /\ note' = note /\ inst' = inst
        /\ Go(o, "handle") \/ Return(o)
    BY <1>7 DEF CommitResolution, Running
  <2>2. \/ gate' = gate
        \/ gate' = [gate EXCEPT ![g] = [status |-> Command[o].verdict, by |-> o]]
    BY <1>7 DEF CommitResolution
  <2>3. g \in Ids /\ Command[o].verdict \in {"PENDING", "APPROVED", "REJECTED"} /\ o \in Threads \cup {None}
    BY <1>3, <1>4, <2>1, ConstAssumption
  <2>4. GateTypes' /\ Stays
    <3>1. CASE gate' = gate
      BY <2>1, <3>1 DEF TypeInv, FileTypes, GateTypes, Stays
    <3>2. CASE gate' = [gate EXCEPT ![g] = [status |-> Command[o].verdict, by |-> o]]
      <4>1. GateTypes'
        BY <2>1, <2>3, <3>2, GateWrites
      <4>2. Stays
        BY <2>1, <2>3, <3>2 DEF Stays, TypeInv, FileTypes, GateTypes
      <4>. QED
        BY <4>1, <4>2
    <3>. QED
      BY <2>2, <3>1, <3>2
  <2>5. T
    BY <2>1, <2>4, DecisionGoes, DecisionReturns DEF Concluding
  <2>6. FileTypes'
    BY <1>1, <2>1, <2>4 DEF TypeInv, FileTypes, IntentTypes, AdapterTypes
  <2>. QED
    BY <1>1, <1>2, <1>5, <2>5, <2>6 DEF TypeInv, ControlTypes
<1>8. CASE HandleNotification(o)
  <2> DEFINE g == intent[o].gate
             n == IF note[g] = "OPEN" THEN "HANDLED" ELSE note[g]
  <2>1. th[o].pc = "handle" /\ intent' = intent /\ gate' = gate /\ inst' = inst /\ Go(o, "tell") /\ Stays
    BY <1>8 DEF HandleNotification, Running, Stays
  <2>2. T
    BY <2>1, DecisionGoes DEF Concluding
  <2>3. GateTypes'
    <3>1. g \in Ids
      BY <1>3, <1>4, <2>1
    <3>2. note' = [note EXCEPT ![g] = n]
      BY <1>8 DEF HandleNotification
    <3>3. n \in {"NONE", "OPEN", "HANDLED"} /\ (gate[g].status = "NONE" => n = "NONE")
      BY <3>1 DEF TypeInv, FileTypes, GateTypes
    <3> HIDE DEF g, n
    <3>. QED
      BY <2>1, <3>1, <3>2, <3>3, NoteWrites
  <2>4. FileTypes'
    BY <1>1, <2>1, <2>3 DEF TypeInv, FileTypes, IntentTypes, AdapterTypes
  <2>. QED
    BY <1>1, <1>2, <1>5, <2>2, <2>4 DEF TypeInv, ControlTypes
<1>9. CASE TellRejection(o)
  <2>1. /\ th[o].pc = "tell" /\ intent' = intent /\ gate' = gate /\ note' = note /\ inst' = inst
        /\ Go(o, "finish") /\ Stays
    BY <1>9 DEF TellRejection, Running, Stays
  <2>2. T
    BY <2>1, DecisionGoes DEF Concluding
  <2>3. FileTypes'
    BY <1>1, <2>1 DEF TypeInv, FileTypes, GateTypes, IntentTypes, AdapterTypes
  <2>. QED
    BY <1>1, <1>2, <1>5, <2>2, <2>3 DEF TypeInv, ControlTypes
<1>10. CASE FinishIntent(o)
  <2>1. /\ th[o].pc = "finish" /\ gate' = gate /\ note' = note /\ inst' = inst /\ Return(o)
        /\ intent' = [intent EXCEPT ![o].state = "COMMITTED"]
    BY <1>10 DEF FinishIntent, Running, inbox
  <2>2. IntentTypes' /\ Stays
    BY <1>3, <2>1, IntentWrites DEF Stays
  <2>3. T
    BY <2>1, <2>2, DecisionReturns
  <2>4. FileTypes'
    BY <1>1, <2>1, <2>2 DEF TypeInv, FileTypes, GateTypes, AdapterTypes
  <2>. QED
    BY <1>1, <1>2, <1>5, <2>3, <2>4 DEF TypeInv, ControlTypes
<1>. QED
  BY <1>6, <1>7, <1>8, <1>9, <1>10 DEF ConcludeStep

LEMMA TypeControl == ASSUME TypeInv, TodoInv, Crash \/ Startup PROVE TypeInv'
<1>1. AgentTypes' /\ FileTypes' /\ gate' = gate /\ intent' = intent /\ Stays
  BY DEF Crash, Startup, Start, RecoverIntent, Recovered, TypeInv, AgentTypes, FileTypes, GateTypes, IntentTypes,
         AdapterTypes, Stays, external, inbox
<1>2. FlagTypes'
  BY DEF Crash, Startup, Start, RecoverIntent, Recovered, TypeInv, FlagTypes, inbox
<1>3. CASE Crash
  <2>1. th' = [t \in Threads |-> Idle] /\ Observer \in Threads /\ Ops \subseteq Threads
    BY <1>3 DEF Crash, Threads
  <2>2. ThreadTypes' /\ PlaceTypes'
    BY <2>1, IdleThread DEF ThreadTypes, PlaceTypes, At, Idle
  <2>3. ControlTypes'
    BY <1>3 DEF Crash, TypeInv, ControlTypes
  <2>. QED
    BY <1>1, <1>2, <2>2, <2>3 DEF TypeInv
<1>4. CASE Start \/ Recovered
  <2>1. ThreadTypes' /\ PlaceTypes'
    BY <1>1, <1>4 DEF Start, Recovered, TypeInv, ThreadTypes, PlaceTypes, At, IdOf
  <2>2. ControlTypes'
    BY <1>4 DEF Start, Recovered, Resumable, TypeInv, ControlTypes
  <2>. QED
    BY <1>1, <1>2, <2>1, <2>2 DEF TypeInv
<1>5. CASE RecoverIntent
  <2>1. PICK o \in todo : Enter(o, intent[o].state) /\ todo' = todo \ {o}
    BY <1>5, PickIs DEF RecoverIntent
  <2>2. o \in Ops
    BY DEF TypeInv, ControlTypes
  <2>3. intent'[o].state # "NONE"
    BY <1>1 DEF TodoInv
  <2>4. ThreadTypes' /\ PlaceTypes' /\ lock' = o
    BY <1>1, <2>1, <2>2, <2>3, DecisionEnters
  <2>5. ControlTypes'
    BY <1>5, <2>1, <2>2, <2>4 DEF RecoverIntent, TypeInv, ControlTypes, Threads
  <2>. QED
    BY <1>1, <1>2, <2>4, <2>5 DEF TypeInv
<1>. QED
  BY <1>3, <1>4, <1>5 DEF Startup

AgentStep == ReachGate \/ PassInWorkbench \/ JobEnds \/ AgentFails \/ AgentExit
ObserverStep == Observe \/ ObservePoll \/ Project \/ Persisting
DecisionStep(o) == Resolve(o) \/ AdvanceStep(o) \/ ConcludeStep(o)

LEMMA NextSteps ==
  Next <=> AgentStep \/ ObserverStep \/ (\E o \in Ops : DecisionStep(o)) \/ Crash \/ Startup
  BY DEF Next, AgentStep, AgentSteps, ObserverStep, DecisionStep, Deciding, AdvanceStep, ConcludeStep

\* Which thread a step moves.
LEMMA OthersStay ==
  ASSUME TypeInv
  PROVE  /\ AgentStep => th' = th
         /\ ObserverStep => \A o \in Ops : th'[o] = th[o]
         /\ \A o \in Ops : DecisionStep(o) => \A u \in Threads \ {o} : th'[u] = th[u]
<1>1. AgentStep => th' = th
  BY DEF AgentStep, ReachGate, PassInWorkbench, JobEnds, AgentFails, AgentExit
<1>2. ASSUME ObserverStep, NEW o \in Ops PROVE th'[o] = th[o]
  <2>1. o # Observer /\ o \in Threads /\ th \in [Threads -> Thread]
    BY IdAssumption DEF Threads, TypeInv, ThreadTypes
  <2>. QED
    BY <1>2, <2>1 DEF ObserverStep, Observe, ObservePoll, Project, Persisting, Acknowledge, AcknowledgeNotes, MoveInstance,
       EnsureApproval, EnsureNotification, TellFailure, ReadState, Go, Return
<1>3. ASSUME NEW o \in Ops, DecisionStep(o), NEW u \in Threads \ {o} PROVE th'[u] = th[u]
  <2>1. th \in [Threads -> Thread]
    BY DEF TypeInv, ThreadTypes
  <2>2. Go(o, "commit") \/ Go(o, "handle") \/ Go(o, "tell") \/ Go(o, "finish") \/ Return(o) => th'[u] = th[u]
    BY <1>3, <2>1 DEF Go, Return
  <2>3. CASE Resolve(o)
    BY <2>1, <2>3 DEF Resolve, Enter
  <2>4. CASE AdvanceStep(o)
    BY <2>1, <2>4 DEF AdvanceStep, AdvanceReads, AdvanceChecks, AdvancePosts, AdvanceRecords, AdvanceAccepted, ReadState, Go, Return
  <2>5. CASE ConcludeStep(o)
    BY <2>2, <2>5 DEF ConcludeStep, MoveDecided, CommitResolution, HandleNotification, TellRejection, FinishIntent
  <2>. QED
    BY <1>3, <2>3, <2>4, <2>5 DEF DecisionStep
<1>. QED
  BY <1>1, <1>2, <1>3

LEMMA DecidingRuns ==
  ASSUME TypeInv, NEW o \in Ops, AdvanceStep(o) \/ ConcludeStep(o)
  PROVE  th[o].pc \in Advancing \cup Concluding
  BY DEF AdvanceStep, AdvanceReads, AdvanceChecks, AdvancePosts, AdvanceRecords, AdvanceAccepted,
         ConcludeStep, MoveDecided, CommitResolution, HandleNotification, TellRejection, FinishIntent, Running, Advancing, Concluding

LEMMA ControlStays ==
  AgentStep \/ ObserverStep \/ (\E o \in Ops : DecisionStep(o)) => mode' = mode /\ todo' = todo
  BY DEF AgentStep, ReachGate, PassInWorkbench, JobEnds, AgentFails, AgentExit,
     ObserverStep, Observe, ObservePoll, Project, Persisting, Acknowledge, AcknowledgeNotes, MoveInstance,
     EnsureApproval, EnsureNotification, TellFailure, DecisionStep, Resolve, AdvanceStep, AdvanceReads, AdvanceChecks, AdvancePosts, AdvanceRecords, AdvanceAccepted,
     ConcludeStep, MoveDecided, CommitResolution, HandleNotification, TellRejection, FinishIntent, control

\* Which intent a step writes.
LEMMA IntentsStay ==
  ASSUME TypeInv
  PROVE  /\ AgentStep \/ ObserverStep \/ Crash \/ Startup => intent' = intent
         /\ \A o \in Ops : DecisionStep(o) => \A q \in Ops \ {o} : intent'[q] = intent[q]
<1>1. AgentStep \/ ObserverStep \/ Crash \/ Startup => intent' = intent
  BY DEF AgentStep, ReachGate, PassInWorkbench, JobEnds, AgentFails, AgentExit,
     ObserverStep, Observe, ObservePoll, Project, Persisting, Acknowledge, AcknowledgeNotes, MoveInstance,
     EnsureApproval, EnsureNotification, TellFailure, Crash, Startup, Start, RecoverIntent, Recovered
<1>2. ASSUME NEW o \in Ops, DecisionStep(o), NEW q \in Ops \ {o} PROVE intent'[q] = intent[q]
  <2>1. intent \in [Ops -> [state : {"NONE", "PREPARED", "ADVANCE_ACCEPTED", "COMMITTED"}, gate : Ids \cup {None}]]
    BY DEF TypeInv, FileTypes, IntentTypes
  <2>. QED
    BY <1>2, <2>1 DEF DecisionStep, Resolve, AdvanceStep, AdvanceReads, AdvanceChecks, AdvancePosts, AdvanceRecords, AdvanceAccepted,
     ConcludeStep, MoveDecided, CommitResolution, HandleNotification, TellRejection, FinishIntent
<1>. QED
  BY <1>1, <1>2

LEMMA TodoNext ==
  ASSUME TypeInv, TodoInv, Next
  PROVE  TodoInv'
<1>1. todo \subseteq Ops /\ Ops \subseteq Threads
  BY DEF TypeInv, ControlTypes, Threads
<1>2. CASE AgentStep \/ ObserverStep
  BY <1>1, <1>2, OthersStay, ControlStays, IntentsStay DEF TodoInv
<1>3. ASSUME NEW o \in Ops, DecisionStep(o) PROVE TodoInv'
  <2>1. o \notin todo /\ mode # "down"
    BY <1>3, DecidingRuns DEF TodoInv, DecisionStep, Resolve, Advancing, Concluding
  <2>. QED
    BY <1>1, <1>3, <2>1, OthersStay, ControlStays, IntentsStay DEF TodoInv
<1>4. CASE Crash
  BY <1>1, <1>4 DEF Crash, TodoInv, Idle
<1>5. CASE Start
  <2>1. \A o \in Ops : intent[o].state \in {"NONE", "PREPARED", "ADVANCE_ACCEPTED", "COMMITTED"}
    BY DEF TypeInv, FileTypes, IntentTypes
  <2>. QED
    BY <1>5, <2>1 DEF Start, TodoInv, Resumable
<1>6. CASE RecoverIntent
  <2>1. PICK o \in todo : /\ th' = [th EXCEPT ![o] = [Idle EXCEPT !.pc = Entry(o, intent[o].state)]]
                          /\ todo' = todo \ {o} /\ intent' = intent /\ mode' = mode /\ mode = "recovering"
    BY <1>6, PickIs DEF RecoverIntent, Enter
  <2>2. \A q \in Ops \ {o} : th'[q] = th[q]
    BY <1>1, <2>1 DEF TypeInv, ThreadTypes
  <2>. QED
    BY <1>1, <2>1, <2>2 DEF TodoInv
<1>7. CASE Recovered
  BY <1>7 DEF Recovered, TodoInv
<1>. QED
  BY <1>2, <1>3, <1>4, <1>5, <1>6, <1>7, NextSteps DEF Startup

\* A step that changes nothing.
LEMMA StutterKeeps ==
  ASSUME TypeInv, TodoInv, UNCHANGED vars
  PROVE  TypeInv' /\ TodoInv'
<1> USE DEF vars, external, inbox, control
<1>1. AgentTypes' /\ FileTypes'
  BY DEF TypeInv, AgentTypes, FileTypes, GateTypes, IntentTypes, AdapterTypes
<1>2. ControlTypes' /\ ThreadTypes' /\ PlaceTypes'
  BY DEF TypeInv, ControlTypes, ThreadTypes, PlaceTypes, At, IdOf
<1>3. FlagTypes'
  BY DEF TypeInv, FlagTypes
<1>4. TodoInv'
  BY DEF TodoInv
<1>. QED
  BY <1>1, <1>2, <1>3, <1>4 DEF TypeInv

LEMMA TypeNext ==
  ASSUME TypeInv, TodoInv, Next
  PROVE  TypeInv'
<1>1. CASE AgentStep
  BY <1>1, TypeAgent DEF AgentStep
<1>2. CASE ObserverStep
  BY <1>2, TypeObserves, TypeProject, TypePersisting DEF ObserverStep
<1>3. ASSUME NEW o \in Ops, DecisionStep(o) PROVE TypeInv'
  BY <1>3, TypeResolve, TypeAdvance, TypeConclude DEF DecisionStep
<1>4. CASE Crash \/ Startup
  BY <1>4, TypeControl
<1>. QED
  BY <1>1, <1>2, <1>3, <1>4, NextSteps

LEMMA TypeInvHolds == Spec => [](TypeInv /\ TodoInv)
<1>1. Init => TypeInv /\ TodoInv
  BY TypeInit DEF Init, TodoInv
<1>2. TypeInv /\ TodoInv /\ [Next]_vars => TypeInv' /\ TodoInv'
  BY TypeNext, TodoNext, StutterKeeps
<1>. QED
  BY <1>1, <1>2, PTL DEF Spec

\* The types of the files, of the Agent and of the threads.
LEMMA TypesAreOK == TypeInv => TypeOK
<1> SUFFICES ASSUME TypeInv PROVE TypeOK
  OBVIOUS
<1>1. /\ agent.at \in 1..(Len(Gates) + 1) /\ agent.job \in Ops \cup {None} /\ agent.taken \subseteq Ops
      /\ agent.phase \in Phases
  BY DEF TypeInv, AgentTypes
<1>2. \A g \in Ids : /\ gate[g].status \in {"NONE", "PENDING", "APPROVED", "REJECTED"}
                     /\ gate[g].by \in Threads \cup {None}
                     /\ note[g] \in {"NONE", "OPEN", "HANDLED"}
                     /\ gate[g].status = "NONE" => note[g] = "NONE"
  BY DEF TypeInv, FileTypes, GateTypes
<1>3. \A o \in Ops : /\ intent[o].state \in {"NONE", "PREPARED", "ADVANCE_ACCEPTED", "COMMITTED"}
                     /\ intent[o].gate \in Ids \cup {None}
                     /\ intent[o].state = "NONE" <=> intent[o].gate = None
  BY DEF TypeInv, FileTypes, IntentTypes
<1>4. /\ adapter.job \in Jobs /\ adapter.settling \in 0..Len(Gates)
      /\ inst \in {"RUNNING", "WAITING_APPROVAL", "FAILED", "CRASHED"} /\ lock \in Threads \cup {None}
  BY DEF TypeInv, FileTypes, AdapterTypes, ControlTypes
<1>5. failNote \in BOOLEAN /\ fresh \in BOOLEAN
  BY DEF TypeInv, FlagTypes
<1>. QED
  BY <1>1, <1>2, <1>3, <1>4, <1>5 DEF TypeOK, Phases

\* Every file, the Agent and every thread stay within their types.
THEOREM TypeCorrect == Spec => []TypeOK
  BY TypeInvHolds, TypesAreOK, PTL

-----------------------------------------------------------------------------
(* Decisions hold: the Agent.                                              *)

LEMMA DecisionInit == Init => DecisionInv
<1> SUFFICES ASSUME Init PROVE DecisionInv
  OBVIOUS
<1>1. /\ \A t \in Threads : th[t].pc = "idle"
      /\ Observer \in Threads /\ Ops \subseteq Threads
  BY DEF Init, Threads, Idle
<1>2. \A g \in Ids : gate[g].status = "NONE" /\ gate[g].by = None
  BY DEF Init
<1>3. \A k \in Numbers : passed[k] = None
  BY DEF Init
<1>4. \A o \in Ops : intent[o].state = "NONE" /\ intent[o].gate = None
  BY DEF Init
<1>5. /\ agent.at = 1 /\ agent.phase = "working" /\ agent.taken = {}
      /\ inst = "RUNNING" /\ mode = "up" /\ lock = None
  BY DEF Init
<1>6. None \notin Ops /\ None # First /\ Pending = {}
  BY <1>2, IdAssumption DEF Threads, Jobs, Pending
<1> USE DEF At, Projecting, Watching, Advancing, Concluding
<1>7. LockInv
  BY <1>1, <1>5 DEF LockInv
<1>8. AgentInv /\ PassedInv
  BY <1>3, <1>5, <1>6 DEF AgentInv, PassedInv
<1>9. IntentInv /\ GateInv
  BY <1>1, <1>2, <1>4, <1>6 DEF IntentInv, GateInv
<1>10. OpenInv /\ AcceptInv
  BY <1>4, <1>6 DEF OpenInv, AcceptInv
<1>. QED
  BY <1>7, <1>8, <1>9, <1>10 DEF DecisionInv

\* The numbers of gates are numbers.
LEMMA Counting ==
  ASSUME TypeInv
  PROVE  /\ agent.at \in Nat /\ \A k \in Numbers : k \in Nat /\ k # 0
         /\ agent.phase \in {"waiting", "active", "lagging"} => agent.at \in Numbers
         /\ None \notin Ops /\ None \notin Jobs /\ First \notin Ops
         /\ Observer \in Threads /\ Observer \notin Ops /\ Ops \subseteq Threads /\ Ops \subseteq Jobs /\ None # Observer
  BY IdAssumption, ConstAssumption DEF Numbers, TypeInv, AgentTypes, Threads, Jobs

\* No approval opens, and the observer stays or stops.
LEMMA OpenStays ==
  ASSUME OpenInv, Pending' \subseteq Pending,
         th'[Observer] = th[Observer] \/ th'[Observer].pc = "idle"
  PROVE  OpenInv'
  BY DEF OpenInv, At, IdOf

\* The moves of the Agent that nobody asked for.
LEMMA AgentKeeps ==
  ASSUME TypeInv, DecisionInv, ReachGate \/ PassInWorkbench \/ JobEnds \/ AgentFails
  PROVE  DecisionInv'
<1>1. UNCHANGED <<passed, inst, gate, intent, lock, th, mode, todo>>
  BY DEF ReachGate, PassInWorkbench, JobEnds, AgentFails, control, inbox
<1>2. /\ agent.at \in Nat /\ \A k \in Numbers : k \in Nat /\ k # 0
      /\ agent'.taken = agent.taken
  BY Counting DEF ReachGate, PassInWorkbench, JobEnds, AgentFails, Beyond, TypeInv, AgentTypes
<1>3. \/ agent.phase = "working" /\ agent'.phase = "waiting" /\ agent'.at = agent.at
      \/ /\ agent.phase \in {"waiting", "active", "lagging"} /\ agent'.phase = "working" /\ agent'.at = agent.at + 1
         /\ agent.at \in Numbers
      \/ agent.phase \in {"active", "lagging"} /\ agent'.phase = "lagging" /\ agent'.at = agent.at
      \/ agent.phase \in {"working", "active"} /\ agent'.phase = "failed" /\ agent'.at = agent.at
  <2>1. agent \in [at : 1..(Len(Gates) + 1), phase : Phases, job : Ops \cup {None}, taken : SUBSET Ops]
    BY DEF TypeInv, AgentTypes
  <2>2. Beyond(agent).at = agent.at + 1 /\ Beyond(agent).phase = "working"
    BY <2>1 DEF Beyond
  <2>3. agent.phase \in {"waiting", "active", "lagging"} => agent.at \in Numbers
    BY Counting
  <2>4. CASE ReachGate
    BY <2>1, <2>4 DEF ReachGate
  <2>5. CASE PassInWorkbench
    BY <2>2, <2>3, <2>5 DEF PassInWorkbench
  <2>6. CASE JobEnds
    <3>1. CASE agent' = Beyond(agent)
      BY <2>2, <2>3, <2>6, <3>1 DEF JobEnds
    <3>2. CASE agent' = [agent EXCEPT !.phase = "lagging", !.job = None] /\ agent' # agent
      <4>1. agent'.phase = "lagging" /\ agent'.at = agent.at
        BY <2>1, <3>2
      <4>2. agent.phase \in {"active", "lagging"}
        BY <2>6 DEF JobEnds
      <4>. QED
        BY <4>1, <4>2
    <3>. QED
      BY <2>6, <3>1, <3>2 DEF JobEnds
  <2>7. CASE AgentFails
    BY <2>1, <2>7 DEF AgentFails
  <2>. QED
    BY <2>4, <2>5, <2>6, <2>7
<1>4. LockInv' /\ IntentInv' /\ PassedInv' /\ GateInv'
  BY <1>1, <1>2 DEF DecisionInv, LockInv, IntentInv, PassedInv, GateInv, At, Observed
<1>5. AgentInv'
  BY <1>1, <1>2, <1>3 DEF DecisionInv, AgentInv, Observed
<1>6. OpenInv' /\ AcceptInv'
  BY <1>1 DEF DecisionInv, OpenInv, AcceptInv, At, IdOf, Pending, Observed, ToRecover
<1>. QED
  BY <1>4, <1>5, <1>6 DEF DecisionInv

\* The exit of the Agent ends the instance: what is left of a decision does not matter any more.
LEMMA ExitKeeps ==
  ASSUME TypeInv, DecisionInv, AgentExit
  PROVE  DecisionInv'
<1>1. UNCHANGED <<passed, gate, intent, lock, th, mode, todo>> /\ lock # Observer
  BY DEF AgentExit, inbox, Guarded
<1>2. agent'.at = agent.at /\ agent'.taken = agent.taken /\ agent'.phase = "dead"
  BY DEF AgentExit, TypeInv, AgentTypes
<1>3. ~Observed'
  BY DEF AgentExit, Observed
<1>4. ~At(Observer, Projecting)
  BY <1>1 DEF DecisionInv, LockInv
<1>5. LockInv'
  BY <1>1, <1>4 DEF DecisionInv, LockInv, At, Projecting
<1>6. IntentInv' /\ PassedInv' /\ GateInv'
  BY <1>1, <1>2, <1>3 DEF DecisionInv, IntentInv, PassedInv, GateInv, At
<1>7. AgentInv'
  BY <1>1, <1>2, <1>3 DEF DecisionInv, AgentInv
<1>8. OpenInv' /\ AcceptInv'
  BY <1>1, <1>3 DEF DecisionInv, OpenInv, AcceptInv, At, IdOf, Pending
<1>. QED
  BY <1>5, <1>6, <1>7, <1>8 DEF DecisionInv

-----------------------------------------------------------------------------
(* Decisions hold: the observer.                                           *)

\* Thread t is at a place with a copy and a sight, and no other thread moved.
Becomes(t, x) ==
  /\ th'[t] = x
  /\ \A u \in Threads \ {t} : th'[u] = th[u]

LEMMA MovesBecome ==
  ASSUME TypeInv, NEW t \in Threads
  PROVE  /\ \A x \in Thread : Moves(t, x) => Becomes(t, x)
         /\ \A label \in Labels : Go(t, label) => Becomes(t, Goes(t, label)) /\ lock' = lock
         /\ Return(t) => /\ Becomes(t, Idle)
                         /\ lock = t => lock' = None
                         /\ lock # t => lock' = lock
<1>1. ASSUME NEW x \in Thread, Moves(t, x) PROVE Becomes(t, x)
  BY <1>1, MovesFacts DEF TypeInv, Becomes
<1>2. ASSUME NEW label \in Labels, Go(t, label) PROVE Becomes(t, Goes(t, label)) /\ lock' = lock
  BY <1>1, <1>2, GoMoves DEF TypeInv
<1>3. ASSUME Return(t) PROVE Becomes(t, Idle) /\ (lock = t => lock' = None) /\ (lock # t => lock' = lock)
  BY <1>1, <1>3, IdleThread DEF Return, Moves
<1>. QED
  BY <1>1, <1>2, <1>3

\* Where the observer goes when it goes on.
LEMMA ObserverMoves ==
  ASSUME TypeInv
  PROVE  /\ \A label \in Labels : Go(Observer, label) =>
              /\ th'[Observer].pc = label /\ lock' = lock
              /\ th'[Observer].copy = th[Observer].copy /\ th'[Observer].seen = th[Observer].seen
         /\ Return(Observer) => th'[Observer].pc = "idle" /\ lock' = IF lock = Observer THEN None ELSE lock
<1>1. ASSUME NEW label \in Labels, Go(Observer, label)
      PROVE  /\ th'[Observer].pc = label /\ lock' = lock
             /\ th'[Observer].copy = th[Observer].copy /\ th'[Observer].seen = th[Observer].seen
  <2>1. Becomes(Observer, Goes(Observer, label)) /\ lock' = lock
    BY <1>1, Counting, MovesBecome
  <2>. QED
    BY <2>1 DEF Becomes, Goes
<1>2. ASSUME Return(Observer) PROVE th'[Observer].pc = "idle" /\ lock' = IF lock = Observer THEN None ELSE lock
  BY <1>2, Counting, MovesBecome DEF Becomes, Idle
<1>. QED
  BY <1>1, <1>2

\* While the task lock is free or the observer has it, no decision is under way.
LEMMA NobodyDecides ==
  ASSUME TypeInv, DecisionInv, lock \notin Ops
  PROVE  \A o \in Ops : th[o].pc = "idle"
  BY DEF DecisionInv, LockInv, At

\* An approval is asked for, or closed as passed elsewhere, or left alone.
Grows(g) ==
  \/ gate'[g] = gate[g]
  \/ gate[g].status = "NONE" /\ gate'[g].status = "PENDING" /\ gate'[g].by = gate[g].by
  \/ gate[g].status = "PENDING" /\ gate'[g].status = "APPROVED" /\ gate'[g].by = Observer

\* What the observer cannot disturb: the decisions, their intents and their verdicts.
LEMMA ObserverLeaves ==
  ASSUME TypeInv, DecisionInv, ObserverStep, Observed' => Observed,
         lock \in Ops => lock' = lock, \A g \in Ids : Grows(g)
  PROVE  AgentInv' /\ IntentInv' /\ PassedInv' /\ GateInv' /\ AcceptInv'
<1>1. UNCHANGED <<agent, passed, intent, mode, todo>>
  BY IntentsStay, ControlStays
     DEF ObserverStep, Observe, ObservePoll, Project, Persisting, Acknowledge, AcknowledgeNotes, MoveInstance,
         EnsureApproval, EnsureNotification, TellFailure, external
<1>2. \A o \in Ops : th'[o] = th[o]
  BY OthersStay
<1>3. ASSUME NEW g \in Ids
      PROVE  /\ gate[g].status # "NONE" => gate'[g].status # "NONE"
             /\ \A o \in Ops : gate'[g].by = o <=> gate[g].by = o
             /\ gate[g].by # None => gate'[g] = gate[g]
             /\ gate'[g].status \in {"NONE", "PENDING"} <=> gate'[g].by = None
  <2>1. /\ gate[g].status \in {"NONE", "PENDING"} <=> gate[g].by = None
        /\ Grows(g) /\ None \notin Ops /\ Observer \notin Ops /\ None # Observer
    BY Counting DEF DecisionInv, GateInv
  <2>. QED
    BY <2>1 DEF Grows
<1>4. \A o \in Ops : intent[o].state # "NONE" => intent[o].gate \in Ids
  BY DEF TypeInv, FileTypes, IntentTypes
<1>5. AgentInv' /\ PassedInv'
  BY <1>1 DEF DecisionInv, AgentInv, PassedInv
<1>6. IntentInv'
  <2>1. \A o \in Ops : At(o, {"handle", "tell", "finish"}) => intent[o].state # "NONE"
    BY DEF TypeInv, PlaceTypes, At
  <2>2. ASSUME NEW o \in Ops
        PROVE  /\ intent[o].state # "NONE" => gate'[intent[o].gate].status # "NONE"
               /\ (intent[o].state = "COMMITTED" \/ At(o, {"handle", "tell", "finish"})) => gate'[intent[o].gate].by = o
    BY <1>3, <1>4, <2>1 DEF DecisionInv, IntentInv
  <2>. QED
    BY <1>1, <1>2, <2>2 DEF DecisionInv, IntentInv, At
<1>7. GateInv'
  <2>1. ASSUME NEW g \in Ids, NEW o \in Ops, gate'[g].by = o
        PROVE  gate[g].by = o /\ gate'[g] = gate[g]
    BY <1>3, <2>1, Counting
  <2>. QED
    BY <1>1, <1>3, <2>1 DEF DecisionInv, GateInv
<1>8. AcceptInv'
  <2>1. \A o \in Ops : ToRecover(o) => ToRecover(o)'
    BY <1>1 DEF ToRecover
  <2>2. \A o \in Ops : intent[o].state = "ADVANCE_ACCEPTED" /\ gate[intent[o].gate].by \notin {None, o}
                         => gate'[intent[o].gate].by \notin {None, o}
    BY <1>3, <1>4
  <2>. QED
    BY <1>1, <2>1, <2>2 DEF DecisionInv, AcceptInv
<1>. QED
  BY <1>5, <1>6, <1>7, <1>8

\* A new round reads the state file and polls; it persists nothing.
LEMMA PollKeeps ==
  ASSUME TypeInv, DecisionInv, Observe \/ ObservePoll
  PROVE  DecisionInv'
<1>1. /\ UNCHANGED <<inst, gate, lock, mode>> /\ mode = "up"
      /\ th[Observer].pc \in {"idle", "poll"}
  BY DEF Observe, ObservePoll, Running, Idle, inbox, control
<1>2. th'[Observer].pc \in {"idle", "poll", "enter"}
  <2>1. "poll" \in Labels /\ "enter" \in Labels /\ Observer \in Threads
    BY Counting DEF Labels, Watching
  <2>2. CASE Observe
    <3>1. Becomes(Observer, Reads("poll"))
      BY <2>1, <2>2, ReadMoves, MovesBecome DEF Observe
    <3>. QED
      BY <3>1 DEF Becomes, Reads
  <2>3. CASE ObservePoll /\ Alive
    <3>1. th' = [th EXCEPT ![Observer].pc = "enter", ![Observer].seen = Seen(Observer)]
      BY <2>3 DEF ObservePoll
    <3>2. Becomes(Observer, Sees(th[Observer].copy, "enter"))
      BY <2>1, <3>1, PollMoves, MovesBecome
    <3>. QED
      BY <3>2 DEF Becomes, Sees
  <2>4. CASE ObservePoll /\ ~Alive
    <3>1. Becomes(Observer, Idle)
      BY <2>1, <2>4, IdleThread, MovesBecome DEF ObservePoll, Moves
    <3>. QED
      BY <3>1 DEF Becomes, Idle
  <2>. QED
    BY <2>2, <2>3, <2>4
<1>3. \A o \in Ops : th'[o] = th[o]
  BY OthersStay DEF ObserverStep
<1>4. AgentInv' /\ IntentInv' /\ PassedInv' /\ GateInv' /\ AcceptInv'
  <2>1. ObserverStep /\ (Observed' => Observed) /\ \A g \in Ids : Grows(g)
    BY <1>1 DEF ObserverStep, Observed, Grows
  <2>. QED
    BY <1>1, <2>1, ObserverLeaves
<1>5. LockInv'
  BY <1>1, <1>2, <1>3 DEF DecisionInv, LockInv, At, Projecting
<1>6. OpenInv'
  <2>1. \A g, h \in Pending' : g = h
    BY <1>1 DEF DecisionInv, OpenInv, Pending
  <2>. QED
    BY <1>2, <2>1 DEF OpenInv, At
<1>. QED
  BY <1>4, <1>5, <1>6 DEF DecisionInv

\* The observation takes the task lock, or is dropped, or repairs the instance.
LEMMA ProjectKeeps ==
  ASSUME TypeInv, DecisionInv, Project
  PROVE  DecisionInv'
<1>1. /\ UNCHANGED <<gate, mode>>
      /\ mode # "down" /\ th[Observer].pc = "enter" /\ lock = None
  BY DEF Project, Running, Free, inbox, control
<1>2. mode = "up" /\ lock \notin Ops
  BY <1>1, Counting DEF DecisionInv, LockInv, At, TypeInv, ControlTypes
<1>3. \A o \in Ops : th[o].pc = "idle" /\ th'[o] = th[o]
  BY <1>2, NobodyDecides, OthersStay DEF ObserverStep
<1>4. /\ \/ th'[Observer].pc = "idle" /\ lock' = None
         \/ th'[Observer].pc = "ack" /\ lock' = Observer /\ Observed
      /\ inst' = inst \/ (inst = "WAITING_APPROVAL" /\ inst' = "RUNNING")
  <2>1. CASE Return(Observer) /\ (UNCHANGED inst \/ (inst = "WAITING_APPROVAL" /\ inst' = "RUNNING"))
    BY <1>1, <2>1, ObserverMoves
  <2>2. CASE ~Stale /\ th' = [th EXCEPT ![Observer].pc = "ack"] /\ lock' = Observer /\ UNCHANGED <<inst, fresh>>
    <3>1. th'[Observer].pc = "ack"
      BY <2>2, ObserverPosition DEF TypeInv, ThreadTypes
    <3>. QED
      BY <2>2, <3>1 DEF Stale
  <2>. QED
    BY <2>1, <2>2 DEF Project
<1>5. Observed' <=> Observed
  BY <1>4 DEF Observed
<1>6. AgentInv' /\ IntentInv' /\ PassedInv' /\ GateInv' /\ AcceptInv'
  <2>1. ObserverStep /\ \A g \in Ids : Grows(g)
    BY <1>1 DEF ObserverStep, Grows
  <2>. QED
    BY <1>2, <1>5, <2>1, ObserverLeaves
<1>7. LockInv'
  BY <1>1, <1>2, <1>3, <1>4, <1>5 DEF DecisionInv, LockInv, At, Projecting
<1>8. OpenInv'
  <2>1. \A g, h \in Pending' : g = h
    BY <1>1 DEF DecisionInv, OpenInv, Pending
  <2>. QED
    BY <1>4, <2>1 DEF OpenInv, At
<1>. QED
  BY <1>6, <1>7, <1>8 DEF DecisionInv

\* The observer under the guard.
LEMMA PersistingFrame ==
  ASSUME TypeInv, DecisionInv, Persisting
  PROVE  /\ mode = "up" /\ mode' = mode /\ lock = Observer /\ lock \notin Ops
         /\ th[Observer].pc \in Projecting
         /\ \A o \in Ops : th[o].pc = "idle" /\ th'[o] = th[o]
<1>1. th[Observer].pc \in Projecting
  BY DEF Persisting, Acknowledge, AcknowledgeNotes, MoveInstance, EnsureApproval, EnsureNotification, TellFailure,
         Running, Projecting
<1>2. lock = Observer /\ mode = "up"
  BY <1>1 DEF DecisionInv, LockInv, At, Projecting
<1>3. \A o \in Ops : th[o].pc = "idle" /\ th'[o] = th[o]
  BY <1>2, NobodyDecides, Counting, OthersStay DEF ObserverStep
<1>4. mode' = mode
  BY ControlStays DEF ObserverStep
<1>. QED
  BY <1>1, <1>2, <1>3, <1>4, Counting

\* The observer goes on under the guard, or ends and gives it back.
LEMMA PersistingKeeps ==
  ASSUME TypeInv, DecisionInv, Persisting, Observed' => Observed, \A g \in Ids : Grows(g), OpenInv',
         \/ th'[Observer].pc = "idle" /\ lock' = None
         \/ th'[Observer].pc \in Projecting /\ lock' = Observer,
         th'[Observer].pc \in {"ack", "acknotes", "move"} => Observed',
         th'[Observer].pc \in {"ask", "asknote"} => inst' = "WAITING_APPROVAL"
  PROVE  DecisionInv'
<1>1. /\ mode = "up" /\ mode' = mode /\ lock = Observer /\ lock \notin Ops
      /\ \A o \in Ops : th[o].pc = "idle" /\ th'[o] = th[o]
  BY PersistingFrame
<1>2. AgentInv' /\ IntentInv' /\ PassedInv' /\ GateInv' /\ AcceptInv'
  BY <1>1, ObserverLeaves DEF ObserverStep
<1>3. LockInv'
  BY <1>1 DEF LockInv, At, Projecting
<1>. QED
  BY <1>2, <1>3 DEF DecisionInv

\* The approvals stay, and the observer stays where it is, ends, or goes on.
LEMMA OpenGoes ==
  ASSUME DecisionInv, Pending' \subseteq Pending, th'[Observer].copy = th[Observer].copy, th'[Observer].seen = th[Observer].seen,
         At(Observer, {"acknotes", "move", "ask", "asknote"}) \/ Others = {}
  PROVE  OpenInv'
<1>1. \A g, h \in Pending' : g = h
  BY DEF DecisionInv, OpenInv
<1>2. IdOf(Observer)' = IdOf(Observer)
  BY DEF IdOf
<1>3. \A g \in Pending : th[Observer].seen.status = "WAITING_APPROVAL" /\ g = IdOf(Observer)
  BY DEF DecisionInv, OpenInv, Others
<1>. QED
  BY <1>1, <1>2, <1>3 DEF OpenInv

\* A gate that was passed elsewhere is closed.
LEMMA AcknowledgeKeeps ==
  ASSUME TypeInv, DecisionInv, Acknowledge
  PROVE  DecisionInv'
<1>1. inst' = inst /\ th[Observer].pc = "ack" /\ Observed /\ Observed' /\ lock = Observer
  BY DEF Acknowledge, Running, DecisionInv, LockInv, At, Observed, Projecting
<1>2. CASE Others = {}
  <2>1. gate' = gate /\ Go(Observer, "acknotes") /\ "acknotes" \in Labels
    BY <1>2 DEF Acknowledge, Labels, Watching, Projecting
  <2>2. /\ th'[Observer].pc = "acknotes" /\ lock' = lock
        /\ th'[Observer].copy = th[Observer].copy /\ th'[Observer].seen = th[Observer].seen
    BY <2>1, ObserverMoves
  <2>3. OpenInv' /\ \A g \in Ids : Grows(g)
    BY <1>2, <2>1, <2>2, OpenGoes DEF Pending, Grows
  <2>. QED
    BY <1>1, <2>2, <2>3, PersistingKeeps DEF Persisting, Projecting
<1>3. CASE Others # {}
  <2> DEFINE h == Pick(Others)
  <2>1. h \in Others /\ h \in Pending /\ h \in Ids
    BY <1>3, PickIs DEF Others, Pending
  <2>2. gate' = [gate EXCEPT ![h] = [status |-> "APPROVED", by |-> Observer]] /\ th' = th /\ lock' = lock
    BY <1>3 DEF Acknowledge
  <2> HIDE DEF h
  <2>3. \A g \in Ids : Grows(g) /\ (gate'[g].status = "PENDING" => gate[g].status = "PENDING")
    BY <2>1, <2>2 DEF TypeInv, FileTypes, GateTypes, Pending, Grows
  <2>4. OpenInv'
    <3>1. Pending' \subseteq Pending
      BY <2>3 DEF Pending
    <3>. QED
      BY <2>2, <3>1, OpenStays DEF DecisionInv
  <2>. QED
    BY <1>1, <2>2, <2>3, <2>4, PersistingKeeps DEF Persisting, Projecting
<1>. QED
  BY <1>2, <1>3

\* Its notification follows.
LEMMA AcknowledgeNotesKeeps ==
  ASSUME TypeInv, DecisionInv, AcknowledgeNotes
  PROVE  DecisionInv'
<1>1. inst' = inst /\ gate' = gate /\ th[Observer].pc = "acknotes" /\ Observed /\ Observed' /\ lock = Observer
  BY DEF AcknowledgeNotes, Running, DecisionInv, LockInv, At, Observed, Projecting
<1>2. /\ th'[Observer].pc \in {"acknotes", "move"} /\ lock' = lock
      /\ th'[Observer].copy = th[Observer].copy /\ th'[Observer].seen = th[Observer].seen
  <2>1. CASE StillOpen = {}
    BY <2>1, ObserverMoves DEF AcknowledgeNotes, Labels, Watching, Projecting
  <2>2. CASE StillOpen # {}
    BY <1>1, <2>2 DEF AcknowledgeNotes
  <2>. QED
    BY <2>1, <2>2
<1>3. OpenInv' /\ \A g \in Ids : Grows(g)
  BY <1>1, <1>2, OpenGoes DEF Pending, Grows, At
<1>. QED
  BY <1>1, <1>2, <1>3, PersistingKeeps DEF Persisting, Projecting

\* The instance follows what the observer saw.
LEMMA MoveInstanceKeeps ==
  ASSUME TypeInv, DecisionInv, MoveInstance
  PROVE  DecisionInv'
<1> DEFINE s == th[Observer].seen.status
<1>1. inst' = s /\ gate' = gate /\ th[Observer].pc = "move" /\ Observed /\ lock = Observer
  BY DEF MoveInstance, Running, inbox, DecisionInv, LockInv, At, Projecting
<1>2. \/ s = "WAITING_APPROVAL" /\ Go(Observer, "ask")
      \/ Go(Observer, "fail")
      \/ Return(Observer)
  BY DEF MoveInstance
<1>3. "ask" \in Labels /\ "fail" \in Labels
  BY DEF Labels, Watching, Projecting
<1>4. \/ /\ s = "WAITING_APPROVAL" /\ th'[Observer].pc = "ask" /\ lock' = lock
         /\ th'[Observer].copy = th[Observer].copy /\ th'[Observer].seen = th[Observer].seen
      \/ th'[Observer].pc = "fail" /\ lock' = lock
      \/ th'[Observer].pc = "idle" /\ lock' = None
  BY <1>1, <1>2, <1>3, ObserverMoves
<1>5. OpenInv' /\ \A g \in Ids : Grows(g)
  <2>1. Pending' = Pending /\ \A g \in Ids : Grows(g)
    BY <1>1 DEF Pending, Grows
  <2>2. CASE th'[Observer].pc = "ask"
    BY <1>1, <1>4, <2>1, <2>2, OpenGoes DEF At
  <2>3. CASE th'[Observer].pc \in {"idle", "fail"}
    BY <2>1, <2>3 DEF DecisionInv, OpenInv, At
  <2>. QED
    BY <1>4, <2>1, <2>2, <2>3
<1>. QED
  BY <1>1, <1>4, <1>5, PersistingKeeps DEF Persisting, Projecting

\* The approval that is asked for is the only one that may be open.
LEMMA EnsureApprovalKeeps ==
  ASSUME TypeInv, DecisionInv, EnsureApproval
  PROVE  DecisionInv'
<1> DEFINE g == IdOf(Observer)
<1>1. inst' = inst /\ th[Observer].pc = "ask" /\ inst = "WAITING_APPROVAL" /\ Observed /\ lock = Observer
  BY DEF EnsureApproval, Running, DecisionInv, LockInv, At, Observed, Projecting
<1>2. /\ th'[Observer].pc = "asknote" /\ lock' = lock
      /\ th'[Observer].copy = th[Observer].copy /\ th'[Observer].seen = th[Observer].seen
  BY ObserverMoves DEF EnsureApproval, Labels, Watching, Projecting
<1>3. th[Observer].seen.status = "WAITING_APPROVAL" /\ g \in Ids /\ g' = g
  <2>1. th[Observer].seen.status = "WAITING_APPROVAL" /\ th[Observer].copy.job # None
    BY <1>1 DEF TypeInv, ThreadTypes, Observes, Watching, Projecting
  <2>. QED
    BY <1>2, <2>1, ObserverPosition DEF IdOf
<1>4. /\ gate' = IF gate[g].status = "NONE" THEN [gate EXCEPT ![g].status = "PENDING"] ELSE gate
      /\ \A h \in Pending : h = g
  BY <1>1 DEF EnsureApproval, DecisionInv, OpenInv, At
<1> HIDE DEF g
<1>5. \A h \in Ids : Grows(h) /\ (h # g => gate'[h] = gate[h])
  BY <1>3, <1>4 DEF TypeInv, FileTypes, GateTypes, Grows
<1>6. OpenInv'
  <2>1. \A h \in Pending' : h = g
    BY <1>4, <1>5 DEF Pending
  <2>2. th'[Observer].seen.status = "WAITING_APPROVAL" /\ IdOf(Observer)' = g
    BY <1>2, <1>3 DEF g
  <2>. QED
    BY <2>1, <2>2 DEF OpenInv
<1>. QED
  BY <1>1, <1>2, <1>5, <1>6, PersistingKeeps DEF Persisting, Projecting, Observed

\* The observer, all in all.
LEMMA ObserverKeeps ==
  ASSUME TypeInv, DecisionInv, ObserverStep
  PROVE  DecisionInv'
<1>1. CASE Observe \/ ObservePoll \/ Project
  BY <1>1, PollKeeps, ProjectKeeps
<1>2. CASE EnsureNotification \/ TellFailure
  <2>1. Persisting /\ gate' = gate /\ inst' = inst /\ Return(Observer)
    BY <1>2 DEF Persisting, EnsureNotification, TellFailure
  <2>2. lock = Observer
    BY <2>1, PersistingFrame
  <2>3. th'[Observer].pc = "idle" /\ lock' = None
    BY <2>1, <2>2, ObserverMoves
  <2>4. OpenInv' /\ \A g \in Ids : Grows(g)
    BY <2>1, <2>3, OpenStays DEF DecisionInv, Pending, Grows
  <2>5. Observed' => Observed
    BY <2>1 DEF Observed
  <2>. QED
    BY <2>1, <2>3, <2>4, <2>5, PersistingKeeps
<1>. QED
  BY <1>1, <1>2, AcknowledgeKeeps, AcknowledgeNotesKeeps, MoveInstanceKeeps, EnsureApprovalKeeps
     DEF ObserverStep, Persisting

-----------------------------------------------------------------------------
(* Decisions hold: a decision begins or is taken up again.                 *)

\* Operation o takes the task lock and enters.
EnterFrame(o) ==
  /\ UNCHANGED <<agent, passed, inst, gate, mode>>
  /\ lock = None /\ lock' = o /\ mode \in {"up", "recovering"}
  /\ \A q \in Ops : th[q].pc = "idle"
  /\ th'[o].pc = Entry(o, intent'[o].state)
  /\ \A t \in Threads \ {o} : th'[t] = th[t]

LEMMA EnterFrames ==
  ASSUME TypeInv, DecisionInv, NEW o \in Ops, Free, Enter(o, intent'[o].state), mode \in {"up", "recovering"},
         UNCHANGED <<agent, passed, inst, gate, mode>>
  PROVE  EnterFrame(o)
<1>1. lock = None /\ lock \notin Ops /\ o \in Threads
  BY Counting DEF Free
<1>2. \A q \in Ops : th[q].pc = "idle"
  BY <1>1, NobodyDecides
<1>3. Becomes(o, Enters(Entry(o, intent'[o].state))) /\ lock' = o
  BY <1>1, EnterMoves, MovesBecome
<1>4. /\ th'[o].pc = Entry(o, intent'[o].state)
      /\ \A t \in Threads \ {o} : th'[t] = th[t]
  BY <1>3 DEF Becomes, Enters
<1>. QED
  BY <1>1, <1>2, <1>3, <1>4 DEF EnterFrame

\* What an entry cannot disturb.
LEMMA EnterKeeps ==
  ASSUME TypeInv, DecisionInv, NEW o \in Ops, EnterFrame(o)
  PROVE  LockInv' /\ AgentInv' /\ OpenInv'
<1> USE DEF EnterFrame
<1>1. th'[o].pc \in {"advance", "decide"} /\ Observer \in Threads \ {o} /\ Ops \subseteq Threads /\ o # None
  BY Counting DEF Entry
<1>2. LockInv'
  BY <1>1, Counting DEF DecisionInv, LockInv, At, Observed, Projecting
<1>3. AgentInv'
  BY DEF DecisionInv, AgentInv, Observed
<1>4. OpenInv'
  BY <1>1, OpenStays DEF DecisionInv, Pending
<1>. QED
  BY <1>2, <1>3, <1>4

\* An intent that exists is taken up again, by a repetition of the call or by a restart.
LEMMA RetakeKeeps ==
  ASSUME TypeInv, DecisionInv, NEW o \in Ops, EnterFrame(o), intent' = intent,
         intent[o].state \in {"PREPARED", "ADVANCE_ACCEPTED"},
         \/ mode = "up" /\ todo' = todo
         \/ mode = "recovering" /\ todo' = todo \ {o}
  PROVE  DecisionInv'
<1> USE DEF EnterFrame
<1>1. /\ th'[o].pc = IF Approves(o) /\ intent[o].state = "PREPARED" THEN "advance" ELSE "decide"
      /\ \A q \in Ops \ {o} : th'[q].pc = "idle"
      /\ intent[o].state = "ADVANCE_ACCEPTED" => Approves(o)
  BY Counting DEF Entry, DecisionInv, IntentInv
<1>2. LockInv' /\ AgentInv' /\ OpenInv'
  BY EnterKeeps
<1>3. PassedInv' /\ GateInv'
  BY DEF DecisionInv, PassedInv, GateInv, Observed
<1>4. IntentInv'
  BY <1>1 DEF DecisionInv, IntentInv, At, Advancing, Concluding, Observed
<1>5. AcceptInv'
  <2>1. \A q \in Ops : lock # q
    BY Counting
  <2>2. ASSUME NEW q \in Ops \ {o}, ToRecover(q) PROVE ToRecover(q)'
    BY <2>2 DEF ToRecover
  <2>. QED
    BY <2>1, <2>2 DEF DecisionInv, AcceptInv, Observed
<1>. QED
  BY <1>2, <1>3, <1>4, <1>5 DEF DecisionInv

\* A new decision is about a gate that is open; an approval names an action of that gate.
LEMMA BeginKeeps ==
  ASSUME TypeInv, DecisionInv, NEW o \in Ops, EnterFrame(o), NEW g \in Pending,
         Approves(o) => \E k \in Numbers : Gates[k] = [step |-> g[1], action |-> Command[o].action],
         intent[o].state = "NONE",
         intent' = [intent EXCEPT ![o] = [state |-> "PREPARED", gate |-> g]], mode = "up", todo' = todo
  PROVE  DecisionInv'
<1> USE DEF EnterFrame
<1>1. /\ intent'[o].state = "PREPARED" /\ intent'[o].gate = g /\ g \in Ids /\ gate[g].status = "PENDING"
      /\ \A q \in Ops \ {o} : intent'[q] = intent[q]
      /\ intent[o].gate = None
  BY DEF TypeInv, FileTypes, IntentTypes, Pending
<1>2. /\ th'[o].pc = IF Approves(o) THEN "advance" ELSE "decide"
      /\ \A q \in Ops \ {o} : th'[q].pc = "idle" /\ th[q].pc = "idle" /\ th'[q] = th[q]
  BY <1>1, Counting DEF Entry
<1>3. LockInv' /\ AgentInv' /\ OpenInv'
  BY EnterKeeps
<1>4. \A k \in Numbers : passed[k] # o
  BY <1>1, Counting DEF DecisionInv, PassedInv
<1>5. \A h \in Ids : gate[h].by # o
  BY <1>1, IdAssumption DEF DecisionInv, GateInv
<1>6. PassedInv'
  <2>1. ASSUME NEW k \in Numbers, passed[k] # None
        PROVE  passed[k] \in Ops \ {o}
    BY <1>4, <2>1 DEF TypeInv, AgentTypes
  <2>. QED
    BY <1>1, <2>1 DEF DecisionInv, PassedInv
<1>7. GateInv'
  BY <1>1, <1>5 DEF DecisionInv, GateInv, Observed
<1>8. IntentInv'
  <2>1. Approves(o) => \E k \in Numbers : Gates[k].step = g[1] /\ Gates[k].action = Command[o].action
    <3>. SUFFICES ASSUME Approves(o) PROVE \E k \in Numbers : Gates[k].step = g[1] /\ Gates[k].action = Command[o].action
      OBVIOUS
    <3>1. PICK k \in Numbers : Gates[k] = [step |-> g[1], action |-> Command[o].action]
      OBVIOUS
    <3>2. Gates[k].step = g[1] /\ Gates[k].action = Command[o].action
      BY <3>1
    <3>. QED
      BY <3>2
  <2>. QED
    BY <1>1, <1>2, <2>1 DEF DecisionInv, IntentInv, At, Advancing, Concluding, Observed
<1>9. AcceptInv'
  <2>1. \A q \in Ops : lock # q
    BY Counting
  <2>. QED
    BY <1>1, <2>1 DEF DecisionInv, AcceptInv, ToRecover, Observed
<1>. QED
  BY <1>3, <1>6, <1>7, <1>8, <1>9 DEF DecisionInv

LEMMA ResolveKeeps ==
  ASSUME TypeInv, DecisionInv, NEW o \in Ops, Resolve(o)
  PROVE  DecisionInv'
<1>1. UNCHANGED <<agent, passed, inst, gate, mode, todo>> /\ mode = "up" /\ Free /\ intent[o].state # "COMMITTED"
  BY DEF Resolve, external, inbox, control
<1>2. CASE intent[o].state = "NONE"
  <2>1. PICK g \in Pending :
          /\ Approves(o) => \E k \in Numbers : Gates[k] = [step |-> g[1], action |-> Command[o].action]
          /\ intent' = [intent EXCEPT ![o] = [state |-> "PREPARED", gate |-> g]]
          /\ Enter(o, "PREPARED")
    BY <1>2 DEF Resolve
  <2>2. intent'[o].state = "PREPARED"
    BY <2>1 DEF TypeInv, FileTypes, IntentTypes
  <2>3. EnterFrame(o)
    BY <1>1, <2>1, <2>2, EnterFrames
  <2>. QED
    BY <1>1, <1>2, <2>1, <2>3, BeginKeeps
<1>3. CASE intent[o].state # "NONE"
  <2>1. intent' = intent /\ Enter(o, intent[o].state)
    BY <1>3 DEF Resolve
  <2>2. intent[o].state \in {"PREPARED", "ADVANCE_ACCEPTED"}
    BY <1>1, <1>3 DEF TypeInv, FileTypes, IntentTypes
  <2>3. EnterFrame(o)
    BY <1>1, <2>1, EnterFrames
  <2>. QED
    BY <1>1, <2>1, <2>2, <2>3, RetakeKeeps
<1>. QED
  BY <1>2, <1>3

-----------------------------------------------------------------------------
(* Decisions hold: the steps of a decision.                                *)

\* Operation o under the task lock: nobody else decides and nothing is being persisted.
DecideFrame(o) ==
  /\ mode' = mode /\ todo' = todo /\ mode \in {"up", "recovering"}
  /\ lock = o
  /\ th[o].pc \in Advancing \cup Concluding
  /\ \/ lock' = o /\ th'[o].pc \in Advancing \cup Concluding
     \/ lock' = None /\ th'[o].pc = "idle"
  /\ \A q \in Ops \ {o} : th[q].pc = "idle"
  /\ \A t \in Threads \ {o} : th'[t] = th[t]
  /\ th[Observer].pc \notin Projecting

LEMMA DecideFrames ==
  ASSUME TypeInv, DecisionInv, NEW o \in Ops, AdvanceStep(o) \/ ConcludeStep(o)
  PROVE  DecideFrame(o) /\ LockInv'
<1>1. th[o].pc \in Advancing \cup Concluding /\ o \in Threads /\ o # None /\ o # Observer
  BY DecidingRuns, Counting
<1>2. lock = o /\ mode \in {"up", "recovering"}
  <2>1. lock = o /\ mode # "down"
    BY <1>1, Counting DEF DecisionInv, LockInv, At, Advancing, Concluding
  <2>. QED
    BY <2>1 DEF TypeInv, ControlTypes
<1>3. \A q \in Ops \ {o} : th[q].pc = "idle"
  BY <1>2 DEF DecisionInv, LockInv, At
<1>4. mode' = mode /\ todo' = todo
  BY ControlStays DEF DecisionStep
<1>5. \A t \in Threads \ {o} : th'[t] = th[t]
  BY OthersStay DEF DecisionStep
<1>6. th[Observer].pc \notin Projecting
  BY <1>1, <1>2 DEF DecisionInv, LockInv, At
<1>7. \/ lock' = o /\ th'[o].pc \in Advancing \cup Concluding
      \/ lock' = None /\ th'[o].pc = "idle"
  <2>1. ASSUME Return(o) PROVE lock' = None /\ th'[o].pc = "idle"
    BY <1>1, <1>2, <2>1, MovesBecome DEF Becomes, Idle
  <2>2. ASSUME NEW label \in Advancing \cup Concluding, Go(o, label)
        PROVE  lock' = o /\ th'[o].pc \in Advancing \cup Concluding
    <3>1. label \in Labels
      BY DEF Labels
    <3>2. Becomes(o, Goes(o, label)) /\ lock' = lock
      BY <1>1, <2>2, <3>1, MovesBecome
    <3>3. th'[o].pc = label
      BY <3>2 DEF Becomes, Goes
    <3>. QED
      BY <1>2, <3>2, <3>3
  <2>3. CASE AdvanceReads(o)
    <3>1. Moves(o, Reads("check")) /\ Reads("check") \in Thread /\ lock' = lock
      BY <1>1, <2>3, ReadMoves DEF AdvanceReads, Labels, Advancing
    <3>2. th'[o].pc = "check"
      BY <1>1, <3>1, MovesBecome DEF Becomes, Reads
    <3>. QED
      BY <1>2, <3>1, <3>2 DEF Advancing
  <2>4. CASE AdvanceChecks(o)
    <3>1. CASE Return(o)
      BY <2>1, <3>1
    <3>2. CASE th' = [th EXCEPT ![o].pc = "post", ![o].seen = Seen(o)] /\ lock' = lock
      <4>1. Moves(o, Sees(th[o].copy, "post")) /\ Sees(th[o].copy, "post") \in Thread
        BY <1>1, <3>2, PollMoves DEF Labels, Advancing
      <4>2. th'[o].pc = "post"
        BY <1>1, <4>1, MovesBecome DEF Becomes, Sees
      <4>. QED
        BY <1>2, <3>2, <4>2 DEF Advancing
    <3>. QED
      BY <2>4, <3>1, <3>2 DEF AdvanceChecks
  <2>5. CASE AdvancePosts(o) \/ AdvanceRecords(o) \/ AdvanceAccepted(o) \/ ConcludeStep(o)
    <3>1. \/ Return(o)
          \/ Go(o, "record") \/ Go(o, "accepted") \/ Go(o, "decide")
          \/ Go(o, "commit") \/ Go(o, "handle") \/ Go(o, "tell") \/ Go(o, "finish")
      BY <2>5 DEF AdvancePosts, AdvanceRecords, AdvanceAccepted, ConcludeStep, MoveDecided, CommitResolution,
                  HandleNotification, TellRejection, FinishIntent
    <3>2. {"record", "accepted", "decide", "commit", "handle", "tell", "finish"} \subseteq Advancing \cup Concluding
      BY DEF Advancing, Concluding
    <3>. QED
      BY <2>1, <2>2, <3>1, <3>2
  <2>. QED
    BY <2>3, <2>4, <2>5 DEF AdvanceStep
<1>8. DecideFrame(o)
  BY <1>1, <1>2, <1>3, <1>4, <1>5, <1>6, <1>7, Counting DEF DecideFrame
<1>9. LockInv'
  <2>1. \A q \in Ops : ~At(q, {"idle"})' => lock' = q
    BY <1>3, <1>5, <1>7, Counting DEF At
  <2>2. th'[Observer] = th[Observer] /\ ~At(Observer, Projecting)'
    BY <1>1, <1>5, <1>6, Counting DEF At
  <2>. QED
    BY <1>2, <1>4, <2>1, <2>2 DEF DecisionInv, LockInv, At, Projecting
<1>. QED
  BY <1>8, <1>9
\* The other decisions are where they were: waiting for recovery, or closed.
LEMMA AcceptStays ==
  ASSUME TypeInv, DecisionInv, NEW o \in Ops, DecideFrame(o), Observed' => Observed,
         \A q \in Ops \ {o} : intent'[q] = intent[q],
         \A g \in Ids : gate[g].by # None => gate'[g] = gate[g],
         Observed' /\ intent'[o].state = "ADVANCE_ACCEPTED" => lock' = o \/ gate'[intent'[o].gate].by \notin {None, o}
  PROVE  AcceptInv'
<1>1. ASSUME NEW q \in Ops \ {o}, Observed', intent'[q].state = "ADVANCE_ACCEPTED"
      PROVE  ToRecover(q)' \/ gate'[intent'[q].gate].by \notin {None, q}
  <2>1. intent[q].gate \in Ids
    BY <1>1 DEF TypeInv, FileTypes, IntentTypes
  <2>2. lock # q /\ (ToRecover(q) => ToRecover(q)')
    BY DEF DecideFrame, ToRecover
  <2>. QED
    BY <1>1, <2>1, <2>2 DEF DecisionInv, AcceptInv
<1>. QED
  BY <1>1 DEF AcceptInv

LEMMA OpenUndisturbed ==
  ASSUME TypeInv, DecisionInv, NEW o \in Ops, DecideFrame(o), Pending' \subseteq Pending
  PROVE  OpenInv'
<1>1. th'[Observer] = th[Observer]
  BY Counting DEF DecideFrame
<1>. QED
  BY <1>1, OpenStays DEF DecisionInv

\* What the intents invariant says of operation o.
IntendsAs(o) ==
  /\ At(o, Advancing) => Approves(o) /\ intent[o].state = "PREPARED"
  /\ At(o, Concluding) => intent[o].state = IF Approves(o) THEN "ADVANCE_ACCEPTED" ELSE "PREPARED"
  /\ intent[o].state = "ADVANCE_ACCEPTED" => Approves(o)
  /\ Approves(o) /\ intent[o].state # "NONE" =>
       \E k \in Numbers : Gates[k].step = intent[o].gate[1] /\ Gates[k].action = Command[o].action
  /\ intent[o].state # "NONE" => gate[intent[o].gate].status # "NONE"
  /\ (Approves(o) /\ (intent[o].state \in {"ADVANCE_ACCEPTED", "COMMITTED"} \/ At(o, {"record", "accepted"})))
       => o \in agent.taken
  /\ (intent[o].state = "COMMITTED" \/ At(o, {"handle", "tell", "finish"})) => gate[intent[o].gate].by = o
  /\ ~Approves(o) /\ At(o, {"commit", "handle", "tell", "finish"}) => ~Observed

\* The other decisions are idle, so only o has to keep up.
LEMMA IntentKeeps ==
  ASSUME TypeInv, DecisionInv, NEW o \in Ops, DecideFrame(o), IntendsAs(o)',
         \A q \in Ops \ {o} : intent'[q] = intent[q], agent.taken \subseteq agent'.taken,
         \A g \in Ids : /\ gate[g].status # "NONE" => gate'[g].status # "NONE"
                        /\ gate[g].by # None => gate'[g] = gate[g]
  PROVE  IntentInv'
<1>1. ASSUME NEW q \in Ops \ {o} PROVE IntendsAs(q)'
  <2>1. th[q].pc = "idle" /\ th'[q].pc = "idle" /\ intent'[q] = intent[q] /\ IntendsAs(q) /\ q # None
    BY Counting DEF DecideFrame, DecisionInv, IntentInv, IntendsAs
  <2>2. intent[q].state # "NONE" => intent[q].gate \in Ids
    BY DEF TypeInv, FileTypes, IntentTypes
  <2>. QED
    BY <2>1, <2>2 DEF IntendsAs, At, Advancing, Concluding
<1>2. \A q \in Ops : IntendsAs(q)'
  BY <1>1
<1>. QED
  BY <1>2 DEF IntentInv, IntendsAs

\* An approval on its way to the Agent: its intent is prepared, and its key is known once the
\* Agent took it.
LEMMA AdvancingKeeps ==
  ASSUME TypeInv, DecisionInv, NEW o \in Ops, DecideFrame(o), LockInv', UNCHANGED <<gate, inst, intent>>,
         AgentInv', PassedInv', agent.taken \subseteq agent'.taken,
         th[o].pc \in Advancing, th'[o].pc \in Advancing \cup {"idle"},
         th'[o].pc \in {"record", "accepted"} => o \in agent'.taken
  PROVE  DecisionInv'
<1>1. intent[o].state = "PREPARED" /\ Approves(o)
  BY DEF DecisionInv, IntentInv, At
<1>2. GateInv'
  BY DEF DecisionInv, GateInv, Observed
<1>3. IntentInv'
  <2>1. IntendsAs(o)
    BY DEF DecisionInv, IntentInv, IntendsAs
  <2>2. IntendsAs(o)'
    BY <1>1, <2>1 DEF IntendsAs, At, Advancing, Concluding
  <2>. QED
    BY <2>2, IntentKeeps
<1>4. OpenInv'
  BY OpenUndisturbed DEF Pending
<1>5. AcceptInv'
  BY <1>1, AcceptStays DEF Observed
<1>. QED
  BY <1>2, <1>3, <1>4, <1>5 DEF DecisionInv

\* The Agent takes the advance of the gate at which it waits, which offers the action.
LEMMA TakeKeeps ==
  ASSUME TypeInv, DecisionInv, NEW o \in Ops, UNCHANGED intent, At(o, {"post"}), o \notin agent.taken, inst' = inst,
         agent.phase = "waiting", Gates[agent.at].action = Command[o].action,
         agent' = [agent EXCEPT !.phase = "active", !.job = o, !.taken = @ \cup {o}],
         passed' = [passed EXCEPT ![agent.at] = o]
  PROVE  AgentInv' /\ PassedInv' /\ agent'.taken = agent.taken \cup {o}
<1> DEFINE n == agent.at
<1>1. n \in Numbers /\ n \in Nat /\ (\A k \in Numbers : k \in Nat) /\ o # None
  BY Counting
<1>2. /\ agent'.at = n /\ agent'.phase = "active" /\ agent'.job = o /\ agent'.taken = agent.taken \cup {o}
      /\ passed'[n] = o /\ \A k \in Numbers \ {n} : passed'[k] = passed[k]
  BY <1>1 DEF TypeInv, AgentTypes
<1>3. intent[o].state = "PREPARED" /\ Approves(o) /\ Gates[n].action = Command[o].action
  BY DEF DecisionInv, IntentInv, At, Advancing
<1>4. n' = n
  BY <1>2
<1> HIDE DEF n
<1>5. /\ passed[n] = None /\ \A k \in Numbers : passed[k] # o
      /\ \A k \in Numbers : passed[k] # None => k <= n
  BY <1>1 DEF DecisionInv, AgentInv, n
<1>6. AgentInv'
  <2>1. \A k \in Numbers : passed'[k] # None => k <= n
    BY <1>1, <1>2, <1>5
  <2>2. \A q \in Ops : q \in agent'.taken <=> \E k \in Numbers : passed'[k] = q
    <3>1. \A q \in Ops : q \in agent.taken <=> \E k \in Numbers : passed[k] = q
      BY DEF DecisionInv, AgentInv
    <3>2. ASSUME NEW q \in Ops, q # o PROVE \A k \in Numbers : passed'[k] = q <=> passed[k] = q
      BY <1>1, <1>2, <1>5, <3>2, Counting
    <3>. QED
      BY <1>1, <1>2, <3>1, <3>2
  <2>3. \A i, k \in Numbers : (passed'[i] = passed'[k] /\ passed'[k] # None) => i = k
    BY <1>1, <1>2, <1>5 DEF DecisionInv, AgentInv
  <2>. QED
    BY <1>1, <1>2, <2>1, <2>2, <2>3 DEF AgentInv
<1>7. PassedInv'
  BY <1>1, <1>2, <1>3, <1>5 DEF DecisionInv, PassedInv
<1>. QED
  BY <1>2, <1>6, <1>7

LEMMA AdvanceKeeps ==
  ASSUME TypeInv, DecisionInv, NEW o \in Ops, DecideFrame(o), LockInv', AdvanceStep(o)
  PROVE  DecisionInv'
<1>1. o \in Threads /\ th[o].pc \in {"advance", "check", "post", "record", "accepted"}
  BY Counting DEF AdvanceStep, AdvanceReads, AdvanceChecks, AdvancePosts, AdvanceRecords, AdvanceAccepted, Running
<1>2. gate' = gate /\ inst' = inst
  BY DEF AdvanceStep, AdvanceReads, AdvanceChecks, AdvancePosts, AdvanceRecords, AdvanceAccepted, inbox
<1>3. ASSUME NEW label \in Labels, Go(o, label) PROVE th'[o].pc = label
  <2>1. Becomes(o, Goes(o, label))
    BY <1>1, <1>3, MovesBecome
  <2>. QED
    BY <2>1 DEF Becomes, Goes
<1>4. Return(o) => th'[o].pc = "idle"
  BY <1>1, MovesBecome DEF Becomes, Idle
<1>5. UNCHANGED <<agent, passed, intent>> => AgentInv' /\ PassedInv'
  BY <1>2 DEF DecisionInv, AgentInv, PassedInv, Observed
<1>6. {"check", "post", "record", "accepted", "decide"} \subseteq Labels
  BY DEF Labels, Advancing, Concluding
<1>7. CASE AdvanceReads(o)
  <2>1. UNCHANGED <<agent, passed, intent>>
    BY <1>7 DEF AdvanceReads, external
  <2>2. Becomes(o, Reads("check"))
    BY <1>1, <1>6, <1>7, ReadMoves, MovesBecome DEF AdvanceReads
  <2>3. th'[o].pc = "check"
    BY <2>2 DEF Becomes, Reads
  <2>. QED
    BY <1>1, <1>2, <1>5, <2>1, <2>3, AdvancingKeeps DEF Advancing
<1>8. CASE AdvanceChecks(o)
  <2>1. UNCHANGED <<agent, passed, intent>>
    BY <1>8 DEF AdvanceChecks, external
  <2>2. th'[o].pc \in {"post", "idle"}
    <3>1. CASE th' = [th EXCEPT ![o].pc = "post", ![o].seen = Seen(o)]
      <4>1. Becomes(o, Sees(th[o].copy, "post"))
        BY <1>1, <1>6, <3>1, PollMoves, MovesBecome
      <4>. QED
        BY <4>1 DEF Becomes, Sees
    <3>. QED
      BY <1>4, <1>8, <3>1 DEF AdvanceChecks
  <2>. QED
    BY <1>1, <1>2, <1>5, <2>1, <2>2, AdvancingKeeps DEF Advancing
<1>9. CASE AdvancePosts(o)
  <2>1. intent' = intent /\ At(o, {"post"})
    BY <1>9 DEF AdvancePosts, Running, At
  <2>2. CASE UNCHANGED external /\ (Return(o) \/ (o \in agent.taken /\ Go(o, "record")))
    <3>1. UNCHANGED <<agent, passed>> /\ th'[o].pc \in {"idle", "record"} /\ (th'[o].pc = "record" => o \in agent.taken)
      BY <1>3, <1>4, <1>6, <2>2 DEF external
    <3>. QED
      BY <1>1, <1>2, <1>5, <2>1, <3>1, AdvancingKeeps DEF Advancing
  <2>3. CASE /\ o \notin agent.taken /\ agent.phase = "waiting" /\ Gates[agent.at].action = Command[o].action
             /\ agent' = [agent EXCEPT !.phase = "active", !.job = o, !.taken = @ \cup {o}]
             /\ passed' = [passed EXCEPT ![agent.at] = o] /\ Go(o, "record")
    <3>1. AgentInv' /\ PassedInv' /\ agent'.taken = agent.taken \cup {o}
      BY <1>2, <2>1, <2>3, TakeKeeps
    <3>2. th'[o].pc = "record"
      BY <1>3, <1>6, <2>3
    <3>. QED
      BY <1>1, <1>2, <2>1, <3>1, <3>2, AdvancingKeeps DEF Advancing
  <2>. QED
    BY <1>9, <2>2, <2>3 DEF AdvancePosts
<1>10. CASE AdvanceRecords(o)
  <2>1. UNCHANGED <<agent, passed, intent>> /\ th[o].pc = "record" /\ th'[o].pc = "accepted"
    BY <1>3, <1>6, <1>10 DEF AdvanceRecords, Running, external
  <2>2. o \in agent.taken
    BY <2>1 DEF DecisionInv, IntentInv, At, Advancing
  <2>. QED
    BY <1>2, <1>5, <2>1, <2>2, AdvancingKeeps DEF Advancing
<1>11. CASE AdvanceAccepted(o)
  <2>1. UNCHANGED <<agent, passed>> /\ th[o].pc = "accepted" /\ th'[o].pc = "decide" /\ lock' = o
    BY <1>3, <1>6, <1>11 DEF AdvanceAccepted, Running, Go, external, DecideFrame
  <2>2. /\ intent'[o].state = "ADVANCE_ACCEPTED" /\ intent'[o].gate = intent[o].gate
        /\ \A q \in Ops \ {o} : intent'[q] = intent[q]
    BY <1>11 DEF AdvanceAccepted, TypeInv, FileTypes, IntentTypes
  <2>3. intent[o].state = "PREPARED" /\ Approves(o) /\ o \in agent.taken
    BY <2>1 DEF DecisionInv, IntentInv, At, Advancing
  <2>4. AgentInv' /\ PassedInv'
    <3>1. \A k \in Numbers : passed[k] # None => passed[k] \in Ops
      BY DEF TypeInv, AgentTypes
    <3>2. \A q \in Ops : intent[q].state # "NONE" => intent'[q].state # "NONE"
      BY <2>2
    <3>3. PassedInv'
      BY <2>1, <3>1, <3>2 DEF DecisionInv, PassedInv
    <3>. QED
      BY <1>2, <2>1, <3>3 DEF DecisionInv, AgentInv, Observed
  <2>5. GateInv'
    BY <1>2, <2>2, <2>3 DEF DecisionInv, GateInv, Observed
  <2>6. IntentInv'
    <3>1. IntendsAs(o)
      BY DEF DecisionInv, IntentInv, IntendsAs
    <3>2. IntendsAs(o)'
      BY <1>2, <2>1, <2>2, <2>3, <3>1 DEF IntendsAs, At, Advancing, Concluding
    <3>. QED
      BY <1>2, <2>1, <2>2, <3>2, IntentKeeps
  <2>7. OpenInv' /\ AcceptInv'
    BY <1>2, <2>1, <2>2, OpenUndisturbed, AcceptStays DEF Pending, Observed
  <2>. QED
    BY <2>4, <2>5, <2>6, <2>7 DEF DecisionInv
<1>. QED
  BY <1>7, <1>8, <1>9, <1>10, <1>11 DEF AdvanceStep

\* The instance moves before the approval, or the decision ends at an instance that ended.
LEMMA MoveDecidedKeeps ==
  ASSUME TypeInv, DecisionInv, NEW o \in Ops, DecideFrame(o), LockInv', MoveDecided(o)
  PROVE  DecisionInv'
<1>1. UNCHANGED <<agent, passed, gate, intent>> /\ th[o].pc = "decide" /\ o \in Threads
  BY Counting DEF MoveDecided, Running, external, inbox
<1>2. \/ inst \in {Target(o), "WAITING_APPROVAL"} /\ inst' = Target(o) /\ th'[o].pc = "commit" /\ lock' = o
      \/ inst \notin {Target(o), "WAITING_APPROVAL"} /\ inst' = inst /\ th'[o].pc = "idle"
  <2>1. CASE inst \in {Target(o), "WAITING_APPROVAL"}
    <3>1. inst' = Target(o) /\ Go(o, "commit")
      BY <2>1 DEF MoveDecided
    <3>2. Becomes(o, Goes(o, "commit")) /\ lock' = lock
      BY <1>1, <3>1, MovesBecome DEF Labels, Concluding
    <3>. QED
      BY <2>1, <3>1, <3>2 DEF Becomes, Goes, DecideFrame
  <2>2. CASE inst \notin {Target(o), "WAITING_APPROVAL"}
    <3>1. inst' = inst /\ Return(o)
      BY <2>2 DEF MoveDecided
    <3>. QED
      BY <1>1, <2>2, <3>1, MovesBecome DEF Becomes, Idle
  <2>. QED
    BY <2>1, <2>2
<1>3. intent[o].state = IF Approves(o) THEN "ADVANCE_ACCEPTED" ELSE "PREPARED"
  BY <1>1 DEF DecisionInv, IntentInv, At, Concluding
<1>4. /\ Observed' => Observed
      /\ Approves(o) /\ Observed' => th'[o].pc = "commit" /\ lock' = o
      /\ ~Approves(o) /\ th'[o].pc = "commit" => ~Observed'
  BY <1>2 DEF Target, Observed
<1>5. AgentInv' /\ PassedInv' /\ GateInv'
  BY <1>1, <1>4 DEF DecisionInv, AgentInv, PassedInv, GateInv
<1>6. IntentInv'
  <2>1. IntendsAs(o)
    BY DEF DecisionInv, IntentInv, IntendsAs
  <2>2. IntendsAs(o)'
    BY <1>1, <1>2, <1>3, <1>4, <2>1 DEF IntendsAs, At, Advancing, Concluding
  <2>. QED
    BY <1>1, <2>2, IntentKeeps
<1>7. OpenInv' /\ AcceptInv'
  BY <1>1, <1>3, <1>4, OpenUndisturbed, AcceptStays DEF Pending
<1>. QED
  BY <1>5, <1>6, <1>7 DEF DecisionInv

\* The verdict is written over an open approval.
LEMMA DecideGate ==
  ASSUME TypeInv, DecisionInv, NEW o \in Ops, DecideFrame(o), LockInv', UNCHANGED <<agent, passed, inst, intent>>,
         th[o].pc = "commit", th'[o].pc = "handle", lock' = o, Committable(o),
         gate' = [gate EXCEPT ![intent[o].gate] = [status |-> Command[o].verdict, by |-> o]]
  PROVE  DecisionInv'
<1> DEFINE g == intent[o].gate
<1>1. /\ g \in Ids /\ o # None
      /\ intent[o].state = IF Approves(o) THEN "ADVANCE_ACCEPTED" ELSE "PREPARED"
      /\ ~Approves(o) => ~Observed
  <2>1. At(o, Concluding) /\ At(o, {"commit", "handle", "tell", "finish"})
    BY DEF At, Concluding
  <2>2. intent[o].state = (IF Approves(o) THEN "ADVANCE_ACCEPTED" ELSE "PREPARED") /\ (~Approves(o) => ~Observed)
    BY <2>1 DEF DecisionInv, IntentInv
  <2>3. g \in Ids
    BY <2>2 DEF TypeInv, FileTypes, IntentTypes
  <2>. QED
    BY <2>2, <2>3, Counting
<1>2. /\ gate'[g].status = Command[o].verdict /\ gate'[g].by = o
      /\ \A h \in Ids \ {g} : gate'[h] = gate[h]
      /\ gate[g].status = "PENDING" /\ gate[g].by = None
      /\ Command[o].verdict \in {"APPROVED", "REJECTED"}
  BY <1>1, ConstAssumption DEF TypeInv, FileTypes, GateTypes, Committable, DecisionInv, GateInv
<1> HIDE DEF g
<1>3. \A h \in Ids : /\ gate[h].status # "NONE" => gate'[h].status # "NONE"
                     /\ gate'[h].status = "PENDING" => gate[h].status = "PENDING"
                     /\ gate[h].by # None => gate'[h] = gate[h]
  BY <1>2
<1>4. AgentInv' /\ PassedInv'
  BY DEF DecisionInv, AgentInv, PassedInv, Observed
<1>5. GateInv'
  <2>1. ASSUME NEW h \in Ids
        PROVE  /\ gate'[h].status \in {"NONE", "PENDING"} <=> gate'[h].by = None
               /\ \A q \in Ops : gate'[h].by = q =>
                    /\ gate'[h].status = Command[q].verdict /\ intent[q].gate = h
                    /\ Approves(q) => intent[q].state \in {"ADVANCE_ACCEPTED", "COMMITTED"}
                    /\ ~Approves(q) => ~Observed
    <3>1. CASE h = g
      BY <1>1, <1>2, <3>1 DEF g
    <3>2. CASE h # g
      BY <1>2, <3>2 DEF DecisionInv, GateInv
    <3>. QED
      BY <3>1, <3>2
  <2>. QED
    BY <2>1 DEF GateInv, Observed
<1>6. IntentInv'
  <2>1. IntendsAs(o)
    BY DEF DecisionInv, IntentInv, IntendsAs
  <2>2. gate'[g].status # "NONE" /\ gate'[g].by = o
    BY <1>2
  <2>3. At(o, Concluding)
    BY DEF At, Concluding
  <2>4. IntendsAs(o)'
    BY <1>1, <2>1, <2>2, <2>3 DEF IntendsAs, At, Advancing, Concluding, Observed, g
  <2>. QED
    BY <1>3, <2>4, IntentKeeps
<1>7. OpenInv'
  BY <1>3, OpenUndisturbed DEF Pending
<1>8. AcceptInv'
  BY <1>3, AcceptStays DEF Observed
<1>. QED
  BY <1>4, <1>5, <1>6, <1>7, <1>8 DEF DecisionInv

\* A decision that goes on after its verdict, ends with it, or ends refused by an approval that
\* somebody else closed.
LEMMA FinishKeeps ==
  ASSUME TypeInv, DecisionInv, NEW o \in Ops, DecideFrame(o), LockInv', UNCHANGED <<agent, passed, gate, inst>>,
         th[o].pc \in {"commit", "handle", "tell", "finish"},
         \/ /\ intent' = intent /\ lock' = o /\ th'[o].pc \in {"handle", "tell", "finish"}
            /\ gate[intent[o].gate].by = o
         \/ /\ intent' = intent /\ th'[o].pc = "idle"
            /\ gate[intent[o].gate].by # o /\ ~Committable(o)
         \/ /\ intent' = [intent EXCEPT ![o].state = "COMMITTED"] /\ th'[o].pc = "idle"
            /\ gate[intent[o].gate].by = o
  PROVE  DecisionInv'
<1>1. /\ intent[o].state = IF Approves(o) THEN "ADVANCE_ACCEPTED" ELSE "PREPARED"
      /\ ~Approves(o) => ~Observed
      /\ Approves(o) => o \in agent.taken
  <2>1. At(o, Concluding) /\ At(o, {"commit", "handle", "tell", "finish"})
    BY DEF At, Concluding
  <2>. QED
    BY <2>1 DEF DecisionInv, IntentInv
<1>2. /\ \A q \in Ops \ {o} : intent'[q] = intent[q]
      /\ intent'[o].gate = intent[o].gate /\ intent'[o].state \in {intent[o].state, "COMMITTED"}
      /\ intent'[o].state # intent[o].state => gate[intent[o].gate].by = o
      /\ intent'[o] = intent[o] \/ intent'[o].state = "COMMITTED"
  BY DEF TypeInv, FileTypes, IntentTypes
<1>3. intent[o].gate \in Ids /\ (gate[intent[o].gate].by \notin {None, o} \/ Committable(o) \/ gate[intent[o].gate].by = o)
  <2>1. intent[o].state # "NONE"
    BY <1>1
  <2>2. intent[o].gate \in Ids /\ gate[intent[o].gate].status # "NONE"
    BY <2>1 DEF TypeInv, FileTypes, IntentTypes, DecisionInv, IntentInv
  <2>. QED
    BY <2>2 DEF DecisionInv, GateInv, Committable
<1>4. th'[o].pc \in {"idle", "handle", "tell", "finish"}
  OBVIOUS
<1>5. AgentInv' /\ PassedInv' /\ GateInv'
  <2>1. \A q \in Ops : /\ intent'[q].gate = intent[q].gate
                       /\ intent[q].state # "NONE" => intent'[q].state # "NONE"
                       /\ intent[q].state \in {"ADVANCE_ACCEPTED", "COMMITTED"} => intent'[q].state \in {"ADVANCE_ACCEPTED", "COMMITTED"}
    BY <1>2
  <2>2. \A k \in Numbers : passed[k] # None => passed[k] \in Ops
    BY DEF TypeInv, AgentTypes
  <2>3. PassedInv'
    BY <2>1, <2>2 DEF DecisionInv, PassedInv
  <2>4. AgentInv'
    BY DEF DecisionInv, AgentInv, Observed
  <2>. QED
    BY <2>1, <2>3, <2>4 DEF DecisionInv, GateInv, Observed
<1>6. IntentInv'
  <2>1. IntendsAs(o)
    BY DEF DecisionInv, IntentInv, IntendsAs
  <2>2. (intent'[o].state = "COMMITTED" \/ At(o, {"handle", "tell", "finish"})') => gate'[intent'[o].gate].by = o
    BY <1>1, <1>2 DEF At
  <2>3. At(o, Concluding)' => intent'[o].state = IF Approves(o) THEN "ADVANCE_ACCEPTED" ELSE "PREPARED"
    BY <1>1, <1>2 DEF At, Concluding
  <2>4. ~At(o, Advancing)' /\ ~At(o, {"record", "accepted"})'
    BY <1>4 DEF At, Advancing
  <2>5. IntendsAs(o)'
    BY <1>1, <1>2, <2>1, <2>2, <2>3, <2>4 DEF IntendsAs, Observed
  <2>. QED
    BY <1>2, <2>5, IntentKeeps
<1>7. OpenInv'
  BY OpenUndisturbed DEF Pending
<1>8. AcceptInv'
  <2>1. intent'[o].state = "ADVANCE_ACCEPTED" => lock' = o \/ gate[intent[o].gate].by \notin {None, o}
    <3>1. CASE lock' = o
      BY <3>1
    <3>2. CASE gate[intent[o].gate].by # o /\ ~Committable(o)
      BY <1>3, <3>2
    <3>3. CASE intent' = [intent EXCEPT ![o].state = "COMMITTED"]
      <4>1. intent'[o].state = "COMMITTED"
        BY <3>3 DEF TypeInv, FileTypes, IntentTypes
      <4>. QED
        BY <4>1
    <3>. QED
      BY <3>1, <3>2, <3>3
  <2>. QED
    BY <1>2, <2>1, AcceptStays DEF Observed
<1>. QED
  BY <1>5, <1>6, <1>7, <1>8 DEF DecisionInv

LEMMA ConcludeKeeps ==
  ASSUME TypeInv, DecisionInv, NEW o \in Ops, DecideFrame(o), LockInv', ConcludeStep(o)
  PROVE  DecisionInv'
<1>1. lock = o /\ o \in Threads
  BY Counting DEF DecideFrame
<1>2. ASSUME NEW label \in {"handle", "tell", "finish"}, Go(o, label)
      PROVE  th'[o].pc = label /\ lock' = o
  <2>1. label \in Labels
    BY DEF Labels, Concluding
  <2>2. Becomes(o, Goes(o, label)) /\ lock' = lock
    BY <1>1, <1>2, <2>1, MovesBecome
  <2>. QED
    BY <1>1, <2>2 DEF Becomes, Goes
<1>3. ASSUME Return(o) PROVE th'[o].pc = "idle"
  BY <1>1, <1>3, MovesBecome DEF Becomes, Idle
<1>4. CASE MoveDecided(o)
  BY <1>4, MoveDecidedKeeps
<1>5. CASE CommitResolution(o)
  <2>1. UNCHANGED <<agent, passed, inst, intent>> /\ th[o].pc = "commit"
    BY <1>5 DEF CommitResolution, Running, external
  <2>2. \/ gate[intent[o].gate].by = o /\ gate' = gate /\ Go(o, "handle")
        \/ /\ Committable(o) /\ Go(o, "handle")
           /\ gate' = [gate EXCEPT ![intent[o].gate] = [status |-> Command[o].verdict, by |-> o]]
        \/ gate[intent[o].gate].by # o /\ ~Committable(o) /\ gate' = gate /\ Return(o)
    BY <1>5 DEF CommitResolution
  <2>. QED
    BY <1>2, <1>3, <2>1, <2>2, DecideGate, FinishKeeps
<1>6. CASE HandleNotification(o) \/ TellRejection(o) \/ FinishIntent(o)
  <2>1. /\ UNCHANGED <<agent, passed, inst, gate>>
        /\ th[o].pc \in {"handle", "tell", "finish"}
        /\ \/ intent' = intent /\ (Go(o, "tell") \/ Go(o, "finish"))
           \/ intent' = [intent EXCEPT ![o].state = "COMMITTED"] /\ Return(o)
    BY <1>6 DEF HandleNotification, TellRejection, FinishIntent, Running, external, inbox
  <2>2. gate[intent[o].gate].by = o
    BY <2>1 DEF DecisionInv, IntentInv, At
  <2>. QED
    BY <1>2, <1>3, <2>1, <2>2, FinishKeeps
<1>. QED
  BY <1>4, <1>5, <1>6 DEF ConcludeStep

\* A decision, all in all.
LEMMA DecisionStepKeeps ==
  ASSUME TypeInv, DecisionInv, NEW o \in Ops, DecisionStep(o)
  PROVE  DecisionInv'
<1>1. CASE Resolve(o)
  BY <1>1, ResolveKeeps
<1>2. CASE AdvanceStep(o) \/ ConcludeStep(o)
  <2>1. DecideFrame(o) /\ LockInv'
    BY <1>2, DecideFrames
  <2>. QED
    BY <1>2, <2>1, AdvanceKeeps, ConcludeKeeps
<1>. QED
  BY <1>1, <1>2 DEF DecisionStep

-----------------------------------------------------------------------------
(* Decisions hold: crash and startup.                                      *)

\* After a crash every intent is to be looked after.
LEMMA CrashKeeps ==
  ASSUME TypeInv, DecisionInv, Crash
  PROVE  DecisionInv'
<1>1. UNCHANGED <<agent, passed, inst, gate, intent>> /\ mode' = "down" /\ lock' = None
  BY DEF Crash, external, inbox
<1>2. /\ \A t \in Threads : th'[t].pc = "idle"
      /\ Ops \subseteq Threads /\ Observer \in Threads
  BY Counting DEF Crash, Idle
<1>3. LockInv' /\ AgentInv' /\ PassedInv' /\ GateInv'
  BY <1>1, <1>2 DEF DecisionInv, LockInv, AgentInv, PassedInv, GateInv, At, Observed, Projecting
<1>4. IntentInv'
  BY <1>1, <1>2 DEF DecisionInv, IntentInv, At, Advancing, Concluding, Observed
<1>5. OpenInv'
  BY <1>1, <1>2, OpenStays DEF DecisionInv, Pending
<1>6. AcceptInv'
  BY <1>1 DEF AcceptInv, ToRecover
<1>. QED
  BY <1>3, <1>4, <1>5, <1>6 DEF DecisionInv

\* The next start takes every intent that is not finished.
LEMMA StartKeeps ==
  ASSUME TypeInv, DecisionInv, Start
  PROVE  DecisionInv'
<1>1. /\ UNCHANGED <<agent, passed, inst, gate, intent, th, lock>>
      /\ mode = "down" /\ mode' = "recovering" /\ todo' = Resumable
  BY DEF Start, external, inbox
<1>2. LockInv' /\ AgentInv' /\ PassedInv' /\ GateInv'
  BY <1>1 DEF DecisionInv, LockInv, AgentInv, PassedInv, GateInv, At, Observed, Projecting
<1>3. IntentInv' /\ OpenInv'
  BY <1>1 DEF DecisionInv, IntentInv, OpenInv, At, IdOf, Pending, Observed
<1>4. AcceptInv'
  BY <1>1 DEF AcceptInv, ToRecover, Resumable
<1>. QED
  BY <1>2, <1>3, <1>4 DEF DecisionInv

\* Recovery takes up one intent after the other ...
LEMMA RecoverIntentKeeps ==
  ASSUME TypeInv, TodoInv, DecisionInv, RecoverIntent
  PROVE  DecisionInv'
<1>1. PICK o \in todo : Enter(o, intent[o].state) /\ todo' = todo \ {o}
  BY PickIs DEF RecoverIntent
<1>2. /\ UNCHANGED <<agent, passed, inst, gate, intent, mode>> /\ Free /\ mode = "recovering"
      /\ o \in Ops /\ intent[o].state \in {"PREPARED", "ADVANCE_ACCEPTED"}
  BY DEF RecoverIntent, external, inbox, TodoInv, TypeInv, ControlTypes
<1>3. EnterFrame(o)
  BY <1>1, <1>2, EnterFrames
<1>. QED
  BY <1>1, <1>2, <1>3, RetakeKeeps

\* ... and when it is through, an accepted advance is left of an instance that goes on only where
\* somebody else closed the approval.
LEMMA RecoveredLeavesNone ==
  ASSUME TypeInv, DecisionInv, Recovered
  PROVE  \A o \in Ops : /\ ~ToRecover(o)
                        /\ Observed /\ intent[o].state = "ADVANCE_ACCEPTED" => gate[intent[o].gate].by \notin {None, o}
<1>1. \A o \in Ops : ~ToRecover(o) /\ lock # o
  BY Counting DEF Recovered, Free, ToRecover
<1>. QED
  BY <1>1 DEF DecisionInv, AcceptInv

LEMMA RecoveredKeeps ==
  ASSUME TypeInv, DecisionInv, Recovered
  PROVE  DecisionInv'
<1>1. /\ UNCHANGED <<agent, passed, inst, gate, intent, th, lock, todo>>
      /\ mode = "recovering" /\ mode' = "up" /\ lock = None
  BY DEF Recovered, external, Free
<1>2. LockInv' /\ AgentInv' /\ PassedInv' /\ GateInv'
  BY <1>1 DEF DecisionInv, LockInv, AgentInv, PassedInv, GateInv, At, Observed, Projecting
<1>3. IntentInv' /\ OpenInv'
  BY <1>1 DEF DecisionInv, IntentInv, OpenInv, At, IdOf, Pending, Observed
<1>4. AcceptInv'
  BY <1>1, RecoveredLeavesNone DEF AcceptInv, Observed
<1>. QED
  BY <1>2, <1>3, <1>4 DEF DecisionInv

LEMMA StutterDecides ==
  ASSUME DecisionInv, UNCHANGED vars
  PROVE  DecisionInv'
<1>1. UNCHANGED <<agent, passed, inst, gate, intent, lock, th, mode, todo>>
  BY DEF vars, external, inbox, control
<1>2. LockInv' /\ AgentInv' /\ PassedInv' /\ GateInv'
  BY <1>1 DEF DecisionInv, LockInv, AgentInv, PassedInv, GateInv, At, Observed
<1>3. IntentInv' /\ OpenInv' /\ AcceptInv'
  BY <1>1 DEF DecisionInv, IntentInv, OpenInv, AcceptInv, ToRecover, At, IdOf, Pending, Observed
<1>. QED
  BY <1>2, <1>3 DEF DecisionInv

\* Every step keeps the invariant.
LEMMA DecisionNext ==
  ASSUME TypeInv, TodoInv, DecisionInv, [Next]_vars
  PROVE  DecisionInv'
<1>1. CASE AgentStep
  BY <1>1, AgentKeeps, ExitKeeps DEF AgentStep
<1>2. CASE ObserverStep
  BY <1>2, ObserverKeeps
<1>3. ASSUME NEW o \in Ops, DecisionStep(o) PROVE DecisionInv'
  BY <1>3, DecisionStepKeeps
<1>4. CASE Crash
  BY <1>4, CrashKeeps
<1>5. CASE Startup
  BY <1>5, StartKeeps, RecoverIntentKeeps, RecoveredKeeps DEF Startup
<1>6. CASE UNCHANGED vars
  BY <1>6, StutterDecides
<1>. QED
  BY <1>1, <1>2, <1>3, <1>4, <1>5, <1>6, NextSteps

\* The invariant of the decisions.
LEMMA DecisionInvHolds == Spec => [](TypeInv /\ TodoInv /\ DecisionInv)
<1>1. Init => DecisionInv
  BY DecisionInit
<1>2. TypeInv /\ TodoInv /\ DecisionInv /\ [Next]_vars => DecisionInv'
  BY DecisionNext
<1>. QED
  BY <1>1, <1>2, TypeInvHolds, PTL DEF Spec

-----------------------------------------------------------------------------
(* What the invariant says of the files.                                   *)

\* An advance was taken at the step its approval names, or at a gate that offers the same action.
LEMMA AdvancedThere ==
  ASSUME TypeInv, DecisionInv, NEW k \in Numbers, passed[k] # None
  PROVE  /\ passed[k] \in Ops /\ Approves(passed[k]) /\ intent[passed[k]].state # "NONE"
         /\ Gates[k].action = Command[passed[k]].action
         /\ Gates[k].step = intent[passed[k]].gate[1] \/ Shared(passed[k])
<1> DEFINE o == passed[k]
<1>1. o \in Ops
  BY DEF TypeInv, AgentTypes
<1>2. Approves(o) /\ intent[o].state # "NONE" /\ Gates[k].action = Command[o].action
  BY DEF DecisionInv, PassedInv
<1> HIDE DEF o
<1>3. PICK j \in Numbers : Gates[j].step = intent[o].gate[1] /\ Gates[j].action = Command[o].action
  BY <1>1, <1>2 DEF DecisionInv, IntentInv
<1>4. Gates[k].step = intent[o].gate[1] \/ Shared(o)
  BY <1>2, <1>3 DEF Shared
<1>. QED
  BY <1>1, <1>2, <1>4 DEF o

\* A verdict in the file of an approval has taken effect: the approval advanced the Agent, a
\* rejection has stopped the instance.
LEMMA TakingEffect == TypeInv /\ DecisionInv => DecisionsTakeEffect
<1> SUFFICES ASSUME TypeInv, DecisionInv, NEW g \in Ids, NEW o \in Ops, gate[g].by = o
             PROVE  /\ gate[g].status = Command[o].verdict
                    /\ Approves(o) => \E k \in Numbers : passed[k] = o /\ (Gates[k].step = g[1] \/ Shared(o))
                    /\ ~Approves(o) => ~Observed
  BY DEF DecisionsTakeEffect
<1>1. /\ gate[g].status = Command[o].verdict /\ intent[o].gate = g
      /\ Approves(o) => intent[o].state \in {"ADVANCE_ACCEPTED", "COMMITTED"}
      /\ ~Approves(o) => ~Observed
  BY DEF DecisionInv, GateInv
<1>2. ASSUME Approves(o) PROVE \E k \in Numbers : passed[k] = o /\ (Gates[k].step = g[1] \/ Shared(o))
  <2>1. o \in agent.taken
    BY <1>1, <1>2 DEF DecisionInv, IntentInv
  <2>2. PICK k \in Numbers : passed[k] = o
    BY <2>1 DEF DecisionInv, AgentInv
  <2>3. Gates[k].step = g[1] \/ Shared(o)
    BY <1>1, <2>2, Counting, AdvancedThere
  <2>. QED
    BY <2>2, <2>3
<1>. QED
  BY <1>1, <1>2

\* Whatever advanced a gate is an approval with an action of that gate, and advanced no other.
LEMMA ApprovingAdvances == TypeInv /\ DecisionInv => AdvancesAreApproved
<1> SUFFICES ASSUME TypeInv, DecisionInv, NEW k \in Numbers, passed[k] # None
             PROVE  /\ Approves(passed[k]) /\ intent[passed[k]].gate # None
                    /\ Gates[k].action = Command[passed[k]].action
                    /\ Gates[k].step = intent[passed[k]].gate[1] \/ Shared(passed[k])
                    /\ \A j \in Numbers \ {k} : passed[j] # passed[k]
  BY DEF AdvancesAreApproved
<1>1. /\ passed[k] \in Ops /\ Approves(passed[k]) /\ intent[passed[k]].state # "NONE"
      /\ Gates[k].action = Command[passed[k]].action
      /\ Gates[k].step = intent[passed[k]].gate[1] \/ Shared(passed[k])
  BY AdvancedThere
<1>2. intent[passed[k]].gate # None
  BY <1>1 DEF TypeInv, FileTypes, IntentTypes
<1>3. \A j \in Numbers \ {k} : passed[j] # passed[k]
  BY DEF DecisionInv, AgentInv
<1>. QED
  BY <1>1, <1>2, <1>3

\* There is never a second open approval, locked or not.
LEMMA OpeningOne == DecisionInv => OneGateIsOpen
<1> SUFFICES ASSUME DecisionInv PROVE Cardinality(Pending) <= 1
  BY DEF OneGateIsOpen
<1>1. CASE Pending = {}
  BY <1>1, FS_EmptySet
<1>2. ASSUME NEW g \in Pending PROVE Cardinality(Pending) <= 1
  <2>1. Pending = {g}
    BY DEF DecisionInv, OpenInv
  <2>. QED
    BY <2>1, FS_Singleton
<1>. QED
  BY <1>1, <1>2

\* Decisions take effect, only approvals advance the Agent and each of them once, and one gate is
\* open at a time: resolve_approval and observe_instance, with any number of operations, gates,
\* crashes and exits, whether or not gates share an action.
THEOREM DecisionsAreKept == Spec => []DecisionsHold
<1>1. TypeInv /\ DecisionInv => DecisionsHold
  BY TakingEffect, ApprovingAdvances, OpeningOne DEF DecisionsHold
<1>. QED
  BY <1>1, DecisionInvHolds, PTL

\* Only the end of recovery brings the control process up.
LEMMA OnlyRecoveredComesUp ==
  ASSUME TypeInv, [Next]_vars, mode = "recovering", mode' = "up"
  PROVE  Recovered
<1>1. ~(AgentStep \/ ObserverStep \/ \E o \in Ops : DecisionStep(o))
  BY ControlStays
<1>2. ~Crash /\ ~Start /\ ~RecoverIntent /\ mode' # mode
  BY DEF Crash, Start, RecoverIntent
<1>. QED
  BY <1>1, <1>2, NextSteps DEF Startup, vars, control

\* When a restart is through, _resume_approval has completed every decision whose advance was
\* recorded and whose approval nobody else closed, and the inbox tells of an instance that ended.
THEOREM RestartsComplete == Spec => RestartCompletesDecisions
<1>1. ASSUME TypeInv, DecisionInv, [Next]_vars, mode = "recovering", mode' = "up"
      PROVE  /\ Observed => \A o \in Ops :
                  intent[o].state = "ADVANCE_ACCEPTED" => gate[intent[o].gate].by \notin {None, o}
             /\ ~Observed => failNote'
  <2>1. Recovered
    BY <1>1, OnlyRecoveredComesUp
  <2>2. Observed => \A o \in Ops :
          intent[o].state = "ADVANCE_ACCEPTED" => gate[intent[o].gate].by \notin {None, o}
    BY <1>1, <2>1, RecoveredLeavesNone
  <2>3. ~Observed => failNote'
    BY <2>1 DEF Recovered
  <2>. QED
    BY <2>2, <2>3
<1>2. TypeInv /\ DecisionInv /\ [Next]_vars
        => [mode = "recovering" /\ mode' = "up" =>
              /\ (Observed => \A o \in Ops :
                    intent[o].state = "ADVANCE_ACCEPTED" => gate[intent[o].gate].by \notin {None, o})
              /\ (~Observed => failNote')]_vars
  BY <1>1
<1>. QED
  BY <1>2, DecisionInvHolds, PTL DEF Spec, RestartCompletesDecisions
=============================================================================
