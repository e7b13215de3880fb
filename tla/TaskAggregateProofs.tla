------------------------ MODULE TaskAggregateProofs ------------------------
(***************************************************************************)
(* Proofs about TaskAggregate, for any drafts of plans and any number of   *)
(* commands.                                                               *)
(***************************************************************************)
EXTENDS TaskAggregate, SequenceTheorems, WellFoundedInduction, TLAPS

-----------------------------------------------------------------------------
(* Plans.                                                                  *)

TaskStatuses == DOMAIN TaskTransitions
StageStatuses == DOMAIN StageTransitions
InstanceStatuses == DOMAIN InstanceTransitions

\* A computed plan of the right shape; its topology is the subject of ValidPlan.
IsPlan(p) ==
  /\ p = [ok |-> p.ok, status |-> p.status, stages |-> p.stages, inst |-> p.inst]
  /\ p.ok \in BOOLEAN
  /\ p.status \in TaskStatuses
  /\ p.stages \in Seq(StageType)
  /\ p.inst \in [DOMAIN p.inst -> InstanceType]

\* y is the instance x, perhaps activated, and the stage x, perhaps activated and with
\* another status.
SameInstance(x, y) ==
  /\ y.stage = x.stage /\ y.required = x.required /\ y.original = x.original
  /\ y.downgraded = x.downgraded /\ y.status = x.status /\ y.finished = x.finished
  /\ y.board = x.board /\ y.rejected = x.rejected /\ y.card = x.card
  /\ x.activated => y.activated
SameStage(x, y) ==
  /\ y.type = x.type /\ y.deps = x.deps /\ y.required = x.required /\ y.original = x.original
  /\ y.downgraded = x.downgraded
  /\ x.activated => y.activated

\* q is what an aggregation makes of p: nothing but activations and the statuses of stages.
Framed(p, q) ==
  /\ IsPlan(q)
  /\ q.status = p.status
  /\ DOMAIN q.inst = DOMAIN p.inst /\ DOMAIN q.stages = DOMAIN p.stages
  /\ \A i \in DOMAIN p.inst : SameInstance(p.inst[i], q.inst[i])
  /\ \A s \in DOMAIN p.stages : SameStage(p.stages[s], q.stages[s])
  /\ q.ok => p.ok

\* The statuses of the catalog, spelled out.
LEMMA Catalog ==
  /\ TaskStatuses = {"NONE", "DRAFT", "PLANNED", "AWAITING_START_CONFIRMATION", "RUNNING",
                     "WAITING_APPROVAL", "BLOCKED_UNAVAILABLE", "FAILED", "SUCCEEDED", "PARTIAL",
                     "CANCELLED", "ARCHIVED"}
  /\ StageStatuses = {"PENDING", "READY", "RUNNING", "WAITING_APPROVAL", "FAILED", "UNAVAILABLE",
                      "SUCCEEDED", "SKIPPED", "CANCELLED"}
  /\ InstanceStatuses = {"CREATED", "UNAVAILABLE", "READY", "STARTING", "RUNNING",
                         "WAITING_APPROVAL", "FAILED_TO_START", "FAILED", "CRASHED", "SUCCEEDED",
                         "CANCELLED", "SUPERSEDED", "STOPPED", "ARCHIVED"}
BY DEF TaskStatuses, StageStatuses, InstanceStatuses, TaskTransitions, StageTransitions,
       InstanceTransitions

\* A set of numbers that begins at 0 and goes on to n is all of them: induction over the
\* stages of a plan.
LEMMA UpTo ==
  ASSUME NEW n \in Nat, NEW S, 0 \in S, \A k \in 1..n : k - 1 \in S => k \in S
  PROVE  \A k \in 0..n : k \in S
<1>. DEFINE T == {k \in 0..n : k \notin S}
<1>. SUFFICES ASSUME T # {} PROVE FALSE
  OBVIOUS
<1>1. T \subseteq Nat
  OBVIOUS
<1>2. PICK x \in T : \A y \in T : <<y, x>> \notin OpToRel(<, Nat)
  <2>. HIDE DEF T
  <2>. QED
    BY <1>1, NatLessThanWellFounded, WFMin
<1>3. x \in 1..n /\ x - 1 \in T
  OBVIOUS
<1>4. <<x - 1, x>> \in OpToRel(<, Nat)
  BY <1>3 DEF OpToRel
<1>. QED
  BY <1>2, <1>3, <1>4

-----------------------------------------------------------------------------
(* What a write to one or two fields of a plan leaves.                     *)

Shape(p) == p = [ok |-> p.ok, status |-> p.status, stages |-> p.stages, inst |-> p.inst]

\* Writes to the fields of a plan, alone and in pairs.
LEMMA WriteOk ==
  ASSUME NEW p, Shape(p), NEW x
  PROVE  [p EXCEPT !.ok = x] = [ok |-> x, status |-> p.status, stages |-> p.stages, inst |-> p.inst]
BY DEF Shape

\* A write to the status of the task.
LEMMA WriteStatus ==
  ASSUME NEW p, Shape(p), NEW x
  PROVE  [p EXCEPT !.status = x] = [ok |-> p.ok, status |-> x, stages |-> p.stages, inst |-> p.inst]
BY DEF Shape

\* A write to the stages.
LEMMA WriteStages ==
  ASSUME NEW p, Shape(p), NEW x
  PROVE  [p EXCEPT !.stages = x] = [ok |-> p.ok, status |-> p.status, stages |-> x, inst |-> p.inst]
BY DEF Shape

\* A write to the instances.
LEMMA WriteInst ==
  ASSUME NEW p, Shape(p), NEW x
  PROVE  [p EXCEPT !.inst = x] = [ok |-> p.ok, status |-> p.status, stages |-> p.stages, inst |-> x]
BY DEF Shape

\* A write to stages and instances.
LEMMA WriteStagesInst ==
  ASSUME NEW p, Shape(p), NEW x, NEW y
  PROVE  [p EXCEPT !.stages = x, !.inst = y] =
           [ok |-> p.ok, status |-> p.status, stages |-> x, inst |-> y]
<1>. DEFINE q == [p EXCEPT !.stages = x]
<1>1. q = [ok |-> p.ok, status |-> p.status, stages |-> x, inst |-> p.inst]
  BY WriteStages
<1>2. [q EXCEPT !.inst = y] = [ok |-> p.ok, status |-> p.status, stages |-> x, inst |-> y]
  <2>. HIDE DEF q
  <2>1. Shape(q)
    BY <1>1 DEF Shape
  <2>. QED
    BY <1>1, <2>1, WriteInst
<1>. QED
  BY <1>1, <1>2

\* A write to the stages of a plan that may raise.
LEMMA WriteOkStages ==
  ASSUME NEW p, Shape(p), NEW x, NEW y
  PROVE  [p EXCEPT !.ok = x, !.stages = y] =
           [ok |-> x, status |-> p.status, stages |-> y, inst |-> p.inst]
<1>. DEFINE q == [p EXCEPT !.ok = x]
<1>1. q = [ok |-> x, status |-> p.status, stages |-> p.stages, inst |-> p.inst]
  BY WriteOk
<1>2. [q EXCEPT !.stages = y] = [ok |-> x, status |-> p.status, stages |-> y, inst |-> p.inst]
  <2>. HIDE DEF q
  <2>1. Shape(q)
    BY <1>1 DEF Shape
  <2>. QED
    BY <1>1, <2>1, WriteStages
<1>. QED
  BY <1>1, <1>2

\* A write to the instances of a plan that may raise.
LEMMA WriteOkInst ==
  ASSUME NEW p, Shape(p), NEW x, NEW y
  PROVE  [p EXCEPT !.ok = x, !.inst = y] =
           [ok |-> x, status |-> p.status, stages |-> p.stages, inst |-> y]
<1>. DEFINE q == [p EXCEPT !.ok = x]
<1>1. q = [ok |-> x, status |-> p.status, stages |-> p.stages, inst |-> p.inst]
  BY WriteOk
<1>2. [q EXCEPT !.inst = y] = [ok |-> x, status |-> p.status, stages |-> p.stages, inst |-> y]
  <2>. HIDE DEF q
  <2>1. Shape(q)
    BY <1>1 DEF Shape
  <2>. QED
    BY <1>1, <2>1, WriteInst
<1>. QED
  BY <1>1, <1>2

\* A write to the status of a plan that may raise.
LEMMA WriteOkStatus ==
  ASSUME NEW p, Shape(p), NEW x, NEW y
  PROVE  [p EXCEPT !.ok = x, !.status = y] =
           [ok |-> x, status |-> y, stages |-> p.stages, inst |-> p.inst]
<1>. DEFINE q == [p EXCEPT !.ok = x]
<1>1. q = [ok |-> x, status |-> p.status, stages |-> p.stages, inst |-> p.inst]
  BY WriteOk
<1>2. [q EXCEPT !.status = y] = [ok |-> x, status |-> y, stages |-> p.stages, inst |-> p.inst]
  <2>. HIDE DEF q
  <2>1. Shape(q)
    BY <1>1 DEF Shape
  <2>. QED
    BY <1>1, <2>1, WriteStatus
<1>. QED
  BY <1>1, <1>2

\* A write to the status and the instances.
LEMMA WriteStatusInst ==
  ASSUME NEW p, Shape(p), NEW x, NEW y
  PROVE  [p EXCEPT !.status = x, !.inst = y] =
           [ok |-> p.ok, status |-> x, stages |-> p.stages, inst |-> y]
<1>. DEFINE q == [p EXCEPT !.status = x]
<1>1. q = [ok |-> p.ok, status |-> x, stages |-> p.stages, inst |-> p.inst]
  BY WriteStatus
<1>2. [q EXCEPT !.inst = y] = [ok |-> p.ok, status |-> x, stages |-> p.stages, inst |-> y]
  <2>. HIDE DEF q
  <2>1. Shape(q)
    BY <1>1 DEF Shape
  <2>. QED
    BY <1>1, <2>1, WriteInst
<1>. QED
  BY <1>1, <1>2

-----------------------------------------------------------------------------
(* Aggregation of one stage.                                               *)

Activated(x) == [x EXCEPT !.activated = TRUE]
WithStatus(x, t) == [x EXCEPT !.status = t]
Written(p, s, o, t) == [p EXCEPT !.ok = o, !.stages[s].status = t]

\* An instance or a stage with one field written keeps its type.
LEMMA ActivatedTypes ==
  /\ \A x \in InstanceType : Activated(x) \in InstanceType
  /\ \A x \in StageType : Activated(x) \in StageType
  /\ \A x \in StageType, t \in StageStatuses : WithStatus(x, t) \in StageType
BY DEF InstanceType, StageType, StageStatuses, Activated, WithStatus

\* What the shape of a plan says of its stages and of its instances.
LEMMA StageTyped ==
  ASSUME NEW p, IsPlan(p)
  PROVE  /\ Len(p.stages) \in Nat /\ DOMAIN p.stages = 1..Len(p.stages)
         /\ \A s \in DOMAIN p.stages :
              /\ p.stages[s] \in StageType
              /\ p.stages[s].activated \in BOOLEAN /\ p.stages[s].required \in BOOLEAN
              /\ p.stages[s].status \in StageStatuses
<1>1. p.stages \in Seq(StageType)
  BY DEF IsPlan
<1>2. Len(p.stages) \in Nat /\ DOMAIN p.stages = 1..Len(p.stages)
  BY <1>1, LenProperties
<1>3. \A s \in DOMAIN p.stages : p.stages[s] \in StageType
  BY <1>1, <1>2, ElementOfSeq
<1>. QED
  BY <1>2, <1>3 DEF StageType, StageStatuses
\* The same of its instances.
LEMMA InstTyped ==
  ASSUME NEW p, IsPlan(p)
  PROVE  \A i \in DOMAIN p.inst :
           /\ p.inst[i] \in InstanceType
           /\ p.inst[i].activated \in BOOLEAN /\ p.inst[i].required \in BOOLEAN
           /\ p.inst[i].finished \in BOOLEAN /\ p.inst[i].rejected \in BOOLEAN
           /\ p.inst[i].original \in BOOLEAN /\ p.inst[i].downgraded \in BOOLEAN
           /\ p.inst[i].status \in InstanceStatuses
BY DEF IsPlan, InstanceType, InstanceStatuses

\* What activates a stage: its instances too.
LEMMA ActivateFields ==
  ASSUME NEW p, IsPlan(p), NEW s \in DOMAIN p.stages
  PROVE  LET q == Activate(p, s) IN
         /\ IsPlan(q) /\ q.ok = p.ok /\ q.status = p.status
         /\ DOMAIN q.inst = DOMAIN p.inst /\ DOMAIN q.stages = DOMAIN p.stages
         /\ \A i \in DOMAIN p.inst :
              q.inst[i] = IF p.inst[i].stage = s THEN Activated(p.inst[i])
                          ELSE p.inst[i]
         /\ \A t \in DOMAIN p.stages :
              q.stages[t] = IF t = s THEN Activated(p.stages[s])
                            ELSE p.stages[t]
<1>. DEFINE x == Activated(p.stages[s])
            st == [p.stages EXCEPT ![s] = x]
            in == [i \in DOMAIN p.inst |-> IF p.inst[i].stage = s
                                           THEN Activated(p.inst[i]) ELSE p.inst[i]]
<1>1. Activate(p, s) = [ok |-> p.ok, status |-> p.status, stages |-> st, inst |-> in]
  BY WriteStagesInst DEF Activate, Activated, IsPlan, Shape
<1>2. s \in 1..Len(p.stages) /\ p.stages \in Seq(StageType) /\ p.stages[s] \in StageType
  BY LenProperties, ElementOfSeq DEF IsPlan
<1>3. x \in StageType
  BY <1>2, ActivatedTypes
<1>4. st \in Seq(StageType) /\ DOMAIN st = DOMAIN p.stages
  <2>. HIDE DEF x
  <2>. QED
    BY <1>2, <1>3, ExceptSeq
<1>5. in \in [DOMAIN in -> InstanceType] /\ DOMAIN in = DOMAIN p.inst
  BY ActivatedTypes DEF IsPlan
<1>6. \A t \in DOMAIN p.stages : st[t] = IF t = s THEN x ELSE p.stages[t]
  OBVIOUS
<1>7. \A i \in DOMAIN p.inst : in[i] = IF p.inst[i].stage = s
                                       THEN Activated(p.inst[i]) ELSE p.inst[i]
  OBVIOUS
<1>. DEFINE q == Activate(p, s)
<1>. HIDE DEF x, st, in, q
<1>8. IsPlan(q)
  BY <1>1, <1>4, <1>5 DEF IsPlan, q
<1>9. q.ok = p.ok /\ q.status = p.status /\ q.stages = st /\ q.inst = in
  BY <1>1 DEF q
<1>. QED
  BY <1>4, <1>5, <1>6, <1>7, <1>8, <1>9 DEF q, x

\* The target of an aggregation is a status of the catalog, PENDING exactly behind a closed
\* gate or where it was before.
LEMMA TargetTypes ==
  ASSUME NEW p, IsPlan(p), NEW s \in DOMAIN p.stages
  PROVE  AggregateStage(p, s) \in StageStatuses
<1>1. p.stages[s] \in StageType
  BY LenProperties, ElementOfSeq DEF IsPlan
<1>2. p.stages[s].status \in StageStatuses
  BY <1>1 DEF StageType, StageStatuses
<1>. QED
  BY <1>2, Catalog DEF AggregateStage

Opens(p, s, activateNew) ==
  activateNew /\ p.stages[s].type = "ppt" /\ DependenciesAuthorized(p, s)
Follows(before, target) == target = before \/ StageReaggregates(before, target)

\* The write that ends the refresh of a stage.
LEMMA StageWritten ==
  ASSUME NEW p, IsPlan(p), NEW s \in DOMAIN p.stages, NEW o \in BOOLEAN, NEW t \in StageStatuses
  PROVE  LET q == Written(p, s, o, t) IN
         /\ IsPlan(q) /\ q.ok = o /\ q.status = p.status /\ q.inst = p.inst
         /\ DOMAIN q.stages = DOMAIN p.stages
         /\ \A u \in DOMAIN p.stages \ {s} : q.stages[u] = p.stages[u]
         /\ q.stages[s] = WithStatus(p.stages[s], t)
<1>. DEFINE x == WithStatus(p.stages[s], t)
            st == [p.stages EXCEPT ![s] = x]
            q == Written(p, s, o, t)
<1>1. q = [ok |-> o, status |-> p.status, stages |-> st, inst |-> p.inst]
  BY WriteOkStages DEF Written, WithStatus, IsPlan, Shape
<1>2. s \in 1..Len(p.stages) /\ p.stages \in Seq(StageType) /\ p.stages[s] \in StageType
  BY LenProperties, ElementOfSeq DEF IsPlan
<1>3. x \in StageType
  BY <1>2, ActivatedTypes
<1>4. st \in Seq(StageType) /\ DOMAIN st = DOMAIN p.stages
  <2>. HIDE DEF x
  <2>. QED
    BY <1>2, <1>3, ExceptSeq
<1>5. \A u \in DOMAIN p.stages : st[u] = IF u = s THEN x ELSE p.stages[u]
  OBVIOUS
<1>. HIDE DEF x, st, q
<1>6. IsPlan(q)
  BY <1>1, <1>4 DEF IsPlan
<1>7. q.ok = o /\ q.status = p.status /\ q.stages = st /\ q.inst = p.inst
  BY <1>1
<1>. QED
  BY <1>4, <1>5, <1>6, <1>7 DEF q, x

\* What a write of activated or status leaves of an instance and of a stage.
LEMMA WrittenSame ==
  /\ \A x \in InstanceType : SameInstance(x, Activated(x))
  /\ \A x \in InstanceType : Activated(x).activated
  /\ \A x \in StageType : /\ SameStage(x, Activated(x))
                          /\ Activated(x).activated
                          /\ Activated(x).status = x.status
  /\ \A x \in StageType, t \in StageStatuses : /\ SameStage(x, WithStatus(x, t))
                                               /\ WithStatus(x, t).status = t
                                               /\ WithStatus(x, t).activated = x.activated
BY DEF InstanceType, StageType, SameInstance, SameStage, Activated, WithStatus

\* _refresh_stages, one stage: what it writes.
LEMMA RefreshStageFields ==
  ASSUME NEW p, IsPlan(p), NEW s \in DOMAIN p.stages, NEW a \in BOOLEAN
  PROVE  LET q == RefreshStage(p, s, a) IN
         /\ Framed(p, q)
         /\ \A t \in DOMAIN p.stages \ {s} : q.stages[t] = p.stages[t]
         /\ q.stages[s].status = AggregateStage(p, s)
         /\ q.stages[s].activated = (p.stages[s].activated \/ Opens(p, s, a))
         /\ \A i \in DOMAIN p.inst :
              IF p.inst[i].stage = s
              THEN q.inst[i].activated = (p.inst[i].activated \/ Opens(p, s, a))
              ELSE q.inst[i] = p.inst[i]
         /\ q.ok = (p.ok /\ Follows(p.stages[s].status, AggregateStage(p, s)))
<1>. DEFINE m == IF Opens(p, s, a) THEN Activate(p, s) ELSE p
            t == AggregateStage(p, s)
            o == m.ok /\ Follows(p.stages[s].status, t)
            q == RefreshStage(p, s, a)
<1>1. q = Written(m, s, o, t)
  BY DEF RefreshStage, Opens, Follows, Written
<1>2. p.stages[s] \in StageType /\ p.inst \in [DOMAIN p.inst -> InstanceType]
  BY LenProperties, ElementOfSeq DEF IsPlan
<1>3. /\ IsPlan(m) /\ m.ok = p.ok /\ m.status = p.status
      /\ DOMAIN m.inst = DOMAIN p.inst /\ DOMAIN m.stages = DOMAIN p.stages
      /\ \A i \in DOMAIN p.inst :
           /\ SameInstance(p.inst[i], m.inst[i])
           /\ IF p.inst[i].stage = s THEN m.inst[i].activated = (p.inst[i].activated \/ Opens(p, s, a))
              ELSE m.inst[i] = p.inst[i]
      /\ \A u \in DOMAIN p.stages \ {s} : m.stages[u] = p.stages[u]
      /\ SameStage(p.stages[s], m.stages[s])
      /\ m.stages[s].activated = (p.stages[s].activated \/ Opens(p, s, a))
  <2>1. CASE Opens(p, s, a)
    <3>1. m = Activate(p, s)
      BY <2>1
    <3>2. \A i \in DOMAIN p.inst : p.inst[i] \in InstanceType
      BY <1>2
    <3>. HIDE DEF m
    <3>3. \A i \in DOMAIN p.inst : SameInstance(p.inst[i], p.inst[i])
      BY DEF SameInstance
    <3>4. /\ IsPlan(m) /\ m.ok = p.ok /\ m.status = p.status
          /\ DOMAIN m.inst = DOMAIN p.inst /\ DOMAIN m.stages = DOMAIN p.stages
          /\ \A i \in DOMAIN p.inst :
               m.inst[i] = IF p.inst[i].stage = s THEN Activated(p.inst[i])
                           ELSE p.inst[i]
          /\ \A u \in DOMAIN p.stages :
               m.stages[u] = IF u = s THEN Activated(p.stages[s])
                             ELSE p.stages[u]
      BY <3>1, ActivateFields
    <3>5. \A i \in DOMAIN p.inst :
            /\ SameInstance(p.inst[i], m.inst[i])
            /\ IF p.inst[i].stage = s THEN m.inst[i].activated ELSE m.inst[i] = p.inst[i]
      BY <3>2, <3>3, <3>4, WrittenSame
    <3>6. /\ \A u \in DOMAIN p.stages \ {s} : m.stages[u] = p.stages[u]
          /\ SameStage(p.stages[s], m.stages[s]) /\ m.stages[s].activated
      BY <3>4, <1>2, WrittenSame
    <3>7. \A i \in DOMAIN p.inst : m.inst[i].activated \in BOOLEAN
      BY <3>4 DEF IsPlan, InstanceType
    <3>8. m.stages[s].activated \in BOOLEAN
      BY <3>4, StageTyped
    <3>. QED
      BY <2>1, <3>4, <3>5, <3>6, <3>7, <3>8
  <2>2. CASE ~Opens(p, s, a)
    <3>1. m = p
      BY <2>2
    <3>2. /\ \A i \in DOMAIN p.inst : p.inst[i].activated \in BOOLEAN
          /\ p.stages[s].activated \in BOOLEAN
      BY <1>2 DEF InstanceType, StageType
    <3>. HIDE DEF m
    <3>. QED
      BY <2>2, <3>1, <3>2 DEF SameInstance, SameStage
  <2>. QED
    BY <2>1, <2>2
<1>4. t \in StageStatuses /\ o \in BOOLEAN
  BY TargetTypes, <1>3 DEF IsPlan
<1>. HIDE DEF m, t, o, q
<1>5. /\ IsPlan(q) /\ q.ok = o /\ q.status = m.status /\ q.inst = m.inst
      /\ DOMAIN q.stages = DOMAIN m.stages
      /\ \A u \in DOMAIN m.stages \ {s} : q.stages[u] = m.stages[u]
      /\ q.stages[s] = WithStatus(m.stages[s], t)
  <2>1. s \in DOMAIN m.stages
    BY <1>3
  <2>2. IsPlan(m)
    BY <1>3
  <2>. QED
    BY <1>1, <1>4, <2>1, <2>2, StageWritten
<1>6. m.stages[s] \in StageType
  BY <1>3, LenProperties, ElementOfSeq DEF IsPlan
<1>7. /\ SameStage(m.stages[s], q.stages[s]) /\ q.stages[s].status = t
      /\ q.stages[s].activated = m.stages[s].activated
  BY <1>4, <1>5, <1>6, WrittenSame
<1>8. SameStage(p.stages[s], q.stages[s])
  BY <1>3, <1>7 DEF SameStage
<1>9. \A u \in DOMAIN p.stages : SameStage(p.stages[u], q.stages[u])
  BY <1>3, <1>5, <1>8 DEF SameStage
<1>10. Framed(p, q)
  BY <1>3, <1>5, <1>9 DEF Framed, o
<1>. QED
  BY <1>3, <1>5, <1>7, <1>10 DEF o, t, q

\* q has the members of p, where p has them.
SameMembers(p, q) ==
  /\ DOMAIN q.inst = DOMAIN p.inst
  /\ \A i \in DOMAIN p.inst :
       /\ q.inst[i].stage = p.inst[i].stage
       /\ q.inst[i].status = p.inst[i].status
       /\ q.inst[i].required = p.inst[i].required
Entered(p, s) == DependenciesAuthorized(p, s) \/ p.stages[s].activated

\* aggregate_stage as a function of what it reads.
Rule(old, entered, required, needed, all, some) ==
  IF old \in {"SKIPPED", "CANCELLED"} THEN old
  ELSE IF ~entered THEN "PENDING"
  ELSE IF all \cap Executing # {} THEN "RUNNING"
  ELSE IF all \cap {"READY", "CREATED"} # {}
    THEN IF old \in {"RUNNING", "WAITING_APPROVAL"} THEN "RUNNING" ELSE "READY"
  ELSE IF some \cap Waiting # {} THEN "WAITING_APPROVAL"
  ELSE IF some \cap Failed # {} THEN "FAILED"
  ELSE IF "UNAVAILABLE" \in some THEN "UNAVAILABLE"
  ELSE IF needed # {} /\ some \subseteq {"SUCCEEDED", "ARCHIVED"} THEN "SUCCEEDED"
  ELSE IF needed = {} /\ ~required
    THEN IF all \cap {"SUCCEEDED", "ARCHIVED"} # {} THEN "SUCCEEDED" ELSE "SKIPPED"
  ELSE old

NeededOf(p, s) == {i \in InstancesOf(p, s) : p.inst[i].required}
\* The aggregate of stage s of p, had the stage the status old.
RuleFrom(old, p, s) ==
  Rule(old, Entered(p, s), p.stages[s].required, NeededOf(p, s),
       StatusesOf(p, InstancesOf(p, s)), StatusesOf(p, NeededOf(p, s)))

\* AggregateStage is this function of the stage, its members and its gate.
LEMMA AggregateIsRule ==
  ASSUME NEW p, NEW s
  PROVE  AggregateStage(p, s) = RuleFrom(p.stages[s].status, p, s)
BY DEF AggregateStage, Rule, RuleFrom, Entered, NeededOf

\* An aggregation depends on the members of the stage and on its gate.
LEMMA RuleSame ==
  ASSUME NEW p, NEW q, NEW s, SameMembers(p, q),
         q.stages[s].required = p.stages[s].required,
         Entered(q, s) <=> Entered(p, s), NEW old
  PROVE  RuleFrom(old, q, s) = RuleFrom(old, p, s)
<1>1. InstancesOf(q, s) = InstancesOf(p, s)
  BY DEF SameMembers, InstancesOf
<1>2. StatusesOf(q, InstancesOf(q, s)) = StatusesOf(p, InstancesOf(p, s))
  BY <1>1 DEF SameMembers, StatusesOf, InstancesOf
<1>3. NeededOf(q, s) = NeededOf(p, s)
  BY <1>1 DEF SameMembers, InstancesOf, NeededOf
<1>4. StatusesOf(q, NeededOf(q, s)) = StatusesOf(p, NeededOf(p, s))
  BY <1>3 DEF SameMembers, StatusesOf, InstancesOf, NeededOf
<1>. QED
  BY <1>2, <1>3, <1>4 DEF RuleFrom, Rule

\* The gate of a stage depends on its dependencies and on the Images.
LEMMA GateSame ==
  ASSUME NEW p, NEW q, NEW s \in DOMAIN p.stages, SameMembers(p, q), ValidPlan(p),
         DOMAIN q.stages = DOMAIN p.stages,
         \A t \in DOMAIN p.stages : q.stages[t].type = p.stages[t].type,
         q.stages[s].deps = p.stages[s].deps,
         \A d \in p.stages[s].deps : q.stages[d].status = p.stages[d].status,
         \A i \in DOMAIN p.inst : q.inst[i].finished = p.inst[i].finished
  PROVE  DependenciesAuthorized(q, s) <=> DependenciesAuthorized(p, s)
<1>1. \A i \in DOMAIN p.inst : p.inst[i].stage \in DOMAIN p.stages
  BY DEF ValidPlan
<1>2. Images(q) = Images(p)
  BY <1>1 DEF Images, AgentType, SameMembers
<1>3. (\A i \in Images(q) : q.inst[i].finished) <=> (\A i \in Images(p) : p.inst[i].finished)
  BY <1>2 DEF Images
<1>4. (\A d \in q.stages[s].deps : q.stages[d].status = "SUCCEEDED")
        <=> (\A d \in p.stages[s].deps : p.stages[d].status = "SUCCEEDED")
  OBVIOUS
<1>. QED
  BY <1>2, <1>3, <1>4 DEF DependenciesAuthorized

-----------------------------------------------------------------------------
(* The folds over the stages.                                              *)

\* _refresh_stages is the sequence of its one-stage refreshes.
LEMMA RefreshSteps ==
  ASSUME NEW p, IsPlan(p), NEW a \in BOOLEAN
  PROVE  \E f : /\ f[0] = p
                /\ \A n \in 1..Len(p.stages) : f[n] = RefreshStage(f[n - 1], n, a)
                /\ RefreshStages(p, a) = f[Len(p.stages)]
<1>. DEFINE L == Len(p.stages)
            F(f, k) == f = [n \in 0..k |-> IF n = 0 THEN p ELSE RefreshStage(f[n - 1], n, a)]
            S == {k \in 0..L : \E f : F(f, k)}
<1>1. L \in Nat
  BY StageTyped
<1>2. 0 \in S
  <2>1. F([n \in 0..0 |-> p], 0)
    OBVIOUS
  <2>. HIDE DEF F
  <2>. QED
    BY <2>1, <1>1
<1>3. ASSUME NEW k \in 1..L, k - 1 \in S
      PROVE  k \in S
  <2>1. PICK f : F(f, k - 1)
    BY <1>3
  <2>. DEFINE g == [n \in 0..k |-> IF n < k THEN f[n] ELSE RefreshStage(f[k - 1], k, a)]
  <2>2. ASSUME NEW n \in 0..k
        PROVE  g[n] = IF n = 0 THEN p ELSE RefreshStage(g[n - 1], n, a)
    <3>1. CASE n < k
      <4>1. n \in 0..(k - 1)
        BY <1>1, <3>1
      <4>2. f[n] = IF n = 0 THEN p ELSE RefreshStage(f[n - 1], n, a)
        BY <2>1, <4>1
      <4>3. n # 0 => g[n - 1] = f[n - 1]
        BY <1>1, <3>1
      <4>. QED
        BY <3>1, <4>2, <4>3
    <3>2. CASE n = k
      BY <3>2, <1>1
    <3>. QED
      BY <3>1, <3>2, <1>1
  <2>3. F(g, k)
    <3>. DEFINE h == [n \in 0..k |-> IF n = 0 THEN p ELSE RefreshStage(g[n - 1], n, a)]
    <3>1. \A n \in 0..k : g[n] = h[n]
      BY <2>2
    <3>2. DOMAIN g = 0..k /\ DOMAIN h = 0..k
      OBVIOUS
    <3>3. g = [n \in 0..k |-> g[n]] /\ h = [n \in 0..k |-> h[n]]
      BY <3>2
    <3>. HIDE DEF g, h
    <3>4. g = h
      BY <3>1, <3>3
    <3>. QED
      BY <3>4 DEF h
  <2>. HIDE DEF F, g
  <2>. QED
    BY <2>3
<1>4. L \in S
  <2>. HIDE DEF S, F, L
  <2>. QED
    BY <1>1, <1>2, <1>3, UpTo
<1>5. PICK f0 : F(f0, L)
  BY <1>4
<1>. DEFINE f == CHOOSE f : F(f, L)
<1>6. F(f, L)
  <2>. HIDE DEF F, L
  <2>. QED
    BY Zenon, <1>5
<1>7. RefreshStages(p, a) = f[L]
  BY Zenon DEF RefreshStages
<1>. HIDE DEF f
<1>8. f[0] = p /\ \A n \in 1..L : f[n] = RefreshStage(f[n - 1], n, a)
  BY <1>1, <1>6
<1>. QED
  BY <1>7, <1>8

\* Aggregations compose.
LEMMA FramedSelf ==
  ASSUME NEW p, IsPlan(p)
  PROVE  Framed(p, p)
BY DEF Framed, SameInstance, SameStage

\* An aggregation after an aggregation is one.
LEMMA FramedTwice ==
  ASSUME NEW p, NEW q, NEW r, Framed(p, q), Framed(q, r)
  PROVE  Framed(p, r)
<1>1. \A i \in DOMAIN p.inst : SameInstance(p.inst[i], r.inst[i])
  BY DEF Framed, SameInstance
<1>2. \A s \in DOMAIN p.stages : SameStage(p.stages[s], r.stages[s])
  BY DEF Framed, SameStage
<1>. QED
  BY <1>1, <1>2 DEF Framed

\* An aggregation leaves members, types, topology and the cards alone.
LEMMA FramedKeeps ==
  ASSUME NEW p, NEW q, Framed(p, q)
  PROVE  /\ SameMembers(p, q)
         /\ \A s : InstancesOf(q, s) = InstancesOf(p, s)
         /\ \A s \in DOMAIN p.stages :
              /\ q.stages[s].type = p.stages[s].type /\ q.stages[s].deps = p.stages[s].deps
              /\ q.stages[s].required = p.stages[s].required
         /\ \A i \in DOMAIN p.inst : q.inst[i].finished = p.inst[i].finished
         /\ ValidPlan(q) => ValidPlan(p)
         /\ ValidPlan(p) => ValidPlan(q)
<1>1. SameMembers(p, q)
  BY DEF Framed, SameInstance, SameMembers
<1>2. \A s : InstancesOf(q, s) = InstancesOf(p, s)
  BY <1>1 DEF SameMembers, InstancesOf
<1>3. \A s \in DOMAIN p.stages :
        /\ q.stages[s].type = p.stages[s].type /\ q.stages[s].deps = p.stages[s].deps
        /\ q.stages[s].required = p.stages[s].required
  BY DEF Framed, SameStage
<1>4. \A i \in DOMAIN p.inst : q.inst[i].finished = p.inst[i].finished
  BY DEF Framed, SameInstance
<1>5. DOMAIN q.stages = DOMAIN p.stages
  BY DEF Framed
<1>6. \A s \in DOMAIN p.stages : \A d \in 1..(s - 1) : d \in DOMAIN p.stages
  BY <1>5, StageTyped DEF Framed
<1>7. ValidPlan(q) => ValidPlan(p)
  BY <1>1, <1>2, <1>3, <1>5, <1>6 DEF ValidPlan, SameMembers
<1>8. ValidPlan(p) => ValidPlan(q)
  BY <1>1, <1>2, <1>3, <1>5, <1>6 DEF ValidPlan, SameMembers
<1>. QED
  BY <1>1, <1>2, <1>3, <1>4, <1>7, <1>8

\* _refresh_stages changes nothing but activations and the statuses of stages.
LEMMA RefreshFrame ==
  ASSUME NEW p, IsPlan(p), NEW a \in BOOLEAN
  PROVE  Framed(p, RefreshStages(p, a))
<1>1. PICK f : /\ f[0] = p
               /\ \A n \in 1..Len(p.stages) : f[n] = RefreshStage(f[n - 1], n, a)
               /\ RefreshStages(p, a) = f[Len(p.stages)]
  BY RefreshSteps
<1>. DEFINE L == Len(p.stages)
<1>2. L \in Nat /\ DOMAIN p.stages = 1..L
  BY StageTyped
<1>. DEFINE S == {n \in 0..L : Framed(p, f[n])}
<1>3. 0 \in S
  BY <1>1, <1>2, FramedSelf
<1>4. ASSUME NEW n \in 1..L, n - 1 \in S
      PROVE  n \in S
  <2>1. IsPlan(f[n - 1]) /\ n \in DOMAIN f[n - 1].stages
    BY <1>2, <1>4 DEF Framed
  <2>2. Framed(f[n - 1], f[n])
    BY <1>1, <2>1, RefreshStageFields
  <2>. QED
    BY <1>2, <1>4, <2>2, FramedTwice
<1>5. L \in S
  <2>. HIDE DEF S, L
  <2>. QED
    BY <1>2, <1>3, <1>4, UpTo
<1>. QED
  BY <1>1, <1>5

\* After _refresh_stages every stage shows its aggregate, and the stages that were opened and
\* their instances are activated; it raises when a stage cannot follow.
Refreshed(p, q, a) ==
  /\ Framed(p, q)
  /\ \A s \in DOMAIN p.stages :
       /\ q.stages[s].status = RuleFrom(p.stages[s].status, q, s)
       /\ q.stages[s].activated = (p.stages[s].activated \/ Opens(q, s, a))
  /\ \A i \in DOMAIN p.inst :
       q.inst[i].activated = (p.inst[i].activated \/ Opens(q, p.inst[i].stage, a))
  /\ q.ok = (p.ok /\ \A s \in DOMAIN p.stages : Follows(p.stages[s].status, q.stages[s].status))

\* _refresh_stages of a valid plan.
LEMMA RefreshFacts ==
  ASSUME NEW p, IsPlan(p), ValidPlan(p), NEW a \in BOOLEAN
  PROVE  Refreshed(p, RefreshStages(p, a), a)
<1>1. PICK f : /\ f[0] = p
               /\ \A n \in 1..Len(p.stages) : f[n] = RefreshStage(f[n - 1], n, a)
               /\ RefreshStages(p, a) = f[Len(p.stages)]
  BY RefreshSteps
<1>. DEFINE L == Len(p.stages)
<1>2. L \in Nat /\ DOMAIN p.stages = 1..L
  BY StageTyped
<1>. DEFINE Part(q, n) ==
      /\ Framed(p, q)
      /\ \A s \in (n + 1)..L : q.stages[s] = p.stages[s]
      /\ \A s \in 1..n :
           /\ q.stages[s].status = RuleFrom(p.stages[s].status, q, s)
           /\ q.stages[s].activated = (p.stages[s].activated \/ Opens(q, s, a))
      /\ \A i \in DOMAIN p.inst :
           q.inst[i].activated = (p.inst[i].activated
                                    \/ (p.inst[i].stage \in 1..n /\ Opens(q, p.inst[i].stage, a)))
      /\ q.ok = (p.ok /\ \A s \in 1..n : Follows(p.stages[s].status, q.stages[s].status))
<1>. DEFINE S == {n \in 0..L : Part(f[n], n)}
<1>3. 0 \in S
  <2>1. Framed(p, p) /\ p.ok \in BOOLEAN /\ \A i \in DOMAIN p.inst : p.inst[i].activated \in BOOLEAN
    BY FramedSelf, InstTyped DEF IsPlan
  <2>2. Part(p, 0)
    BY <1>2, <2>1
  <2>. HIDE DEF Part
  <2>. QED
    BY <1>1, <1>2, <2>2
<1>4. ASSUME NEW n \in 1..L, n - 1 \in S
      PROVE  n \in S
  <2>. DEFINE g == f[n - 1]
              h == f[n]
  <2>0. Part(g, n - 1)
    BY <1>4
  <2>1. Framed(p, g) /\ IsPlan(g) /\ n \in DOMAIN g.stages
    BY <1>2, <2>0 DEF Framed
  <2>2. /\ Framed(g, h)
        /\ \A t \in DOMAIN g.stages \ {n} : h.stages[t] = g.stages[t]
        /\ h.stages[n].status = AggregateStage(g, n)
        /\ h.stages[n].activated = (g.stages[n].activated \/ Opens(g, n, a))
        /\ \A i \in DOMAIN g.inst :
             IF g.inst[i].stage = n
             THEN h.inst[i].activated = (g.inst[i].activated \/ Opens(g, n, a))
             ELSE h.inst[i] = g.inst[i]
        /\ h.ok = (g.ok /\ Follows(g.stages[n].status, AggregateStage(g, n)))
    BY <1>1, <2>1, RefreshStageFields
  <2>. HIDE DEF g, h
  <2>3. Framed(p, h)
    BY <2>1, <2>2, FramedTwice
  <2>4. /\ DOMAIN g.stages = 1..L /\ DOMAIN h.stages = 1..L /\ DOMAIN g.inst = DOMAIN p.inst
        /\ IsPlan(h)
    BY <1>2, <2>1, <2>2 DEF Framed
  <2>5. ValidPlan(g)
    BY <2>1, FramedKeeps
  <2>6. \A s \in 1..n : DependenciesAuthorized(h, s) <=> DependenciesAuthorized(g, s)
    <3>. TAKE s \in 1..n
    <3>1. s \in DOMAIN g.stages
      BY <2>4
    <3>2. \A d \in g.stages[s].deps : h.stages[d].status = g.stages[d].status
      BY <2>2, <2>4, <2>5, <3>1 DEF ValidPlan
    <3>. QED
      BY <2>2, <2>4, <2>5, <3>1, <3>2, FramedKeeps, GateSame
  <2>7. \A s \in 1..n : Opens(h, s, a) <=> Opens(g, s, a)
    BY <2>2, <2>4, <2>6, FramedKeeps DEF Opens
  <2>8. \A s \in 1..n : h.stages[s].status = RuleFrom(p.stages[s].status, h, s)
    <3>. TAKE s \in 1..n
    <3>1. Entered(h, s) <=> Entered(g, s)
      <4>1. g.stages[s].activated \in BOOLEAN
        BY <2>1, <2>4, StageTyped
      <4>2. DependenciesAuthorized(h, s) <=> DependenciesAuthorized(g, s)
        BY <2>6
      <4>3. CASE s = n
        <5>1. h.stages[s].activated = (g.stages[s].activated \/ Opens(g, s, a))
          BY <2>2, <4>3
        <5>2. Opens(g, s, a) => DependenciesAuthorized(g, s)
          BY DEF Opens
        <5>. QED
          BY <4>1, <4>2, <5>1, <5>2 DEF Entered
      <4>4. CASE s # n
        <5>1. h.stages[s] = g.stages[s]
          BY <2>2, <2>4, <4>4
        <5>. QED
          BY <4>2, <5>1 DEF Entered
      <4>. QED
        BY <4>3, <4>4
    <3>2. SameMembers(g, h) /\ h.stages[s].required = g.stages[s].required
      BY <2>2, <2>4, FramedKeeps
    <3>3. RuleFrom(p.stages[s].status, h, s) = RuleFrom(p.stages[s].status, g, s)
      BY <3>1, <3>2, RuleSame
    <3>4. CASE s = n
      <4>1. g.stages[n] = p.stages[n]
        BY <1>2, <2>0
      <4>. QED
        BY <2>2, <3>3, <3>4, <4>1, AggregateIsRule
    <3>5. CASE s # n
      <4>1. s \in 1..(n - 1)
        BY <1>2, <3>5
      <4>. QED
        BY <2>0, <2>2, <2>4, <3>3, <3>5, <4>1
    <3>. QED
      BY <3>4, <3>5
  <2>9. \A s \in 1..n : h.stages[s].activated = (p.stages[s].activated \/ Opens(h, s, a))
    <3>. TAKE s \in 1..n
    <3>1. CASE s = n
      <4>1. g.stages[n] = p.stages[n]
        BY <1>2, <2>0
      <4>. QED
        BY <2>2, <2>7, <3>1, <4>1
    <3>2. CASE s # n
      <4>1. s \in 1..(n - 1)
        BY <1>2, <3>2
      <4>. QED
        BY <2>0, <2>2, <2>4, <2>7, <3>2, <4>1
    <3>. QED
      BY <3>1, <3>2
  <2>10. \A s \in (n + 1)..L : h.stages[s] = p.stages[s]
    BY <1>2, <2>0, <2>2, <2>4
  <2>11. \A i \in DOMAIN p.inst :
           h.inst[i].activated = (p.inst[i].activated
                                    \/ (p.inst[i].stage \in 1..n /\ Opens(h, p.inst[i].stage, a)))
    <3>. TAKE i \in DOMAIN p.inst
    <3>0. g.inst[i].stage = p.inst[i].stage
      BY <2>1 DEF Framed, SameInstance
    <3>1. CASE p.inst[i].stage = n
      <4>1. p.inst[i].stage \notin 1..(n - 1)
        BY <1>2, <3>1
      <4>2. g.inst[i].activated = p.inst[i].activated
        <5>1. p.inst[i].activated \in BOOLEAN
          BY InstTyped
        <5>2. g.inst[i].activated = (p.inst[i].activated
                \/ (p.inst[i].stage \in 1..(n - 1) /\ Opens(g, p.inst[i].stage, a)))
          BY <2>0
        <5>. QED
          BY <4>1, <5>1, <5>2
      <4>. QED
        BY <1>2, <2>2, <2>4, <2>7, <3>0, <3>1, <4>2
    <3>2. CASE p.inst[i].stage # n
      <4>1. p.inst[i].stage \in 1..n <=> p.inst[i].stage \in 1..(n - 1)
        BY <1>2, <3>2, InstTyped DEF InstanceType
      <4>2. h.inst[i] = g.inst[i]
        BY <2>2, <2>4, <3>0, <3>2
      <4>. QED
        BY <2>0, <2>7, <4>1, <4>2
    <3>. QED
      BY <3>1, <3>2
  <2>12. h.ok = (p.ok /\ \A s \in 1..n : Follows(p.stages[s].status, h.stages[s].status))
    <3>1. g.stages[n] = p.stages[n]
      BY <1>2, <2>0
    <3>2. \A s \in 1..(n - 1) : h.stages[s] = g.stages[s]
      BY <1>2, <2>2, <2>4
    <3>3. g.ok = (p.ok /\ \A s \in 1..(n - 1) : Follows(p.stages[s].status, g.stages[s].status))
      BY <2>0
    <3>4. h.ok = (g.ok /\ Follows(p.stages[n].status, h.stages[n].status))
      BY <2>2, <3>1
    <3>5. 1..n = (1..(n - 1)) \cup {n}
      BY <1>2
    <3>. QED
      BY <3>2, <3>3, <3>4, <3>5
  <2>13. Part(h, n)
    BY <2>3, <2>8, <2>9, <2>10, <2>11, <2>12
  <2>. HIDE DEF Part
  <2>. QED
    BY <1>2, <2>13 DEF h
<1>5. L \in S
  <2>. HIDE DEF S, L
  <2>. QED
    BY <1>2, <1>3, <1>4, UpTo
<1>6. Part(f[L], L)
  BY <1>5
<1>. DEFINE q == f[L]
<1>. HIDE DEF q
<1>7. Part(q, L)
  BY <1>6 DEF q
<1>8. \A i \in DOMAIN p.inst : p.inst[i].stage \in 1..L
  BY <1>2 DEF ValidPlan
<1>9. Refreshed(p, q, a)
  BY <1>2, <1>7, <1>8 DEF Refreshed
<1>. QED
  BY <1>1, <1>9 DEF q

\* _activate_current_stages is the sequence of its one-stage activations.
LEMMA ActivateSteps ==
  ASSUME NEW p, IsPlan(p)
  PROVE  \E f : /\ f[0] = p
                /\ \A n \in 1..Len(p.stages) : f[n] = ActivateStage(f[n - 1], n)
                /\ ActivateCurrentStages(p) = f[Len(p.stages)]
<1>. DEFINE L == Len(p.stages)
            F(f, k) == f = [n \in 0..k |-> IF n = 0 THEN p ELSE ActivateStage(f[n - 1], n)]
            S == {k \in 0..L : \E f : F(f, k)}
<1>1. L \in Nat
  BY StageTyped
<1>2. 0 \in S
  <2>1. F([n \in 0..0 |-> p], 0)
    OBVIOUS
  <2>. HIDE DEF F
  <2>. QED
    BY <2>1, <1>1
<1>3. ASSUME NEW k \in 1..L, k - 1 \in S
      PROVE  k \in S
  <2>1. PICK f : F(f, k - 1)
    BY <1>3
  <2>. DEFINE g == [n \in 0..k |-> IF n < k THEN f[n] ELSE ActivateStage(f[k - 1], k)]
  <2>2. ASSUME NEW n \in 0..k
        PROVE  g[n] = IF n = 0 THEN p ELSE ActivateStage(g[n - 1], n)
    <3>1. CASE n < k
      <4>1. n \in 0..(k - 1)
        BY <1>1, <3>1
      <4>2. f[n] = IF n = 0 THEN p ELSE ActivateStage(f[n - 1], n)
        BY <2>1, <4>1
      <4>3. n # 0 => g[n - 1] = f[n - 1]
        BY <1>1, <3>1
      <4>. QED
        BY <3>1, <4>2, <4>3
    <3>2. CASE n = k
      BY <3>2, <1>1
    <3>. QED
      BY <3>1, <3>2, <1>1
  <2>3. F(g, k)
    <3>. DEFINE h == [n \in 0..k |-> IF n = 0 THEN p ELSE ActivateStage(g[n - 1], n)]
    <3>1. \A n \in 0..k : g[n] = h[n]
      BY <2>2
    <3>2. DOMAIN g = 0..k /\ DOMAIN h = 0..k
      OBVIOUS
    <3>3. g = [n \in 0..k |-> g[n]] /\ h = [n \in 0..k |-> h[n]]
      BY <3>2
    <3>. HIDE DEF g, h
    <3>4. g = h
      BY <3>1, <3>3
    <3>. QED
      BY <3>4 DEF h
  <2>. HIDE DEF F, g
  <2>. QED
    BY <2>3
<1>4. L \in S
  <2>. HIDE DEF S, F, L
  <2>. QED
    BY <1>1, <1>2, <1>3, UpTo
<1>5. PICK f0 : F(f0, L)
  BY <1>4
<1>. DEFINE f == CHOOSE f : F(f, L)
<1>6. F(f, L)
  <2>. HIDE DEF F, L
  <2>. QED
    BY Zenon, <1>5
<1>7. ActivateCurrentStages(p) = f[L]
  BY Zenon DEF ActivateCurrentStages
<1>. HIDE DEF f
<1>8. f[0] = p
  BY <1>1, <1>6
<1>9. ASSUME NEW n \in 1..L PROVE f[n] = ActivateStage(f[n - 1], n)
  <2>1. n \in 0..L /\ n # 0
    BY <1>1
  <2>. QED
    BY <1>6, <2>1
<1>. QED
  BY <1>7, <1>8, <1>9

\* _activate_current_stages, one stage: what it writes.
LEMMA ActivateStageFields ==
  ASSUME NEW p, IsPlan(p), NEW s \in DOMAIN p.stages
  PROVE  LET q == ActivateStage(p, s) IN
         /\ Framed(p, q)
         /\ \A t \in DOMAIN p.stages \ {s} : q.stages[t] = p.stages[t]
         /\ IF DependenciesAuthorized(p, s)
            THEN /\ q.stages[s].status = RuleFrom(p.stages[s].status, p, s)
                 /\ q.stages[s].activated
            ELSE q.stages[s] = p.stages[s]
         /\ \A i \in DOMAIN p.inst :
              IF p.inst[i].stage = s /\ DependenciesAuthorized(p, s)
              THEN q.inst[i].activated
              ELSE q.inst[i] = p.inst[i]
         /\ q.ok => p.ok /\ Follows(p.stages[s].status, q.stages[s].status)
<1>. DEFINE q == ActivateStage(p, s)
<1>1. CASE ~DependenciesAuthorized(p, s)
  <2>1. q = p
    BY <1>1 DEF ActivateStage
  <2>2. Framed(p, p)
    BY FramedSelf
  <2>. QED
    BY <1>1, <2>1, <2>2 DEF Follows
<1>2. CASE DependenciesAuthorized(p, s)
  <2>. DEFINE m == Activate(p, s)
              t == AggregateStage(m, s)
              o == m.ok /\ (t = p.stages[s].status \/ t \in StageTransitions[p.stages[s].status])
  <2>1. q = Written(m, s, o, t)
    BY <1>2 DEF ActivateStage, Written
  <2>2. /\ IsPlan(m) /\ m.ok = p.ok /\ m.status = p.status
        /\ DOMAIN m.inst = DOMAIN p.inst /\ DOMAIN m.stages = DOMAIN p.stages
        /\ \A i \in DOMAIN p.inst :
             m.inst[i] = IF p.inst[i].stage = s THEN Activated(p.inst[i]) ELSE p.inst[i]
        /\ \A u \in DOMAIN p.stages :
             m.stages[u] = IF u = s THEN Activated(p.stages[s]) ELSE p.stages[u]
    BY ActivateFields
  <2>. HIDE DEF m
  <2>3. t \in StageStatuses
    BY <2>2, TargetTypes
  <2>4. o \in BOOLEAN
    BY <2>2 DEF IsPlan
  <2>. HIDE DEF t, o, q
  <2>5. /\ IsPlan(q) /\ q.ok = o /\ q.status = m.status /\ q.inst = m.inst
        /\ DOMAIN q.stages = DOMAIN m.stages
        /\ \A u \in DOMAIN m.stages \ {s} : q.stages[u] = m.stages[u]
        /\ q.stages[s] = WithStatus(m.stages[s], t)
    <3>1. s \in DOMAIN m.stages
      BY <2>2
    <3>. QED
      BY <2>1, <2>2, <2>3, <2>4, <3>1, StageWritten
  <2>6. p.stages[s] \in StageType /\ m.stages[s] \in StageType
    BY <2>2, StageTyped
  <2>7. \A i \in DOMAIN p.inst : p.inst[i] \in InstanceType
    BY InstTyped
  <2>8. \A i \in DOMAIN p.inst :
          /\ SameInstance(p.inst[i], m.inst[i])
          /\ IF p.inst[i].stage = s THEN m.inst[i].activated ELSE m.inst[i] = p.inst[i]
    BY <2>2, <2>7, WrittenSame DEF SameInstance
  <2>9. /\ SameStage(p.stages[s], m.stages[s]) /\ m.stages[s].activated
        /\ m.stages[s].status = p.stages[s].status
    BY <2>2, <2>6, WrittenSame
  <2>10. /\ SameStage(m.stages[s], q.stages[s]) /\ q.stages[s].status = t
         /\ q.stages[s].activated = m.stages[s].activated
    BY <2>3, <2>5, <2>6, WrittenSame
  <2>11. \A u \in DOMAIN p.stages : SameStage(p.stages[u], q.stages[u])
    BY <2>2, <2>5, <2>9, <2>10 DEF SameStage
  <2>12. Framed(p, q)
    BY <2>2, <2>5, <2>8, <2>11 DEF Framed, o
  <2>13. t = RuleFrom(p.stages[s].status, p, s)
    <3>1. SameMembers(p, m) /\ m.stages[s].required = p.stages[s].required
      BY <2>2, <2>8, <2>9 DEF SameMembers, SameInstance, SameStage
    <3>2. Entered(m, s) /\ Entered(p, s)
      BY <1>2, <2>9 DEF Entered
    <3>3. RuleFrom(p.stages[s].status, m, s) = RuleFrom(p.stages[s].status, p, s)
      BY <3>1, <3>2, RuleSame
    <3>. QED
      BY <2>9, <3>3, AggregateIsRule DEF t
  <2>14. q.ok => p.ok /\ Follows(p.stages[s].status, q.stages[s].status)
    BY <2>2, <2>5, <2>10 DEF o, Follows, StageReaggregates
  <2>. QED
    BY <1>2, <2>2, <2>5, <2>8, <2>9, <2>10, <2>12, <2>13, <2>14 DEF q
<1>. QED
  BY <1>1, <1>2

\* After _activate_current_stages the stages whose gate is open are activated with their
\* instances and show their aggregate, the others are untouched; it raises when a stage cannot
\* follow.
Activates(p, q) ==
  /\ Framed(p, q)
  /\ \A s \in DOMAIN p.stages :
       IF DependenciesAuthorized(q, s)
       THEN q.stages[s].status = RuleFrom(p.stages[s].status, q, s) /\ q.stages[s].activated
       ELSE q.stages[s] = p.stages[s]
  /\ \A i \in DOMAIN p.inst :
       IF DependenciesAuthorized(q, p.inst[i].stage) THEN q.inst[i].activated
       ELSE q.inst[i] = p.inst[i]
  /\ q.ok => p.ok /\ \A s \in DOMAIN p.stages : Follows(p.stages[s].status, q.stages[s].status)

\* _activate_current_stages of a valid plan.
LEMMA ActivateFacts ==
  ASSUME NEW p, IsPlan(p), ValidPlan(p)
  PROVE  Activates(p, ActivateCurrentStages(p))
<1>1. PICK f : /\ f[0] = p
               /\ \A n \in 1..Len(p.stages) : f[n] = ActivateStage(f[n - 1], n)
               /\ ActivateCurrentStages(p) = f[Len(p.stages)]
  BY ActivateSteps
<1>. DEFINE L == Len(p.stages)
<1>2. L \in Nat /\ DOMAIN p.stages = 1..L
  BY StageTyped
<1>. DEFINE Open(q, s, n) == s \in 1..n /\ DependenciesAuthorized(q, s)
            Part(q, n) ==
      /\ Framed(p, q)
      /\ \A s \in 1..L :
           IF Open(q, s, n)
           THEN q.stages[s].status = RuleFrom(p.stages[s].status, q, s) /\ q.stages[s].activated
           ELSE q.stages[s] = p.stages[s]
      /\ \A i \in DOMAIN p.inst :
           IF Open(q, p.inst[i].stage, n) THEN q.inst[i].activated ELSE q.inst[i] = p.inst[i]
      /\ q.ok => p.ok /\ \A s \in 1..n : Follows(p.stages[s].status, q.stages[s].status)
<1>. DEFINE S == {n \in 0..L : Part(f[n], n)}
<1>3. 0 \in S
  <2>1. Framed(p, p)
    BY FramedSelf
  <2>2. Part(p, 0)
    BY <1>2, <2>1
  <2>. HIDE DEF Part
  <2>. QED
    BY <1>1, <1>2, <2>2
<1>4. ASSUME NEW n \in 1..L, n - 1 \in S
      PROVE  n \in S
  <2>. DEFINE g == f[n - 1]
              h == f[n]
  <2>0. Part(g, n - 1)
    BY <1>4
  <2>1. Framed(p, g) /\ IsPlan(g) /\ n \in DOMAIN g.stages
    BY <1>2, <2>0 DEF Framed
  <2>2. /\ Framed(g, h)
        /\ \A t \in DOMAIN g.stages \ {n} : h.stages[t] = g.stages[t]
        /\ IF DependenciesAuthorized(g, n)
           THEN /\ h.stages[n].status = RuleFrom(g.stages[n].status, g, n)
                /\ h.stages[n].activated
           ELSE h.stages[n] = g.stages[n]
        /\ \A i \in DOMAIN g.inst :
             IF g.inst[i].stage = n /\ DependenciesAuthorized(g, n)
             THEN h.inst[i].activated
             ELSE h.inst[i] = g.inst[i]
        /\ h.ok => g.ok /\ Follows(g.stages[n].status, h.stages[n].status)
    BY <1>1, <2>1, ActivateStageFields
  <2>. HIDE DEF g, h
  <2>3. Framed(p, h)
    BY <2>1, <2>2, FramedTwice
  <2>4. /\ DOMAIN g.stages = 1..L /\ DOMAIN h.stages = 1..L /\ DOMAIN g.inst = DOMAIN p.inst
        /\ IsPlan(h)
    BY <1>2, <2>1, <2>2 DEF Framed
  <2>5. ValidPlan(g)
    BY <2>1, FramedKeeps
  <2>6. \A s \in 1..n : DependenciesAuthorized(h, s) <=> DependenciesAuthorized(g, s)
    <3>. TAKE s \in 1..n
    <3>1. s \in DOMAIN g.stages
      BY <2>4
    <3>2. \A d \in g.stages[s].deps : h.stages[d].status = g.stages[d].status
      BY <2>2, <2>4, <2>5, <3>1 DEF ValidPlan
    <3>. QED
      BY <2>2, <2>4, <2>5, <3>1, <3>2, FramedKeeps, GateSame
  <2>7. g.stages[n] = p.stages[n]
    BY <1>2, <2>0
  <2>8. \A s \in 1..L :
          IF Open(h, s, n)
          THEN h.stages[s].status = RuleFrom(p.stages[s].status, h, s) /\ h.stages[s].activated
          ELSE h.stages[s] = p.stages[s]
    <3>. TAKE s \in 1..L
    <3>1. CASE s = n
      <4>1. CASE DependenciesAuthorized(h, n)
        <5>1. DependenciesAuthorized(g, n)
          BY <2>6, <4>1
        <5>2. h.stages[n].status = RuleFrom(p.stages[n].status, g, n) /\ h.stages[n].activated
          BY <2>2, <2>7, <5>1
        <5>3. Entered(h, n) /\ Entered(g, n)
          BY <4>1, <5>1 DEF Entered
        <5>4. SameMembers(g, h) /\ h.stages[n].required = g.stages[n].required
          BY <2>2, <2>4, FramedKeeps
        <5>5. RuleFrom(p.stages[n].status, h, n) = RuleFrom(p.stages[n].status, g, n)
          BY <5>3, <5>4, RuleSame
        <5>. QED
          BY <3>1, <4>1, <5>2, <5>5
      <4>2. CASE ~DependenciesAuthorized(h, n)
        <5>1. ~DependenciesAuthorized(g, n)
          BY <2>6, <4>2
        <5>. QED
          BY <2>2, <2>7, <3>1, <4>2, <5>1
      <4>. QED
        BY <4>1, <4>2
    <3>2. CASE s # n
      <4>1. h.stages[s] = g.stages[s]
        BY <2>2, <2>4, <3>2
      <4>2. Open(h, s, n) <=> Open(g, s, n - 1)
        BY <1>2, <2>6, <3>2
      <4>3. CASE Open(g, s, n - 1)
        <5>1. Entered(h, s) /\ Entered(g, s)
          BY <4>2, <4>3 DEF Entered
        <5>2. SameMembers(g, h) /\ h.stages[s].required = g.stages[s].required
          BY <2>2, <2>4, FramedKeeps
        <5>3. RuleFrom(p.stages[s].status, h, s) = RuleFrom(p.stages[s].status, g, s)
          BY <5>1, <5>2, RuleSame
        <5>. QED
          BY <2>0, <4>1, <4>2, <4>3, <5>3
      <4>4. CASE ~Open(g, s, n - 1)
        BY <2>0, <4>1, <4>2, <4>4
      <4>. QED
        BY <4>3, <4>4
    <3>. QED
      BY <3>1, <3>2
  <2>9. \A i \in DOMAIN p.inst :
          IF Open(h, p.inst[i].stage, n) THEN h.inst[i].activated ELSE h.inst[i] = p.inst[i]
    <3>. TAKE i \in DOMAIN p.inst
    <3>0. g.inst[i].stage = p.inst[i].stage
      BY <2>1 DEF Framed, SameInstance
    <3>1. CASE p.inst[i].stage = n
      <4>1. g.inst[i] = p.inst[i]
        BY <1>2, <2>0, <3>1
      <4>2. DependenciesAuthorized(h, n) <=> DependenciesAuthorized(g, n)
        BY <2>6
      <4>. QED
        BY <2>2, <2>4, <3>0, <3>1, <4>1, <4>2
    <3>2. CASE p.inst[i].stage # n
      <4>1. h.inst[i] = g.inst[i]
        BY <2>2, <2>4, <3>0, <3>2
      <4>2. p.inst[i].stage \in 1..n <=> p.inst[i].stage \in 1..(n - 1)
        BY <1>2, <3>2, InstTyped DEF InstanceType
      <4>3. Open(h, p.inst[i].stage, n) <=> Open(g, p.inst[i].stage, n - 1)
        BY <2>6, <4>2
      <4>. QED
        BY <2>0, <4>1, <4>3
    <3>. QED
      BY <3>1, <3>2
  <2>10. h.ok => p.ok /\ \A s \in 1..n : Follows(p.stages[s].status, h.stages[s].status)
    <3>1. \A s \in 1..(n - 1) : h.stages[s] = g.stages[s]
      BY <1>2, <2>2, <2>4
    <3>2. g.ok => p.ok /\ \A s \in 1..(n - 1) : Follows(p.stages[s].status, g.stages[s].status)
      BY <2>0
    <3>3. h.ok => g.ok /\ Follows(p.stages[n].status, h.stages[n].status)
      BY <2>2, <2>7
    <3>4. 1..n = (1..(n - 1)) \cup {n}
      BY <1>2
    <3>. QED
      BY <3>1, <3>2, <3>3, <3>4
  <2>11. Part(h, n)
    BY <2>3, <2>8, <2>9, <2>10
  <2>. HIDE DEF Part
  <2>. QED
    BY <1>2, <2>11 DEF h
<1>5. L \in S
  <2>. HIDE DEF S, L, Part, Open
  <2>. QED
    BY <1>2, <1>3, <1>4, UpTo
<1>6. Part(f[L], L)
  BY <1>5
<1>. DEFINE q == f[L]
<1>. HIDE DEF q
<1>7. Part(q, L)
  BY <1>6 DEF q
<1>8. \A i \in DOMAIN p.inst : p.inst[i].stage \in 1..L
  BY <1>2 DEF ValidPlan
<1>9. Activates(p, q)
  BY <1>2, <1>7, <1>8 DEF Activates
<1>. QED
  BY <1>1, <1>9 DEF q

-----------------------------------------------------------------------------
(* What the commands keep true of a plan.                                  *)

\* The statuses of an instance that was started.
Begun == Live \cup {"STOPPED", "SUCCEEDED", "FAILED", "CRASHED"}
Succeeded(p) == {i \in DOMAIN p.inst : p.inst[i].status = "SUCCEEDED"}

SoundInstance(x) ==
  /\ x.status \notin {"CREATED", "UNAVAILABLE", "SUPERSEDED"}
  /\ x.status = "SUCCEEDED" => ~x.rejected
  /\ x.status \in Begun \/ x.rejected => x.activated
  /\ x.required => x.original
  /\ x.original /\ ~x.required => x.activated /\ x.downgraded
Boards(p) == \A i \in Images(p) : p.inst[i].finished <=> p.inst[i].board = "COMPLETED"

\* Instances and requirements of a plan, whatever the aggregation made of its stages.
Sound(p) ==
  /\ Boards(p)
  /\ \A i \in DOMAIN p.inst : SoundInstance(p.inst[i])
  /\ \A s \in DOMAIN p.stages : p.stages[s].downgraded =>
       \E i \in InstancesOf(p, s) : p.inst[i].original /\ p.inst[i].downgraded
\* A required instance makes its stage required.
Agrees(p) == \A i \in DOMAIN p.inst : p.inst[i].required => p.stages[p.inst[i].stage].required

\* What the final statuses of a stage say of its required instances; e are the instances
\* that ever succeeded.
CarriedStage(p, s, e) ==
  /\ p.stages[s].status = "SKIPPED" => NeededOf(p, s) = {}
  /\ p.stages[s].status = "SUCCEEDED" =>
       \A i \in NeededOf(p, s) : i \in e \/ p.inst[i].status = "ARCHIVED"
Carried(p, e) == \A s \in DOMAIN p.stages : CarriedStage(p, s, e)

\* A PPT that was activated has an activated stage; before an aggregation its gate may be
\* open instead.
Opened(p) ==
  \A i \in DOMAIN p.inst : AgentType(p, i) = "ppt" /\ p.inst[i].activated =>
    p.stages[p.inst[i].stage].activated
Gated(p) ==
  \A i \in DOMAIN p.inst : AgentType(p, i) = "ppt" /\ p.inst[i].activated =>
    p.stages[p.inst[i].stage].activated \/ DependenciesAuthorized(p, p.inst[i].stage)

Delivered(p, s) == \A d \in p.stages[s].deps : p.stages[d].status = "SUCCEEDED"
\* The aggregate of a stage that was entered.
MembersSay(old, p, s) ==
  Rule(old, TRUE, p.stages[s].required, NeededOf(p, s),
       StatusesOf(p, InstancesOf(p, s)), StatusesOf(p, NeededOf(p, s)))

\* A stage shows what its members say, unless it is over or waits behind its gate.
FreshStage(p, s) ==
  \/ p.stages[s].status \in {"SKIPPED", "CANCELLED"}
  \/ /\ p.stages[s].status = "PENDING"
     /\ p.stages[s].type = "ppt" /\ ~p.stages[s].activated
  \/ /\ p.stages[s].activated \/ Delivered(p, s)
     /\ p.stages[s].status = MembersSay(p.stages[s].status, p, s)
Fresh(p) == \A s \in DOMAIN p.stages : FreshStage(p, s)

\* What an aggregation does to the stages.
Aggregated(p, q) ==
  /\ Framed(p, q)
  /\ \A s \in DOMAIN p.stages :
       /\ q.stages[s].status \in {p.stages[s].status, RuleFrom(p.stages[s].status, q, s)}
       /\ Follows(p.stages[s].status, q.stages[s].status)

\* A refresh is an aggregation.
LEMMA RefreshedAggregates ==
  ASSUME NEW p, NEW q, NEW a, Refreshed(p, q, a), q.ok
  PROVE  Aggregated(p, q)
BY DEF Refreshed, Aggregated

\* An activation is an aggregation.
LEMMA ActivatesAggregates ==
  ASSUME NEW p, NEW q, Activates(p, q), q.ok
  PROVE  Aggregated(p, q)
BY DEF Activates, Aggregated

\* The statuses an aggregation never leaves.
LEMMA FinalStatuses ==
  ASSUME NEW old \in {"SUCCEEDED", "SKIPPED", "CANCELLED"}, NEW t, Follows(old, t)
  PROVE  t = old
BY DEF Follows, StageReaggregates, StageTransitions

\* What a final aggregate says.
LEMMA RuleFinal ==
  ASSUME NEW old, NEW p, NEW s
  PROVE  /\ RuleFrom(old, p, s) = "SKIPPED" => old = "SKIPPED" \/ NeededOf(p, s) = {}
         /\ RuleFrom(old, p, s) = "CANCELLED" => old = "CANCELLED"
         /\ RuleFrom(old, p, s) = "SUCCEEDED" =>
              \/ old = "SUCCEEDED"
              \/ \A i \in NeededOf(p, s) : p.inst[i].status \in {"SUCCEEDED", "ARCHIVED"}
<1>. DEFINE all == StatusesOf(p, InstancesOf(p, s))
            needed == NeededOf(p, s)
            some == StatusesOf(p, NeededOf(p, s))
            required == p.stages[s].required
            entered == Entered(p, s)
<1>1. \A i \in NeededOf(p, s) : p.inst[i].status \in some
  BY DEF StatusesOf
<1>. HIDE DEF all, needed, some, required, entered
<1>2. LET t == Rule(old, entered, required, needed, all, some) IN
      /\ t = "SKIPPED" => old = "SKIPPED" \/ needed = {}
      /\ t = "CANCELLED" => old = "CANCELLED"
      /\ t = "SUCCEEDED" => old = "SUCCEEDED" \/ needed = {} \/ some \subseteq {"SUCCEEDED", "ARCHIVED"}
  BY DEF Rule
<1>. QED
  BY <1>1, <1>2 DEF RuleFrom, all, needed, some, required, entered

\* A stage whose gate was passed shows what its members say, one behind its gate is PENDING.
LEMMA RuleEntered ==
  ASSUME NEW old, NEW p, NEW s
  PROVE  /\ Entered(p, s) => RuleFrom(old, p, s) = MembersSay(old, p, s)
         /\ ~Entered(p, s) => RuleFrom(old, p, s) = "PENDING" \/ old \in {"SKIPPED", "CANCELLED"}
         /\ old \in {"SKIPPED", "CANCELLED"} => RuleFrom(old, p, s) = old
BY DEF RuleFrom, MembersSay, Rule

\* The aggregate of a stage that was entered is idempotent.
LEMMA SayTwice ==
  ASSUME NEW old, NEW p, NEW s
  PROVE  MembersSay(MembersSay(old, p, s), p, s) = MembersSay(old, p, s)
<1>. DEFINE all == StatusesOf(p, InstancesOf(p, s))
            needed == NeededOf(p, s)
            some == StatusesOf(p, NeededOf(p, s))
            required == p.stages[s].required
<1>. HIDE DEF all, needed, some, required
<1>1. Rule(Rule(old, TRUE, required, needed, all, some), TRUE, required, needed, all, some)
        = Rule(old, TRUE, required, needed, all, some)
  BY DEF Rule
<1>. QED
  BY <1>1 DEF MembersSay, all, needed, some, required

\* Only PPT stages have a gate.
LEMMA OnlyPptWaits ==
  ASSUME NEW p, ValidPlan(p), NEW s \in DOMAIN p.stages
  PROVE  /\ ~Delivered(p, s) => p.stages[s].type = "ppt"
         /\ Delivered(p, s) => DependenciesAuthorized(p, s)
         /\ \A d \in p.stages[s].deps : p.stages[d].type = "image" /\ p.stages[s].type = "ppt"
BY DEF ValidPlan, Delivered, DependenciesAuthorized

\* Aggregation disturbs neither the instances nor the requirements.
LEMMA FramedSound ==
  ASSUME NEW p, NEW q, IsPlan(p), ValidPlan(p), Framed(p, q)
  PROVE  /\ Sound(p) => Sound(q)
         /\ Agrees(p) => Agrees(q)
<1>1. \A i \in DOMAIN p.inst : p.inst[i].stage \in DOMAIN p.stages
  BY DEF ValidPlan
<1>2. Images(q) = Images(p)
  BY <1>1 DEF Images, AgentType, Framed, SameInstance, SameStage
<1>3. \A i \in DOMAIN p.inst :
        /\ q.inst[i].finished = p.inst[i].finished /\ q.inst[i].board = p.inst[i].board
        /\ q.inst[i].stage = p.inst[i].stage
        /\ q.inst[i].original = p.inst[i].original /\ q.inst[i].downgraded = p.inst[i].downgraded
        /\ q.inst[i].required = p.inst[i].required
        /\ SoundInstance(p.inst[i]) => SoundInstance(q.inst[i])
  BY DEF Framed, SameInstance, SoundInstance
<1>4. Boards(p) => Boards(q)
  BY <1>2, <1>3 DEF Boards, Images
<1>5. \A s : InstancesOf(q, s) = InstancesOf(p, s)
  BY FramedKeeps
<1>6. \A s \in DOMAIN p.stages : /\ q.stages[s].downgraded = p.stages[s].downgraded
                                 /\ q.stages[s].required = p.stages[s].required
  BY DEF Framed, SameStage
<1>7. DOMAIN q.inst = DOMAIN p.inst /\ DOMAIN q.stages = DOMAIN p.stages
  BY DEF Framed
<1>8. Sound(p) => Sound(q)
  BY <1>3, <1>4, <1>5, <1>6, <1>7 DEF Sound, InstancesOf
<1>9. Agrees(p) => Agrees(q)
  BY <1>1, <1>3, <1>6, <1>7 DEF Agrees
<1>. QED
  BY <1>8, <1>9

\* An aggregation keeps the final stages, opens gates only and carries what was delivered.
LEMMA AggregatedKeeps ==
  ASSUME NEW p, NEW q, IsPlan(p), ValidPlan(p), Aggregated(p, q)
  PROVE  /\ \A s \in DOMAIN p.stages :
              /\ p.stages[s].status \in {"SUCCEEDED", "SKIPPED", "CANCELLED"} =>
                   q.stages[s].status = p.stages[s].status
              /\ q.stages[s].status = "CANCELLED" => p.stages[s].status = "CANCELLED"
              /\ DependenciesAuthorized(p, s) => DependenciesAuthorized(q, s)
              /\ Delivered(p, s) => Delivered(q, s)
         /\ \A e : Carried(p, e) => Carried(q, e \cup Succeeded(q))
<1>1. Framed(p, q)
  BY DEF Aggregated
<1>2. \A s \in DOMAIN p.stages :
        /\ p.stages[s].status \in {"SUCCEEDED", "SKIPPED", "CANCELLED"} =>
             q.stages[s].status = p.stages[s].status
        /\ q.stages[s].status = "CANCELLED" => p.stages[s].status = "CANCELLED"
  BY FinalStatuses, RuleFinal DEF Aggregated
<1>3. ASSUME NEW s \in DOMAIN p.stages
      PROVE  /\ DependenciesAuthorized(p, s) => DependenciesAuthorized(q, s)
             /\ Delivered(p, s) => Delivered(q, s)
  <2>1. \A d \in p.stages[s].deps : d \in DOMAIN p.stages
    BY StageTyped DEF ValidPlan
  <2>2. \A d \in p.stages[s].deps : p.stages[d].status = "SUCCEEDED" => q.stages[d].status = "SUCCEEDED"
    BY <1>2, <2>1
  <2>3. q.stages[s].deps = p.stages[s].deps /\ q.stages[s].type = p.stages[s].type
    BY <1>1, FramedKeeps
  <2>4. Images(q) = Images(p)
    BY <1>1 DEF Images, AgentType, Framed, SameInstance, SameStage, ValidPlan
  <2>5. \A i \in Images(p) : q.inst[i].finished = p.inst[i].finished
    BY <1>1, FramedKeeps DEF Images
  <2>. QED
    BY <2>2, <2>3, <2>4, <2>5 DEF DependenciesAuthorized, Delivered
<1>4. ASSUME NEW e, Carried(p, e), NEW s \in DOMAIN p.stages
      PROVE  CarriedStage(q, s, e \cup Succeeded(q))
  <2>1. /\ SameMembers(p, q) /\ InstancesOf(q, s) = InstancesOf(p, s)
    BY <1>1, FramedKeeps
  <2>2. NeededOf(q, s) = NeededOf(p, s)
    BY <2>1 DEF NeededOf, InstancesOf, SameMembers
  <2>3. \A i \in NeededOf(p, s) : i \in DOMAIN q.inst /\ q.inst[i].status = p.inst[i].status
    BY <2>1 DEF NeededOf, InstancesOf, SameMembers
  <2>4. CarriedStage(p, s, e)
    BY <1>4 DEF Carried
  <2>5. q.stages[s].status \in {p.stages[s].status, RuleFrom(p.stages[s].status, q, s)}
    BY DEF Aggregated
  <2>6. q.stages[s].status = "SKIPPED" => p.stages[s].status = "SKIPPED" \/ NeededOf(q, s) = {}
    BY <2>5, RuleFinal
  <2>7. q.stages[s].status = "SUCCEEDED" =>
          \/ p.stages[s].status = "SUCCEEDED"
          \/ \A i \in NeededOf(q, s) : q.inst[i].status \in {"SUCCEEDED", "ARCHIVED"}
    BY <2>5, RuleFinal
  <2>. QED
    BY <2>2, <2>3, <2>4, <2>6, <2>7 DEF CarriedStage, Succeeded
<1>5. DOMAIN q.stages = DOMAIN p.stages
  BY <1>1 DEF Framed
<1>. QED
  BY <1>2, <1>3, <1>4, <1>5 DEF Carried

\* After _refresh_stages every stage is fresh, and the PPT that were let through are marked.
LEMMA RefreshedFresh ==
  ASSUME NEW p, NEW q, IsPlan(p), ValidPlan(p), Refreshed(p, q, TRUE), q.ok
  PROVE  /\ Fresh(q)
         /\ Gated(p) => Opened(q)
<1>0. Framed(p, q) /\ IsPlan(q)
  BY DEF Refreshed, Framed
<1>1. ValidPlan(q)
  BY <1>0, FramedKeeps
<1>2. Aggregated(p, q)
  BY RefreshedAggregates
<1>3. DOMAIN q.stages = DOMAIN p.stages /\ DOMAIN q.inst = DOMAIN p.inst
  BY <1>0 DEF Framed
<1>4. ASSUME NEW s \in DOMAIN q.stages
      PROVE  FreshStage(q, s)
  <2>. DEFINE old == p.stages[s].status
              new == q.stages[s].status
  <2>1. /\ new = RuleFrom(old, q, s)
        /\ q.stages[s].activated = (p.stages[s].activated \/ Opens(q, s, TRUE))
    BY <1>3 DEF Refreshed
  <2>2. p.stages[s].activated \in BOOLEAN
    BY <1>3, StageTyped
  <2>. HIDE DEF old, new
  <2>3. CASE Entered(q, s)
    <3>1. new = MembersSay(new, q, s)
      BY <2>1, <2>3, RuleEntered, SayTwice
    <3>2. q.stages[s].type # "ppt" => Delivered(q, s)
      BY <1>1, OnlyPptWaits
    <3>3. q.stages[s].type = "ppt" => q.stages[s].activated
      BY <2>1, <2>2, <2>3 DEF Entered, Opens
    <3>. QED
      BY <3>1, <3>2, <3>3 DEF FreshStage, new
  <2>4. CASE ~Entered(q, s)
    <3>1. q.stages[s].type = "ppt"
      BY <1>1, <2>4, OnlyPptWaits DEF Entered
    <3>2. ~q.stages[s].activated
      BY <2>4 DEF Entered
    <3>3. new = "PENDING" \/ new \in {"SKIPPED", "CANCELLED"}
      BY <2>1, <2>4, RuleEntered
    <3>. QED
      BY <3>1, <3>2, <3>3 DEF FreshStage, new
  <2>. QED
    BY <2>3, <2>4
<1>5. ASSUME Gated(p), NEW i \in DOMAIN q.inst, AgentType(q, i) = "ppt", q.inst[i].activated
      PROVE  q.stages[q.inst[i].stage].activated
  <2>. DEFINE s == p.inst[i].stage
  <2>1. q.inst[i].stage = s /\ s \in DOMAIN p.stages /\ i \in DOMAIN p.inst
    BY <1>0, <1>3 DEF Framed, SameInstance, ValidPlan
  <2>2. q.stages[s].type = p.stages[s].type
    BY <1>0, <2>1, FramedKeeps
  <2>3. p.stages[s].type = "ppt" /\ AgentType(p, i) = "ppt"
    BY <1>5, <2>1, <2>2 DEF AgentType
  <2>4. /\ q.stages[s].activated = (p.stages[s].activated \/ Opens(q, s, TRUE))
        /\ q.inst[i].activated = (p.inst[i].activated \/ Opens(q, s, TRUE))
    BY <2>1 DEF Refreshed
  <2>5. p.stages[s].activated \in BOOLEAN /\ p.inst[i].activated \in BOOLEAN
    BY <2>1, StageTyped, InstTyped
  <2>6. CASE p.inst[i].activated
    <3>1. p.stages[s].activated \/ DependenciesAuthorized(p, s)
      BY <1>5, <2>1, <2>3, <2>6 DEF Gated
    <3>2. DependenciesAuthorized(p, s) => Opens(q, s, TRUE)
      BY <1>2, <2>1, <2>2, <2>3, AggregatedKeeps DEF Opens
    <3>. QED
      BY <2>1, <2>4, <2>5, <3>1, <3>2
  <2>7. CASE ~p.inst[i].activated
    BY <1>5, <2>1, <2>4, <2>5, <2>7
  <2>. QED
    BY <2>6, <2>7
<1>. QED
  BY <1>4, <1>5 DEF Fresh, Opened

\* _refresh_stages without activation, as the normalization of a plan uses it: stages whose
\* gate is open wait for the activation.
LEMMA NormalizedFresh ==
  ASSUME NEW p, NEW q, IsPlan(p), ValidPlan(p), Refreshed(p, q, FALSE), q.ok
  PROVE  /\ \A s \in DOMAIN q.stages : FreshStage(q, s) \/ DependenciesAuthorized(q, s)
         /\ (\A i \in DOMAIN p.inst : ~p.inst[i].finished) => Fresh(q)
         /\ Opened(p) => Opened(q)
<1>0. Framed(p, q) /\ IsPlan(q)
  BY DEF Refreshed, Framed
<1>1. ValidPlan(q)
  BY <1>0, FramedKeeps
<1>3. DOMAIN q.stages = DOMAIN p.stages /\ DOMAIN q.inst = DOMAIN p.inst
  BY <1>0 DEF Framed
<1>4. ASSUME NEW s \in DOMAIN q.stages
      PROVE  FreshStage(q, s) \/ (DependenciesAuthorized(q, s) /\ ~Delivered(q, s))
  <2>. DEFINE old == p.stages[s].status
              new == q.stages[s].status
  <2>1. new = RuleFrom(old, q, s)
    BY <1>3 DEF Refreshed
  <2>. HIDE DEF old, new
  <2>3. CASE Entered(q, s)
    <3>1. new = MembersSay(new, q, s)
      BY <2>1, <2>3, RuleEntered, SayTwice
    <3>. QED
      BY <2>3, <3>1 DEF FreshStage, new, Entered
  <2>4. CASE ~Entered(q, s)
    <3>1. q.stages[s].type = "ppt"
      BY <1>1, <2>4, OnlyPptWaits DEF Entered
    <3>2. ~q.stages[s].activated
      BY <2>4 DEF Entered
    <3>3. new = "PENDING" \/ new \in {"SKIPPED", "CANCELLED"}
      BY <2>1, <2>4, RuleEntered
    <3>. QED
      BY <3>1, <3>2, <3>3 DEF FreshStage, new
  <2>. QED
    BY <2>3, <2>4
<1>5. ASSUME \A i \in DOMAIN p.inst : ~p.inst[i].finished, NEW s \in DOMAIN q.stages
      PROVE  FreshStage(q, s)
  <2>1. \A i \in DOMAIN q.inst : ~q.inst[i].finished
    BY <1>0, <1>3, <1>5, FramedKeeps
  <2>2. DependenciesAuthorized(q, s) => Delivered(q, s)
    BY <2>1 DEF DependenciesAuthorized, Delivered, Images
  <2>. QED
    BY <1>4, <2>2
<1>6. Opened(p) => Opened(q)
  <2>1. \A i \in DOMAIN p.inst :
          /\ q.inst[i].stage = p.inst[i].stage /\ p.inst[i].stage \in DOMAIN p.stages
          /\ q.stages[p.inst[i].stage].type = p.stages[p.inst[i].stage].type
    BY <1>0, FramedKeeps DEF ValidPlan, SameMembers
  <2>2. /\ \A i \in DOMAIN p.inst : q.inst[i].activated => p.inst[i].activated
        /\ \A s \in DOMAIN p.stages : p.stages[s].activated => q.stages[s].activated
    <3>1. /\ \A i \in DOMAIN p.inst : q.inst[i].activated = (p.inst[i].activated \/ FALSE)
          /\ \A s \in DOMAIN p.stages : q.stages[s].activated = (p.stages[s].activated \/ FALSE)
      BY DEF Refreshed, Opens
    <3>. QED
      BY <3>1, StageTyped, InstTyped
  <2>. QED
    BY <1>3, <2>1, <2>2 DEF Opened, AgentType
<1>. QED
  BY <1>4, <1>5, <1>6 DEF Fresh

\* _activate_current_stages opens what the gates allow and leaves the rest fresh.
LEMMA ActivatesFresh ==
  ASSUME NEW p, NEW q, IsPlan(p), ValidPlan(p), Activates(p, q), q.ok,
         \A s \in DOMAIN p.stages : FreshStage(p, s) \/ DependenciesAuthorized(p, s)
  PROVE  /\ Fresh(q)
         /\ Opened(p) => Opened(q)
<1>0. Framed(p, q) /\ IsPlan(q)
  BY DEF Activates, Framed
<1>1. ValidPlan(q)
  BY <1>0, FramedKeeps
<1>2. Aggregated(p, q)
  BY ActivatesAggregates
<1>3. DOMAIN q.stages = DOMAIN p.stages /\ DOMAIN q.inst = DOMAIN p.inst
  BY <1>0 DEF Framed
<1>4. ASSUME NEW s \in DOMAIN q.stages
      PROVE  FreshStage(q, s)
  <2>1. CASE DependenciesAuthorized(q, s)
    <3>. DEFINE old == p.stages[s].status
                new == q.stages[s].status
    <3>1. new = RuleFrom(old, q, s) /\ q.stages[s].activated
      BY <1>3, <2>1 DEF Activates
    <3>. HIDE DEF old, new
    <3>2. new = MembersSay(new, q, s)
      BY <2>1, <3>1, RuleEntered, SayTwice DEF Entered
    <3>. QED
      BY <3>1, <3>2 DEF FreshStage, new
  <2>2. CASE ~DependenciesAuthorized(q, s)
    <3>1. q.stages[s] = p.stages[s]
      BY <1>3, <2>2 DEF Activates
    <3>2. FreshStage(p, s)
      BY <1>2, <1>3, <2>2, AggregatedKeeps
    <3>3. MembersSay(p.stages[s].status, q, s) = MembersSay(p.stages[s].status, p, s)
      <4>1. SameMembers(p, q) /\ InstancesOf(q, s) = InstancesOf(p, s)
        BY <1>0, FramedKeeps
      <4>2. NeededOf(q, s) = NeededOf(p, s)
        BY <4>1 DEF NeededOf, InstancesOf, SameMembers
      <4>3. /\ StatusesOf(q, InstancesOf(q, s)) = StatusesOf(p, InstancesOf(p, s))
            /\ StatusesOf(q, NeededOf(q, s)) = StatusesOf(p, NeededOf(p, s))
        BY <4>1, <4>2 DEF StatusesOf, NeededOf, InstancesOf, SameMembers
      <4>. QED
        BY <3>1, <4>2, <4>3 DEF MembersSay
    <3>4. Delivered(p, s) => Delivered(q, s)
      BY <1>2, <1>3, AggregatedKeeps
    <3>. QED
      BY <3>1, <3>2, <3>3, <3>4 DEF FreshStage
  <2>. QED
    BY <2>1, <2>2
<1>5. ASSUME Opened(p), NEW i \in DOMAIN q.inst, AgentType(q, i) = "ppt", q.inst[i].activated
      PROVE  q.stages[q.inst[i].stage].activated
  <2>. DEFINE s == p.inst[i].stage
  <2>1. q.inst[i].stage = s /\ s \in DOMAIN p.stages /\ i \in DOMAIN p.inst
    BY <1>0, <1>3 DEF Framed, SameInstance, ValidPlan
  <2>2. q.stages[s].type = p.stages[s].type
    BY <1>0, <2>1, FramedKeeps
  <2>3. CASE DependenciesAuthorized(q, s)
    BY <2>1, <2>3 DEF Activates
  <2>4. CASE ~DependenciesAuthorized(q, s)
    <3>1. q.inst[i] = p.inst[i] /\ q.stages[s] = p.stages[s]
      BY <2>1, <2>4 DEF Activates
    <3>. QED
      BY <1>5, <2>1, <2>2, <3>1 DEF Opened, AgentType
  <2>. QED
    BY <2>3, <2>4
<1>. QED
  BY <1>4, <1>5 DEF Fresh, Opened

-----------------------------------------------------------------------------
(* The status of the task.                                                 *)

OverStatuses == TaskTerminal \cup {"ARCHIVED"}
TaskResults == {"WAITING_APPROVAL", "RUNNING", "FAILED", "BLOCKED_UNAVAILABLE", "PARTIAL", "SUCCEEDED"}
RequiredOf(p) == {i \in DOMAIN p.inst : p.inst[i].required}
Demoted(p) ==
  \/ \E s \in DOMAIN p.stages : ActivatedDowngrade(p.stages[s])
  \/ \E i \in DOMAIN p.inst : ActivatedDowngrade(p.inst[i])

\* What the children of a task that is not over say of it.
TaskSays(p) ==
  IF StatusesOf(p, RequiredOf(p)) \cap Waiting # {} THEN "WAITING_APPROVAL"
  ELSE IF StatusesOf(p, DOMAIN p.inst) \cap Active # {} THEN "RUNNING"
  ELSE IF StatusesOf(p, RequiredOf(p)) \cap Failed # {} THEN "FAILED"
  ELSE IF \E s \in DOMAIN p.stages : p.stages[s].required /\ p.stages[s].status = "UNAVAILABLE"
    THEN "BLOCKED_UNAVAILABLE"
  ELSE IF \E s \in DOMAIN p.stages : p.stages[s].required /\ p.stages[s].status # "SUCCEEDED"
    THEN "RUNNING"
  ELSE IF Demoted(p) THEN "PARTIAL" ELSE "SUCCEEDED"

\* aggregate_task leaves a task that is over alone and asks the children of the others.
LEMMA AggregateTaskIs ==
  ASSUME NEW p
  PROVE  /\ AggregateTask(p) = IF p.status \in OverStatuses THEN p.status ELSE TaskSays(p)
         /\ TaskSays(p) \in TaskResults
<1>1. TaskSays(p) \in TaskResults
  BY DEF TaskSays, TaskResults
<1>2. AggregateTask(p) = IF p.status \in OverStatuses THEN p.status ELSE TaskSays(p)
  BY DEF AggregateTask, TaskSays, OverStatuses, RequiredOf, Demoted
<1>. QED
  BY <1>1, <1>2

\* The children of q are those of p as far as the task looks at them.
SameChildren(p, q) ==
  /\ DOMAIN q.inst = DOMAIN p.inst /\ q.stages = p.stages
  /\ \A i \in DOMAIN p.inst :
       /\ q.inst[i].status = p.inst[i].status /\ q.inst[i].required = p.inst[i].required
       /\ q.inst[i].original = p.inst[i].original /\ q.inst[i].activated = p.inst[i].activated
       /\ q.inst[i].downgraded = p.inst[i].downgraded

\* The task does not look further than that.
LEMMA TaskSaysSame ==
  ASSUME NEW p, NEW q, SameChildren(p, q)
  PROVE  TaskSays(q) = TaskSays(p)
<1>1. RequiredOf(q) = RequiredOf(p)
  BY DEF RequiredOf, SameChildren
<1>2. StatusesOf(q, RequiredOf(q)) = StatusesOf(p, RequiredOf(p))
  BY <1>1 DEF StatusesOf, RequiredOf, SameChildren
<1>3. StatusesOf(q, DOMAIN q.inst) = StatusesOf(p, DOMAIN p.inst)
  BY DEF StatusesOf, SameChildren
<1>4. Demoted(q) <=> Demoted(p)
  BY DEF Demoted, ActivatedDowngrade, SameChildren
<1>. QED
  BY <1>2, <1>3, <1>4 DEF TaskSays, SameChildren

\* r is the plan q with the status t.
Restated(q, r, t) ==
  /\ IsPlan(r) /\ r.status = t /\ r.stages = q.stages /\ r.inst = q.inst
  /\ r.ok => q.ok

\* What the aggregation of the task writes.
LEMMA ReaggregatedFields ==
  ASSUME NEW q, IsPlan(q)
  PROVE  /\ Restated(q, Reaggregated(q), AggregateTask(q))
         /\ Restated(q, Started(q), AggregateTask(q))
         /\ Reaggregated(q).ok = (q.ok /\ (AggregateTask(q) = q.status \/ AggregateTask(q) \in TaskTransitions[q.status]))
<1>. DEFINE t == AggregateTask(q)
            o == q.ok /\ (t = q.status \/ t \in TaskTransitions[q.status])
            u == q.ok /\ (t \in TaskTransitions[q.status] \/ t = "SUCCEEDED")
<1>1. Shape(q) /\ q.ok \in BOOLEAN
  BY DEF IsPlan, Shape
<1>2. Reaggregated(q) = [ok |-> o, status |-> t, stages |-> q.stages, inst |-> q.inst]
  BY <1>1, WriteOkStatus DEF Reaggregated
<1>3. Started(q) = [ok |-> u, status |-> t, stages |-> q.stages, inst |-> q.inst]
  BY <1>1, WriteOkStatus DEF Started
<1>4. t \in TaskStatuses
  BY AggregateTaskIs, Catalog DEF IsPlan, TaskResults
<1>5. o \in BOOLEAN /\ u \in BOOLEAN /\ (o => q.ok) /\ (u => q.ok)
  BY <1>1
<1>. DEFINE r == Reaggregated(q)
            v == Started(q)
<1>. HIDE DEF t, r, v
<1>6. /\ r = [ok |-> o, status |-> t, stages |-> q.stages, inst |-> q.inst]
      /\ v = [ok |-> u, status |-> t, stages |-> q.stages, inst |-> q.inst]
  BY <1>2, <1>3 DEF r, v
<1>. HIDE DEF o, u
<1>7. Restated(q, r, t) /\ Restated(q, v, t) /\ r.ok = o
  BY <1>4, <1>5, <1>6 DEF Restated, IsPlan
<1>. QED
  BY <1>7 DEF o, t, r, v

\* The status of a task that was aggregated is the one its children say.
LEMMA RestatedFollows ==
  ASSUME NEW q, NEW r, Restated(q, r, AggregateTask(q))
  PROVE  /\ r.status \notin OverStatuses => r.status = AggregateTask(r)
         /\ q.status \in OverStatuses => r.status = q.status
         /\ q.status \notin OverStatuses => r.status \in TaskResults
<1>1. SameChildren(q, r)
  BY DEF Restated, SameChildren
<1>2. TaskSays(r) = TaskSays(q)
  BY <1>1, TaskSaysSame
<1>. QED
  BY <1>2, AggregateTaskIs DEF Restated

\* What a task that ended with status st claims.
Done(st, p, e) ==
  /\ st = "SUCCEEDED" => \A i \in DOMAIN p.inst : p.inst[i].original =>
       i \in e \/ p.inst[i].status = "ARCHIVED"
  /\ st = "PARTIAL" => \E i \in DOMAIN p.inst : p.inst[i].original /\ p.inst[i].downgraded
  /\ st \in {"SUCCEEDED", "PARTIAL"} =>
       \A s \in DOMAIN p.stages : p.stages[s].required => p.stages[s].status = "SUCCEEDED"

\* An aggregation that ends a task is right to do so.
LEMMA DoneWhenSaid ==
  ASSUME NEW p, IsPlan(p), ValidPlan(p), Sound(p), Agrees(p), NEW e, Carried(p, e)
  PROVE  Done(TaskSays(p), p, e)
<1>1. TaskSays(p) \in {"SUCCEEDED", "PARTIAL"} =>
        \A s \in DOMAIN p.stages : p.stages[s].required => p.stages[s].status = "SUCCEEDED"
  BY DEF TaskSays
<1>2. ASSUME TaskSays(p) = "SUCCEEDED", NEW i \in DOMAIN p.inst, p.inst[i].original
      PROVE  i \in e \/ p.inst[i].status = "ARCHIVED"
  <2>1. ~Demoted(p)
    BY <1>2 DEF TaskSays
  <2>2. SoundInstance(p.inst[i])
    BY DEF Sound
  <2>3. p.inst[i].required
    BY <1>2, <2>1, <2>2 DEF SoundInstance, Demoted, ActivatedDowngrade
  <2>. DEFINE s == p.inst[i].stage
  <2>4. s \in DOMAIN p.stages /\ p.stages[s].required
    BY <2>3 DEF ValidPlan, Agrees
  <2>5. p.stages[s].status = "SUCCEEDED"
    BY <1>1, <1>2, <2>4
  <2>6. i \in NeededOf(p, s)
    BY <2>3 DEF NeededOf, InstancesOf
  <2>. QED
    BY <2>4, <2>5, <2>6 DEF Carried, CarriedStage
<1>3. ASSUME TaskSays(p) = "PARTIAL"
      PROVE  \E i \in DOMAIN p.inst : p.inst[i].original /\ p.inst[i].downgraded
  <2>1. Demoted(p)
    BY <1>3 DEF TaskSays
  <2>2. ASSUME NEW s \in DOMAIN p.stages, ActivatedDowngrade(p.stages[s])
        PROVE  \E i \in DOMAIN p.inst : p.inst[i].original /\ p.inst[i].downgraded
    BY <2>2 DEF ActivatedDowngrade, Sound, InstancesOf
  <2>. QED
    BY <2>1, <2>2 DEF Demoted, ActivatedDowngrade
<1>. QED
  BY <1>1, <1>2, <1>3 DEF Done

\* No required instance of a fresh stage that succeeded is at work.
LEMMA SucceededIsQuiet ==
  ASSUME NEW p, NEW s, FreshStage(p, s), p.stages[s].status = "SUCCEEDED",
         NEW i \in NeededOf(p, s)
  PROVE  p.inst[i].status \notin Live
<1>. DEFINE all == StatusesOf(p, InstancesOf(p, s))
            needed == NeededOf(p, s)
            some == StatusesOf(p, NeededOf(p, s))
            required == p.stages[s].required
<1>1. p.inst[i].status \in all /\ p.inst[i].status \in some
  BY DEF StatusesOf, NeededOf
<1>2. "SUCCEEDED" = Rule("SUCCEEDED", TRUE, required, needed, all, some)
  BY DEF FreshStage, MembersSay
<1>. HIDE DEF all, needed, some, required
<1>3. all \cap Executing = {} /\ some \cap Waiting = {}
  BY <1>2 DEF Rule
<1>. QED
  BY <1>1, <1>3 DEF Live

-----------------------------------------------------------------------------
(* What the commands do to a plan before it is aggregated.                 *)

Forgetting == {"SUCCEEDED", "FAILED_TO_START", "FAILED", "CRASHED", "CANCELLED", "SUPERSEDED", "ARCHIVED"}
Cleared(x, t) == t # "STOPPED" /\ x.board # "none"
MovedInstance(x, t, image) ==
  [x EXCEPT !.status = t,
            !.board = IF Cleared(x, t) THEN "none" ELSE @,
            !.finished = IF Cleared(x, t) /\ image THEN FALSE ELSE @,
            !.rejected = @ /\ t \notin Forgetting,
            !.activated = @ \/ t \in Executing]

\* y is the instance x after a transition to t.
MovedTo(x, y, t, image) ==
  /\ y.stage = x.stage /\ y.required = x.required /\ y.original = x.original
  /\ y.downgraded = x.downgraded /\ y.card = x.card
  /\ y.status = t
  /\ y.activated = (x.activated \/ t \in Executing)
  /\ y.rejected = (x.rejected /\ t \notin Forgetting)
  /\ y.board = IF Cleared(x, t) THEN "none" ELSE x.board
  /\ y.finished = IF Cleared(x, t) /\ image THEN FALSE ELSE x.finished

\* The fields of an instance after a transition.
LEMMA MovedInstanceFields ==
  ASSUME NEW x \in InstanceType, NEW t \in InstanceStatuses, NEW image \in BOOLEAN
  PROVE  /\ MovedInstance(x, t, image) \in InstanceType
         /\ MovedTo(x, MovedInstance(x, t, image), t, image)
<1>. DEFINE b == IF Cleared(x, t) THEN "none" ELSE x.board
            f == IF Cleared(x, t) /\ image THEN FALSE ELSE x.finished
            r == x.rejected /\ t \notin Forgetting
            a == x.activated \/ t \in Executing
<1>1. x = [stage |-> x.stage, required |-> x.required, original |-> x.original,
           activated |-> x.activated, downgraded |-> x.downgraded, status |-> x.status,
           finished |-> x.finished, board |-> x.board, rejected |-> x.rejected, card |-> x.card]
  BY DEF InstanceType
<1>2. MovedInstance(x, t, image) =
          [stage |-> x.stage, required |-> x.required, original |-> x.original,
           activated |-> a, downgraded |-> x.downgraded, status |-> t,
           finished |-> f, board |-> b, rejected |-> r, card |-> x.card]
  <2>. HIDE DEF b, f, r, a
  <2>. DEFINE x1 == [x EXCEPT !.status = t]
  <2>1. x1 = [stage |-> x.stage, required |-> x.required, original |-> x.original,
           activated |-> x.activated, downgraded |-> x.downgraded, status |-> t,
           finished |-> x.finished, board |-> x.board, rejected |-> x.rejected, card |-> x.card]
    BY <1>1
  <2>. HIDE DEF x1
  <2>. DEFINE x2 == [x1 EXCEPT !.board = b]
  <2>2. x2 = [stage |-> x.stage, required |-> x.required, original |-> x.original,
           activated |-> x.activated, downgraded |-> x.downgraded, status |-> t,
           finished |-> x.finished, board |-> b, rejected |-> x.rejected, card |-> x.card]
    BY <2>1
  <2>. HIDE DEF x2
  <2>. DEFINE x3 == [x2 EXCEPT !.finished = f]
  <2>3. x3 = [stage |-> x.stage, required |-> x.required, original |-> x.original,
           activated |-> x.activated, downgraded |-> x.downgraded, status |-> t,
           finished |-> f, board |-> b, rejected |-> x.rejected, card |-> x.card]
    BY <2>2
  <2>. HIDE DEF x3
  <2>. DEFINE x4 == [x3 EXCEPT !.rejected = r]
  <2>4. x4 = [stage |-> x.stage, required |-> x.required, original |-> x.original,
           activated |-> x.activated, downgraded |-> x.downgraded, status |-> t,
           finished |-> f, board |-> b, rejected |-> r, card |-> x.card]
    BY <2>3
  <2>. HIDE DEF x4
  <2>. DEFINE x5 == [x4 EXCEPT !.activated = a]
  <2>5. x5 = [stage |-> x.stage, required |-> x.required, original |-> x.original,
           activated |-> a, downgraded |-> x.downgraded, status |-> t,
           finished |-> f, board |-> b, rejected |-> r, card |-> x.card]
    BY <2>4
  <2>6. x1.board = x.board /\ x2.finished = x.finished /\ x3.rejected = x.rejected /\ x4.activated = x.activated
    BY <2>1, <2>2, <2>3, <2>4
  <2>7. MovedInstance(x, t, image) = x5
    BY <2>6 DEF MovedInstance, b, f, r, a, x1, x2, x3, x4
  <2>. QED
    BY <2>5, <2>7
<1>3. b \in {"none", "OPEN", "COMPLETED"} /\ f \in BOOLEAN /\ r \in BOOLEAN /\ a \in BOOLEAN
  BY DEF InstanceType
<1>4. /\ x.stage \in Nat /\ x.required \in BOOLEAN /\ x.original \in BOOLEAN
      /\ x.downgraded \in BOOLEAN /\ x.card \in 1..MaxCard /\ t \in DOMAIN InstanceTransitions
  BY DEF InstanceType, InstanceStatuses
<1>. DEFINE y == MovedInstance(x, t, image)
<1>. HIDE DEF b, f, r, a, y
<1>5. y = [stage |-> x.stage, required |-> x.required, original |-> x.original,
           activated |-> a, downgraded |-> x.downgraded, status |-> t,
           finished |-> f, board |-> b, rejected |-> r, card |-> x.card]
  BY <1>2 DEF y
<1>6. y \in InstanceType
  BY <1>3, <1>4, <1>5 DEF InstanceType
<1>7. /\ y.stage = x.stage /\ y.required = x.required /\ y.original = x.original
      /\ y.downgraded = x.downgraded /\ y.card = x.card /\ y.status = t
      /\ y.activated = a /\ y.rejected = r /\ y.board = b /\ y.finished = f
  BY <1>5
<1>. QED
  BY <1>6, <1>7 DEF MovedTo, y, a, r, b, f

\* m is p with the instance i replaced by y.
Replaced(p, m, i, y) ==
  /\ IsPlan(m) /\ m.status = p.status /\ m.stages = p.stages
  /\ DOMAIN m.inst = DOMAIN p.inst
  /\ m.inst[i] = y
  /\ \A j \in DOMAIN p.inst \ {i} : m.inst[j] = p.inst[j]

\* A transition replaces one instance and raises when the catalog lacks it.
LEMMA MovedFields ==
  ASSUME NEW p, IsPlan(p), NEW i \in DOMAIN p.inst, NEW t \in InstanceStatuses
  PROVE  LET m == Moved(p, i, t) IN
         /\ Replaced(p, m, i, m.inst[i])
         /\ MovedTo(p.inst[i], m.inst[i], t, AgentType(p, i) = "image")
         /\ m.ok = (p.ok /\ t \in InstanceTransitions[p.inst[i].status])
<1>. DEFINE image == AgentType(p, i) = "image"
            y == MovedInstance(p.inst[i], t, image)
            o == p.ok /\ t \in InstanceTransitions[p.inst[i].status]
            in == [p.inst EXCEPT ![i] = y]
            m == Moved(p, i, t)
<1>1. m = [ok |-> o, status |-> p.status, stages |-> p.stages, inst |-> in]
  <2>1. m = [p EXCEPT !.ok = o, !.inst[i] = y]
    BY DEF Moved, MovedInstance, Cleared, Forgetting
  <2>. HIDE DEF y, m, o
  <2>. QED
    BY <2>1, WriteOkInst DEF IsPlan, Shape
<1>2. p.inst[i] \in InstanceType
  BY InstTyped
<1>3. y \in InstanceType /\ MovedTo(p.inst[i], y, t, image)
  BY <1>2, MovedInstanceFields
<1>. HIDE DEF y, m
<1>4. in \in [DOMAIN in -> InstanceType] /\ DOMAIN in = DOMAIN p.inst
  BY <1>3, InstTyped
<1>5. in[i] = y /\ \A j \in DOMAIN p.inst \ {i} : in[j] = p.inst[j]
  OBVIOUS
<1>6. o \in BOOLEAN
  BY DEF IsPlan
<1>. HIDE DEF o, in, image
<1>7. IsPlan(m) /\ m.ok = o /\ m.status = p.status /\ m.stages = p.stages /\ m.inst = in
  BY <1>1, <1>4, <1>6 DEF IsPlan
<1>. QED
  BY <1>3, <1>4, <1>5, <1>7 DEF Replaced, m, o, image

\* m is p before an aggregation: statuses and flags of instances moved on, requirements were
\* lowered, stages kept their statuses.
Prepared(p, m) ==
  /\ IsPlan(m)
  /\ DOMAIN m.inst = DOMAIN p.inst /\ DOMAIN m.stages = DOMAIN p.stages
  /\ \A i \in DOMAIN p.inst :
       /\ m.inst[i].stage = p.inst[i].stage /\ m.inst[i].original = p.inst[i].original
       /\ m.inst[i].required => p.inst[i].required
       /\ p.inst[i].downgraded => m.inst[i].downgraded
       /\ p.inst[i].status = "ARCHIVED" => m.inst[i].status = "ARCHIVED"
  /\ \A s \in DOMAIN p.stages :
       /\ m.stages[s].type = p.stages[s].type /\ m.stages[s].deps = p.stages[s].deps
       /\ m.stages[s].status = p.stages[s].status
       /\ m.stages[s].required => p.stages[s].required
       /\ p.stages[s].activated => m.stages[s].activated

\* What a prepared plan keeps: members, Images, what was delivered and what was claimed.
LEMMA PreparedKeeps ==
  ASSUME NEW p, NEW m, IsPlan(p), ValidPlan(p), Prepared(p, m)
  PROVE  /\ ValidPlan(m)
         /\ \A s : InstancesOf(m, s) = InstancesOf(p, s)
         /\ Images(m) = Images(p)
         /\ \A e : Carried(p, e) => Carried(m, e)
         /\ \A st, e : Done(st, p, e) => Done(st, m, e)
<1>1. \A s : InstancesOf(m, s) = InstancesOf(p, s)
  BY DEF Prepared, InstancesOf
<1>2. \A s \in DOMAIN p.stages : \A d \in p.stages[s].deps : d \in DOMAIN p.stages
  BY StageTyped DEF ValidPlan
<1>3. ValidPlan(m)
  BY <1>1, <1>2 DEF Prepared, ValidPlan
<1>4. Images(m) = Images(p)
  BY DEF Prepared, Images, AgentType, ValidPlan
<1>5. \A s \in DOMAIN p.stages : NeededOf(m, s) \subseteq NeededOf(p, s)
  BY <1>1 DEF Prepared, NeededOf, InstancesOf
<1>6. ASSUME NEW e, Carried(p, e)
      PROVE  Carried(m, e)
  <2>1. ASSUME NEW s \in DOMAIN p.stages
        PROVE  CarriedStage(m, s, e)
    <3>1. CarriedStage(p, s, e)
      BY <1>6 DEF Carried
    <3>2. m.stages[s].status = p.stages[s].status
      BY DEF Prepared
    <3>3. \A i \in NeededOf(p, s) : p.inst[i].status = "ARCHIVED" => m.inst[i].status = "ARCHIVED"
      BY DEF Prepared, NeededOf, InstancesOf
    <3>. QED
      BY <1>5, <3>1, <3>2, <3>3 DEF CarriedStage
  <2>. QED
    BY <2>1 DEF Carried, Prepared
<1>7. ASSUME NEW st, NEW e, Done(st, p, e)
      PROVE  Done(st, m, e)
  BY <1>7 DEF Done, Prepared
<1>. QED
  BY <1>1, <1>3, <1>4, <1>6, <1>7

\* The gate of a PPT does not look at the PPT.
LEMMA PreparedGate ==
  ASSUME NEW p, NEW m, IsPlan(p), ValidPlan(p), Prepared(p, m), NEW s \in DOMAIN p.stages,
         \A i \in Images(p) : m.inst[i].finished = p.inst[i].finished,
         DependenciesAuthorized(p, s)
  PROVE  DependenciesAuthorized(m, s)
<1>1. \A d \in p.stages[s].deps : d \in DOMAIN p.stages
  BY StageTyped DEF ValidPlan
<1>2. Images(m) = Images(p)
  BY PreparedKeeps
<1>. QED
  BY <1>1, <1>2 DEF DependenciesAuthorized, Prepared

\* Where the catalog comes from: nothing becomes executing or what follows an execution that
\* was not started.
LEMMA TransitionSources ==
  ASSUME NEW old \in InstanceStatuses, NEW t \in InstanceTransitions[old]
  PROVE  /\ old # "ARCHIVED"
         /\ t \in Begun => t = "STARTING" \/ old \in Begun
         /\ t \in {"CREATED", "UNAVAILABLE"} => old = "CREATED"
         /\ t = "READY" => old \notin Live
         /\ t \in InstanceStatuses
<1>1. old # "ARCHIVED" /\ t \in InstanceStatuses
  BY Catalog DEF InstanceTransitions
<1>2. t \in Begun => t = "STARTING" \/ old \in Begun
  BY Catalog DEF InstanceTransitions, Begun, Live, Executing, Waiting
<1>3. t \in {"CREATED", "UNAVAILABLE"} => old = "CREATED"
  BY Catalog DEF InstanceTransitions
<1>4. t = "READY" => old \notin Live
  BY Catalog DEF InstanceTransitions, Live, Executing, Waiting
<1>. QED
  BY <1>1, <1>2, <1>3, <1>4

\* One instance of a sound plan is replaced.
LEMMA ReplacedSound ==
  ASSUME NEW p, NEW m, IsPlan(p), ValidPlan(p), NEW i \in DOMAIN p.inst,
         Replaced(p, m, i, m.inst[i]), m.inst[i].stage = p.inst[i].stage,
         m.inst[i].required = p.inst[i].required, m.inst[i].original = p.inst[i].original,
         m.inst[i].downgraded = p.inst[i].downgraded,
         p.inst[i].status = "ARCHIVED" => m.inst[i].status = "ARCHIVED"
  PROVE  /\ Prepared(p, m)
         /\ Agrees(p) => Agrees(m)
         /\ /\ Sound(p) /\ SoundInstance(m.inst[i])
            /\ AgentType(p, i) = "image" => (m.inst[i].finished <=> m.inst[i].board = "COMPLETED")
            => Sound(m)
<1>1. Prepared(p, m)
  BY DEF Prepared, Replaced
<1>2. Agrees(p) => Agrees(m)
  BY DEF Agrees, Replaced
<1>3. ASSUME Sound(p), SoundInstance(m.inst[i]),
             AgentType(p, i) = "image" => (m.inst[i].finished <=> m.inst[i].board = "COMPLETED")
      PROVE  Sound(m)
  <2>1. Images(m) = Images(p) /\ \A s : InstancesOf(m, s) = InstancesOf(p, s)
    BY <1>1, PreparedKeeps
  <2>2. Boards(m)
    BY <1>3, <2>1 DEF Sound, Boards, Replaced, Images, AgentType
  <2>3. \A j \in DOMAIN m.inst : SoundInstance(m.inst[j])
    BY <1>3 DEF Sound, Replaced
  <2>4. \A j \in DOMAIN p.inst : /\ m.inst[j].original = p.inst[j].original
                                 /\ m.inst[j].downgraded = p.inst[j].downgraded
    BY DEF Replaced
  <2>5. m.stages = p.stages
    BY DEF Replaced
  <2>. QED
    BY <1>3, <2>1, <2>2, <2>3, <2>4, <2>5 DEF Sound, InstancesOf
<1>. QED
  BY <1>1, <1>2, <1>3

\* A runtime transition of one instance that the catalog allows.
LEMMA MovedSound ==
  ASSUME NEW p, IsPlan(p), ValidPlan(p), Sound(p), NEW i \in DOMAIN p.inst,
         NEW t \in InstanceStatuses \ {"SUPERSEDED"}, Moved(p, i, t).ok
  PROVE  LET m == Moved(p, i, t) IN
         /\ Prepared(p, m)
         /\ Sound(m)
         /\ Agrees(p) => Agrees(m)
         /\ /\ Opened(p)
            /\ t = "STARTING" => p.inst[i].activated \/ DependenciesAuthorized(p, p.inst[i].stage)
            => Gated(m)
<1>. DEFINE m == Moved(p, i, t)
            x == p.inst[i]
            y == m.inst[i]
<1>1. /\ Replaced(p, m, i, y) /\ MovedTo(x, y, t, AgentType(p, i) = "image")
      /\ t \in InstanceTransitions[x.status]
  BY MovedFields
<1>2. x \in InstanceType /\ x.status \in InstanceStatuses
  BY InstTyped
<1>3. SoundInstance(x)
  BY DEF Sound
<1>4. Moved(p, i, t) = m
  OBVIOUS
<1>. HIDE DEF m
<1>5. /\ x.status # "ARCHIVED"
      /\ t \in Begun => t = "STARTING" \/ x.status \in Begun
      /\ t \notin {"CREATED", "UNAVAILABLE"}
  BY <1>1, <1>2, <1>3, TransitionSources DEF SoundInstance
<1>6. x.activated \in BOOLEAN /\ x.rejected \in BOOLEAN
  BY <1>2 DEF InstanceType
<1>7. /\ y.stage = x.stage /\ y.required = x.required /\ y.original = x.original
      /\ y.downgraded = x.downgraded /\ y.status = t
      /\ y.activated <=> x.activated \/ t \in Executing
      /\ y.rejected <=> x.rejected /\ t \notin Forgetting
  BY <1>1 DEF MovedTo
<1>8. SoundInstance(y)
  <2>1. t = "STARTING" => t \in Executing
    BY DEF Executing
  <2>2. t = "SUCCEEDED" => t \in Forgetting
    BY DEF Forgetting
  <2>. QED
    BY <1>3, <1>5, <1>7, <2>1, <2>2 DEF SoundInstance
<1>9. AgentType(p, i) = "image" => (y.finished <=> y.board = "COMPLETED")
  <2>1. AgentType(p, i) = "image" => (x.finished <=> x.board = "COMPLETED")
    BY DEF Sound, Boards, Images
  <2>. QED
    BY <1>1, <2>1 DEF MovedTo, Cleared
<1>10. Prepared(p, m) /\ Sound(m) /\ (Agrees(p) => Agrees(m))
  BY <1>1, <1>5, <1>7, <1>8, <1>9, ReplacedSound
<1>11. ASSUME Opened(p),
              t = "STARTING" => x.activated \/ DependenciesAuthorized(p, x.stage),
              NEW j \in DOMAIN m.inst, AgentType(m, j) = "ppt", m.inst[j].activated
       PROVE  m.stages[m.inst[j].stage].activated \/ DependenciesAuthorized(m, m.inst[j].stage)
  <2>1. j \in DOMAIN p.inst /\ m.stages = p.stages /\ m.inst[j].stage = p.inst[j].stage
    BY <1>1, <1>7 DEF Replaced
  <2>2. AgentType(p, j) = "ppt"
    BY <1>11, <2>1 DEF AgentType
  <2>3. CASE p.inst[j].activated
    BY <1>11, <2>1, <2>2, <2>3 DEF Opened
  <2>4. CASE ~p.inst[j].activated
    <3>1. j = i
      BY <1>1, <1>11, <2>1, <2>4 DEF Replaced
    <3>2. t \in Executing
      BY <1>7, <1>11, <2>4, <3>1
    <3>3. t = "STARTING"
      BY <1>3, <1>5, <2>4, <3>1, <3>2 DEF SoundInstance, Begun, Live
    <3>4. DependenciesAuthorized(p, x.stage) /\ x.stage \in DOMAIN p.stages
      BY <1>11, <2>4, <3>1, <3>3 DEF ValidPlan
    <3>5. \A k \in Images(p) : m.inst[k].finished = p.inst[k].finished
      BY <1>1, <2>2, <3>1 DEF Replaced, Images
    <3>6. DependenciesAuthorized(m, x.stage)
      BY <1>10, <3>4, <3>5, PreparedGate
    <3>. QED
      BY <2>1, <3>1, <3>6
  <2>. QED
    BY <2>3, <2>4
<1>. QED
  BY <1>4, <1>10, <1>11 DEF Gated

\* Two preparations are one.
LEMMA PreparedTwice ==
  ASSUME NEW p, NEW m, NEW n, Prepared(p, m), Prepared(m, n)
  PROVE  Prepared(p, n)
BY DEF Prepared

\* A write to one instance or to one stage of a plan.
LEMMA InstWritten ==
  ASSUME NEW p, IsPlan(p), NEW i \in DOMAIN p.inst, NEW y \in InstanceType
  PROVE  LET m == [p EXCEPT !.inst[i] = y] IN
         /\ Replaced(p, m, i, y) /\ m.ok = p.ok
<1>. DEFINE in == [p.inst EXCEPT ![i] = y]
            m == [p EXCEPT !.inst[i] = y]
<1>1. m = [ok |-> p.ok, status |-> p.status, stages |-> p.stages, inst |-> in]
  BY WriteInst DEF IsPlan, Shape
<1>2. in \in [DOMAIN in -> InstanceType] /\ DOMAIN in = DOMAIN p.inst
  BY InstTyped
<1>3. in[i] = y /\ \A j \in DOMAIN p.inst \ {i} : in[j] = p.inst[j]
  OBVIOUS
<1>. HIDE DEF in, m
<1>4. IsPlan(m) /\ m.ok = p.ok /\ m.status = p.status /\ m.stages = p.stages /\ m.inst = in
  BY <1>1, <1>2 DEF IsPlan
<1>5. Replaced(p, m, i, y) /\ m.ok = p.ok
  BY <1>2, <1>3, <1>4 DEF Replaced
<1>. QED
  BY <1>5 DEF m

\* The same for one stage.
LEMMA OneStageWritten ==
  ASSUME NEW p, IsPlan(p), NEW s \in DOMAIN p.stages, NEW y \in StageType
  PROVE  LET m == [p EXCEPT !.stages[s] = y] IN
         /\ IsPlan(m) /\ m.ok = p.ok /\ m.status = p.status /\ m.inst = p.inst
         /\ DOMAIN m.stages = DOMAIN p.stages
         /\ m.stages[s] = y
         /\ \A u \in DOMAIN p.stages \ {s} : m.stages[u] = p.stages[u]
<1>. DEFINE st == [p.stages EXCEPT ![s] = y]
            m == [p EXCEPT !.stages[s] = y]
<1>1. m = [ok |-> p.ok, status |-> p.status, stages |-> st, inst |-> p.inst]
  BY WriteStages DEF IsPlan, Shape
<1>2. s \in 1..Len(p.stages) /\ p.stages \in Seq(StageType)
  BY LenProperties DEF IsPlan
<1>3. st \in Seq(StageType) /\ DOMAIN st = DOMAIN p.stages
  BY <1>2, ExceptSeq
<1>4. st[s] = y /\ \A u \in DOMAIN p.stages \ {s} : st[u] = p.stages[u]
  OBVIOUS
<1>. HIDE DEF st, m
<1>5. IsPlan(m) /\ m.ok = p.ok /\ m.status = p.status /\ m.stages = st /\ m.inst = p.inst
  BY <1>1, <1>3 DEF IsPlan
<1>. QED
  BY <1>3, <1>4, <1>5 DEF m

\* The fields of instances and stages the commands write besides the status.
Refused(x) == [x EXCEPT !.rejected = TRUE]
Lowered(x) == [x EXCEPT !.required = FALSE, !.downgraded = TRUE]
Carded(x, c) == [x EXCEPT !.card = c]
StageLowered(y) == [y EXCEPT !.required = FALSE, !.activated = TRUE, !.downgraded = TRUE]

\* Each of these writes one or two fields and leaves the others alone.
LEMMA WrittenFields ==
  /\ \A x \in InstanceType : LET y == Refused(x) IN
       /\ y \in InstanceType /\ y.rejected
       /\ y.stage = x.stage /\ y.required = x.required /\ y.original = x.original
       /\ y.downgraded = x.downgraded /\ y.status = x.status /\ y.activated = x.activated
       /\ y.finished = x.finished /\ y.board = x.board
  /\ \A x \in InstanceType : LET y == Lowered(x) IN
       /\ y \in InstanceType /\ ~y.required /\ y.downgraded
       /\ y.stage = x.stage /\ y.original = x.original /\ y.rejected = x.rejected
       /\ y.status = x.status /\ y.activated = x.activated
       /\ y.finished = x.finished /\ y.board = x.board
  /\ \A y \in StageType : LET z == StageLowered(y) IN
       /\ z \in StageType /\ ~z.required /\ z.activated /\ z.downgraded
       /\ z.type = y.type /\ z.deps = y.deps /\ z.status = y.status /\ z.original = y.original
<1>1. ASSUME NEW x \in InstanceType
      PROVE  LET y == Refused(x) IN
       /\ y \in InstanceType /\ y.rejected
       /\ y.stage = x.stage /\ y.required = x.required /\ y.original = x.original
       /\ y.downgraded = x.downgraded /\ y.status = x.status /\ y.activated = x.activated
       /\ y.finished = x.finished /\ y.board = x.board
  BY DEF InstanceType, Refused
<1>2. ASSUME NEW x \in InstanceType
      PROVE  LET y == Lowered(x) IN
       /\ y \in InstanceType /\ ~y.required /\ y.downgraded
       /\ y.stage = x.stage /\ y.original = x.original /\ y.rejected = x.rejected
       /\ y.status = x.status /\ y.activated = x.activated
       /\ y.finished = x.finished /\ y.board = x.board
  <2>. DEFINE w == [x EXCEPT !.required = FALSE]
              y == [w EXCEPT !.downgraded = TRUE]
  <2>1. /\ w \in InstanceType /\ ~w.required
        /\ w.stage = x.stage /\ w.original = x.original /\ w.rejected = x.rejected
        /\ w.status = x.status /\ w.activated = x.activated
        /\ w.finished = x.finished /\ w.board = x.board
    BY DEF InstanceType
  <2>. HIDE DEF w
  <2>2. /\ y \in InstanceType /\ y.downgraded /\ y.required = w.required
        /\ y.stage = w.stage /\ y.original = w.original /\ y.rejected = w.rejected
        /\ y.status = w.status /\ y.activated = w.activated
        /\ y.finished = w.finished /\ y.board = w.board
    BY <2>1 DEF InstanceType
  <2>3. Lowered(x) = y
    BY DEF Lowered, w
  <2>. HIDE DEF y
  <2>. QED
    BY <2>1, <2>2, <2>3
<1>3. ASSUME NEW y \in StageType
      PROVE  LET z == StageLowered(y) IN
       /\ z \in StageType /\ ~z.required /\ z.activated /\ z.downgraded
       /\ z.type = y.type /\ z.deps = y.deps /\ z.status = y.status /\ z.original = y.original
  <2>. DEFINE v == [y EXCEPT !.required = FALSE]
              w == [v EXCEPT !.activated = TRUE]
              z == [w EXCEPT !.downgraded = TRUE]
  <2>1. /\ v \in StageType /\ ~v.required
        /\ v.type = y.type /\ v.deps = y.deps /\ v.status = y.status /\ v.original = y.original
    BY DEF StageType
  <2>. HIDE DEF v
  <2>2. /\ w \in StageType /\ w.required = v.required /\ w.activated
        /\ w.type = v.type /\ w.deps = v.deps /\ w.status = v.status /\ w.original = v.original
    BY <2>1 DEF StageType
  <2>. HIDE DEF w
  <2>3. /\ z \in StageType /\ z.required = w.required /\ z.activated = w.activated /\ z.downgraded
        /\ z.type = w.type /\ z.deps = w.deps /\ z.status = w.status /\ z.original = w.original
    BY <2>2 DEF StageType
  <2>4. StageLowered(y) = z
    BY DEF StageLowered, v, w
  <2>. HIDE DEF z
  <2>. QED
    BY <2>1, <2>2, <2>3, <2>4
<1>. QED
  BY <1>1, <1>2, <1>3

\* The plan of the task has the fields of the state.
LEMMA CurrentFields ==
  Current.ok = TRUE /\ Current.status = status /\ Current.stages = stages /\ Current.inst = inst
BY DEF Current

\* reject_instance_delivery, the field it writes after the transition.
LEMMA RefusedSound ==
  ASSUME NEW p, IsPlan(p), ValidPlan(p), Sound(p), NEW i \in DOMAIN p.inst,
         p.inst[i].activated, p.inst[i].status # "SUCCEEDED"
  PROVE  LET m == [p EXCEPT !.inst[i].rejected = TRUE] IN
         /\ Prepared(p, m) /\ m.ok = p.ok /\ Sound(m) /\ m.status = p.status
         /\ Agrees(p) => Agrees(m)
         /\ Gated(p) => Gated(m)
         /\ Replaced(p, m, i, m.inst[i])
         /\ m.inst[i].status = p.inst[i].status /\ m.inst[i].stage = p.inst[i].stage
<1>. DEFINE m == [p EXCEPT !.inst[i].rejected = TRUE]
            y == Refused(p.inst[i])
<1>1. m = [p EXCEPT !.inst[i] = y]
  BY DEF Refused
<1>2. p.inst[i] \in InstanceType
  BY InstTyped
<1>3. /\ y \in InstanceType /\ y.rejected
      /\ y.stage = p.inst[i].stage /\ y.required = p.inst[i].required
      /\ y.original = p.inst[i].original
      /\ y.downgraded = p.inst[i].downgraded /\ y.status = p.inst[i].status
      /\ y.activated = p.inst[i].activated
      /\ y.finished = p.inst[i].finished /\ y.board = p.inst[i].board
  BY <1>2, WrittenFields
<1>. HIDE DEF y
<1>4. Replaced(p, m, i, y) /\ m.ok = p.ok
  BY <1>1, <1>3, InstWritten
<1>. HIDE DEF m
<1>5. m.inst[i] = y
  BY <1>4 DEF Replaced
<1>6. SoundInstance(y)
  BY <1>3 DEF Sound, SoundInstance
<1>7. AgentType(p, i) = "image" => (y.finished <=> y.board = "COMPLETED")
  BY <1>3 DEF Sound, Boards, Images
<1>8. Prepared(p, m) /\ Sound(m) /\ (Agrees(p) => Agrees(m))
  BY <1>3, <1>4, <1>5, <1>6, <1>7, ReplacedSound
<1>9. ASSUME Gated(p), NEW j \in DOMAIN m.inst, AgentType(m, j) = "ppt", m.inst[j].activated
      PROVE  m.stages[m.inst[j].stage].activated \/ DependenciesAuthorized(m, m.inst[j].stage)
  <2>1. /\ j \in DOMAIN p.inst /\ m.stages = p.stages /\ m.inst[j].stage = p.inst[j].stage
        /\ p.inst[j].activated
    BY <1>3, <1>4, <1>9 DEF Replaced
  <2>2. AgentType(p, j) = "ppt"
    BY <1>9, <2>1 DEF AgentType
  <2>3. p.stages[p.inst[j].stage].activated \/ DependenciesAuthorized(p, p.inst[j].stage)
    BY <1>9, <2>1, <2>2 DEF Gated
  <2>4. \A k \in Images(p) : m.inst[k].finished = p.inst[k].finished
    BY <1>3, <1>4 DEF Replaced, Images
  <2>5. p.inst[j].stage \in DOMAIN p.stages
    BY <2>1 DEF ValidPlan
  <2>. QED
    BY <1>8, <2>1, <2>3, <2>4, <2>5, PreparedGate
<1>. QED
  BY <1>3, <1>4, <1>5, <1>8, <1>9 DEF Gated, m, Replaced

\* downgrade_instance before its aggregation.
LEMMA DowngradedSound ==
  ASSUME NEW i \in DOMAIN inst, IsPlan(Current), ValidPlan(Current), Sound(Current),
         inst[i].original, inst[i].activated
  PROVE  LET m == Downgraded(i) IN
         /\ Prepared(Current, m) /\ m.ok /\ Sound(m) /\ m.status = status
         /\ Agrees(Current) => Agrees(m)
         /\ Opened(Current) => Gated(m)
         /\ \A j \in DOMAIN inst : /\ m.inst[j].status = inst[j].status
                                   /\ m.inst[j].rejected = inst[j].rejected
<1>. DEFINE p == Current
            s == p.inst[i].stage
            y == Lowered(p.inst[i])
            q == [p EXCEPT !.inst[i] = y]
            last == \A j \in InstancesOf(q, s) : ~q.inst[j].required
            z == StageLowered(q.stages[s])
            r == [q EXCEPT !.stages[s] = z]
            m == Downgraded(i)
<1>0. /\ p.inst = inst /\ p.stages = stages /\ p.status = status /\ p.ok = TRUE
      /\ IsPlan(p) /\ ValidPlan(p) /\ Sound(p)
      /\ i \in DOMAIN p.inst /\ p.inst[i].original /\ p.inst[i].activated
  BY CurrentFields
<1>1. m = IF last THEN r ELSE q
  BY CurrentFields DEF Downgraded, Lowered, StageLowered
<1>. HIDE DEF p
<1>2. p.inst[i] \in InstanceType
  BY <1>0, InstTyped
<1>3. /\ y \in InstanceType /\ ~y.required /\ y.downgraded
      /\ y.stage = p.inst[i].stage /\ y.original = p.inst[i].original
      /\ y.rejected = p.inst[i].rejected
      /\ y.status = p.inst[i].status /\ y.activated = p.inst[i].activated
      /\ y.finished = p.inst[i].finished /\ y.board = p.inst[i].board
  BY <1>2, WrittenFields
<1>. HIDE DEF y
<1>4. Replaced(p, q, i, y) /\ q.ok = p.ok
  BY <1>0, <1>3, InstWritten
<1>. HIDE DEF q, s
<1>5. s \in DOMAIN p.stages /\ q.stages = p.stages
  BY <1>0, <1>4 DEF s, ValidPlan, Replaced
<1>6. q.stages[s] \in StageType
  BY <1>0, <1>5, StageTyped
<1>7. /\ z \in StageType /\ ~z.required /\ z.activated /\ z.downgraded
      /\ z.type = q.stages[s].type /\ z.deps = q.stages[s].deps
      /\ z.status = q.stages[s].status /\ z.original = q.stages[s].original
  BY <1>6, WrittenFields
<1>. HIDE DEF z
<1>8. /\ IsPlan(r) /\ r.ok = q.ok /\ r.status = q.status /\ r.inst = q.inst
      /\ DOMAIN r.stages = DOMAIN q.stages /\ r.stages[s] = z
      /\ \A u \in DOMAIN q.stages \ {s} : r.stages[u] = q.stages[u]
  BY <1>4, <1>5, <1>7, OneStageWritten DEF Replaced
<1>. HIDE DEF r, m, last
<1>9. /\ IsPlan(m) /\ m.ok = p.ok /\ m.status = p.status /\ m.inst = q.inst
      /\ DOMAIN m.stages = DOMAIN p.stages
      /\ \A u \in DOMAIN p.stages : IF u = s /\ last THEN m.stages[u] = z
                                    ELSE m.stages[u] = p.stages[u]
  BY <1>1, <1>4, <1>5, <1>8 DEF Replaced
<1>10. /\ DOMAIN m.inst = DOMAIN p.inst /\ m.inst[i] = y
       /\ \A j \in DOMAIN p.inst \ {i} : m.inst[j] = p.inst[j]
  BY <1>4, <1>9 DEF Replaced
<1>11. Prepared(p, m)
  BY <1>3, <1>5, <1>7, <1>9, <1>10 DEF Prepared
<1>12. Images(m) = Images(p) /\ \A u : InstancesOf(m, u) = InstancesOf(p, u)
  BY <1>0, <1>11, PreparedKeeps
<1>13. Sound(m)
  <2>1. Boards(m)
    BY <1>0, <1>3, <1>10, <1>12 DEF Sound, Boards, Images
  <2>2. ASSUME NEW j \in DOMAIN m.inst PROVE SoundInstance(m.inst[j])
    <3>1. SoundInstance(p.inst[j])
      BY <1>0, <1>10 DEF Sound
    <3>2. CASE j = i
      BY <1>0, <1>3, <1>10, <3>1, <3>2 DEF SoundInstance
    <3>3. CASE j # i
      BY <1>10, <3>1, <3>3
    <3>. QED
      BY <3>2, <3>3
  <2>3. ASSUME NEW u \in DOMAIN m.stages, m.stages[u].downgraded
        PROVE  \E j \in InstancesOf(m, u) : m.inst[j].original /\ m.inst[j].downgraded
    <3>1. CASE u = s
      <4>1. i \in InstancesOf(m, u)
        BY <1>0, <1>3, <1>10, <3>1 DEF InstancesOf, s
      <4>. QED
        BY <1>0, <1>3, <1>10, <4>1
    <3>2. CASE u # s
      <4>1. m.stages[u] = p.stages[u] /\ u \in DOMAIN p.stages
        BY <1>9, <3>2
      <4>2. PICK j \in InstancesOf(p, u) : p.inst[j].original /\ p.inst[j].downgraded
        BY <1>0, <2>3, <4>1 DEF Sound
      <4>3. m.inst[j].original /\ m.inst[j].downgraded
        BY <1>3, <1>10, <4>2 DEF InstancesOf
      <4>. QED
        BY <1>12, <4>2, <4>3
    <3>. QED
      BY <3>1, <3>2
  <2>. QED
    BY <2>1, <2>2, <2>3 DEF Sound
<1>14. Agrees(p) => Agrees(m)
  <2>1. ASSUME Agrees(p), NEW j \in DOMAIN m.inst, m.inst[j].required
        PROVE  m.stages[m.inst[j].stage].required
    <3>1. j \in DOMAIN p.inst /\ m.inst[j].stage = p.inst[j].stage /\ p.inst[j].required
      BY <1>3, <1>10, <2>1
    <3>2. p.stages[p.inst[j].stage].required /\ p.inst[j].stage \in DOMAIN p.stages
      BY <1>0, <2>1, <3>1 DEF Agrees, ValidPlan
    <3>3. ~(p.inst[j].stage = s /\ last)
      <4>1. p.inst[j].stage = s => j \in InstancesOf(q, s)
        BY <1>9, <1>10, <3>1 DEF InstancesOf
      <4>2. q.inst[j].required
        BY <1>9, <2>1
      <4>. QED
        BY <4>1, <4>2 DEF last
    <3>. QED
      BY <1>9, <3>1, <3>2, <3>3
  <2>. QED
    BY <2>1 DEF Agrees
<1>15. Opened(p) => Gated(m)
  <2>1. \A j \in DOMAIN m.inst : /\ j \in DOMAIN p.inst /\ m.inst[j].stage = p.inst[j].stage
                                 /\ m.inst[j].activated = p.inst[j].activated
    BY <1>3, <1>10
  <2>2. \A u \in DOMAIN p.stages : /\ m.stages[u].type = p.stages[u].type
                                   /\ p.stages[u].activated => m.stages[u].activated
    BY <1>11 DEF Prepared
  <2>3. \A j \in DOMAIN p.inst : p.inst[j].stage \in DOMAIN p.stages
    BY <1>0 DEF ValidPlan
  <2>. QED
    BY <2>1, <2>2, <2>3 DEF Opened, Gated, AgentType
<1>16. \A j \in DOMAIN inst : m.inst[j].status = inst[j].status /\ m.inst[j].rejected = inst[j].rejected
  BY <1>0, <1>3, <1>10
<1>. QED
  BY <1>0, <1>9, <1>11, <1>13, <1>14, <1>15, <1>16 DEF m, p

\* A function on the positions of a plan whose values are stages is a sequence of stages.
LEMMA StagesAreSeq ==
  ASSUME NEW n \in Nat, NEW f, f \in [1..n -> StageType]
  PROVE  f \in Seq(StageType) /\ DOMAIN f = 1..n /\ Len(f) = n
<1>1. f \in Seq(StageType)
  BY SeqDef
<1>. QED
  BY <1>1, LenProperties

CancelledInstance(x) ==
  [x EXCEPT !.status = "CANCELLED", !.board = "none",
            !.finished = IF x.board # "none" THEN FALSE ELSE @]
\* The fields of a cancelled instance.
LEMMA CancelledInstanceFields ==
  ASSUME NEW x \in InstanceType
  PROVE  LET y == CancelledInstance(x) IN
         /\ y \in InstanceType /\ y.status = "CANCELLED" /\ y.board = "none"
         /\ y.finished = IF x.board # "none" THEN FALSE ELSE x.finished
         /\ y.stage = x.stage /\ y.required = x.required /\ y.original = x.original
         /\ y.downgraded = x.downgraded /\ y.rejected = x.rejected /\ y.activated = x.activated
<1>. DEFINE v == [x EXCEPT !.status = "CANCELLED"]
            w == [v EXCEPT !.board = "none"]
            f == IF x.board # "none" THEN FALSE ELSE x.finished
            y == [w EXCEPT !.finished = f]
<1>1. /\ v \in InstanceType /\ v.status = "CANCELLED" /\ v.board = x.board
      /\ v.finished = x.finished
      /\ v.stage = x.stage /\ v.required = x.required /\ v.original = x.original
      /\ v.downgraded = x.downgraded /\ v.rejected = x.rejected /\ v.activated = x.activated
  BY Catalog DEF InstanceType, InstanceStatuses
<1>. HIDE DEF v
<1>2. /\ w \in InstanceType /\ w.status = v.status /\ w.board = "none"
      /\ w.finished = x.finished
      /\ w.stage = v.stage /\ w.required = v.required /\ w.original = v.original
      /\ w.downgraded = v.downgraded /\ w.rejected = v.rejected /\ w.activated = v.activated
  BY <1>1 DEF InstanceType
<1>. HIDE DEF w
<1>3. f \in BOOLEAN
  BY DEF InstanceType
<1>4. /\ y \in InstanceType /\ y.status = w.status /\ y.board = w.board /\ y.finished = f
      /\ y.stage = w.stage /\ y.required = w.required /\ y.original = w.original
      /\ y.downgraded = w.downgraded /\ y.rejected = w.rejected /\ y.activated = w.activated
  <2>. HIDE DEF f
  <2>. QED
    BY <1>2, <1>3 DEF InstanceType
<1>5. CancelledInstance(x) = y
  BY <1>2 DEF CancelledInstance, v, w
<1>. HIDE DEF y
<1>. QED
  BY <1>1, <1>2, <1>4, <1>5

\* cancel_task: what the plan becomes.
LEMMA CancelledSound ==
  ASSUME NEW p, IsPlan(p), ValidPlan(p), Sound(p), Cancelled(p).ok
  PROVE  LET q == Cancelled(p) IN
         /\ IsPlan(q) /\ ValidPlan(q) /\ Sound(q) /\ q.status = "CANCELLED"
         /\ DOMAIN q.inst = DOMAIN p.inst /\ DOMAIN q.stages = DOMAIN p.stages
         /\ Agrees(p) => Agrees(q)
         /\ Opened(p) => Opened(q)
         /\ \A e : Carried(p, e) => Carried(q, e \cup Succeeded(q))
         /\ \A i \in DOMAIN q.inst :
              /\ q.inst[i].stage = p.inst[i].stage
              /\ q.inst[i].status \in {"SUCCEEDED", "CANCELLED", "ARCHIVED"}
              /\ q.inst[i].status = "SUCCEEDED" => ~q.inst[i].rejected
<1>. DEFINE n == Len(p.stages)
            st == [s \in DOMAIN p.stages |->
                     IF "CANCELLED" \in StageTransitions[p.stages[s].status]
                     THEN WithStatus(p.stages[s], "CANCELLED") ELSE p.stages[s]]
            in == [i \in DOMAIN p.inst |->
                     IF "CANCELLED" \in InstanceTransitions[p.inst[i].status]
                     THEN CancelledInstance(p.inst[i]) ELSE p.inst[i]]
            o == "CANCELLED" \in TaskTransitions[p.status]
            q == Cancelled(p)
<1>1. q = [ok |-> o, status |-> "CANCELLED", stages |-> st, inst |-> in]
  BY DEF Cancelled, WithStatus, CancelledInstance
<1>2. /\ n \in Nat /\ DOMAIN p.stages = 1..n
      /\ \A s \in DOMAIN p.stages : p.stages[s] \in StageType
      /\ \A i \in DOMAIN p.inst : p.inst[i] \in InstanceType
  BY StageTyped, InstTyped
<1>3. \A x \in StageType : /\ WithStatus(x, "CANCELLED") \in StageType
                           /\ SameStage(x, WithStatus(x, "CANCELLED"))
                           /\ WithStatus(x, "CANCELLED").status = "CANCELLED"
                           /\ WithStatus(x, "CANCELLED").activated = x.activated
  BY ActivatedTypes, WrittenSame, Catalog
<1>4. st \in [1..n -> StageType]
  BY <1>2, <1>3
<1>5. st \in Seq(StageType) /\ DOMAIN st = DOMAIN p.stages
  <2>. HIDE DEF st, n
  <2>. QED
    BY <1>2, <1>4, StagesAreSeq
<1>6. in \in [DOMAIN in -> InstanceType] /\ DOMAIN in = DOMAIN p.inst
  BY <1>2, CancelledInstanceFields
<1>7. \A s \in DOMAIN p.stages :
        /\ SameStage(p.stages[s], st[s]) /\ st[s].activated = p.stages[s].activated
        /\ st[s].status \in {p.stages[s].status, "CANCELLED"}
        /\ p.stages[s].status \in {"SKIPPED", "SUCCEEDED"} => st[s] = p.stages[s]
  BY <1>2, <1>3 DEF SameStage, StageTransitions
<1>8. \A i \in DOMAIN p.inst :
        /\ in[i].stage = p.inst[i].stage /\ in[i].required = p.inst[i].required
        /\ in[i].original = p.inst[i].original /\ in[i].downgraded = p.inst[i].downgraded
        /\ in[i].rejected = p.inst[i].rejected /\ in[i].activated = p.inst[i].activated
        /\ \/ in[i].status = "CANCELLED" /\ in[i].board = "none"
              /\ in[i].finished = IF p.inst[i].board # "none" THEN FALSE ELSE p.inst[i].finished
           \/ in[i] = p.inst[i] /\ "CANCELLED" \notin InstanceTransitions[p.inst[i].status]
  BY <1>2, CancelledInstanceFields
<1>9. \A i \in DOMAIN p.inst : SoundInstance(p.inst[i]) /\ p.inst[i].status \in InstanceStatuses
  BY InstTyped DEF Sound
<1>10. \A i \in DOMAIN p.inst :
         "CANCELLED" \notin InstanceTransitions[p.inst[i].status] =>
           p.inst[i].status \in {"SUCCEEDED", "CANCELLED", "ARCHIVED"}
  BY <1>9, Catalog DEF SoundInstance, InstanceTransitions
<1>11. o
  <2>1. Cancelled(p).ok = o
    BY DEF Cancelled
  <2>. QED
    BY <2>1
<1>. HIDE DEF st, in, o, q
<1>12. /\ IsPlan(q) /\ q.status = "CANCELLED" /\ q.stages = st /\ q.inst = in
  BY <1>1, <1>5, <1>6, <1>11, Catalog DEF IsPlan
<1>13. DOMAIN q.inst = DOMAIN p.inst /\ DOMAIN q.stages = DOMAIN p.stages
  BY <1>5, <1>6, <1>12
<1>14. \A i \in DOMAIN p.inst :
         /\ q.inst[i].stage = p.inst[i].stage /\ q.inst[i].required = p.inst[i].required
         /\ q.inst[i].original = p.inst[i].original /\ q.inst[i].downgraded = p.inst[i].downgraded
         /\ q.inst[i].rejected = p.inst[i].rejected /\ q.inst[i].activated = p.inst[i].activated
  BY <1>8, <1>12
<1>15. \A i \in DOMAIN p.inst :
         /\ \/ q.inst[i].status = "CANCELLED" /\ q.inst[i].board = "none"
               /\ q.inst[i].finished = IF p.inst[i].board # "none" THEN FALSE ELSE p.inst[i].finished
            \/ q.inst[i] = p.inst[i] /\ "CANCELLED" \notin InstanceTransitions[p.inst[i].status]
  BY <1>8, <1>12
<1>16. \A s \in DOMAIN p.stages :
         /\ q.stages[s].type = p.stages[s].type /\ q.stages[s].deps = p.stages[s].deps
         /\ q.stages[s].required = p.stages[s].required
         /\ q.stages[s].downgraded = p.stages[s].downgraded
         /\ q.stages[s].activated = p.stages[s].activated
         /\ q.stages[s].status \in {p.stages[s].status, "CANCELLED"}
  BY <1>7, <1>12 DEF SameStage
<1>17. \A i \in DOMAIN p.inst : q.inst[i].stage = p.inst[i].stage
  BY <1>14
<1>18. \A s \in DOMAIN p.stages :
         q.stages[s].type = p.stages[s].type /\ q.stages[s].deps = p.stages[s].deps
  BY <1>16
<1>19. \A s : InstancesOf(q, s) = InstancesOf(p, s)
  BY <1>13, <1>14 DEF InstancesOf
<1>20. /\ \A i \in DOMAIN p.inst : p.inst[i].stage \in DOMAIN p.stages
       /\ \A s \in DOMAIN p.stages : \A d \in p.stages[s].deps :
            d \in 1..(s - 1) /\ p.stages[d].type = "image" /\ p.stages[s].type = "ppt"
       /\ \A s \in DOMAIN p.stages : InstancesOf(p, s) # {}
  BY DEF ValidPlan
<1>21. \A s \in DOMAIN p.stages : \A d \in p.stages[s].deps : d \in DOMAIN p.stages
  BY <1>2, <1>20
<1>22. ValidPlan(q)
  BY <1>13, <1>17, <1>18, <1>19, <1>20, <1>21 DEF ValidPlan
<1>23. \A i \in DOMAIN p.inst : AgentType(q, i) = AgentType(p, i)
  BY <1>17, <1>18, <1>20 DEF AgentType
<1>24. Images(q) = Images(p)
  BY <1>13, <1>23 DEF Images
<1>25. Sound(q)
  <2>1. Boards(q)
    <3>1. ASSUME NEW i \in Images(p) PROVE q.inst[i].finished <=> q.inst[i].board = "COMPLETED"
      <4>1. p.inst[i].finished <=> p.inst[i].board = "COMPLETED"
        BY DEF Sound, Boards
      <4>. QED
        BY <1>14, <1>15, <4>1 DEF Images
    <3>. QED
      BY <1>24, <3>1 DEF Boards
  <2>2. \A i \in DOMAIN q.inst : SoundInstance(q.inst[i])
    <3>1. SUFFICES ASSUME NEW i \in DOMAIN p.inst PROVE SoundInstance(q.inst[i])
      BY <1>13
    <3>2. SoundInstance(p.inst[i])
      BY <1>9
    <3>3. CASE q.inst[i] = p.inst[i]
      BY <3>2, <3>3
    <3>4. CASE q.inst[i].status = "CANCELLED"
      <4>1. /\ p.inst[i].required => p.inst[i].original
            /\ p.inst[i].original /\ ~p.inst[i].required => p.inst[i].activated /\ p.inst[i].downgraded
            /\ p.inst[i].rejected => p.inst[i].activated
        BY <3>2 DEF SoundInstance
      <4>2. /\ q.inst[i].required => q.inst[i].original
            /\ q.inst[i].original /\ ~q.inst[i].required => q.inst[i].activated /\ q.inst[i].downgraded
            /\ q.inst[i].rejected => q.inst[i].activated
        BY <1>14, <4>1
      <4>. QED
        BY <3>4, <4>2 DEF SoundInstance, Begun, Live, Executing, Waiting
    <3>. QED
      BY <1>15, <3>3, <3>4
  <2>3. ASSUME NEW s \in DOMAIN q.stages, q.stages[s].downgraded
        PROVE  \E i \in InstancesOf(q, s) : q.inst[i].original /\ q.inst[i].downgraded
    <3>1. p.stages[s].downgraded /\ s \in DOMAIN p.stages
      BY <1>13, <1>16, <2>3
    <3>2. PICK i \in InstancesOf(p, s) : p.inst[i].original /\ p.inst[i].downgraded
      BY <3>1 DEF Sound
    <3>. QED
      BY <1>14, <1>19, <3>2 DEF InstancesOf
  <2>. QED
    BY <2>1, <2>2, <2>3 DEF Sound
<1>26. Agrees(p) => Agrees(q)
  BY <1>13, <1>14, <1>16, <1>20 DEF Agrees
<1>27. Opened(p) => Opened(q)
  BY <1>13, <1>14, <1>16, <1>20, <1>23 DEF Opened
<1>28. ASSUME NEW e, Carried(p, e), NEW s \in DOMAIN q.stages
       PROVE  CarriedStage(q, s, e \cup Succeeded(q))
  <2>1. s \in DOMAIN p.stages /\ CarriedStage(p, s, e)
    BY <1>13, <1>28 DEF Carried
  <2>2. NeededOf(q, s) = NeededOf(p, s)
    BY <1>14, <1>19 DEF NeededOf, InstancesOf
  <2>3. q.stages[s].status \in {"SKIPPED", "SUCCEEDED"} => q.stages[s].status = p.stages[s].status
    BY <1>16, <2>1
  <2>4. "CANCELLED" \notin {"SKIPPED", "SUCCEEDED"}
    OBVIOUS
  <2>5. ASSUME NEW i \in NeededOf(p, s), p.inst[i].status = "ARCHIVED"
        PROVE  q.inst[i].status = "ARCHIVED"
    <3>1. "CANCELLED" \notin InstanceTransitions["ARCHIVED"]
      BY DEF InstanceTransitions
    <3>2. i \in DOMAIN p.inst
      BY DEF NeededOf, InstancesOf
    <3>3. q.inst[i] = p.inst[i] \/ q.inst[i].status = "CANCELLED"
      BY <1>15, <3>2
    <3>4. SUFFICES ASSUME q.inst[i] # p.inst[i] PROVE FALSE
      BY <2>5
    <3>5. q.inst[i].status = "CANCELLED" /\ in[i] = CancelledInstance(p.inst[i])
      BY <1>12, <3>2, <3>3, <3>4 DEF in
    <3>. QED
      BY <2>5, <3>1, <3>2, <3>4, <1>12 DEF in
  <2>. QED
    BY <2>1, <2>2, <2>3, <2>5 DEF CarriedStage
<1>29. \A i \in DOMAIN q.inst :
              /\ q.inst[i].stage = p.inst[i].stage
              /\ q.inst[i].status \in {"SUCCEEDED", "CANCELLED", "ARCHIVED"}
              /\ q.inst[i].status = "SUCCEEDED" => ~q.inst[i].rejected
  BY <1>9, <1>10, <1>13, <1>14, <1>15 DEF SoundInstance
<1>30. \A e : Carried(p, e) => Carried(q, e \cup Succeeded(q))
  BY <1>28 DEF Carried
<1>. QED
  BY <1>12, <1>13, <1>22, <1>25, <1>26, <1>27, <1>29, <1>30 DEF q

\* An instance that returns from its archive.
LEMMA RewokenFields ==
  ASSUME NEW x \in InstanceType, NEW t \in InstanceStatuses
  PROVE  LET y == Rewoken(x, t) IN
         /\ y \in InstanceType /\ y.status = t /\ y.activated = (x.activated \/ t \in Executing)
         /\ y.stage = x.stage /\ y.required = x.required /\ y.original = x.original
         /\ y.downgraded = x.downgraded /\ y.rejected = x.rejected
         /\ y.finished = x.finished /\ y.board = x.board
<1>. DEFINE v == [x EXCEPT !.status = t]
            a == x.activated \/ t \in Executing
            y == [v EXCEPT !.activated = a]
<1>1. /\ v \in InstanceType /\ v.status = t /\ v.activated = x.activated
      /\ v.stage = x.stage /\ v.required = x.required /\ v.original = x.original
      /\ v.downgraded = x.downgraded /\ v.rejected = x.rejected
      /\ v.finished = x.finished /\ v.board = x.board
  BY DEF InstanceType, InstanceStatuses
<1>. HIDE DEF v
<1>2. a \in BOOLEAN
  BY DEF InstanceType
<1>. HIDE DEF a
<1>3. /\ y \in InstanceType /\ y.status = v.status /\ y.activated = a
      /\ y.stage = v.stage /\ y.required = v.required /\ y.original = v.original
      /\ y.downgraded = v.downgraded /\ y.rejected = v.rejected
      /\ y.finished = v.finished /\ y.board = v.board
  BY <1>1, <1>2 DEF InstanceType
<1>4. Rewoken(x, t) = y
  BY <1>1 DEF Rewoken, v, a
<1>. HIDE DEF y
<1>. QED
  BY <1>1, <1>3, <1>4 DEF a

\* What the archive intent remembers of its frozen instances.
Remembered ==
  /\ frozen.status \in TaskStatuses
  /\ DOMAIN frozen.inst \subseteq DOMAIN inst
  /\ \A i \in DOMAIN frozen.inst :
       /\ frozen.inst[i] \in Live \cup {"SUCCEEDED", "FAILED"}
       /\ frozen.inst[i] = "SUCCEEDED" /\ inst[i].status = "STOPPED" => ~inst[i].rejected
Parked == {i \in DOMAIN frozen.inst : inst[i].status = "STOPPED"}
RestoreBase(lost) ==
  [Current EXCEPT !.status = frozen.status,
    !.inst = [i \in DOMAIN @ |-> IF i \in Parked THEN Rewoken(@[i], RestoreTarget(i, lost)) ELSE @[i]]]

\* restore_archived before its aggregation.
LEMMA RestoredSound ==
  ASSUME IsPlan(Current), ValidPlan(Current), Sound(Current), Remembered, NEW lost
  PROVE  LET m == RestoreBase(lost) IN
         /\ Prepared(Current, m) /\ m.ok /\ Sound(m) /\ m.status = frozen.status
         /\ Agrees(Current) => Agrees(m)
         /\ Opened(Current) => Gated(m)
         /\ \A i \in DOMAIN inst :
              \/ m.inst[i].status = inst[i].status
              \/ i \in Parked /\ m.inst[i].status = RestoreTarget(i, lost)
         /\ \A i \in DOMAIN inst : m.inst[i].rejected = inst[i].rejected
<1>. DEFINE p == Current
            in == [i \in DOMAIN p.inst |->
                     IF i \in Parked THEN Rewoken(p.inst[i], RestoreTarget(i, lost)) ELSE p.inst[i]]
            m == RestoreBase(lost)
<1>1. m = [ok |-> p.ok, status |-> frozen.status, stages |-> p.stages, inst |-> in]
  BY WriteStatusInst DEF RestoreBase, IsPlan, Shape
<1>2. /\ p.ok = TRUE /\ p.status = status /\ p.stages = stages /\ p.inst = inst
  BY CurrentFields
<1>3. /\ IsPlan(p) /\ ValidPlan(p) /\ Sound(p)
      /\ \A i \in DOMAIN p.inst : p.inst[i] \in InstanceType
  BY InstTyped
<1>4. \A i \in Parked : /\ i \in DOMAIN p.inst /\ p.inst[i].status = "STOPPED"
                        /\ RestoreTarget(i, lost) \in {"RUNNING", "WAITING_APPROVAL", "SUCCEEDED", "FAILED"}
                        /\ RestoreTarget(i, lost) = "SUCCEEDED" => ~p.inst[i].rejected
  BY <1>2 DEF Parked, Remembered, RestoreTarget, Live, Executing, Waiting
<1>. HIDE DEF p
<1>5. \A i \in Parked : RestoreTarget(i, lost) \in InstanceStatuses
  BY <1>4, Catalog
<1>6. in \in [DOMAIN in -> InstanceType] /\ DOMAIN in = DOMAIN p.inst
  BY <1>3, <1>5, RewokenFields
<1>7. \A i \in DOMAIN p.inst : SoundInstance(p.inst[i])
  BY <1>3 DEF Sound
<1>8. \A i \in Parked : p.inst[i].activated
  BY <1>4, <1>7 DEF SoundInstance, Begun
<1>9. \A i \in DOMAIN p.inst :
        /\ in[i].stage = p.inst[i].stage /\ in[i].required = p.inst[i].required
        /\ in[i].original = p.inst[i].original /\ in[i].downgraded = p.inst[i].downgraded
        /\ in[i].rejected = p.inst[i].rejected
        /\ in[i].finished = p.inst[i].finished /\ in[i].board = p.inst[i].board
  BY <1>3, <1>5, RewokenFields
<1>10. \A i \in DOMAIN p.inst :
         \/ in[i] = p.inst[i]
         \/ i \in Parked /\ in[i].status = RestoreTarget(i, lost)
  BY <1>3, <1>5, RewokenFields
<1>11. \A i \in Parked : in[i].activated
  BY <1>3, <1>4, <1>5, <1>8, RewokenFields
<1>. HIDE DEF in, m
<1>12. /\ IsPlan(m) /\ m.ok = p.ok /\ m.status = frozen.status /\ m.stages = p.stages /\ m.inst = in
  BY <1>1, <1>3, <1>6 DEF IsPlan, Remembered
<1>13. DOMAIN m.inst = DOMAIN p.inst /\ DOMAIN m.stages = DOMAIN p.stages
  BY <1>6, <1>12
<1>14. Prepared(p, m)
  <2>1. \A i \in DOMAIN p.inst : p.inst[i].status = "ARCHIVED" => m.inst[i].status = "ARCHIVED"
    BY <1>4, <1>10, <1>12
  <2>2. \A i \in DOMAIN p.inst :
          /\ m.inst[i].stage = p.inst[i].stage /\ m.inst[i].original = p.inst[i].original
          /\ m.inst[i].required => p.inst[i].required
          /\ p.inst[i].downgraded => m.inst[i].downgraded
    BY <1>9, <1>12
  <2>. QED
    BY <1>12, <1>13, <2>1, <2>2 DEF Prepared
<1>15. Images(m) = Images(p) /\ \A s : InstancesOf(m, s) = InstancesOf(p, s)
  BY <1>3, <1>14, PreparedKeeps
<1>16. \A i \in DOMAIN p.inst : AgentType(m, i) = AgentType(p, i)
  BY <1>9, <1>12 DEF AgentType
<1>17. Sound(m)
  <2>1. Boards(m)
    <3>1. \A i \in Images(p) : p.inst[i].finished <=> p.inst[i].board = "COMPLETED"
      BY <1>3 DEF Sound, Boards
    <3>2. \A i \in Images(p) : in[i].finished <=> in[i].board = "COMPLETED"
      BY <1>9, <3>1 DEF Images
    <3>. QED
      BY <1>12, <1>15, <3>2 DEF Boards
  <2>2. \A i \in DOMAIN m.inst : SoundInstance(m.inst[i])
    <3>1. SUFFICES ASSUME NEW i \in DOMAIN p.inst PROVE SoundInstance(in[i])
      BY <1>12, <1>13
    <3>2. SoundInstance(p.inst[i])
      BY <1>7
    <3>3. CASE in[i] = p.inst[i]
      BY <3>2, <3>3
    <3>4. CASE i \in Parked /\ in[i].status = RestoreTarget(i, lost)
      <4>1. /\ p.inst[i].required => p.inst[i].original
            /\ p.inst[i].original /\ ~p.inst[i].required => p.inst[i].activated /\ p.inst[i].downgraded
        BY <3>2 DEF SoundInstance
      <4>2. /\ in[i].required => in[i].original
            /\ in[i].original /\ ~in[i].required => in[i].activated /\ in[i].downgraded
        BY <1>9, <1>11, <3>4, <4>1
      <4>3. in[i].status = "SUCCEEDED" => ~in[i].rejected
        BY <1>4, <1>9, <3>4
      <4>. QED
        BY <1>4, <1>11, <3>4, <4>2, <4>3 DEF SoundInstance
    <3>. QED
      BY <1>10, <3>3, <3>4
  <2>3. ASSUME NEW s \in DOMAIN m.stages, m.stages[s].downgraded
        PROVE  \E i \in InstancesOf(m, s) : m.inst[i].original /\ m.inst[i].downgraded
    <3>1. PICK i \in InstancesOf(p, s) : p.inst[i].original /\ p.inst[i].downgraded
      BY <1>3, <1>12, <2>3 DEF Sound
    <3>. QED
      BY <1>9, <1>12, <1>15, <3>1 DEF InstancesOf
  <2>. QED
    BY <2>1, <2>2, <2>3 DEF Sound
<1>18. Agrees(p) => Agrees(m)
  BY <1>9, <1>12, <1>13 DEF Agrees
<1>19. ASSUME Opened(p) PROVE Gated(m)
  <2>1. ASSUME NEW i \in DOMAIN p.inst, AgentType(m, i) = "ppt", m.inst[i].activated
        PROVE  m.stages[m.inst[i].stage].activated
    <3>1. p.inst[i].activated
      BY <1>8, <1>10, <1>12, <2>1
    <3>2. p.stages[p.inst[i].stage].activated
      BY <1>16, <1>19, <2>1, <3>1 DEF Opened
    <3>. QED
      BY <1>9, <1>12, <3>2
  <2>. QED
    BY <1>13, <2>1 DEF Gated
<1>20. \A i \in DOMAIN inst :
              \/ m.inst[i].status = inst[i].status
              \/ i \in Parked /\ m.inst[i].status = RestoreTarget(i, lost)
  BY <1>2, <1>10, <1>12
<1>21. \A i \in DOMAIN inst : m.inst[i].rejected = inst[i].rejected
  BY <1>2, <1>9, <1>12
<1>. QED
  BY <1>2, <1>12, <1>14, <1>17, <1>18, <1>19, <1>20, <1>21 DEF p, m

\* restore_archived as an aggregation of the task it finds.
LEMMA RestoredFields ==
  ASSUME NEW lost, IsPlan(RestoreBase(lost))
  PROVE  LET q == RefreshStages(RestoreBase(lost), TRUE) IN
         /\ Framed(RestoreBase(lost), q)
         /\ Restated(q, Restored(lost), AggregateTask(q))
<1>. DEFINE m == RestoreBase(lost)
            q == RefreshStages(m, TRUE)
            t == AggregateTask(q)
            o == q.ok /\ t \in TaskTransitions["ARCHIVED"]
            r == Restored(lost)
<1>1. r = [q EXCEPT !.ok = o, !.status = t]
  BY DEF Restored, RestoreBase, Parked
<1>2. Framed(m, q)
  <2>. HIDE DEF m
  <2>. QED
    BY RefreshFrame DEF m
<1>. HIDE DEF m, q, r
<1>3. IsPlan(q) /\ t \in TaskStatuses
  <2>1. IsPlan(q) /\ q.status \in TaskStatuses
    BY <1>2 DEF Framed, IsPlan
  <2>2. t = q.status \/ t \in TaskResults
    BY AggregateTaskIs
  <2>. QED
    BY <2>1, <2>2, Catalog DEF TaskResults
<1>. HIDE DEF t
<1>4. o \in BOOLEAN /\ (o => q.ok)
  BY <1>3 DEF IsPlan
<1>. HIDE DEF o
<1>5. r = [ok |-> o, status |-> t, stages |-> q.stages, inst |-> q.inst]
  BY <1>1, <1>3, WriteOkStatus DEF IsPlan, Shape
<1>6. Restated(q, r, t)
  BY <1>3, <1>4, <1>5 DEF Restated, IsPlan
<1>. QED
  BY <1>2, <1>6 DEF m, q, r, t

-----------------------------------------------------------------------------
(* A command that ends in an aggregation.                                  *)

\* The plan r that follows from m, if e are the instances that ever succeeded before.
Settles(m, r, e) ==
  /\ IsPlan(r) /\ ValidPlan(r) /\ Sound(r) /\ Opened(r) /\ Fresh(r)
  /\ Carried(r, e \cup Succeeded(r))
  /\ DOMAIN r.inst = DOMAIN m.inst /\ DOMAIN r.stages = DOMAIN m.stages
  /\ \A i \in DOMAIN m.inst : SameInstance(m.inst[i], r.inst[i])
  /\ \A s \in DOMAIN r.stages : r.stages[s].status = "CANCELLED" => m.stages[s].status = "CANCELLED"
  /\ r.status \notin OverStatuses => r.status = AggregateTask(r)
  /\ m.status \in OverStatuses => r.status = m.status
  /\ m.status \notin OverStatuses => r.status \in TaskResults
  /\ \A st : Done(st, m, e) => Done(st, r, e \cup Succeeded(r))
  /\ Agrees(m) => /\ Agrees(r)
                  /\ m.status \notin OverStatuses => Done(r.status, r, e \cup Succeeded(r))

\* What an aggregation leaves of the claims of an ended task.
LEMMA AggregatedDone ==
  ASSUME NEW p, NEW q, IsPlan(p), ValidPlan(p), Aggregated(p, q), NEW e, NEW g, e \subseteq g, NEW st,
         Done(st, p, e)
  PROVE  Done(st, q, g)
<1>1. /\ DOMAIN q.inst = DOMAIN p.inst /\ DOMAIN q.stages = DOMAIN p.stages
      /\ \A i \in DOMAIN p.inst :
           /\ q.inst[i].original = p.inst[i].original /\ q.inst[i].downgraded = p.inst[i].downgraded
           /\ q.inst[i].status = p.inst[i].status
      /\ \A s \in DOMAIN p.stages : q.stages[s].required = p.stages[s].required
  BY DEF Aggregated, Framed, SameInstance, SameStage
<1>2. \A s \in DOMAIN p.stages :
        p.stages[s].status = "SUCCEEDED" => q.stages[s].status = "SUCCEEDED"
  BY AggregatedKeeps
<1>. QED
  BY <1>1, <1>2 DEF Done

\* The invariants do not look at the status of the task.
LEMMA RestatedKeeps ==
  ASSUME NEW q, NEW r, NEW t, Restated(q, r, t)
  PROVE  /\ ValidPlan(q) => ValidPlan(r)
         /\ Sound(q) => Sound(r)
         /\ Opened(q) => Opened(r)
         /\ Fresh(q) => Fresh(r)
         /\ Agrees(q) => Agrees(r)
         /\ \A e : Carried(q, e) => Carried(r, e)
         /\ \A st, e : Done(st, q, e) => Done(st, r, e)
         /\ Succeeded(r) = Succeeded(q)
         /\ TaskSays(r) = TaskSays(q)
<1>1. r.stages = q.stages /\ r.inst = q.inst
  BY DEF Restated
<1>2. /\ \A s : InstancesOf(r, s) = InstancesOf(q, s)
      /\ \A i : AgentType(r, i) = AgentType(q, i)
      /\ Images(r) = Images(q)
      /\ \A ids : StatusesOf(r, ids) = StatusesOf(q, ids)
  BY <1>1 DEF InstancesOf, AgentType, Images, StatusesOf
<1>3. /\ \A s : NeededOf(r, s) = NeededOf(q, s)
      /\ \A s : Delivered(r, s) <=> Delivered(q, s)
      /\ Succeeded(r) = Succeeded(q)
      /\ RequiredOf(r) = RequiredOf(q)
      /\ Demoted(r) <=> Demoted(q)
  BY <1>1, <1>2 DEF NeededOf, Delivered, Succeeded, RequiredOf, Demoted
<1>4. ValidPlan(q) => ValidPlan(r)
  BY <1>1, <1>2 DEF ValidPlan
<1>5. Sound(q) => Sound(r)
  BY <1>1, <1>2 DEF Sound, Boards
<1>6. Opened(q) => Opened(r)
  BY <1>1, <1>2 DEF Opened
<1>7. Fresh(q) => Fresh(r)
  <2>1. ASSUME NEW s, FreshStage(q, s)
        PROVE  FreshStage(r, s)
    <3>1. ASSUME NEW old
          PROVE  MembersSay(old, r, s) = MembersSay(old, q, s)
      <4>1. /\ StatusesOf(r, InstancesOf(r, s)) = StatusesOf(q, InstancesOf(q, s))
            /\ StatusesOf(r, NeededOf(r, s)) = StatusesOf(q, NeededOf(q, s))
            /\ NeededOf(r, s) = NeededOf(q, s)
            /\ r.stages[s].required = q.stages[s].required
        BY <1>1, <1>2, <1>3
      <4>. QED
        BY <4>1 DEF MembersSay
    <3>2. r.stages[s] = q.stages[s] /\ (Delivered(r, s) <=> Delivered(q, s))
      BY <1>1, <1>3
    <3>. QED
      BY <2>1, <3>1, <3>2 DEF FreshStage
  <2>. QED
    BY <1>1, <2>1 DEF Fresh
<1>8. Agrees(q) => Agrees(r)
  BY <1>1 DEF Agrees
<1>9. \A e : Carried(q, e) => Carried(r, e)
  BY <1>1, <1>3 DEF Carried, CarriedStage
<1>10. \A st, e : Done(st, q, e) => Done(st, r, e)
  BY <1>1 DEF Done
<1>11. SameChildren(q, r)
  BY <1>1 DEF SameChildren
<1>12. TaskSays(r) = TaskSays(q)
  BY <1>11, TaskSaysSame
<1>. QED
  BY <1>3, <1>4, <1>5, <1>6, <1>7, <1>8, <1>9, <1>10, <1>12

\* An aggregation of the stages followed by one of the task.
LEMMA AggregationSettles ==
  ASSUME NEW m, NEW q, NEW r, NEW e, IsPlan(m), ValidPlan(m), Sound(m), Carried(m, e),
         Aggregated(m, q), Fresh(q), Opened(q), Restated(q, r, AggregateTask(q))
  PROVE  Settles(m, r, e)
<1>1. /\ IsPlan(q) /\ q.status = m.status
      /\ DOMAIN q.inst = DOMAIN m.inst /\ DOMAIN q.stages = DOMAIN m.stages
      /\ \A i \in DOMAIN m.inst : SameInstance(m.inst[i], q.inst[i])
      /\ Framed(m, q)
  BY DEF Aggregated, Framed
<1>2. ValidPlan(q) /\ Sound(q) /\ (Agrees(m) => Agrees(q))
  BY <1>1, FramedKeeps, FramedSound
<1>3. Carried(q, e \cup Succeeded(q))
  BY AggregatedKeeps
<1>4. \A s \in DOMAIN m.stages : q.stages[s].status = "CANCELLED" => m.stages[s].status = "CANCELLED"
  BY AggregatedKeeps
<1>5. IsPlan(r) /\ r.stages = q.stages /\ r.inst = q.inst
  BY DEF Restated
<1>6. /\ ValidPlan(r) /\ Sound(r) /\ Opened(r) /\ Fresh(r) /\ (Agrees(q) => Agrees(r))
      /\ Carried(r, e \cup Succeeded(r)) /\ Succeeded(r) = Succeeded(q)
      /\ TaskSays(r) = TaskSays(q)
  BY <1>2, <1>3, RestatedKeeps
<1>7. /\ r.status \notin OverStatuses => r.status = AggregateTask(r)
      /\ m.status \in OverStatuses => r.status = m.status
      /\ m.status \notin OverStatuses => r.status \in TaskResults
  BY <1>1, RestatedFollows
<1>8. ASSUME NEW st, Done(st, m, e)
      PROVE  Done(st, r, e \cup Succeeded(r))
  <2>1. e \subseteq e \cup Succeeded(q)
    OBVIOUS
  <2>2. Done(st, q, e \cup Succeeded(q))
    BY <1>8, <2>1, AggregatedDone
  <2>. QED
    BY <1>6, <2>2, RestatedKeeps
<1>9. ASSUME Agrees(m), m.status \notin OverStatuses
      PROVE  Done(r.status, r, e \cup Succeeded(r))
  <2>1. r.status = TaskSays(r)
    BY <1>1, <1>6, <1>9, AggregateTaskIs DEF Restated
  <2>2. Done(TaskSays(r), r, e \cup Succeeded(r))
    BY <1>2, <1>5, <1>6, <1>9, DoneWhenSaid
  <2>. QED
    BY <2>1, <2>2
<1>. QED
  BY <1>1, <1>2, <1>4, <1>5, <1>6, <1>7, <1>8, <1>9 DEF Settles

\* _refresh_stages with activation and the aggregation of the task: every runtime transition,
\* rejection, downgrade and restore.
LEMMA RefreshSettles ==
  ASSUME NEW m, NEW r, NEW e, IsPlan(m), ValidPlan(m), Sound(m), Gated(m), Carried(m, e),
         Restated(RefreshStages(m, TRUE), r, AggregateTask(RefreshStages(m, TRUE))), r.ok
  PROVE  Settles(m, r, e)
<1>. DEFINE q == RefreshStages(m, TRUE)
<1>1. Refreshed(m, q, TRUE)
  BY RefreshFacts
<1>2. q.ok
  BY DEF Restated
<1>3. Restated(q, r, AggregateTask(q))
  OBVIOUS
<1>. HIDE DEF q
<1>4. Aggregated(m, q) /\ Fresh(q) /\ Opened(q)
  BY <1>1, <1>2, RefreshedAggregates, RefreshedFresh
<1>. QED
  BY <1>3, <1>4, AggregationSettles

\* _activate_current_stages and the aggregation of the task: confirm_start, and a saved plan
\* that starts at once.
LEMMA ActivationSettles ==
  ASSUME NEW p, NEW r, NEW e, IsPlan(p), ValidPlan(p), Sound(p), Opened(p), Carried(p, e),
         \A s \in DOMAIN p.stages : FreshStage(p, s) \/ DependenciesAuthorized(p, s),
         Restated(ActivateCurrentStages(p), r, AggregateTask(ActivateCurrentStages(p))), r.ok
  PROVE  Settles(p, r, e)
<1>. DEFINE q == ActivateCurrentStages(p)
<1>1. Activates(p, q)
  BY ActivateFacts
<1>2. q.ok
  BY DEF Restated
<1>3. Restated(q, r, AggregateTask(q))
  OBVIOUS
<1>. HIDE DEF q
<1>4. Aggregated(p, q) /\ Fresh(q) /\ Opened(q)
  BY <1>1, <1>2, ActivatesAggregates, ActivatesFresh
<1>. QED
  BY <1>3, <1>4, AggregationSettles

-----------------------------------------------------------------------------
(* The inductive invariant: p is the plan, e the instances that ever       *)
(* succeeded and z the archive intent of a task.                           *)

\* A cancelled task, and an archived one that was cancelled.
Dead(p, z) == "CANCELLED" \in {p.status, z.status}

\* The archive intent: it exists while the task is archived, the status it remembers is
\* final when the task was over, and a process that had delivered is only parked by it.
Snapshot(p, z) ==
  /\ z = [status |-> z.status, inst |-> z.inst, parked |-> z.parked, others |-> z.others]
  /\ z.status \in TaskStatuses \ {"ARCHIVED"}
  /\ z.status = "NONE" <=> z = NoSnapshot
  /\ p.status = "ARCHIVED" => z # NoSnapshot
  /\ z.status \in TaskTerminal => p.status \in {z.status, "ARCHIVED"}
  /\ p.status = "CANCELLED" => z.status \in {"NONE", "CANCELLED"}
  /\ DOMAIN z.inst \subseteq DOMAIN p.inst
  /\ z.parked \subseteq DOMAIN z.inst
  /\ \A i \in DOMAIN z.inst :
       /\ z.inst[i] \in Live \cup {"SUCCEEDED", "FAILED"}
       /\ Dead(p, z) => z.inst[i] \in {"SUCCEEDED", "FAILED"}
       /\ z.inst[i] = "SUCCEEDED" =>
            /\ i \notin z.parked => p.inst[i].status = "SUCCEEDED"
            /\ p.inst[i].status = "STOPPED" => ~p.inst[i].rejected

\* Before a plan runs nothing has begun.
Early(p) ==
  /\ p.status = "NONE" => p.stages = <<>>
  /\ p.status = "AWAITING_START_CONFIRMATION" =>
       \A i \in DOMAIN p.inst : p.inst[i].status = "READY"

\* The instances of a cancelled task are at rest.
AtRest == {"SUCCEEDED", "CANCELLED", "ARCHIVED", "STOPPED", "FAILED"}
Over(p, z) ==
  Dead(p, z) => \A i \in DOMAIN p.inst :
    /\ p.inst[i].status \in AtRest
    /\ p.inst[i].status \in {"SUCCEEDED", "STOPPED", "FAILED"} => ~p.inst[i].rejected

TaskFollows(p) ==
  p.stages # <<>> /\ p.status \notin OverStatuses \cup {"AWAITING_START_CONFIRMATION"} =>
    p.status = AggregateTask(p)

\* Stages, instances and what was delivered.
Settled(p, e, z) ==
  /\ IsPlan(p) /\ ValidPlan(p) /\ Sound(p) /\ Opened(p) /\ Carried(p, e)
  /\ Dead(p, z) \/ Fresh(p)
  /\ \A s \in DOMAIN p.stages : p.stages[s].status = "CANCELLED" => Dead(p, z)
  /\ Succeeded(p) \subseteq e
  /\ e \subseteq DOMAIN p.inst

StateInv(p, e, z) ==
  Settled(p, e, z) /\ Snapshot(p, z) /\ Early(p) /\ Over(p, z) /\ TaskFollows(p)

\* Where the requirements of the drafts agree: what the task and its archive claim is done.
ClaimsInv(p, e, z) == Agrees(p) /\ Done(p.status, p, e) /\ Done(z.status, p, e)

\* The status of an aggregated task.
LEMMA SettledStatus ==
  ASSUME NEW m, NEW r, NEW e, Settles(m, r, e)
  PROVE  /\ r.status \in OverStatuses \cup TaskResults
         /\ r.status = "CANCELLED" <=> m.status = "CANCELLED"
         /\ r.status = "ARCHIVED" <=> m.status = "ARCHIVED"
         /\ m.status \in OverStatuses => r.status = m.status
BY DEF Settles, OverStatuses, TaskTerminal, TaskResults

\* A command that ends in an aggregation keeps the invariant, if it respects the archive
\* intent and a cancellation.
LEMMA SettlesKeeps ==
  ASSUME NEW p, NEW e, NEW z, StateInv(p, e, z), NEW m, Prepared(p, m), m.status = p.status,
         NEW r, Settles(m, r, e), NEW y, y.status = z.status, Snapshot(r, y), Over(r, y)
  PROVE  /\ StateInv(r, e \cup Succeeded(r), y)
         /\ ClaimsInv(p, e, z) /\ Agrees(m) => ClaimsInv(r, e \cup Succeeded(r), y)
<1>. DEFINE g == e \cup Succeeded(r)
<1>1. Dead(r, y) <=> Dead(p, z)
  BY SettledStatus DEF Dead
<1>2. Settled(r, g, y)
  <2>1. IsPlan(r) /\ ValidPlan(r) /\ Sound(r) /\ Opened(r) /\ Fresh(r) /\ Carried(r, g)
    BY DEF Settles
  <2>2. ASSUME NEW s \in DOMAIN r.stages, r.stages[s].status = "CANCELLED"
        PROVE  Dead(r, y)
    <3>1. s \in DOMAIN p.stages /\ p.stages[s].status = "CANCELLED"
      BY <2>2 DEF Settles, Prepared
    <3>. QED
      BY <1>1, <3>1 DEF StateInv, Settled
  <2>3. e \subseteq DOMAIN p.inst /\ DOMAIN r.inst = DOMAIN p.inst
    BY DEF StateInv, Settled, Settles, Prepared
  <2>4. Succeeded(r) \subseteq g /\ g \subseteq DOMAIN r.inst
    BY <2>3 DEF Succeeded
  <2>. HIDE DEF g
  <2>. QED
    BY <2>1, <2>2, <2>4 DEF Settled
<1>3. Early(r)
  BY SettledStatus DEF Early, OverStatuses, TaskTerminal, TaskResults
<1>4. TaskFollows(r)
  BY DEF Settles, TaskFollows
<1>5. ASSUME ClaimsInv(p, e, z), Agrees(m)
      PROVE  ClaimsInv(r, g, y)
  <2>1. IsPlan(p) /\ ValidPlan(p)
    BY DEF StateInv, Settled
  <2>2. \A st : Done(st, p, e) => Done(st, m, e)
    BY <2>1, PreparedKeeps
  <2>3. \A st : Done(st, p, e) => Done(st, r, g)
    BY <2>2 DEF Settles
  <2>4. Agrees(r) /\ (m.status \notin OverStatuses => Done(r.status, r, g))
    BY <1>5 DEF Settles
  <2>5. m.status \in OverStatuses => r.status = p.status
    BY SettledStatus
  <2>. HIDE DEF g
  <2>. QED
    BY <1>5, <2>3, <2>4, <2>5 DEF ClaimsInv
<1>. QED
  BY <1>2, <1>3, <1>4, <1>5 DEF StateInv

\* A transition to t of an instance x of the plan p: the gate of a start, the processes an
\* archive freezes and a cancellation are respected.
Allowed(p, z, i, t) ==
  /\ i \in DOMAIN p.inst
  /\ t \in InstanceStatuses \ {"SUPERSEDED", "STOPPED"}
  /\ t = "STARTING" => p.inst[i].activated \/ DependenciesAuthorized(p, p.inst[i].stage)
  /\ p.inst[i].status = "SUCCEEDED" => z = NoSnapshot
  /\ Dead(p, z) => t \in {"CANCELLED", "ARCHIVED", "FAILED"}

\* What is known of a transition whose result is written.
LEMMA TransitionedFields ==
  ASSUME NEW i \in DOMAIN inst, NEW t \in InstanceStatuses, IsPlan(Current),
         Transitioned(i, t).ok
  PROVE  LET m == Moved(Current, i, t) IN
         /\ IsPlan(m) /\ m.ok /\ m.status = status /\ t \in InstanceTransitions[inst[i].status]
         /\ Restated(RefreshStages(m, TRUE), Transitioned(i, t), AggregateTask(RefreshStages(m, TRUE)))
<1>. DEFINE m == Moved(Current, i, t)
            q == RefreshStages(m, TRUE)
            r == Transitioned(i, t)
<1>1. /\ Replaced(Current, m, i, m.inst[i])
      /\ m.ok = (Current.ok /\ t \in InstanceTransitions[Current.inst[i].status])
  BY CurrentFields, MovedFields
<1>2. r = Reaggregated(q)
  BY DEF Transitioned
<1>. HIDE DEF m
<1>3. IsPlan(m) /\ m.status = status
  BY <1>1, CurrentFields DEF Replaced
<1>4. Framed(m, q)
  BY <1>3, RefreshFrame
<1>. HIDE DEF q, r
<1>5. IsPlan(q)
  BY <1>4 DEF Framed
<1>6. Restated(q, r, AggregateTask(q))
  BY <1>2, <1>5, ReaggregatedFields
<1>7. r.ok
  BY DEF r
<1>8. q.ok
  BY <1>6, <1>7 DEF Restated
<1>9. m.ok
  BY <1>4, <1>8 DEF Framed
<1>. QED
  BY <1>1, <1>3, <1>6, <1>9, CurrentFields DEF m, q, r

\* A transition other than a suspension.
LEMMA TransitionKeeps ==
  ASSUME StateInv(Current, earned, frozen), NEW i, NEW t, Allowed(Current, frozen, i, t),
         Transitioned(i, t).ok
  PROVE  LET r == Transitioned(i, t) IN
         /\ StateInv(r, earned \cup Succeeded(r), frozen)
         /\ DOMAIN r.inst = DOMAIN inst
         /\ r.inst[i].status = t
         /\ \A j \in DOMAIN inst \ {i} : r.inst[j].status = inst[j].status
         /\ \A j \in DOMAIN inst : r.inst[j].stage = inst[j].stage
         /\ ClaimsInv(Current, earned, frozen) => ClaimsInv(r, earned \cup Succeeded(r), frozen)
<1>. DEFINE p == Current
            m == Moved(p, i, t)
            r == Transitioned(i, t)
            x == p.inst[i]
<1>1. /\ p.status = status /\ p.inst = inst
      /\ IsPlan(p) /\ ValidPlan(p) /\ Sound(p) /\ Opened(p) /\ Carried(p, earned)
      /\ i \in DOMAIN p.inst /\ t \in InstanceStatuses \ {"SUPERSEDED", "STOPPED"}
      /\ t = "STARTING" => x.activated \/ DependenciesAuthorized(p, x.stage)
  BY CurrentFields DEF StateInv, Settled, Allowed
<1>2. /\ IsPlan(m) /\ m.ok /\ m.status = status /\ t \in InstanceTransitions[x.status]
      /\ Restated(RefreshStages(m, TRUE), r, AggregateTask(RefreshStages(m, TRUE)))
  BY <1>1, TransitionedFields
<1>3. Replaced(p, m, i, m.inst[i]) /\ MovedTo(x, m.inst[i], t, AgentType(p, i) = "image")
  BY <1>1, MovedFields
<1>4. /\ Prepared(p, m) /\ Sound(m) /\ (Agrees(p) => Agrees(m)) /\ Gated(m)
  BY <1>1, <1>2, MovedSound
<1>5. r.ok
  OBVIOUS
<1>. HIDE DEF p, m, r
<1>6. ValidPlan(m) /\ Carried(m, earned)
  BY <1>1, <1>4, PreparedKeeps
<1>7. Settles(m, r, earned)
  BY <1>2, <1>4, <1>5, <1>6, RefreshSettles
<1>8. /\ DOMAIN r.inst = DOMAIN p.inst
      /\ \A j \in DOMAIN p.inst : /\ r.inst[j].status = m.inst[j].status
                                  /\ r.inst[j].rejected = m.inst[j].rejected
                                  /\ r.inst[j].stage = m.inst[j].stage
  BY <1>3, <1>7 DEF Settles, SameInstance, Replaced
<1>9. /\ r.inst[i].status = t /\ (t \in Forgetting => ~r.inst[i].rejected)
      /\ \A j \in DOMAIN p.inst \ {i} : /\ r.inst[j].status = p.inst[j].status
                                        /\ r.inst[j].rejected = p.inst[j].rejected
      /\ \A j \in DOMAIN p.inst : r.inst[j].stage = p.inst[j].stage
  <2>1. m.inst[i].status = t /\ (t \in Forgetting => ~m.inst[i].rejected)
    BY <1>3 DEF MovedTo
  <2>2. \A j \in DOMAIN p.inst \ {i} : m.inst[j] = p.inst[j]
    BY <1>3 DEF Replaced
  <2>3. \A j \in DOMAIN p.inst : m.inst[j].stage = p.inst[j].stage
    BY <1>4 DEF Prepared
  <2>4. r.inst[i].status = t /\ (t \in Forgetting => ~r.inst[i].rejected)
    BY <1>1, <1>8, <2>1
  <2>5. \A j \in DOMAIN p.inst \ {i} : /\ r.inst[j].status = p.inst[j].status
                                      /\ r.inst[j].rejected = p.inst[j].rejected
    BY <1>8, <2>2
  <2>6. \A j \in DOMAIN p.inst : r.inst[j].stage = p.inst[j].stage
    BY <1>8, <2>3
  <2>. QED
    BY <2>4, <2>5, <2>6
<1>10. Dead(r, frozen) <=> Dead(p, frozen)
  BY <1>1, <1>2, <1>7, SettledStatus DEF Dead
<1>11. /\ StateInv(p, earned, frozen) /\ Allowed(p, frozen, i, t)
  BY DEF p
<1>12. Snapshot(r, frozen)
  <2>1. Snapshot(p, frozen)
    BY <1>11 DEF StateInv
  <2>2. /\ r.status = "ARCHIVED" => p.status = "ARCHIVED"
        /\ p.status \in OverStatuses => r.status = p.status
        /\ r.status = "CANCELLED" => p.status = "CANCELLED"
    BY <1>1, <1>2, <1>7, SettledStatus
  <2>3. ASSUME NEW j \in DOMAIN frozen.inst, frozen.inst[j] = "SUCCEEDED"
        PROVE  /\ j \notin frozen.parked => r.inst[j].status = "SUCCEEDED"
               /\ r.inst[j].status = "STOPPED" => ~r.inst[j].rejected
    <3>1. /\ j \in DOMAIN p.inst
          /\ j \notin frozen.parked => p.inst[j].status = "SUCCEEDED"
          /\ p.inst[j].status = "STOPPED" => ~p.inst[j].rejected
      BY <2>1, <2>3 DEF Snapshot
    <3>2. CASE j # i
      BY <1>9, <3>1, <3>2
    <3>3. CASE j = i
      <4>1. frozen # NoSnapshot
        BY DEF NoSnapshot
      <4>2. p.inst[i].status # "SUCCEEDED" /\ t # "STOPPED"
        BY <1>11, <4>1 DEF Allowed
      <4>. QED
        BY <1>9, <3>1, <3>3, <4>2
    <3>. QED
      BY <3>2, <3>3
  <2>. QED
    BY <1>8, <1>10, <2>1, <2>2, <2>3 DEF Snapshot, OverStatuses
<1>13. Over(r, frozen)
  <2>1. SUFFICES ASSUME Dead(p, frozen), NEW j \in DOMAIN p.inst
                 PROVE  /\ r.inst[j].status \in AtRest
                        /\ r.inst[j].status \in {"SUCCEEDED", "STOPPED", "FAILED"} => ~r.inst[j].rejected
    BY <1>8, <1>10 DEF Over
  <2>2. CASE j # i
    BY <1>9, <1>11, <2>1, <2>2 DEF StateInv, Over
  <2>3. CASE j = i
    BY <1>9, <1>11, <2>1, <2>3 DEF Allowed, AtRest, Forgetting
  <2>. QED
    BY <2>2, <2>3
<1>14. /\ StateInv(r, earned \cup Succeeded(r), frozen)
       /\ ClaimsInv(p, earned, frozen) /\ Agrees(m) => ClaimsInv(r, earned \cup Succeeded(r), frozen)
  BY <1>1, <1>2, <1>4, <1>7, <1>11, <1>12, <1>13, SettlesKeeps
<1>15. ClaimsInv(p, earned, frozen) => Agrees(m)
  BY <1>4 DEF ClaimsInv
<1>. QED
  BY <1>1, <1>8, <1>9, <1>14, <1>15 DEF p, r

\* A change of the archive intent alone.
LEMMA IntentKeeps ==
  ASSUME NEW p, NEW e, NEW z, StateInv(p, e, z), NEW y, Snapshot(p, y),
         "CANCELLED" \in {p.status, y.status} <=> "CANCELLED" \in {p.status, z.status}
  PROVE  StateInv(p, e, y)
BY DEF StateInv, Settled, Over, Dead

\* suspend_instance: the transition, and the progress the intent records.
Parking(i) == [frozen EXCEPT !.parked = @ \cup {i}]
\* The fields of an intent whose progress was recorded.
LEMMA ParkingFields ==
  ASSUME NEW p, Snapshot(p, frozen), NEW i \in DOMAIN frozen.inst
  PROVE  LET y == Parking(i) IN
         /\ y = [status |-> y.status, inst |-> y.inst, parked |-> y.parked, others |-> y.others]
         /\ y.status = frozen.status /\ y.inst = frozen.inst
         /\ y.parked = frozen.parked \cup {i}
         /\ y # NoSnapshot /\ y.status # "NONE"
<1>1. frozen = [status |-> frozen.status, inst |-> frozen.inst, parked |-> frozen.parked,
                others |-> frozen.others]
  BY DEF Snapshot
<1>2. Parking(i) = [status |-> frozen.status, inst |-> frozen.inst,
                    parked |-> frozen.parked \cup {i}, others |-> frozen.others]
  BY <1>1 DEF Parking
<1>3. frozen # NoSnapshot
  BY DEF NoSnapshot
<1>4. frozen.status # "NONE"
  BY <1>3 DEF Snapshot
<1>5. Parking(i).status # NoSnapshot.status
  BY <1>2, <1>4 DEF NoSnapshot
<1>. QED
  BY <1>2, <1>4, <1>5

\* An instance that is stopped already.
LEMMA ParkedKeeps ==
  ASSUME NEW p, NEW e, StateInv(p, e, frozen), NEW i \in DOMAIN frozen.inst \ frozen.parked,
         p.inst[i].status = "STOPPED"
  PROVE  /\ StateInv(p, e, Parking(i))
         /\ ClaimsInv(p, e, frozen) => ClaimsInv(p, e, Parking(i))
<1>. DEFINE y == Parking(i)
<1>1. Snapshot(p, frozen)
  BY DEF StateInv
<1>2. /\ y = [status |-> y.status, inst |-> y.inst, parked |-> y.parked, others |-> y.others]
      /\ y.status = frozen.status /\ y.inst = frozen.inst
      /\ y.parked = frozen.parked \cup {i}
      /\ y # NoSnapshot /\ y.status # "NONE"
  BY <1>1, ParkingFields
<1>. HIDE DEF y
<1>3. Dead(p, y) <=> Dead(p, frozen)
  BY <1>2 DEF Dead
<1>4. frozen # NoSnapshot
  BY DEF NoSnapshot
<1>5. \A j \in DOMAIN y.inst :
        /\ y.inst[j] \in Live \cup {"SUCCEEDED", "FAILED"}
        /\ Dead(p, y) => y.inst[j] \in {"SUCCEEDED", "FAILED"}
        /\ y.inst[j] = "SUCCEEDED" =>
             /\ j \notin y.parked => p.inst[j].status = "SUCCEEDED"
             /\ p.inst[j].status = "STOPPED" => ~p.inst[j].rejected
  BY <1>1, <1>2, <1>3 DEF Snapshot
<1>6. Snapshot(p, y)
  BY <1>1, <1>2, <1>4, <1>5 DEF Snapshot
<1>7. StateInv(p, e, y)
  BY <1>2, <1>6, IntentKeeps
<1>8. ClaimsInv(p, e, frozen) => ClaimsInv(p, e, y)
  BY <1>2 DEF ClaimsInv
<1>. QED
  BY <1>7, <1>8 DEF y

\* An instance that the suspension stops.
LEMMA SuspendKeeps ==
  ASSUME StateInv(Current, earned, frozen), NEW i \in DOMAIN frozen.inst \ frozen.parked,
         Transitioned(i, "STOPPED").ok
  PROVE  LET r == Transitioned(i, "STOPPED") IN
         /\ StateInv(r, earned \cup Succeeded(r), Parking(i))
         /\ DOMAIN r.inst = DOMAIN inst
         /\ \A j \in DOMAIN inst : /\ r.inst[j].status \in {inst[j].status, "STOPPED"}
                                   /\ r.inst[j].stage = inst[j].stage
         /\ ClaimsInv(Current, earned, frozen) =>
              ClaimsInv(r, earned \cup Succeeded(r), Parking(i))
<1>. DEFINE p == Current
            t == "STOPPED"
            m == Moved(p, i, t)
            r == Transitioned(i, t)
            x == p.inst[i]
            y == Parking(i)
<1>1. /\ p.status = status /\ p.inst = inst
      /\ IsPlan(p) /\ ValidPlan(p) /\ Sound(p) /\ Opened(p) /\ Carried(p, earned)
      /\ Snapshot(p, frozen) /\ Over(p, frozen) /\ StateInv(p, earned, frozen)
  BY CurrentFields DEF StateInv, Settled
<1>2. i \in DOMAIN p.inst /\ t \in InstanceStatuses \ {"SUPERSEDED"} /\ t # "STARTING" /\ t \notin Forgetting
  BY <1>1, Catalog DEF Snapshot, Forgetting
<1>. HIDE DEF p, t
<1>3. /\ IsPlan(m) /\ m.ok /\ m.status = status /\ t \in InstanceTransitions[x.status]
      /\ Restated(RefreshStages(m, TRUE), r, AggregateTask(RefreshStages(m, TRUE)))
  BY <1>1, <1>2, TransitionedFields DEF p, t
<1>4. Replaced(p, m, i, m.inst[i]) /\ MovedTo(x, m.inst[i], t, AgentType(p, i) = "image")
  BY <1>1, <1>2, MovedFields
<1>5. /\ Prepared(p, m) /\ Sound(m) /\ (Agrees(p) => Agrees(m)) /\ Gated(m)
  BY <1>1, <1>2, <1>3, MovedSound
<1>6. r.ok
  BY DEF t
<1>. HIDE DEF m, r
<1>7. ValidPlan(m) /\ Carried(m, earned)
  BY <1>1, <1>5, PreparedKeeps
<1>8. Settles(m, r, earned)
  BY <1>3, <1>5, <1>6, <1>7, RefreshSettles
<1>9. /\ DOMAIN r.inst = DOMAIN p.inst
      /\ \A j \in DOMAIN p.inst : /\ r.inst[j].status = m.inst[j].status
                                  /\ r.inst[j].rejected = m.inst[j].rejected
                                  /\ r.inst[j].stage = m.inst[j].stage
  BY <1>4, <1>8 DEF Settles, SameInstance, Replaced
<1>10. /\ r.inst[i].status = t /\ (~x.rejected => ~r.inst[i].rejected)
       /\ \A j \in DOMAIN p.inst \ {i} : /\ r.inst[j].status = p.inst[j].status
                                         /\ r.inst[j].rejected = p.inst[j].rejected
       /\ \A j \in DOMAIN p.inst : r.inst[j].stage = p.inst[j].stage
  <2>1. m.inst[i].status = t /\ (~x.rejected => ~m.inst[i].rejected)
    BY <1>4 DEF MovedTo
  <2>2. \A j \in DOMAIN p.inst \ {i} : m.inst[j] = p.inst[j]
    BY <1>4 DEF Replaced
  <2>3. \A j \in DOMAIN p.inst : m.inst[j].stage = p.inst[j].stage
    BY <1>5 DEF Prepared
  <2>4. r.inst[i].status = t /\ (~x.rejected => ~r.inst[i].rejected)
    BY <1>2, <1>9, <2>1
  <2>5. \A j \in DOMAIN p.inst \ {i} : /\ r.inst[j].status = p.inst[j].status
                                       /\ r.inst[j].rejected = p.inst[j].rejected
    BY <1>9, <2>2
  <2>6. \A j \in DOMAIN p.inst : r.inst[j].stage = p.inst[j].stage
    BY <1>9, <2>3
  <2>. QED
    BY <2>4, <2>5, <2>6
<1>11. /\ y = [status |-> y.status, inst |-> y.inst, parked |-> y.parked, others |-> y.others]
       /\ y.status = frozen.status /\ y.inst = frozen.inst
       /\ y.parked = frozen.parked \cup {i}
       /\ y # NoSnapshot /\ y.status # "NONE"
  BY <1>1, ParkingFields
<1>. HIDE DEF y
<1>12. Dead(r, y) <=> Dead(p, frozen)
  BY <1>1, <1>3, <1>8, <1>11, SettledStatus DEF Dead
<1>13. Snapshot(r, y)
  <2>1. /\ r.status = "ARCHIVED" => p.status = "ARCHIVED"
        /\ p.status \in OverStatuses => r.status = p.status
        /\ r.status = "CANCELLED" => p.status = "CANCELLED"
    BY <1>1, <1>3, <1>8, SettledStatus
  <2>2. ASSUME NEW j \in DOMAIN frozen.inst, frozen.inst[j] = "SUCCEEDED"
        PROVE  /\ j \notin y.parked => r.inst[j].status = "SUCCEEDED"
               /\ r.inst[j].status = "STOPPED" => ~r.inst[j].rejected
    <3>1. /\ j \in DOMAIN p.inst
          /\ j \notin frozen.parked => p.inst[j].status = "SUCCEEDED"
          /\ p.inst[j].status = "STOPPED" => ~p.inst[j].rejected
      BY <1>1, <2>2 DEF Snapshot
    <3>2. CASE j # i
      BY <1>10, <1>11, <3>1, <3>2
    <3>3. CASE j = i
      <4>1. SoundInstance(x) /\ x.status = "SUCCEEDED"
        BY <1>1, <3>1, <3>3 DEF Sound
      <4>2. ~x.rejected
        BY <4>1 DEF SoundInstance
      <4>. QED
        BY <1>10, <1>11, <3>3, <4>2
    <3>. QED
      BY <3>2, <3>3
  <2>3. frozen # NoSnapshot
    BY DEF NoSnapshot
  <2>4. /\ DOMAIN y.inst \subseteq DOMAIN r.inst /\ y.parked \subseteq DOMAIN y.inst
        /\ \A j \in DOMAIN y.inst :
             /\ y.inst[j] \in Live \cup {"SUCCEEDED", "FAILED"}
             /\ Dead(r, y) => y.inst[j] \in {"SUCCEEDED", "FAILED"}
    BY <1>1, <1>9, <1>11, <1>12 DEF Snapshot
  <2>5. /\ y.status \in TaskStatuses \ {"ARCHIVED"}
        /\ y.status \in TaskTerminal => r.status \in {y.status, "ARCHIVED"}
        /\ r.status = "CANCELLED" => y.status \in {"NONE", "CANCELLED"}
    BY <1>1, <1>11, <2>1 DEF Snapshot, OverStatuses
  <2>. QED
    BY <1>11, <2>2, <2>4, <2>5 DEF Snapshot
<1>14. Over(r, y)
  <2>1. SUFFICES ASSUME Dead(p, frozen), NEW j \in DOMAIN p.inst
                 PROVE  /\ r.inst[j].status \in AtRest
                        /\ r.inst[j].status \in {"SUCCEEDED", "STOPPED", "FAILED"} => ~r.inst[j].rejected
    BY <1>9, <1>12 DEF Over
  <2>2. /\ p.inst[j].status \in AtRest
        /\ p.inst[j].status \in {"SUCCEEDED", "STOPPED", "FAILED"} => ~p.inst[j].rejected
    BY <1>1, <2>1 DEF Over
  <2>3. CASE j # i
    BY <1>10, <2>2, <2>3
  <2>4. CASE j = i
    <3>1. p.inst[j].status \in {"SUCCEEDED", "FAILED"}
      BY <1>3, <2>2, <2>4 DEF AtRest, InstanceTransitions, t
    <3>. QED
      BY <1>10, <2>2, <2>4, <3>1 DEF AtRest, t
  <2>. QED
    BY <2>3, <2>4
<1>15. /\ StateInv(r, earned \cup Succeeded(r), y)
       /\ ClaimsInv(p, earned, frozen) /\ Agrees(m) => ClaimsInv(r, earned \cup Succeeded(r), y)
  BY <1>1, <1>3, <1>5, <1>8, <1>11, <1>13, <1>14, SettlesKeeps
<1>16. ClaimsInv(p, earned, frozen) => Agrees(m)
  BY <1>5 DEF ClaimsInv
<1>17. \A j \in DOMAIN inst : /\ r.inst[j].status \in {inst[j].status, "STOPPED"}
                              /\ r.inst[j].stage = inst[j].stage
  BY <1>1, <1>10 DEF t
<1>. QED
  BY <1>1, <1>9, <1>15, <1>16, <1>17 DEF p, r, t, y

\* The statuses of the instances of p are left alone but for failures.
OnlyFails(p, m) ==
  \A j \in DOMAIN p.inst :
    \/ m.inst[j].status = p.inst[j].status /\ m.inst[j].rejected = p.inst[j].rejected
    \/ p.inst[j].status = "RUNNING" /\ m.inst[j].status = "FAILED"

\* The instances of r have the statuses of m and the stages of p.
Shows(p, m, r) ==
  /\ DOMAIN r.inst = DOMAIN p.inst
  /\ \A j \in DOMAIN p.inst : /\ r.inst[j].status = m.inst[j].status
                              /\ r.inst[j].stage = p.inst[j].stage

\* A command that refreshes and aggregates a prepared plan, and whose only transition is the
\* failure of a running instance.
LEMMA CommandKeeps ==
  ASSUME NEW p, NEW e, NEW z, StateInv(p, e, z), NEW m, Prepared(p, m), Sound(m), Gated(m),
         m.status = p.status, NEW r, r = Reaggregated(RefreshStages(m, TRUE)), r.ok,
         OnlyFails(p, m)
  PROVE  /\ StateInv(r, e \cup Succeeded(r), z)
         /\ IsPlan(r) /\ Shows(p, m, r)
         /\ ClaimsInv(p, e, z) /\ Agrees(m) => ClaimsInv(r, e \cup Succeeded(r), z)
<1>. DEFINE q == RefreshStages(m, TRUE)
<1>1. /\ IsPlan(p) /\ ValidPlan(p) /\ Carried(p, e) /\ Snapshot(p, z) /\ Over(p, z) /\ IsPlan(m)
  BY DEF StateInv, Settled, Prepared
<1>2. IsPlan(q)
  BY <1>1, RefreshFrame DEF Framed
<1>3. r = Reaggregated(q)
  OBVIOUS
<1>. HIDE DEF q
<1>4. Restated(q, r, AggregateTask(q))
  BY <1>2, <1>3, ReaggregatedFields
<1>5. ValidPlan(m) /\ Carried(m, e)
  BY <1>1, PreparedKeeps
<1>6. Settles(m, r, e)
  BY <1>1, <1>4, <1>5, RefreshSettles DEF q
<1>7. /\ IsPlan(r) /\ DOMAIN r.inst = DOMAIN p.inst
      /\ \A j \in DOMAIN p.inst : /\ r.inst[j].status = m.inst[j].status
                                  /\ r.inst[j].rejected = m.inst[j].rejected
                                  /\ r.inst[j].stage = p.inst[j].stage
  <2>1. IsPlan(r) /\ DOMAIN r.inst = DOMAIN m.inst /\ DOMAIN m.inst = DOMAIN p.inst
    BY <1>6 DEF Settles, Prepared
  <2>2. \A j \in DOMAIN m.inst : SameInstance(m.inst[j], r.inst[j])
    BY <1>6 DEF Settles
  <2>3. \A j \in DOMAIN p.inst : m.inst[j].stage = p.inst[j].stage
    BY DEF Prepared
  <2>. QED
    BY <2>1, <2>2, <2>3 DEF SameInstance
<1>8. Dead(r, z) <=> Dead(p, z)
  BY <1>6, SettledStatus DEF Dead
<1>9. ASSUME NEW j \in DOMAIN p.inst
      PROVE  \/ r.inst[j].status = p.inst[j].status /\ r.inst[j].rejected = p.inst[j].rejected
             \/ p.inst[j].status = "RUNNING" /\ r.inst[j].status = "FAILED"
  <2>1. CASE m.inst[j].status = p.inst[j].status /\ m.inst[j].rejected = p.inst[j].rejected
    BY <1>7, <2>1
  <2>2. CASE p.inst[j].status = "RUNNING" /\ m.inst[j].status = "FAILED"
    BY <1>7, <2>2
  <2>. QED
    BY <2>1, <2>2 DEF OnlyFails
<1>10. Snapshot(r, z)
  <2>1. /\ r.status = "ARCHIVED" => p.status = "ARCHIVED"
        /\ p.status \in OverStatuses => r.status = p.status
        /\ r.status = "CANCELLED" => p.status = "CANCELLED"
    BY <1>6, SettledStatus
  <2>2. ASSUME NEW j \in DOMAIN z.inst, z.inst[j] = "SUCCEEDED"
        PROVE  /\ j \notin z.parked => r.inst[j].status = "SUCCEEDED"
               /\ r.inst[j].status = "STOPPED" => ~r.inst[j].rejected
    <3>1. /\ j \in DOMAIN p.inst
          /\ j \notin z.parked => p.inst[j].status = "SUCCEEDED"
          /\ p.inst[j].status = "STOPPED" => ~p.inst[j].rejected
      BY <1>1, <2>2 DEF Snapshot
    <3>. QED
      BY <1>9, <3>1
  <2>. QED
    BY <1>1, <1>7, <1>8, <2>1, <2>2 DEF Snapshot, OverStatuses
<1>11. Over(r, z)
  <2>1. SUFFICES ASSUME Dead(p, z), NEW j \in DOMAIN p.inst
                 PROVE  /\ r.inst[j].status \in AtRest
                        /\ r.inst[j].status \in {"SUCCEEDED", "STOPPED", "FAILED"} => ~r.inst[j].rejected
    BY <1>7, <1>8 DEF Over
  <2>2. /\ p.inst[j].status \in AtRest
        /\ p.inst[j].status \in {"SUCCEEDED", "STOPPED", "FAILED"} => ~p.inst[j].rejected
    BY <1>1, <2>1 DEF Over
  <2>. QED
    BY <1>9, <2>2 DEF AtRest
<1>12. /\ StateInv(r, e \cup Succeeded(r), z)
       /\ ClaimsInv(p, e, z) /\ Agrees(m) => ClaimsInv(r, e \cup Succeeded(r), z)
  BY <1>6, <1>10, <1>11, SettlesKeeps
<1>. QED
  BY <1>7, <1>12 DEF Shows

\* reject_instance_delivery.
Rejection(i) == [Moved(Current, i, "FAILED") EXCEPT !.inst[i].rejected = TRUE]
\* The rejection of a delivery keeps the invariant.
LEMMA RejectKeeps ==
  ASSUME StateInv(Current, earned, frozen), NEW i \in DOMAIN inst, inst[i].status = "RUNNING",
         Reaggregated(RefreshStages(Rejection(i), TRUE)).ok
  PROVE  LET r == Reaggregated(RefreshStages(Rejection(i), TRUE)) IN
         /\ StateInv(r, earned \cup Succeeded(r), frozen)
         /\ IsPlan(r) /\ DOMAIN r.inst = DOMAIN inst
         /\ \A j \in DOMAIN inst : /\ r.inst[j].status \in {inst[j].status, "FAILED"}
                                   /\ r.inst[j].stage = inst[j].stage
         /\ ClaimsInv(Current, earned, frozen) => ClaimsInv(r, earned \cup Succeeded(r), frozen)
<1>. DEFINE p == Current
            n == Moved(p, i, "FAILED")
            m == Rejection(i)
            r == Reaggregated(RefreshStages(m, TRUE))
            x == p.inst[i]
<1>1. /\ p.status = status /\ p.inst = inst /\ p.ok = TRUE
      /\ IsPlan(p) /\ ValidPlan(p) /\ Sound(p) /\ Opened(p)
      /\ StateInv(p, earned, frozen)
      /\ x.status = "RUNNING" /\ i \in DOMAIN p.inst
  BY CurrentFields DEF StateInv, Settled
<1>2. "FAILED" \in InstanceStatuses \ {"SUPERSEDED"} /\ "FAILED" # "STARTING"
  BY Catalog
<1>. HIDE DEF p
<1>3. /\ Replaced(p, n, i, n.inst[i]) /\ MovedTo(x, n.inst[i], "FAILED", AgentType(p, i) = "image")
      /\ n.ok = (p.ok /\ "FAILED" \in InstanceTransitions[x.status])
  BY <1>1, <1>2, MovedFields
<1>4. "FAILED" \in InstanceTransitions["RUNNING"]
  BY DEF InstanceTransitions
<1>5. n.ok
  BY <1>1, <1>3, <1>4
<1>6. /\ Prepared(p, n) /\ Sound(n) /\ (Agrees(p) => Agrees(n)) /\ Gated(n)
  BY <1>1, <1>2, <1>5, MovedSound
<1>7. m = [n EXCEPT !.inst[i].rejected = TRUE]
  BY DEF Rejection, p
<1>8. SoundInstance(x)
  BY <1>1 DEF Sound
<1>9. x.activated
  BY <1>1, <1>8 DEF SoundInstance, Begun, Live, Executing
<1>. HIDE DEF n, m, r
<1>10. /\ IsPlan(n) /\ ValidPlan(n) /\ i \in DOMAIN n.inst /\ n.inst[i].activated
       /\ n.inst[i].status = "FAILED" /\ n.status = p.status
  BY <1>1, <1>3, <1>6, <1>9, PreparedKeeps DEF Replaced, MovedTo
<1>11. /\ Prepared(n, m) /\ Sound(m) /\ m.status = n.status
       /\ Agrees(n) => Agrees(m)
       /\ Gated(m)
       /\ Replaced(n, m, i, m.inst[i])
       /\ m.inst[i].status = n.inst[i].status
  BY <1>6, <1>7, <1>10, RefusedSound
<1>12. Prepared(p, m)
  BY <1>6, <1>11, PreparedTwice
<1>13. ASSUME NEW j \in DOMAIN p.inst
       PROVE  \/ m.inst[j].status = p.inst[j].status /\ m.inst[j].rejected = p.inst[j].rejected
              \/ p.inst[j].status = "RUNNING" /\ m.inst[j].status = "FAILED"
  <2>1. CASE j = i
    BY <1>1, <1>10, <1>11, <2>1
  <2>2. CASE j # i
    BY <1>3, <1>11, <2>2 DEF Replaced
  <2>. QED
    BY <2>1, <2>2
<1>18. OnlyFails(p, m)
  BY <1>13 DEF OnlyFails
<1>14. r.ok /\ r = Reaggregated(RefreshStages(m, TRUE)) /\ m.status = p.status
  BY <1>10, <1>11 DEF r, m
<1>19. StateInv(p, earned, frozen)
  BY <1>1
<1>20. Prepared(p, m)
  BY <1>12
<1>21. Sound(m) /\ Gated(m)
  BY <1>11
<1>15. StateInv(r, earned \cup Succeeded(r), frozen)
  BY <1>14, <1>18, <1>19, <1>20, <1>21, CommandKeeps, Zenon
<1>22. IsPlan(r) /\ Shows(p, m, r)
  BY <1>14, <1>18, <1>19, <1>20, <1>21, CommandKeeps, Zenon
<1>23. /\ DOMAIN r.inst = DOMAIN p.inst
       /\ \A j \in DOMAIN p.inst : /\ r.inst[j].status = m.inst[j].status
                                   /\ r.inst[j].stage = p.inst[j].stage
  BY <1>22 DEF Shows
<1>24. ClaimsInv(p, earned, frozen) /\ Agrees(m) => ClaimsInv(r, earned \cup Succeeded(r), frozen)
  BY <1>14, <1>18, <1>19, <1>20, <1>21, CommandKeeps, Zenon
<1>16. ClaimsInv(p, earned, frozen) => Agrees(m)
  BY <1>6, <1>11 DEF ClaimsInv
<1>17. \A j \in DOMAIN p.inst : r.inst[j].status \in {p.inst[j].status, "FAILED"}
  BY <1>13, <1>23
<1>. QED
  BY <1>1, <1>15, <1>16, <1>17, <1>22, <1>23, <1>24 DEF p, m, r

\* downgrade_instance.
LEMMA DowngradeKeeps ==
  ASSUME StateInv(Current, earned, frozen), NEW i \in DOMAIN inst,
         inst[i].original, inst[i].activated,
         Reaggregated(RefreshStages(Downgraded(i), TRUE)).ok
  PROVE  LET r == Reaggregated(RefreshStages(Downgraded(i), TRUE)) IN
         /\ StateInv(r, earned \cup Succeeded(r), frozen)
         /\ IsPlan(r) /\ DOMAIN r.inst = DOMAIN inst
         /\ \A j \in DOMAIN inst : /\ r.inst[j].status = inst[j].status
                                   /\ r.inst[j].stage = inst[j].stage
         /\ ClaimsInv(Current, earned, frozen) => ClaimsInv(r, earned \cup Succeeded(r), frozen)
<1>. DEFINE p == Current
            m == Downgraded(i)
            r == Reaggregated(RefreshStages(m, TRUE))
<1>1. /\ p.status = status /\ p.inst = inst
      /\ IsPlan(p) /\ ValidPlan(p) /\ Sound(p) /\ Opened(p)
      /\ StateInv(p, earned, frozen)
  BY CurrentFields DEF StateInv, Settled
<1>2. /\ Prepared(p, m) /\ m.ok /\ Sound(m) /\ m.status = status
      /\ Agrees(p) => Agrees(m)
      /\ Opened(p) => Gated(m)
      /\ \A j \in DOMAIN inst : /\ m.inst[j].status = inst[j].status
                                /\ m.inst[j].rejected = inst[j].rejected
  BY <1>1, DowngradedSound
<1>3. r.ok /\ r = Reaggregated(RefreshStages(m, TRUE))
  OBVIOUS
<1>6. OnlyFails(p, m)
  BY <1>1, <1>2 DEF OnlyFails
<1>7. m.status = p.status /\ Gated(m)
  BY <1>1, <1>2
<1>. HIDE DEF p, m, r
<1>8. StateInv(p, earned, frozen)
  BY <1>1
<1>9. Prepared(p, m) /\ Sound(m)
  BY <1>2
<1>4. StateInv(r, earned \cup Succeeded(r), frozen)
  BY <1>3, <1>6, <1>7, <1>8, <1>9, CommandKeeps, Zenon
<1>10. IsPlan(r) /\ Shows(p, m, r)
  BY <1>3, <1>6, <1>7, <1>8, <1>9, CommandKeeps, Zenon
<1>11. /\ DOMAIN r.inst = DOMAIN p.inst
       /\ \A j \in DOMAIN p.inst : /\ r.inst[j].status = m.inst[j].status
                                   /\ r.inst[j].stage = p.inst[j].stage
  BY <1>10 DEF Shows
<1>12. ClaimsInv(p, earned, frozen) /\ Agrees(m) => ClaimsInv(r, earned \cup Succeeded(r), frozen)
  BY <1>3, <1>6, <1>7, <1>8, <1>9, CommandKeeps, Zenon
<1>5. ClaimsInv(p, earned, frozen) => Agrees(m)
  BY <1>2 DEF ClaimsInv
<1>. QED
  BY <1>1, <1>2, <1>4, <1>5, <1>10, <1>11, <1>12 DEF p, m, r

\* cancel_task.
LEMMA CancelKeeps ==
  ASSUME StateInv(Current, earned, frozen), frozen = NoSnapshot, Cancelled(Current).ok
  PROVE  LET q == Cancelled(Current) IN
         /\ StateInv(q, earned \cup Succeeded(q), frozen)
         /\ DOMAIN q.inst = DOMAIN inst
         /\ \A i \in DOMAIN inst : q.inst[i].stage = inst[i].stage /\ q.inst[i].status # "READY"
         /\ ClaimsInv(Current, earned, frozen) => ClaimsInv(q, earned \cup Succeeded(q), frozen)
<1>. DEFINE p == Current
            q == Cancelled(p)
            g == earned \cup Succeeded(q)
<1>1. /\ p.inst = inst
      /\ IsPlan(p) /\ ValidPlan(p) /\ Sound(p) /\ Opened(p) /\ Carried(p, earned)
      /\ earned \subseteq DOMAIN p.inst /\ Snapshot(p, frozen)
  BY CurrentFields DEF StateInv, Settled
<1>. HIDE DEF p
<1>2. q.ok
  BY DEF p
<1>3. /\ IsPlan(q) /\ ValidPlan(q) /\ Sound(q) /\ q.status = "CANCELLED"
      /\ DOMAIN q.inst = DOMAIN p.inst
      /\ Agrees(p) => Agrees(q)
      /\ Opened(q) /\ Carried(q, g)
      /\ \A i \in DOMAIN q.inst :
           /\ q.inst[i].stage = p.inst[i].stage
           /\ q.inst[i].status \in {"SUCCEEDED", "CANCELLED", "ARCHIVED"}
           /\ q.inst[i].status = "SUCCEEDED" => ~q.inst[i].rejected
  BY <1>1, <1>2, CancelledSound
<1>4. Succeeded(q) \subseteq g /\ g \subseteq DOMAIN q.inst
  BY <1>1, <1>3 DEF Succeeded
<1>. HIDE DEF q, g
<1>5. Dead(q, frozen) /\ frozen.status = "NONE" /\ DOMAIN frozen.inst = {}
  BY <1>3 DEF Dead, NoSnapshot
<1>6. Settled(q, g, frozen)
  BY <1>3, <1>4, <1>5 DEF Settled
<1>7. Snapshot(q, frozen)
  BY <1>1, <1>3, <1>5 DEF Snapshot, TaskTerminal
<1>8. Early(q) /\ TaskFollows(q)
  BY <1>3 DEF Early, TaskFollows, OverStatuses, TaskTerminal
<1>9. Over(q, frozen)
  BY <1>3 DEF Over, AtRest
<1>10. ClaimsInv(p, earned, frozen) => ClaimsInv(q, g, frozen)
  BY <1>3, <1>5 DEF ClaimsInv, Done
<1>11. StateInv(q, g, frozen)
  BY <1>6, <1>7, <1>8, <1>9 DEF StateInv
<1>12. \A i \in DOMAIN inst : q.inst[i].stage = inst[i].stage /\ q.inst[i].status # "READY"
  BY <1>1, <1>3
<1>. QED
  BY <1>1, <1>3, <1>10, <1>11, <1>12 DEF p, q, g

\* restore_archived.
LEMMA RestoreKeeps ==
  ASSUME StateInv(Current, earned, frozen), status = "ARCHIVED", NEW lost, Restored(lost).ok
  PROVE  LET r == Restored(lost) IN
         /\ StateInv(r, earned \cup Succeeded(r), NoSnapshot)
         /\ DOMAIN r.inst = DOMAIN inst
         /\ \A i \in DOMAIN inst :
              /\ r.inst[i].stage = inst[i].stage
              /\ r.inst[i].status = "READY" => inst[i].status = "READY"
         /\ ClaimsInv(Current, earned, frozen) => ClaimsInv(r, earned \cup Succeeded(r), NoSnapshot)
<1>. DEFINE p == Current
            m == RestoreBase(lost)
            r == Restored(lost)
            g == earned \cup Succeeded(r)
            z == NoSnapshot
<1>1. /\ p.inst = inst /\ p.status = "ARCHIVED"
      /\ IsPlan(p) /\ ValidPlan(p) /\ Sound(p) /\ Opened(p) /\ Carried(p, earned)
      /\ earned \subseteq DOMAIN p.inst /\ Snapshot(p, frozen) /\ Over(p, frozen)
      /\ \A s \in DOMAIN p.stages : p.stages[s].status = "CANCELLED" => Dead(p, frozen)
  BY CurrentFields DEF StateInv, Settled
<1>2. Remembered
  BY <1>1 DEF Remembered, Snapshot
<1>3. /\ Prepared(p, m) /\ Sound(m) /\ m.status = frozen.status
      /\ Agrees(p) => Agrees(m)
      /\ Gated(m)
      /\ \A i \in DOMAIN inst :
           \/ m.inst[i].status = inst[i].status
           \/ i \in Parked /\ m.inst[i].status = RestoreTarget(i, lost)
      /\ \A i \in DOMAIN inst : m.inst[i].rejected = inst[i].rejected
  BY <1>1, <1>2, RestoredSound
<1>4. IsPlan(m) /\ ValidPlan(m) /\ Carried(m, earned)
  BY <1>1, <1>3, PreparedKeeps DEF Prepared
<1>5. Restated(RefreshStages(m, TRUE), r, AggregateTask(RefreshStages(m, TRUE)))
  BY <1>4, RestoredFields
<1>6. r.ok
  OBVIOUS
<1>. HIDE DEF p, m, r, z
<1>7. Settles(m, r, earned)
  BY <1>3, <1>4, <1>5, <1>6, RefreshSettles
<1>8. /\ DOMAIN r.inst = DOMAIN p.inst /\ DOMAIN r.stages = DOMAIN p.stages
      /\ \A i \in DOMAIN p.inst : /\ r.inst[i].status = m.inst[i].status
                                  /\ r.inst[i].rejected = p.inst[i].rejected
                                  /\ r.inst[i].stage = p.inst[i].stage
      /\ \A s \in DOMAIN r.stages : r.stages[s].status = "CANCELLED" => p.stages[s].status = "CANCELLED"
  <2>1. /\ DOMAIN m.inst = DOMAIN p.inst /\ DOMAIN m.stages = DOMAIN p.stages
        /\ \A i \in DOMAIN p.inst : m.inst[i].stage = p.inst[i].stage
        /\ \A s \in DOMAIN p.stages : m.stages[s].status = p.stages[s].status
    BY <1>3 DEF Prepared
  <2>2. /\ DOMAIN r.inst = DOMAIN m.inst /\ DOMAIN r.stages = DOMAIN m.stages
        /\ \A i \in DOMAIN m.inst : SameInstance(m.inst[i], r.inst[i])
        /\ \A s \in DOMAIN r.stages : r.stages[s].status = "CANCELLED" => m.stages[s].status = "CANCELLED"
    BY <1>7 DEF Settles
  <2>3. \A i \in DOMAIN m.inst : /\ r.inst[i].status = m.inst[i].status
                                 /\ r.inst[i].rejected = m.inst[i].rejected
                                 /\ r.inst[i].stage = m.inst[i].stage
    BY <2>2 DEF SameInstance
  <2>. QED
    BY <1>1, <1>3, <2>1, <2>2, <2>3
<1>9. /\ r.status \in OverStatuses \cup TaskResults
      /\ r.status = "CANCELLED" <=> frozen.status = "CANCELLED"
      /\ r.status # "ARCHIVED"
      /\ frozen.status \in OverStatuses => r.status = frozen.status
  BY <1>1, <1>3, <1>7, SettledStatus DEF Snapshot
<1>10. z.status = "NONE" /\ DOMAIN z.inst = {} /\ z.parked = {}
  BY DEF NoSnapshot, z
<1>11. Dead(r, z) <=> Dead(p, frozen)
  BY <1>1, <1>9, <1>10 DEF Dead
<1>12. Settled(r, g, z)
  <2>1. IsPlan(r) /\ ValidPlan(r) /\ Sound(r) /\ Opened(r) /\ Fresh(r) /\ Carried(r, g)
    BY <1>7 DEF Settles
  <2>2. Succeeded(r) \subseteq g /\ g \subseteq DOMAIN r.inst
    BY <1>1, <1>8 DEF Succeeded
  <2>3. \A s \in DOMAIN r.stages : r.stages[s].status = "CANCELLED" => Dead(r, z)
    BY <1>1, <1>8, <1>11
  <2>. HIDE DEF g
  <2>. QED
    BY <2>1, <2>2, <2>3 DEF Settled
<1>13. Snapshot(r, z)
  <2>1. z = [status |-> z.status, inst |-> z.inst, parked |-> z.parked, others |-> z.others]
    BY DEF z, NoSnapshot
  <2>2. "NONE" \in TaskStatuses /\ z = NoSnapshot
    BY Catalog DEF z
  <2>. QED
    BY <1>9, <1>10, <2>1, <2>2 DEF Snapshot, TaskTerminal
<1>14. Early(r)
  BY <1>9 DEF Early, OverStatuses, TaskTerminal, TaskResults
<1>15. TaskFollows(r)
  BY <1>7 DEF Settles, TaskFollows
<1>16. \A i \in Parked : /\ i \in DOMAIN frozen.inst /\ p.inst[i].status = "STOPPED"
                         /\ RestoreTarget(i, lost) # "READY"
                         /\ Dead(p, frozen) => RestoreTarget(i, lost) \in {"SUCCEEDED", "FAILED"}
  BY <1>1 DEF Parked, RestoreTarget, Snapshot, Live, Executing, Waiting
<1>17. Over(r, z)
  <2>1. SUFFICES ASSUME Dead(p, frozen), NEW j \in DOMAIN p.inst
                 PROVE  /\ r.inst[j].status \in AtRest
                        /\ r.inst[j].status \in {"SUCCEEDED", "STOPPED", "FAILED"} => ~r.inst[j].rejected
    BY <1>8, <1>11 DEF Over
  <2>2. /\ p.inst[j].status \in AtRest
        /\ p.inst[j].status \in {"SUCCEEDED", "STOPPED", "FAILED"} => ~p.inst[j].rejected
    BY <1>1, <2>1 DEF Over
  <2>3. CASE m.inst[j].status = p.inst[j].status
    BY <1>8, <2>2, <2>3
  <2>4. CASE j \in Parked /\ m.inst[j].status = RestoreTarget(j, lost)
    BY <1>8, <1>16, <2>1, <2>2, <2>4 DEF AtRest
  <2>. QED
    BY <1>1, <1>3, <2>3, <2>4
<1>18. ASSUME ClaimsInv(p, earned, frozen)
       PROVE  ClaimsInv(r, g, z)
  <2>1. Agrees(p) /\ Done(frozen.status, p, earned)
    BY <1>18 DEF ClaimsInv
  <2>2. Done(frozen.status, m, earned)
    BY <1>1, <1>3, <2>1, PreparedKeeps
  <2>3. Done(frozen.status, r, g)
    BY <1>7, <2>2 DEF Settles
  <2>4. Agrees(r) /\ (m.status \notin OverStatuses => Done(r.status, r, g))
    BY <1>3, <1>7, <2>1 DEF Settles
  <2>5. Done(r.status, r, g)
    BY <1>3, <1>9, <2>3, <2>4
  <2>6. Done(z.status, r, g)
    BY <1>10 DEF Done
  <2>. QED
    BY <2>4, <2>5, <2>6 DEF ClaimsInv
<1>19. \A i \in DOMAIN inst : /\ r.inst[i].stage = inst[i].stage
                              /\ r.inst[i].status = "READY" => inst[i].status = "READY"
  BY <1>1, <1>3, <1>8, <1>16
<1>20. StateInv(r, g, z)
  BY <1>12, <1>13, <1>14, <1>15, <1>17 DEF StateInv
<1>. QED
  BY <1>1, <1>8, <1>18, <1>19, <1>20 DEF p, r, z, g

-----------------------------------------------------------------------------
(* Saved plans.                                                            *)

\* The plans whose required members stand in required stages.
DraftAgrees(d) ==
  \A i \in DOMAIN d.members :
    d.members[i].required /\ d.members[i].stage \in DOMAIN d.stages =>
      d.stages[d.members[i].stage].required

\* A new instance is sound, and a new stage has neither begun nor been lowered.
LEMMA NewFields ==
  /\ \A x : /\ x.type \in StageKinds /\ x.deps \in SUBSET Nat /\ x.required \in BOOLEAN
            => /\ NewStage(x) \in StageType
               /\ NewStage(x).status = "PENDING" /\ ~NewStage(x).activated /\ ~NewStage(x).downgraded
               /\ NewStage(x).required = x.required
  /\ \A x : /\ x.stage \in Nat /\ x.required \in BOOLEAN
            => /\ NewInstance(x) \in InstanceType
               /\ SoundInstance(NewInstance(x))
               /\ NewInstance(x).status = "READY" /\ ~NewInstance(x).finished
               /\ NewInstance(x).board = "none" /\ ~NewInstance(x).activated
               /\ NewInstance(x).stage = x.stage /\ NewInstance(x).required = x.required
<1>1. ASSUME NEW x, x.type \in StageKinds, x.deps \in SUBSET Nat, x.required \in BOOLEAN
      PROVE  /\ NewStage(x) \in StageType
             /\ NewStage(x).status = "PENDING" /\ ~NewStage(x).activated /\ ~NewStage(x).downgraded
             /\ NewStage(x).required = x.required
  BY <1>1, Catalog DEF NewStage, StageType, StageStatuses
<1>2. ASSUME NEW x, x.stage \in Nat, x.required \in BOOLEAN
      PROVE  /\ NewInstance(x) \in InstanceType
             /\ NewInstance(x).status = "READY" /\ ~NewInstance(x).finished
             /\ NewInstance(x).board = "none" /\ ~NewInstance(x).activated
             /\ NewInstance(x).stage = x.stage /\ NewInstance(x).required = x.required
             /\ NewInstance(x).original = x.required /\ ~NewInstance(x).rejected
  <2>1. 1 \in 1..MaxCard
    BY DraftAssumption
  <2>. QED
    BY <1>2, <2>1, Catalog DEF NewInstance, InstanceType, InstanceStatuses
<1>3. ASSUME NEW x, x.stage \in Nat, x.required \in BOOLEAN
      PROVE  SoundInstance(NewInstance(x))
  <2>. DEFINE y == NewInstance(x)
  <2>1. y.status = "READY" /\ ~y.rejected /\ y.required = x.required /\ y.original = x.required
    BY <1>2, <1>3
  <2>. HIDE DEF y
  <2>2. SoundInstance(y)
    BY <1>3, <2>1 DEF SoundInstance, Begun, Live, Executing, Waiting
  <2>. QED
    BY <2>2 DEF y
<1>. QED
  BY <1>1, <1>2, <1>3

\* The members and the stages of a draft have the fields a new plan reads.
LEMMA DraftFields ==
  ASSUME NEW d, IsDraft(d)
  PROVE  /\ Len(d.stages) \in Nat /\ DOMAIN d.stages = 1..Len(d.stages)
         /\ \A s \in DOMAIN d.stages :
              /\ d.stages[s].type \in StageKinds /\ d.stages[s].deps \in SUBSET Nat
              /\ d.stages[s].required \in BOOLEAN
         /\ \A i \in DOMAIN d.members :
              d.members[i].stage \in Nat \ {0} /\ d.members[i].required \in BOOLEAN
<1>. DEFINE T == [type : StageKinds, deps : SUBSET Nat, required : BOOLEAN]
<1>1. d.stages \in Seq(T)
  BY DEF IsDraft
<1>2. Len(d.stages) \in Nat /\ DOMAIN d.stages = 1..Len(d.stages)
  BY <1>1, LenProperties
<1>3. \A s \in DOMAIN d.stages : d.stages[s] \in T
  BY <1>1, <1>2, ElementOfSeq
<1>4. \A i \in DOMAIN d.members : d.members[i] \in [stage : Nat \ {0}, required : BOOLEAN]
  BY DEF IsDraft
<1>. QED
  BY <1>2, <1>3, <1>4

NormalizedBase(d) ==
  [ok |-> TRUE, status |-> "PLANNED",
   stages |-> [s \in DOMAIN d.stages |-> NewStage(d.stages[s])],
   inst |-> [i \in DOMAIN d.members |-> NewInstance(d.members[i])]]

\* A new plan before its first aggregation.
LEMMA NormalizedSound ==
  ASSUME NEW d, IsDraft(d)
  PROVE  LET p == NormalizedBase(d) IN
         /\ IsPlan(p) /\ Sound(p) /\ Opened(p) /\ p.ok /\ p.status = "PLANNED"
         /\ Carried(p, {})
         /\ DOMAIN p.inst = DOMAIN d.members
         /\ \A i \in DOMAIN p.inst : p.inst[i].status = "READY" /\ ~p.inst[i].finished
         /\ \A s \in DOMAIN p.stages : p.stages[s].status = "PENDING"
         /\ ValidPlan(p) /\ DraftAgrees(d) => Agrees(p)
<1>. DEFINE n == Len(d.stages)
            st == [s \in DOMAIN d.stages |-> NewStage(d.stages[s])]
            in == [i \in DOMAIN d.members |-> NewInstance(d.members[i])]
            p == NormalizedBase(d)
<1>1. p = [ok |-> TRUE, status |-> "PLANNED", stages |-> st, inst |-> in]
  BY DEF NormalizedBase
<1>2. /\ n \in Nat /\ DOMAIN d.stages = 1..n
      /\ \A s \in DOMAIN d.stages :
           /\ d.stages[s].type \in StageKinds /\ d.stages[s].deps \in SUBSET Nat
           /\ d.stages[s].required \in BOOLEAN
      /\ \A i \in DOMAIN d.members :
           d.members[i].stage \in Nat /\ d.members[i].required \in BOOLEAN
  BY DraftFields
<1>3. \A s \in DOMAIN d.stages :
        /\ st[s] \in StageType /\ st[s].status = "PENDING" /\ ~st[s].downgraded
        /\ st[s].required = d.stages[s].required
  BY <1>2, NewFields
<1>4. st \in [1..n -> StageType]
  BY <1>2, <1>3
<1>5. st \in Seq(StageType) /\ DOMAIN st = DOMAIN d.stages
  <2>. HIDE DEF st, n
  <2>. QED
    BY <1>2, <1>4, StagesAreSeq
<1>6. \A i \in DOMAIN d.members :
        /\ in[i] \in InstanceType /\ SoundInstance(in[i])
        /\ in[i].status = "READY" /\ ~in[i].finished /\ in[i].board = "none" /\ ~in[i].activated
        /\ in[i].stage = d.members[i].stage /\ in[i].required = d.members[i].required
  BY <1>2, NewFields
<1>7. in \in [DOMAIN in -> InstanceType] /\ DOMAIN in = DOMAIN d.members
  BY <1>6
<1>. HIDE DEF st, in, p
<1>8. IsPlan(p) /\ p.ok = TRUE /\ p.status = "PLANNED" /\ p.stages = st /\ p.inst = in
  BY <1>1, <1>5, <1>7, Catalog DEF IsPlan
<1>9. Sound(p)
  <2>1. Boards(p)
    BY <1>6, <1>7, <1>8 DEF Boards, Images
  <2>. QED
    BY <1>3, <1>5, <1>6, <1>7, <1>8, <2>1 DEF Sound
<1>10. Opened(p)
  BY <1>6, <1>7, <1>8 DEF Opened
<1>11. Carried(p, {})
  BY <1>3, <1>5, <1>8 DEF Carried, CarriedStage
<1>12. ASSUME ValidPlan(p), DraftAgrees(d) PROVE Agrees(p)
  <2>1. \A i \in DOMAIN in : in[i].stage \in DOMAIN st
    BY <1>8, <1>12 DEF ValidPlan
  <2>. QED
    BY <1>3, <1>5, <1>6, <1>7, <1>8, <1>12, <2>1 DEF Agrees, DraftAgrees
<1>. QED
  BY <1>3, <1>5, <1>6, <1>7, <1>8, <1>9, <1>10, <1>11, <1>12 DEF p

\* An aggregation of a task that is neither over nor being archived.
LEMMA FreeSettles ==
  ASSUME NEW p, NEW r, NEW e, Settles(p, r, e), p.status \notin OverStatuses, e \subseteq DOMAIN p.inst,
         \A s \in DOMAIN p.stages : p.stages[s].status # "CANCELLED"
  PROVE  /\ StateInv(r, e \cup Succeeded(r), NoSnapshot)
         /\ Agrees(p) => ClaimsInv(r, e \cup Succeeded(r), NoSnapshot)
<1>. DEFINE g == e \cup Succeeded(r)
            z == NoSnapshot
<1>1. r.status \in TaskResults /\ DOMAIN r.inst = DOMAIN p.inst /\ DOMAIN r.stages = DOMAIN p.stages
  BY DEF Settles
<1>2. z.status = "NONE" /\ DOMAIN z.inst = {} /\ z.parked = {}
  BY DEF NoSnapshot
<1>3. z = [status |-> z.status, inst |-> z.inst, parked |-> z.parked, others |-> z.others]
  BY DEF NoSnapshot
<1>4. "NONE" \in TaskStatuses /\ z = NoSnapshot
  BY Catalog
<1>. HIDE DEF z
<1>5. ~Dead(r, z)
  BY <1>1, <1>2 DEF Dead, TaskResults
<1>6. Settled(r, g, z)
  <2>1. IsPlan(r) /\ ValidPlan(r) /\ Sound(r) /\ Opened(r) /\ Fresh(r) /\ Carried(r, g)
    BY DEF Settles
  <2>2. Succeeded(r) \subseteq g /\ g \subseteq DOMAIN r.inst
    BY <1>1 DEF Succeeded
  <2>3. \A s \in DOMAIN r.stages : r.stages[s].status # "CANCELLED"
    BY <1>1 DEF Settles
  <2>. HIDE DEF g
  <2>. QED
    BY <2>1, <2>2, <2>3 DEF Settled
<1>7. Snapshot(r, z)
  BY <1>1, <1>2, <1>3, <1>4 DEF Snapshot, TaskTerminal, TaskResults
<1>8. Early(r) /\ TaskFollows(r) /\ Over(r, z)
  BY <1>1, <1>5 DEF Early, TaskResults, Settles, TaskFollows, Over
<1>9. ASSUME Agrees(p) PROVE ClaimsInv(r, g, z)
  <2>1. Agrees(r) /\ Done(r.status, r, g)
    BY <1>9 DEF Settles
  <2>2. Done(z.status, r, g)
    BY <1>2 DEF Done
  <2>. QED
    BY <2>1, <2>2 DEF ClaimsInv
<1>. QED
  BY <1>6, <1>7, <1>8, <1>9 DEF StateInv, z

\* _normalize_plan, with a valid result.
LEMMA NormalizedPlan ==
  ASSUME NEW d, IsDraft(d), ValidPlan(Normalized(d)), Normalized(d).ok
  PROVE  LET p == Normalized(d) IN
         /\ IsPlan(p) /\ Sound(p) /\ Opened(p) /\ Fresh(p) /\ Carried(p, {})
         /\ p.status = "PLANNED" /\ Succeeded(p) = {}
         /\ DOMAIN p.inst = DOMAIN d.members
         /\ \A i \in DOMAIN p.inst : p.inst[i].status = "READY"
         /\ \A s \in DOMAIN p.stages : p.stages[s].status # "CANCELLED"
         /\ DraftAgrees(d) => Agrees(p)
<1>. DEFINE b == NormalizedBase(d)
            p == Normalized(d)
<1>1. p = RefreshStages(b, FALSE)
  BY DEF Normalized, NormalizedBase
<1>2. /\ IsPlan(b) /\ Sound(b) /\ Opened(b) /\ b.status = "PLANNED"
      /\ Carried(b, {})
      /\ DOMAIN b.inst = DOMAIN d.members
      /\ \A i \in DOMAIN b.inst : b.inst[i].status = "READY" /\ ~b.inst[i].finished
      /\ \A s \in DOMAIN b.stages : b.stages[s].status = "PENDING"
      /\ ValidPlan(b) /\ DraftAgrees(d) => Agrees(b)
  BY NormalizedSound
<1>3. ValidPlan(p) /\ p.ok
  OBVIOUS
<1>. HIDE DEF b, p
<1>4. Framed(b, p)
  BY <1>1, <1>2, RefreshFrame
<1>5. ValidPlan(b)
  BY <1>3, <1>4, FramedKeeps
<1>6. Refreshed(b, p, FALSE)
  BY <1>1, <1>2, <1>5, RefreshFacts
<1>7. Aggregated(b, p)
  BY <1>3, <1>6, RefreshedAggregates
<1>8. Fresh(p) /\ Opened(p)
  BY <1>2, <1>3, <1>5, <1>6, NormalizedFresh
<1>9. Sound(p) /\ (Agrees(b) => Agrees(p))
  BY <1>2, <1>4, <1>5, FramedSound
<1>10. /\ IsPlan(p) /\ p.status = "PLANNED" /\ DOMAIN p.inst = DOMAIN d.members
       /\ \A i \in DOMAIN p.inst : p.inst[i].status = "READY"
  BY <1>2, <1>4 DEF Framed, SameInstance
<1>11. Succeeded(p) = {}
  BY <1>10 DEF Succeeded
<1>12. Carried(p, {})
  <2>1. Carried(p, {} \cup Succeeded(p))
    BY <1>2, <1>5, <1>7, AggregatedKeeps
  <2>2. {} \cup Succeeded(p) = {}
    BY <1>11
  <2>. QED
    BY <2>1, <2>2
<1>13. \A s \in DOMAIN p.stages : p.stages[s].status # "CANCELLED"
  <2>1. DOMAIN p.stages = DOMAIN b.stages
    BY <1>4 DEF Framed
  <2>2. \A s \in DOMAIN b.stages : p.stages[s].status = "CANCELLED" => b.stages[s].status = "CANCELLED"
    BY <1>2, <1>5, <1>7, AggregatedKeeps
  <2>. QED
    BY <1>2, <2>1, <2>2
<1>. QED
  BY <1>2, <1>5, <1>8, <1>9, <1>10, <1>11, <1>12, <1>13 DEF p

\* save_plan, mode replace: a plan that waits for its confirmation.
LEMMA WaitingPlanKeeps ==
  ASSUME NEW d, IsDraft(d), ValidPlan(Normalized(d)), Normalized(d).ok
  PROVE  LET w == [Normalized(d) EXCEPT !.status = "AWAITING_START_CONFIRMATION"] IN
         /\ IsPlan(w) /\ DOMAIN w.inst = DOMAIN d.members
         /\ StateInv(w, {} \cup Succeeded(w), NoSnapshot)
         /\ DraftAgrees(d) => ClaimsInv(w, {} \cup Succeeded(w), NoSnapshot)
<1>. DEFINE p == Normalized(d)
            t == "AWAITING_START_CONFIRMATION"
            w == [p EXCEPT !.status = t]
            z == NoSnapshot
            g == {} \cup Succeeded(w)
<1>1. /\ IsPlan(p) /\ Sound(p) /\ Opened(p) /\ Fresh(p) /\ Carried(p, {}) /\ ValidPlan(p) /\ p.ok
      /\ Succeeded(p) = {}
      /\ DOMAIN p.inst = DOMAIN d.members
      /\ \A i \in DOMAIN p.inst : p.inst[i].status = "READY"
      /\ \A s \in DOMAIN p.stages : p.stages[s].status # "CANCELLED"
      /\ DraftAgrees(d) => Agrees(p)
  BY NormalizedPlan
<1>. HIDE DEF p
<1>2. w = [ok |-> p.ok, status |-> t, stages |-> p.stages, inst |-> p.inst]
  BY <1>1, WriteStatus DEF IsPlan, Shape
<1>3. t \in TaskStatuses
  BY Catalog
<1>. HIDE DEF w
<1>4. Restated(p, w, t)
  BY <1>1, <1>2, <1>3 DEF Restated, IsPlan
<1>5. /\ IsPlan(w) /\ w.status = t /\ w.stages = p.stages /\ w.inst = p.inst
  BY <1>4 DEF Restated
<1>6. /\ ValidPlan(w) /\ Sound(w) /\ Opened(w) /\ Fresh(w) /\ Carried(w, {}) /\ Succeeded(w) = {}
      /\ Agrees(p) => Agrees(w)
  BY <1>1, <1>4, RestatedKeeps
<1>7. g = {}
  BY <1>6
<1>8. z.status = "NONE" /\ DOMAIN z.inst = {} /\ z.parked = {}
  BY DEF NoSnapshot
<1>9. z = [status |-> z.status, inst |-> z.inst, parked |-> z.parked, others |-> z.others]
  BY DEF NoSnapshot
<1>10. "NONE" \in TaskStatuses /\ z = NoSnapshot
  BY Catalog
<1>. HIDE DEF z, g
<1>11. ~Dead(w, z)
  BY <1>5, <1>8 DEF Dead
<1>12. Settled(w, g, z)
  BY <1>1, <1>5, <1>6, <1>7 DEF Settled
<1>13. Snapshot(w, z)
  BY <1>5, <1>8, <1>9, <1>10 DEF Snapshot, TaskTerminal
<1>14. Early(w) /\ TaskFollows(w) /\ Over(w, z)
  BY <1>1, <1>5, <1>11 DEF Early, TaskFollows, Over
<1>15. DraftAgrees(d) => ClaimsInv(w, g, z)
  BY <1>1, <1>5, <1>6, <1>8 DEF ClaimsInv, Done
<1>16. StateInv(w, g, z)
  BY <1>12, <1>13, <1>14 DEF StateInv
<1>. QED
  BY <1>1, <1>5, <1>15, <1>16 DEF w, p, z, g

\* save_plan, mode replace: a plan that starts at once.
LEMMA StartedPlanKeeps ==
  ASSUME NEW d, IsDraft(d), ValidPlan(Normalized(d)), Started(ActivateCurrentStages(Normalized(d))).ok
  PROVE  LET r == Started(ActivateCurrentStages(Normalized(d))) IN
         /\ IsPlan(r) /\ DOMAIN r.inst = DOMAIN d.members
         /\ StateInv(r, {} \cup Succeeded(r), NoSnapshot)
         /\ DraftAgrees(d) => ClaimsInv(r, {} \cup Succeeded(r), NoSnapshot)
<1>. DEFINE b == NormalizedBase(d)
            p == Normalized(d)
            q == ActivateCurrentStages(p)
            r == Started(q)
<1>1. p = RefreshStages(b, FALSE) /\ IsPlan(b) /\ ValidPlan(p) /\ r.ok
  BY NormalizedSound DEF Normalized, NormalizedBase
<1>. HIDE DEF b, p
<1>2. IsPlan(p)
  BY <1>1, RefreshFrame DEF Framed
<1>. HIDE DEF q
<1>3. Activates(p, q)
  BY <1>1, <1>2, ActivateFacts DEF q
<1>4. Framed(p, q)
  BY <1>3 DEF Activates
<1>5. Restated(q, r, AggregateTask(q))
  BY <1>4, ReaggregatedFields DEF Framed
<1>. HIDE DEF r
<1>6. p.ok
  BY <1>1, <1>4, <1>5 DEF Framed, Restated
<1>7. /\ Sound(p) /\ Opened(p) /\ Fresh(p) /\ Carried(p, {})
      /\ p.status = "PLANNED"
      /\ DOMAIN p.inst = DOMAIN d.members
      /\ \A s \in DOMAIN p.stages : p.stages[s].status # "CANCELLED"
      /\ DraftAgrees(d) => Agrees(p)
  BY <1>1, <1>6, NormalizedPlan DEF p
<1>8. Settles(p, r, {})
  BY <1>1, <1>2, <1>5, <1>7, ActivationSettles DEF q, Fresh
<1>9. p.status \notin OverStatuses /\ {} \subseteq DOMAIN p.inst
  BY <1>7 DEF OverStatuses, TaskTerminal
<1>10. /\ StateInv(r, {} \cup Succeeded(r), NoSnapshot)
       /\ Agrees(p) => ClaimsInv(r, {} \cup Succeeded(r), NoSnapshot)
  BY <1>7, <1>8, <1>9, FreeSettles
<1>11. IsPlan(r) /\ DOMAIN r.inst = DOMAIN p.inst
  BY <1>8 DEF Settles
<1>. QED
  BY <1>7, <1>10, <1>11 DEF r, q, p

Shifted(d, i) == NewInstance([d.members[i] EXCEPT !.stage = @ + Len(stages)])
ExtendedBase(d) ==
  [ok |-> DOMAIN d.members \cap DOMAIN inst = {}, status |-> status,
   stages |-> stages \o [s \in DOMAIN d.stages |-> NewStage(d.stages[s])],
   inst |-> [i \in DOMAIN inst \cup DOMAIN d.members |->
               IF i \in DOMAIN inst THEN inst[i] ELSE Shifted(d, i)]]

\* An appended member behind the landed stages.
LEMMA ShiftedFields ==
  ASSUME NEW d, IsDraft(d), Len(stages) \in Nat, NEW i \in DOMAIN d.members
  PROVE  /\ Shifted(d, i) \in InstanceType /\ SoundInstance(Shifted(d, i))
         /\ Shifted(d, i).status = "READY" /\ ~Shifted(d, i).finished
         /\ Shifted(d, i).board = "none" /\ ~Shifted(d, i).activated
         /\ Shifted(d, i).stage = d.members[i].stage + Len(stages)
         /\ Shifted(d, i).stage \in Nat /\ Shifted(d, i).stage > Len(stages)
         /\ Shifted(d, i).required = d.members[i].required
<1>. DEFINE x == d.members[i]
            n == Len(stages)
            y == [x EXCEPT !.stage = x.stage + n]
<1>1. x \in [stage : Nat \ {0}, required : BOOLEAN] /\ n \in Nat
  BY DEF IsDraft
<1>2. Shifted(d, i) = NewInstance(y)
  BY DEF Shifted
<1>. HIDE DEF x, n
<1>3. /\ y.stage = x.stage + n /\ y.required = x.required
      /\ y.stage \in Nat /\ y.stage > n /\ y.required \in BOOLEAN
  BY <1>1
<1>. HIDE DEF y
<1>. QED
  BY <1>2, <1>3, NewFields DEF x, n

\* An extended plan before its aggregation: what has landed is untouched.
LEMMA ExtendedSound ==
  ASSUME NEW d, IsDraft(d), NEW e, IsPlan(Current), ValidPlan(Current), Sound(Current),
         Opened(Current), Carried(Current, e)
  PROVE  LET b == ExtendedBase(d) IN
         /\ IsPlan(b) /\ Sound(b) /\ Opened(b) /\ Carried(b, e)
         /\ b.status = status
         /\ DOMAIN b.inst = DOMAIN inst \cup DOMAIN d.members
         /\ \A i \in DOMAIN inst : b.inst[i] = inst[i]
         /\ \A s \in DOMAIN b.stages : \/ s \in DOMAIN stages /\ b.stages[s] = stages[s]
                                       \/ b.stages[s].status = "PENDING"
         /\ ValidPlan(b) /\ Agrees(Current) /\ DraftAgrees(d) => Agrees(b)
<1>. DEFINE p == Current
            l == Len(stages)
            n == Len(d.stages)
            fresh == [s \in DOMAIN d.stages |-> NewStage(d.stages[s])]
            st == stages \o fresh
            in == [i \in DOMAIN inst \cup DOMAIN d.members |->
                     IF i \in DOMAIN inst THEN inst[i] ELSE Shifted(d, i)]
            o == DOMAIN d.members \cap DOMAIN inst = {}
            b == ExtendedBase(d)
<1>1. b = [ok |-> o, status |-> status, stages |-> st, inst |-> in]
  BY DEF ExtendedBase
<1>2. /\ n \in Nat /\ DOMAIN d.stages = 1..n
      /\ \A s \in DOMAIN d.stages :
           /\ d.stages[s].type \in StageKinds /\ d.stages[s].deps \in SUBSET Nat
           /\ d.stages[s].required \in BOOLEAN
  BY DraftFields
<1>3. \A s \in DOMAIN d.stages :
        /\ fresh[s] \in StageType /\ fresh[s].status = "PENDING" /\ ~fresh[s].downgraded
        /\ fresh[s].required = d.stages[s].required
  BY <1>2, NewFields
<1>4. fresh \in [1..n -> StageType]
  BY <1>2, <1>3
<1>5. fresh \in Seq(StageType) /\ DOMAIN fresh = 1..n /\ Len(fresh) = n
  <2>. HIDE DEF fresh, n
  <2>. QED
    BY <1>2, <1>4, StagesAreSeq
<1>6. /\ p.stages = stages /\ p.inst = inst /\ p.status = status /\ p.ok = TRUE
      /\ stages \in Seq(StageType) /\ l \in Nat /\ DOMAIN stages = 1..l
      /\ status \in TaskStatuses
      /\ \A i \in DOMAIN inst : inst[i] \in InstanceType
  BY CurrentFields, StageTyped, InstTyped DEF IsPlan
<1>7. \A i \in DOMAIN inst : inst[i].stage \in 1..l
  BY <1>6 DEF ValidPlan
<1>8. \A i \in DOMAIN d.members :
        /\ Shifted(d, i) \in InstanceType /\ SoundInstance(Shifted(d, i))
        /\ Shifted(d, i).status = "READY" /\ ~Shifted(d, i).finished
        /\ Shifted(d, i).board = "none" /\ ~Shifted(d, i).activated
        /\ Shifted(d, i).stage = d.members[i].stage + l
        /\ Shifted(d, i).stage \in Nat /\ Shifted(d, i).stage > l
        /\ Shifted(d, i).required = d.members[i].required
  BY <1>6, ShiftedFields
<1>9. /\ p = Current /\ IsPlan(p) /\ ValidPlan(p) /\ Sound(p) /\ Opened(p) /\ Carried(p, e)
  OBVIOUS
<1>. HIDE DEF p, fresh, l, n, b
<1>11. /\ st \in Seq(StageType) /\ DOMAIN st = 1..(l + n)
       /\ \A s \in 1..l : st[s] = stages[s]
       /\ \A s \in (l + 1)..(l + n) : st[s] = fresh[s - l]
  <2>1. Len(st) = l + n /\ st \in Seq(StageType)
    BY <1>5, <1>6, ConcatProperties DEF l
  <2>2. DOMAIN st = 1..(l + n)
    BY <2>1, LenProperties
  <2>3. \A s \in 1..(l + n) : st[s] = IF s <= l THEN stages[s] ELSE fresh[s - l]
    BY <1>2, <1>5, <1>6, ConcatProperties DEF l
  <2>. HIDE DEF st
  <2>. QED
    BY <1>2, <1>6, <2>1, <2>2, <2>3
<1>12. /\ DOMAIN in = DOMAIN inst \cup DOMAIN d.members
       /\ \A i \in DOMAIN inst : in[i] = inst[i]
       /\ \A i \in DOMAIN d.members \ DOMAIN inst : in[i] = Shifted(d, i)
  OBVIOUS
<1>. HIDE DEF st, in
<1>13. \A i \in DOMAIN in : in[i] \in InstanceType
  BY <1>6, <1>8, <1>12
<1>14. in \in [DOMAIN in -> InstanceType]
  <2>1. in = [i \in DOMAIN in |-> in[i]]
    BY DEF in
  <2>. QED
    BY <1>13, <2>1
<1>15. IsPlan(b) /\ b.status = status /\ b.stages = st /\ b.inst = in
  <2>1. o \in BOOLEAN
    OBVIOUS
  <2>. HIDE DEF o
  <2>. QED
    BY <1>1, <1>6, <1>11, <1>14, <2>1 DEF IsPlan
<1>16. \A i \in DOMAIN inst : AgentType(b, i) = AgentType(p, i)
  BY <1>6, <1>7, <1>11, <1>12, <1>15 DEF AgentType
<1>17. ASSUME NEW s \in 1..l
       PROVE  InstancesOf(b, s) = InstancesOf(p, s) /\ NeededOf(b, s) = NeededOf(p, s)
  <2>1. \A i \in DOMAIN d.members \ DOMAIN inst : in[i].stage # s
    BY <1>6, <1>8, <1>12
  <2>2. InstancesOf(b, s) = InstancesOf(p, s)
    BY <1>6, <1>12, <1>15, <2>1 DEF InstancesOf
  <2>3. \A i \in InstancesOf(p, s) : b.inst[i] = p.inst[i]
    BY <1>6, <1>12, <1>15 DEF InstancesOf
  <2>. QED
    BY <2>2, <2>3 DEF NeededOf
<1>18. \A s \in DOMAIN st : \/ s \in 1..l /\ st[s] = stages[s]
                           \/ /\ s - l \in DOMAIN d.stages /\ s \notin 1..l
                              /\ st[s].status = "PENDING" /\ ~st[s].downgraded
                              /\ st[s].required = d.stages[s - l].required
  <2>1. ASSUME NEW s \in (l + 1)..(l + n)
        PROVE  /\ s - l \in DOMAIN d.stages /\ s \notin 1..l
               /\ st[s] = fresh[s - l]
    BY <1>2, <1>6, <1>11
  <2>2. ASSUME NEW s \in (l + 1)..(l + n)
        PROVE  /\ st[s].status = "PENDING" /\ ~st[s].downgraded
               /\ st[s].required = d.stages[s - l].required
    BY <1>3, <2>1
  <2>3. \A s \in DOMAIN st : s \in 1..l \/ s \in (l + 1)..(l + n)
    BY <1>2, <1>6, <1>11
  <2>. QED
    BY <1>11, <2>1, <2>2, <2>3
<1>19. Sound(b)
  <2>1. \A i \in Images(b) : in[i].finished <=> in[i].board = "COMPLETED"
    <3>1. SUFFICES ASSUME NEW i \in DOMAIN in, AgentType(b, i) = "image"
                   PROVE  in[i].finished <=> in[i].board = "COMPLETED"
      BY <1>15 DEF Images
    <3>2. CASE i \in DOMAIN inst
      <4>1. i \in Images(p)
        BY <1>6, <1>16, <3>1, <3>2 DEF Images
      <4>. QED
        BY <1>6, <1>9, <1>12, <3>2, <4>1 DEF Sound, Boards
    <3>3. CASE i \notin DOMAIN inst
      BY <1>8, <1>12, <3>3
    <3>. QED
      BY <3>2, <3>3
  <2>2. \A i \in DOMAIN in : SoundInstance(in[i])
    BY <1>6, <1>8, <1>9, <1>12 DEF Sound
  <2>3. ASSUME NEW s \in DOMAIN st, st[s].downgraded
        PROVE  \E i \in InstancesOf(b, s) : b.inst[i].original /\ b.inst[i].downgraded
    <3>1. s \in 1..l /\ st[s] = stages[s]
      BY <1>18, <2>3
    <3>2. PICK i \in InstancesOf(p, s) : p.inst[i].original /\ p.inst[i].downgraded
      BY <1>6, <1>9, <2>3, <3>1 DEF Sound
    <3>. QED
      BY <1>6, <1>12, <1>15, <1>17, <3>1, <3>2 DEF InstancesOf
  <2>. QED
    BY <1>15, <2>1, <2>2, <2>3 DEF Sound, Boards
<1>20. Opened(b)
  <2>1. ASSUME NEW i \in DOMAIN in, AgentType(b, i) = "ppt", in[i].activated
        PROVE  st[in[i].stage].activated
    <3>1. i \in DOMAIN inst
      BY <1>8, <1>12, <2>1
    <3>2. stages[inst[i].stage].activated
      BY <1>6, <1>9, <1>12, <1>16, <2>1, <3>1 DEF Opened
    <3>. QED
      BY <1>7, <1>11, <1>12, <3>1, <3>2
  <2>. QED
    BY <1>15, <2>1 DEF Opened
<1>21. Carried(b, e)
  <2>1. ASSUME NEW s \in DOMAIN st PROVE CarriedStage(b, s, e)
    <3>1. CASE s \in 1..l /\ st[s] = stages[s]
      <4>1. CarriedStage(p, s, e)
        BY <1>6, <1>9, <3>1 DEF Carried
      <4>2. NeededOf(b, s) = NeededOf(p, s)
        BY <1>17, <3>1
      <4>3. \A i \in NeededOf(p, s) : b.inst[i] = p.inst[i]
        BY <1>6, <1>12, <1>15 DEF NeededOf, InstancesOf
      <4>. QED
        BY <1>6, <1>15, <3>1, <4>1, <4>2, <4>3 DEF CarriedStage
    <3>2. CASE st[s].status = "PENDING"
      BY <1>15, <3>2 DEF CarriedStage
    <3>. QED
      BY <1>18, <3>1, <3>2
  <2>. QED
    BY <1>15, <2>1 DEF Carried
<1>22. ASSUME ValidPlan(b), Agrees(p), DraftAgrees(d), NEW i \in DOMAIN in, in[i].required
       PROVE  st[in[i].stage].required
  <2>1. CASE i \in DOMAIN inst
    <3>1. stages[inst[i].stage].required
      BY <1>6, <1>12, <1>22, <2>1 DEF Agrees
    <3>. QED
      BY <1>7, <1>11, <1>12, <2>1, <3>1
  <2>2. CASE i \notin DOMAIN inst
    <3>1. i \in DOMAIN d.members /\ in[i] = Shifted(d, i)
      BY <1>12, <2>2
    <3>2. in[i].stage \in DOMAIN st
      BY <1>15, <1>22 DEF ValidPlan
    <3>3. /\ in[i].stage = d.members[i].stage + l /\ in[i].stage > l
          /\ d.members[i].required /\ d.members[i].stage \in Nat
      BY <1>8, <1>22, <3>1, DraftFields
    <3>4. in[i].stage - l = d.members[i].stage
      BY <1>6, <3>3
    <3>5. /\ d.members[i].stage \in DOMAIN d.stages
          /\ st[in[i].stage].required = d.stages[d.members[i].stage].required
      BY <1>6, <1>18, <3>2, <3>3, <3>4
    <3>. QED
      BY <1>22, <3>1, <3>3, <3>5 DEF DraftAgrees
  <2>. QED
    BY <2>1, <2>2
<1>23. ValidPlan(b) /\ Agrees(p) /\ DraftAgrees(d) => Agrees(b)
  BY <1>15, <1>22 DEF Agrees
<1>. QED
  BY <1>6, <1>9, <1>12, <1>15, <1>18, <1>19, <1>20, <1>21, <1>23 DEF b

\* The intent of a task that is neither archived nor being archived.
LEMMA NoIntent ==
  ASSUME Unlocked
  PROVE  /\ frozen = NoSnapshot /\ status # "ARCHIVED"
         /\ frozen.status = "NONE" /\ DOMAIN frozen.inst = {}
         /\ Dead(Current, frozen) <=> status = "CANCELLED"
BY CurrentFields DEF Unlocked, Archiving, NoSnapshot, Dead

\* save_plan, mode append.
LEMMA AppendKeeps ==
  ASSUME StateInv(Current, earned, frozen), Unlocked, status \in {"RUNNING", "WAITING_APPROVAL"},
         NEW d, IsDraft(d), ValidPlan(Extended(d)),
         Reaggregated(ActivateCurrentStages(Extended(d))).ok
  PROVE  LET r == Reaggregated(ActivateCurrentStages(Extended(d))) IN
         /\ StateInv(r, earned \cup Succeeded(r), frozen)
         /\ DOMAIN r.inst = DOMAIN inst \cup DOMAIN d.members
         /\ \A i \in DOMAIN inst : /\ r.inst[i].status = inst[i].status
                                   /\ r.inst[i].stage = inst[i].stage
         /\ ClaimsInv(Current, earned, frozen) /\ DraftAgrees(d) =>
              ClaimsInv(r, earned \cup Succeeded(r), frozen)
<1>. DEFINE b == ExtendedBase(d)
            p == Extended(d)
            q == ActivateCurrentStages(p)
            r == Reaggregated(q)
            e == earned \cup Succeeded(p)
<1>1. /\ IsPlan(Current) /\ ValidPlan(Current) /\ Sound(Current) /\ Opened(Current)
      /\ Carried(Current, earned) /\ Fresh(Current)
      /\ Succeeded(Current) \subseteq earned /\ earned \subseteq DOMAIN inst
      /\ \A s \in DOMAIN stages : stages[s].status # "CANCELLED"
      /\ frozen = NoSnapshot
  BY NoIntent, CurrentFields DEF StateInv, Settled
<1>2. p = RefreshStages(b, FALSE)
  BY DEF Extended, ExtendedBase, Shifted
<1>3. r.ok /\ ValidPlan(p) /\ q = ActivateCurrentStages(p) /\ r = Reaggregated(q)
  OBVIOUS
<1>. HIDE DEF p, b
<1>4. /\ IsPlan(b) /\ Sound(b) /\ Opened(b) /\ Carried(b, earned)
      /\ b.status = status
      /\ DOMAIN b.inst = DOMAIN inst \cup DOMAIN d.members
      /\ \A i \in DOMAIN inst : b.inst[i] = inst[i]
      /\ \A s \in DOMAIN b.stages : b.stages[s].status # "CANCELLED"
      /\ ValidPlan(b) /\ Agrees(Current) /\ DraftAgrees(d) => Agrees(b)
  BY <1>1, ExtendedSound DEF b
<1>5. Framed(b, p)
  BY <1>2, <1>4, RefreshFrame
<1>6. ValidPlan(b) /\ IsPlan(p)
  BY <1>3, <1>5, FramedKeeps DEF Framed
<1>7. Refreshed(b, p, FALSE)
  BY <1>2, <1>4, <1>6, RefreshFacts
<1>8. Activates(p, q) /\ IsPlan(q)
  BY <1>3, <1>6, ActivateFacts DEF Activates, Framed
<1>9. Restated(q, r, AggregateTask(q))
  BY <1>3, <1>8, ReaggregatedFields
<1>10. p.ok
  BY <1>3, <1>8, <1>9 DEF Restated, Activates
<1>11. /\ Aggregated(b, p) /\ Sound(p) /\ Opened(p)
       /\ Agrees(b) => Agrees(p)
       /\ \A s \in DOMAIN p.stages : FreshStage(p, s) \/ DependenciesAuthorized(p, s)
  BY <1>4, <1>5, <1>6, <1>7, <1>10, RefreshedAggregates, NormalizedFresh, FramedSound
<1>12. Carried(p, e)
  BY <1>4, <1>6, <1>11, AggregatedKeeps
<1>13. \A s \in DOMAIN p.stages : p.stages[s].status # "CANCELLED"
  BY <1>4, <1>5, <1>6, <1>11, AggregatedKeeps DEF Framed
<1>14. Settles(p, r, e)
  BY <1>3, <1>6, <1>9, <1>11, <1>12, ActivationSettles
<1>15. /\ p.status \notin OverStatuses /\ e \subseteq DOMAIN p.inst
       /\ DOMAIN p.inst = DOMAIN inst \cup DOMAIN d.members
  BY <1>1, <1>4, <1>5 DEF Framed, OverStatuses, TaskTerminal, Succeeded
<1>16. /\ DOMAIN r.inst = DOMAIN p.inst
       /\ \A i \in DOMAIN inst : r.inst[i].status = inst[i].status /\ r.inst[i].stage = inst[i].stage
       /\ \A i \in DOMAIN p.inst : r.inst[i].status = p.inst[i].status
  BY <1>4, <1>5, <1>14, <1>15 DEF Settles, Framed, SameInstance
<1>17. e \cup Succeeded(r) = earned \cup Succeeded(r)
  BY <1>16 DEF Succeeded
<1>18. /\ StateInv(r, e \cup Succeeded(r), NoSnapshot)
       /\ Agrees(p) => ClaimsInv(r, e \cup Succeeded(r), NoSnapshot)
  BY <1>13, <1>14, <1>15, FreeSettles
<1>19. ClaimsInv(Current, earned, frozen) /\ DraftAgrees(d) => Agrees(p)
  BY <1>4, <1>6, <1>11 DEF ClaimsInv
<1>. QED
  BY <1>1, <1>3, <1>15, <1>16, <1>17, <1>18, <1>19 DEF p

\* confirm_start.
LEMMA ConfirmKeeps ==
  ASSUME StateInv(Current, earned, frozen), Unlocked, status = "AWAITING_START_CONFIRMATION",
         Started(ActivateCurrentStages(Current)).ok
  PROVE  LET r == Started(ActivateCurrentStages(Current)) IN
         /\ StateInv(r, earned \cup Succeeded(r), frozen)
         /\ IsPlan(r) /\ DOMAIN r.inst = DOMAIN inst
         /\ \A i \in DOMAIN inst : /\ r.inst[i].status = inst[i].status
                                   /\ r.inst[i].stage = inst[i].stage
         /\ ClaimsInv(Current, earned, frozen) => ClaimsInv(r, earned \cup Succeeded(r), frozen)
<1>. DEFINE p == Current
            q == ActivateCurrentStages(p)
            r == Started(q)
<1>1. /\ IsPlan(p) /\ ValidPlan(p) /\ Sound(p) /\ Opened(p)
      /\ Carried(p, earned) /\ Fresh(p) /\ earned \subseteq DOMAIN p.inst
      /\ \A s \in DOMAIN p.stages : p.stages[s].status # "CANCELLED"
      /\ frozen = NoSnapshot /\ p.inst = inst
      /\ p.status \notin OverStatuses
  BY NoIntent, CurrentFields DEF StateInv, Settled, OverStatuses, TaskTerminal
<1>2. r.ok /\ q = ActivateCurrentStages(p) /\ r = Started(q)
  OBVIOUS
<1>. HIDE DEF p
<1>3. Activates(p, q) /\ IsPlan(q)
  BY <1>1, <1>2, ActivateFacts DEF Activates, Framed
<1>4. Restated(q, r, AggregateTask(q))
  BY <1>2, <1>3, ReaggregatedFields
<1>5. Settles(p, r, earned)
  BY <1>1, <1>2, <1>4, ActivationSettles DEF Fresh
<1>6. /\ StateInv(r, earned \cup Succeeded(r), NoSnapshot)
      /\ Agrees(p) => ClaimsInv(r, earned \cup Succeeded(r), NoSnapshot)
  BY <1>1, <1>5, FreeSettles
<1>7. /\ IsPlan(r) /\ DOMAIN r.inst = DOMAIN inst
      /\ \A i \in DOMAIN inst : r.inst[i].status = inst[i].status /\ r.inst[i].stage = inst[i].stage
  BY <1>1, <1>5 DEF Settles, SameInstance
<1>8. ClaimsInv(p, earned, frozen) => Agrees(p)
  BY DEF ClaimsInv
<1>. QED
  BY <1>1, <1>6, <1>7, <1>8 DEF p

(***************************************************************************)
(* Edits that no transition and no aggregation follows: the completion     *)
(* gate, the business status and the cards.                                *)
(***************************************************************************)

\* q is p with other boards, gates or cards, whose Image gates still agree with their boards.
Edited(p, q) ==
  /\ IsPlan(q) /\ Boards(q)
  /\ q.status = p.status /\ q.stages = p.stages /\ DOMAIN q.inst = DOMAIN p.inst
  /\ \A i \in DOMAIN p.inst :
       /\ q.inst[i].stage = p.inst[i].stage /\ q.inst[i].required = p.inst[i].required
       /\ q.inst[i].original = p.inst[i].original /\ q.inst[i].activated = p.inst[i].activated
       /\ q.inst[i].downgraded = p.inst[i].downgraded /\ q.inst[i].status = p.inst[i].status
       /\ q.inst[i].rejected = p.inst[i].rejected

\* What the stages show does not depend on boards, gates and cards.
LEMMA EditedKeeps ==
  ASSUME NEW p, NEW e, NEW z, StateInv(p, e, z), NEW q, Edited(p, q)
  PROVE  /\ StateInv(q, e, z)
         /\ ClaimsInv(p, e, z) => ClaimsInv(q, e, z)
         /\ Succeeded(q) = Succeeded(p)
<1>1. /\ IsPlan(p) /\ ValidPlan(p) /\ Sound(p) /\ Opened(p) /\ Carried(p, e)
      /\ Dead(p, z) \/ Fresh(p)
      /\ \A s \in DOMAIN p.stages : p.stages[s].status = "CANCELLED" => Dead(p, z)
      /\ Succeeded(p) \subseteq e /\ e \subseteq DOMAIN p.inst
      /\ Snapshot(p, z) /\ Early(p) /\ Over(p, z) /\ TaskFollows(p)
  BY DEF StateInv, Settled
<1>2. Succeeded(q) = Succeeded(p)
  BY DEF Edited, Succeeded
<1>3. /\ \A s : InstancesOf(q, s) = InstancesOf(p, s) /\ NeededOf(q, s) = NeededOf(p, s)
      /\ \A i \in DOMAIN p.inst : AgentType(q, i) = AgentType(p, i)
  BY DEF Edited, InstancesOf, NeededOf, AgentType
<1>4. ValidPlan(q)
  BY <1>1, <1>3 DEF Edited, ValidPlan
<1>5. Sound(q)
  <2>1. \A i \in DOMAIN p.inst : SoundInstance(q.inst[i])
    BY <1>1 DEF Edited, Sound, SoundInstance
  <2>2. \A s \in DOMAIN p.stages : q.stages[s].downgraded =>
          \E i \in InstancesOf(q, s) : q.inst[i].original /\ q.inst[i].downgraded
    BY <1>1, <1>3 DEF Edited, Sound, InstancesOf
  <2>. QED
    BY <2>1, <2>2 DEF Edited, Sound
<1>6. Opened(q)
  BY <1>1, <1>3 DEF Edited, Opened
<1>7. Carried(q, e)
  <2>1. ASSUME NEW s \in DOMAIN p.stages PROVE CarriedStage(q, s, e)
    BY <1>1, <1>3, <2>1 DEF Edited, Carried, CarriedStage, NeededOf, InstancesOf
  <2>. QED
    BY <2>1 DEF Carried, Edited
<1>8. Fresh(p) => Fresh(q)
  <2>1. ASSUME NEW s PROVE /\ StatusesOf(q, InstancesOf(q, s)) = StatusesOf(p, InstancesOf(p, s))
                           /\ StatusesOf(q, NeededOf(q, s)) = StatusesOf(p, NeededOf(p, s))
    BY <1>3 DEF Edited, StatusesOf, InstancesOf, NeededOf
  <2>2. \A old, s : MembersSay(old, q, s) = MembersSay(old, p, s)
    BY <1>3, <2>1 DEF Edited, MembersSay
  <2>3. \A s : Delivered(q, s) <=> Delivered(p, s)
    BY DEF Edited, Delivered
  <2>. QED
    BY <2>2, <2>3 DEF Fresh, FreshStage, Edited
<1>9. SameChildren(p, q)
  BY DEF SameChildren, Edited
<1>10. TaskFollows(q)
  BY <1>1, <1>9, TaskSaysSame, AggregateTaskIs DEF TaskFollows, Edited
<1>11. Dead(q, z) <=> Dead(p, z)
  BY DEF Dead, Edited
<1>12. Settled(q, e, z)
  BY <1>1, <1>2, <1>4, <1>5, <1>6, <1>7, <1>8, <1>11 DEF Settled, Edited
<1>13. Snapshot(q, z)
  BY <1>1, <1>11 DEF Snapshot, Edited
<1>14. Early(q) /\ Over(q, z)
  BY <1>1, <1>11 DEF Early, Over, Edited
<1>15. ClaimsInv(p, e, z) => ClaimsInv(q, e, z)
  <2>1. Agrees(p) => Agrees(q)
    BY DEF Agrees, Edited
  <2>2. \A st : Done(st, p, e) => Done(st, q, e)
    BY DEF Done, Edited
  <2>. QED
    BY <2>1, <2>2 DEF ClaimsInv, Edited
<1>. QED
  BY <1>2, <1>10, <1>12, <1>13, <1>14, <1>15 DEF StateInv

\* y is x with another gate, board or card.
SameWork(x, y) ==
  /\ y.stage = x.stage /\ y.required = x.required /\ y.original = x.original
  /\ y.activated = x.activated /\ y.downgraded = x.downgraded /\ y.status = x.status
  /\ y.rejected = x.rejected
\* g is f with such an instance at i.
Rewritten(f, g, i) ==
  /\ g \in [DOMAIN f -> InstanceType] /\ DOMAIN g = DOMAIN f
  /\ SameWork(f[i], g[i])
  /\ \A j \in DOMAIN f \ {i} : g[j] = f[j]

\* The fields an edit writes.
BoardKinds == {"none", "OPEN", "COMPLETED"}
\* A write to the board of one instance.
LEMMA BoardWritten ==
  ASSUME NEW f, f \in [DOMAIN f -> InstanceType], NEW i \in DOMAIN f, NEW b \in BoardKinds
  PROVE  LET g == [f EXCEPT ![i].board = b] IN
         Rewritten(f, g, i) /\ g[i].board = b /\ g[i].finished = f[i].finished
<1>. DEFINE y == [f[i] EXCEPT !.board = b]
            g == [f EXCEPT ![i] = y]
<1>1. y \in InstanceType /\ SameWork(f[i], y) /\ y.board = b /\ y.finished = f[i].finished
  BY DEF InstanceType, SameWork, BoardKinds
<1>. HIDE DEF y
<1>2. Rewritten(f, g, i) /\ g[i] = y
  BY <1>1 DEF Rewritten
<1>3. g = [f EXCEPT ![i].board = b]
  BY DEF y
<1>. HIDE DEF g
<1>. QED
  BY <1>1, <1>2, <1>3

\* A write to the completion gate of one instance.
LEMMA FinishedWritten ==
  ASSUME NEW f, f \in [DOMAIN f -> InstanceType], NEW i \in DOMAIN f, NEW b \in BOOLEAN
  PROVE  LET g == [f EXCEPT ![i].finished = b] IN
         Rewritten(f, g, i) /\ g[i].finished = b /\ g[i].board = f[i].board
<1>. DEFINE y == [f[i] EXCEPT !.finished = b]
            g == [f EXCEPT ![i] = y]
<1>1. y \in InstanceType /\ SameWork(f[i], y) /\ y.finished = b /\ y.board = f[i].board
  BY DEF InstanceType, SameWork
<1>. HIDE DEF y
<1>2. Rewritten(f, g, i) /\ g[i] = y
  BY <1>1 DEF Rewritten
<1>3. g = [f EXCEPT ![i].finished = b]
  BY DEF y
<1>. HIDE DEF g
<1>. QED
  BY <1>1, <1>2, <1>3

\* A write to the card of an instance.
LEMMA CardWritten ==
  ASSUME NEW x \in InstanceType, NEW c \in 1..MaxCard
  PROVE  LET y == [x EXCEPT !.card = c] IN
         /\ y \in InstanceType /\ SameWork(x, y) /\ y.finished = x.finished /\ y.board = x.board
BY DEF InstanceType, SameWork

\* Two writes to one instance.
LEMMA RewrittenTwice ==
  ASSUME NEW f, NEW g, NEW h, NEW i \in DOMAIN f, Rewritten(f, g, i), Rewritten(g, h, i)
  PROVE  Rewritten(f, h, i)
BY DEF Rewritten, SameWork

\* The next plan, when an edit changes instances only.
LEMMA EditPlan ==
  ASSUME StateInv(Current, earned, frozen), status' = status, stages' = stages,
         inst' \in [DOMAIN inst -> InstanceType], DOMAIN inst' = DOMAIN inst,
         \A i \in DOMAIN inst : SameWork(inst[i], inst'[i]),
         \A i \in Images(Current) : inst'[i].finished <=> inst'[i].board = "COMPLETED"
  PROVE  Edited(Current, Current')
<1>. DEFINE p == Current
            q == [ok |-> TRUE, status |-> status, stages |-> stages, inst |-> inst']
<1>1. Current' = q
  BY DEF Current
<1>2. q.ok = TRUE /\ q.status = status /\ q.stages = stages /\ q.inst = inst'
  OBVIOUS
<1>3. IsPlan(p) /\ p.status = status /\ p.stages = stages /\ p.inst = inst
  BY CurrentFields DEF StateInv, Settled
<1>4. q = [ok |-> q.ok, status |-> q.status, stages |-> q.stages, inst |-> q.inst]
  OBVIOUS
<1>. HIDE DEF p, q
<1>5. IsPlan(q)
  BY <1>2, <1>3, <1>4 DEF IsPlan
<1>6. \A i \in DOMAIN inst : AgentType(q, i) = AgentType(p, i)
  BY <1>2, <1>3 DEF AgentType, SameWork
<1>7. Images(q) = Images(p)
  BY <1>2, <1>3, <1>6 DEF Images
<1>8. Boards(q)
  BY <1>2, <1>7 DEF Boards, p
<1>9. Edited(p, q)
  BY <1>2, <1>3, <1>5, <1>8 DEF Edited, SameWork
<1>. QED
  BY <1>1, <1>9 DEF p

\* set_manual_finished.
LEMMA FinishedEdits ==
  ASSUME StateInv(Current, earned, frozen), NEW i \in DOMAIN inst, NEW done \in BOOLEAN,
         SetManualFinished(i, done)
  PROVE  Edited(Current, Current')
<1>. DEFINE g == [inst EXCEPT ![i].finished = done]
            b == IF done THEN "COMPLETED" ELSE "none"
            h == [g EXCEPT ![i].board = b]
<1>1. /\ inst \in [DOMAIN inst -> InstanceType] /\ b \in BoardKinds
      /\ \A j \in Images(Current) : inst[j].finished <=> inst[j].board = "COMPLETED"
      /\ Images(Current) \subseteq DOMAIN inst
  BY CurrentFields DEF StateInv, Settled, IsPlan, Sound, Boards, Images, BoardKinds
<1>2. inst' = h /\ status' = status /\ stages' = stages
  BY DEF SetManualFinished
<1>3. Rewritten(inst, g, i) /\ g[i].finished = done
  BY <1>1, FinishedWritten
<1>. HIDE DEF b, g
<1>4. Rewritten(g, h, i) /\ h[i].board = b /\ h[i].finished = done
  <2>1. g \in [DOMAIN g -> InstanceType] /\ i \in DOMAIN g
    BY <1>3 DEF Rewritten
  <2>. QED
    BY <1>1, <1>3, <2>1, BoardWritten
<1>. HIDE DEF h
<1>5. Rewritten(inst, h, i)
  BY <1>3, <1>4, RewrittenTwice
<1>6. h[i].finished <=> h[i].board = "COMPLETED"
  BY <1>4 DEF b
<1>7. \A j \in Images(Current) : h[j].finished <=> h[j].board = "COMPLETED"
  BY <1>1, <1>5, <1>6 DEF Rewritten
<1>8. \A j \in DOMAIN inst : SameWork(inst[j], h[j])
  BY <1>5 DEF Rewritten, SameWork
<1>. QED
  BY <1>2, <1>5, <1>7, <1>8, EditPlan DEF Rewritten

\* set_manual_business_status.
LEMMA BoardEdits ==
  ASSUME StateInv(Current, earned, frozen), NEW i \in DOMAIN inst,
         NEW board \in {"OPEN", "COMPLETED"}, SetManualBusinessStatus(i, board)
  PROVE  Edited(Current, Current')
<1>. DEFINE g == [inst EXCEPT ![i].board = board]
            b == IF AgentType(Current, i) = "image" THEN board = "COMPLETED" ELSE g[i].finished
            h == [g EXCEPT ![i].finished = b]
<1>1. /\ inst \in [DOMAIN inst -> InstanceType] /\ inst[i].finished \in BOOLEAN
      /\ \A j \in Images(Current) : inst[j].finished <=> inst[j].board = "COMPLETED"
      /\ Images(Current) = {j \in DOMAIN inst : AgentType(Current, j) = "image"}
  BY CurrentFields, InstTyped DEF StateInv, Settled, IsPlan, Sound, Boards, Images
<1>2. inst' = h /\ status' = status /\ stages' = stages
  BY <1>1 DEF SetManualBusinessStatus
<1>3. Rewritten(inst, g, i) /\ g[i].board = board /\ g[i].finished = inst[i].finished
  <2>1. board \in BoardKinds
    BY DEF BoardKinds
  <2>. QED
    BY <1>1, <2>1, BoardWritten
<1>. HIDE DEF g
<1>4. b \in BOOLEAN
  BY <1>1, <1>3
<1>5. AgentType(Current, i) = "image" => (b <=> board = "COMPLETED")
  OBVIOUS
<1>. HIDE DEF b
<1>6. Rewritten(g, h, i) /\ h[i].board = board /\ h[i].finished = b
  BY <1>1, <1>3, <1>4, FinishedWritten DEF Rewritten
<1>. HIDE DEF h
<1>7. Rewritten(inst, h, i)
  BY <1>3, <1>6, RewrittenTwice
<1>8. \A j \in Images(Current) : h[j].finished <=> h[j].board = "COMPLETED"
  BY <1>1, <1>5, <1>6, <1>7 DEF Rewritten
<1>9. \A j \in DOMAIN inst : SameWork(inst[j], h[j])
  BY <1>7 DEF Rewritten, SameWork
<1>. QED
  BY <1>2, <1>7, <1>8, <1>9, EditPlan DEF Rewritten

\* save_plan, mode merge.
LEMMA MergeEdits ==
  ASSUME StateInv(Current, earned, frozen), NEW cards \in [DOMAIN inst -> 1..MaxCard],
         MergePlan(cards)
  PROVE  Edited(Current, Current')
<1>1. /\ inst \in [DOMAIN inst -> InstanceType]
      /\ \A j \in Images(Current) : inst[j].finished <=> inst[j].board = "COMPLETED"
      /\ Images(Current) \subseteq DOMAIN inst
  BY CurrentFields DEF StateInv, Settled, IsPlan, Sound, Boards, Images
<1>2. /\ status' = status /\ stages' = stages
      /\ inst' = [i \in DOMAIN inst |-> IF inst[i].status \in {"READY", "UNAVAILABLE"}
                                        THEN Carded(inst[i], cards[i]) ELSE inst[i]]
  BY DEF MergePlan, Carded
<1>3. ASSUME NEW i \in DOMAIN inst
      PROVE  /\ inst'[i] \in InstanceType /\ SameWork(inst[i], inst'[i])
             /\ inst'[i].finished = inst[i].finished /\ inst'[i].board = inst[i].board
  <2>1. /\ Carded(inst[i], cards[i]) \in InstanceType /\ SameWork(inst[i], Carded(inst[i], cards[i]))
        /\ Carded(inst[i], cards[i]).finished = inst[i].finished
        /\ Carded(inst[i], cards[i]).board = inst[i].board
    BY <1>1, CardWritten DEF Carded
  <2>2. inst'[i] = Carded(inst[i], cards[i]) \/ inst'[i] = inst[i]
    BY <1>2
  <2>3. SameWork(inst[i], inst[i])
    BY DEF SameWork
  <2>. QED
    BY <1>1, <2>1, <2>2, <2>3
<1>4. inst' \in [DOMAIN inst -> InstanceType] /\ DOMAIN inst' = DOMAIN inst
  BY <1>2, <1>3
<1>. QED
  BY <1>1, <1>2, <1>3, <1>4, EditPlan

(***************************************************************************)
(* Changes of the task status and of the archive intent alone.             *)
(***************************************************************************)

LEMMA StatusKeeps ==
  ASSUME NEW p, NEW e, NEW z, StateInv(p, e, z), NEW r, NEW t, Restated(p, r, t),
         NEW y, Snapshot(r, y), Early(r), TaskFollows(r), Dead(r, y) <=> Dead(p, z)
  PROVE  /\ StateInv(r, e, y)
         /\ /\ ClaimsInv(p, e, z)
            /\ t \in {p.status, z.status, "DRAFT", "ARCHIVED"}
            /\ y.status \in {z.status, "NONE"}
            => ClaimsInv(r, e, y)
<1>1. /\ IsPlan(p) /\ ValidPlan(p) /\ Sound(p) /\ Opened(p) /\ Carried(p, e)
      /\ Dead(p, z) \/ Fresh(p)
      /\ \A s \in DOMAIN p.stages : p.stages[s].status = "CANCELLED" => Dead(p, z)
      /\ Succeeded(p) \subseteq e /\ e \subseteq DOMAIN p.inst
      /\ Over(p, z)
  BY DEF StateInv, Settled
<1>2. /\ ValidPlan(r) /\ Sound(r) /\ Opened(r) /\ Carried(r, e)
      /\ Fresh(p) => Fresh(r)
      /\ Succeeded(r) = Succeeded(p)
      /\ Agrees(p) => Agrees(r)
      /\ \A st : Done(st, p, e) => Done(st, r, e)
  BY <1>1, RestatedKeeps
<1>3. IsPlan(r) /\ r.status = t /\ r.stages = p.stages /\ r.inst = p.inst
  BY DEF Restated
<1>4. Settled(r, e, y)
  BY <1>1, <1>2, <1>3 DEF Settled
<1>5. Over(r, y)
  BY <1>1, <1>3 DEF Over
<1>6. \A st : st \in {"NONE", "DRAFT", "ARCHIVED"} => Done(st, r, e)
  BY DEF Done
<1>7. ASSUME ClaimsInv(p, e, z), t \in {p.status, z.status, "DRAFT", "ARCHIVED"},
             y.status \in {z.status, "NONE"}
      PROVE  ClaimsInv(r, e, y)
  BY <1>2, <1>3, <1>6, <1>7 DEF ClaimsInv
<1>. QED
  BY <1>4, <1>5, <1>7 DEF StateInv

\* The next plan, when the status of the task alone changes.
LEMMA StatusPlan ==
  ASSUME IsPlan(Current), NEW t \in TaskStatuses, status' = t, stages' = stages, inst' = inst
  PROVE  Restated(Current, Current', t)
<1>. DEFINE p == Current
            q == [ok |-> TRUE, status |-> t, stages |-> stages, inst |-> inst]
<1>1. Current' = q
  BY DEF Current
<1>2. /\ p.stages = stages /\ p.inst = inst /\ p.ok = TRUE
      /\ q.ok = TRUE /\ q.status = t /\ q.stages = stages /\ q.inst = inst
      /\ q = [ok |-> q.ok, status |-> q.status, stages |-> q.stages, inst |-> q.inst]
  BY CurrentFields
<1>3. IsPlan(p)
  OBVIOUS
<1>. HIDE DEF p, q
<1>4. Restated(p, q, t)
  BY <1>2, <1>3 DEF Restated, IsPlan
<1>. QED
  BY <1>1, <1>4 DEF p

\* A plan without stages has no instances.
LEMMA NoStages ==
  ASSUME NEW p, ValidPlan(p), p.stages = <<>>
  PROVE  DOMAIN p.inst = {}
BY DEF ValidPlan

\* create_task.
LEMMA CreateKeeps ==
  ASSUME StateInv(Current, earned, frozen), NEW mode, CreateTask(mode)
  PROVE  /\ StateInv(Current', earned, frozen)
         /\ ClaimsInv(Current, earned, frozen) => ClaimsInv(Current', earned, frozen)
<1>. DEFINE p == Current
            r == Current'
            t == "DRAFT"
<1>1. /\ p.status = "NONE" /\ status' = t /\ stages' = stages /\ inst' = inst
      /\ StateInv(p, earned, frozen)
  BY CurrentFields DEF CreateTask
<1>2. IsPlan(p) /\ p.stages = <<>> /\ Snapshot(p, frozen)
  BY <1>1 DEF StateInv, Settled, Early
<1>3. t \in TaskStatuses
  BY Catalog
<1>4. Restated(p, r, t)
  BY <1>1, <1>2, <1>3, StatusPlan
<1>. HIDE DEF p, r
<1>5. r.status = "DRAFT" /\ r.stages = <<>> /\ r.inst = p.inst
  BY <1>2, <1>4 DEF Restated
<1>6. Dead(r, frozen) <=> Dead(p, frozen)
  BY <1>1, <1>5 DEF Dead
<1>7. Snapshot(r, frozen)
  BY <1>1, <1>2, <1>5, <1>6 DEF Snapshot, TaskTerminal
<1>8. Early(r) /\ TaskFollows(r)
  BY <1>5 DEF Early, TaskFollows
<1>. QED
  BY <1>1, <1>4, <1>6, <1>7, <1>8, StatusKeeps DEF p, r

\* archive_task, the domain command.
LEMMA ArchiveKeeps ==
  ASSUME StateInv(Current, earned, frozen), ArchiveTask
  PROVE  /\ StateInv(Current', earned, frozen)
         /\ ClaimsInv(Current, earned, frozen) => ClaimsInv(Current', earned, frozen)
<1>. DEFINE p == Current
            r == Current'
            t == "ARCHIVED"
<1>1. /\ p.status # "ARCHIVED" /\ status' = t /\ stages' = stages /\ inst' = inst
      /\ StateInv(p, earned, frozen) /\ frozen # NoSnapshot
  BY CurrentFields DEF ArchiveTask, Archiving
<1>2. IsPlan(p) /\ Snapshot(p, frozen)
  BY <1>1 DEF StateInv, Settled
<1>3. t \in TaskStatuses
  BY Catalog
<1>4. Restated(p, r, t)
  BY <1>1, <1>2, <1>3, StatusPlan
<1>. HIDE DEF p, r
<1>5. r.status = "ARCHIVED" /\ r.inst = p.inst
  BY <1>4 DEF Restated
<1>6. Dead(r, frozen) <=> Dead(p, frozen)
  BY <1>1, <1>2, <1>5 DEF Dead, Snapshot
<1>7. Snapshot(r, frozen)
  BY <1>1, <1>2, <1>5, <1>6 DEF Snapshot
<1>8. Early(r) /\ TaskFollows(r)
  BY <1>5 DEF Early, TaskFollows, OverStatuses
<1>. QED
  BY <1>1, <1>4, <1>6, <1>7, <1>8, StatusKeeps DEF p, r

\* The intent of a task that is not archived.
LEMMA EmptySnapshot ==
  ASSUME NEW p, p.status # "ARCHIVED"
  PROVE  Snapshot(p, NoSnapshot) /\ NoSnapshot.status = "NONE"
BY Catalog DEF Snapshot, NoSnapshot, TaskTerminal

\* restore_archived of a task that never had a plan.
LEMMA RestoreEmptyKeeps ==
  ASSUME StateInv(Current, earned, frozen), status = "ARCHIVED", ~HasPlan,
         status' = frozen.status, stages' = stages, inst' = inst
  PROVE  /\ StateInv(Current', earned, NoSnapshot)
         /\ ClaimsInv(Current, earned, frozen) => ClaimsInv(Current', earned, NoSnapshot)
<1>. DEFINE p == Current
            r == Current'
            t == frozen.status
<1>1. /\ p.status = "ARCHIVED" /\ status' = t /\ stages' = stages /\ inst' = inst
      /\ StateInv(p, earned, frozen) /\ p.stages = <<>>
  BY CurrentFields DEF HasPlan
<1>2. IsPlan(p) /\ ValidPlan(p) /\ Snapshot(p, frozen)
  BY <1>1 DEF StateInv, Settled
<1>3. t \in TaskStatuses /\ t # "ARCHIVED"
  BY <1>2 DEF Snapshot
<1>4. Restated(p, r, t)
  BY <1>1, <1>2, <1>3, StatusPlan
<1>. HIDE DEF p, r
<1>5. r.status = frozen.status /\ r.inst = p.inst /\ r.stages = <<>>
  BY <1>1, <1>4 DEF Restated
<1>6. Snapshot(r, NoSnapshot) /\ NoSnapshot.status = "NONE"
  BY <1>3, <1>5, EmptySnapshot
<1>7. Dead(r, NoSnapshot) <=> Dead(p, frozen)
  BY <1>1, <1>5, <1>6 DEF Dead
<1>8. Early(r) /\ TaskFollows(r)
  BY <1>1, <1>2, <1>5, NoStages DEF Early, TaskFollows
<1>. QED
  BY <1>1, <1>4, <1>6, <1>7, <1>8, StatusKeeps DEF p, r

\* An archive intent is given up.
LEMMA AbortKeeps ==
  ASSUME StateInv(Current, earned, frozen), Archiving
  PROVE  /\ StateInv(Current, earned, NoSnapshot)
         /\ ClaimsInv(Current, earned, frozen) => ClaimsInv(Current, earned, NoSnapshot)
<1>1. /\ Current.status = status /\ status # "ARCHIVED" /\ Snapshot(Current, frozen)
  BY CurrentFields DEF Archiving, StateInv
<1>2. Snapshot(Current, NoSnapshot) /\ NoSnapshot.status = "NONE"
  BY <1>1, EmptySnapshot
<1>3. "CANCELLED" \in {Current.status, NoSnapshot.status} <=> "CANCELLED" \in {Current.status, frozen.status}
  BY <1>1, <1>2 DEF Snapshot, TaskTerminal
<1>4. Done("NONE", Current, earned)
  BY DEF Done
<1>. QED
  BY <1>2, <1>3, <1>4, IntentKeeps DEF ClaimsInv

\* An archive intent is written.
LEMMA PrepareKeeps ==
  ASSUME StateInv(Current, earned, frozen), PrepareArchive
  PROVE  /\ StateInv(Current, earned, frozen')
         /\ ClaimsInv(Current, earned, frozen) => ClaimsInv(Current, earned, frozen')
<1>. DEFINE y == frozen'
            p == Current
            kept == {j \in DOMAIN inst : inst[j].status \in Live \cup {"SUCCEEDED", "FAILED"}}
<1>1. /\ p.status = status /\ p.inst = inst /\ IsPlan(p) /\ Over(p, frozen)
      /\ frozen.status = "NONE" /\ status # "ARCHIVED" /\ "ARCHIVED" \in TaskTransitions[status]
  BY NoIntent, CurrentFields DEF PrepareArchive, StateInv, Settled
<1>2. PICK o : y = [status |-> status, parked |-> {}, others |-> o, inst |-> [i \in kept |-> inst[i].status]]
  BY DEF PrepareArchive
<1>3. /\ y.status = status /\ y.parked = {} /\ DOMAIN y.inst = kept
      /\ \A i \in kept : y.inst[i] = inst[i].status
      /\ y = [status |-> y.status, inst |-> y.inst, parked |-> y.parked, others |-> y.others]
  BY <1>2
<1>4. status \in TaskStatuses \ {"ARCHIVED", "NONE"}
  BY <1>1 DEF IsPlan, TaskTransitions
<1>5. y # NoSnapshot
  BY <1>3, <1>4 DEF NoSnapshot
<1>6. "CANCELLED" \in {p.status, y.status} <=> "CANCELLED" \in {p.status, frozen.status}
  BY <1>1, <1>3
<1>7. ASSUME NEW i \in kept
      PROVE  /\ y.inst[i] \in Live \cup {"SUCCEEDED", "FAILED"}
             /\ Dead(p, y) => y.inst[i] \in {"SUCCEEDED", "FAILED"}
             /\ p.inst[i].status = y.inst[i]
  <2>1. Dead(p, y) => inst[i].status \in AtRest
    BY <1>1, <1>6, <1>7 DEF Dead, Over
  <2>2. \A st \in AtRest : st \notin Live
    BY DEF AtRest, Live, Executing, Waiting
  <2>. QED
    BY <1>1, <1>3, <2>1, <2>2
<1>8. kept \subseteq DOMAIN inst
  OBVIOUS
<1>. HIDE DEF y, kept, p
<1>9. Snapshot(p, y)
  BY <1>1, <1>3, <1>4, <1>5, <1>7, <1>8 DEF Snapshot
<1>10. Done(y.status, p, earned) <=> Done(p.status, p, earned)
  BY <1>1, <1>3
<1>. QED
  BY <1>6, <1>9, <1>10, IntentKeeps DEF ClaimsInv, p, y

(***************************************************************************)
(* The invariant of the specification, and what every step does to it.     *)
(***************************************************************************)

Ids == UNION {DOMAIN d.members : d \in Drafts \cup Extensions}
\* The clients' plans put their required instances in required stages.
RequirementsAgree == \A d \in Drafts \cup Extensions : DraftAgrees(d)

Inv ==
  /\ StateInv(Current, earned, frozen)
  /\ policy \in {"none", "manual", "auto"}
  /\ DOMAIN inst \subseteq Ids
  /\ queued \subseteq Ids
Claims == RequirementsAgree => ClaimsInv(Current, earned, frozen)

\* A step that keeps the invariant, the claims and the live required work.
Advances ==
  /\ Inv'
  /\ Claims => Claims'
  /\ \A i \in DOMAIN inst : inst[i].required /\ inst[i].status \in Live => Kept(i)

\* Live instances of p are not READY in r and stay where they are.
Works(p, r) ==
  \A i \in DOMAIN p.inst :
    /\ r.inst[i].stage = p.inst[i].stage
    /\ p.inst[i].status \in Live => r.inst[i].status # "READY"

\* What a command writes.
LEMMA Landed ==
  ASSUME NEW r, NEW e, IsPlan(r), Land(r, e)
  PROVE  Current' = r /\ earned' = e \cup Succeeded(r) /\ r.ok /\ inst' = r.inst
<1>1. r = [ok |-> r.ok, status |-> r.status, stages |-> r.stages, inst |-> r.inst] /\ r.ok = TRUE
  BY DEF IsPlan, Land
<1>2. Current' = [ok |-> TRUE, status |-> r.status, stages |-> r.stages, inst |-> r.inst]
  BY DEF Current, Land
<1>. QED
  BY <1>1, <1>2 DEF Land, Succeeded

\* A command whose result keeps the invariant.
LEMMA CommitAdvances ==
  ASSUME Inv, NEW r, Commit(r), StateInv(r, earned \cup Succeeded(r), frozen'),
         ClaimsInv(Current, earned, frozen) => ClaimsInv(r, earned \cup Succeeded(r), frozen'),
         DOMAIN r.inst = DOMAIN inst, Works(Current, r),
         policy' = policy, queued' \subseteq queued
  PROVE  Advances
<1>1. IsPlan(r)
  BY DEF StateInv, Settled
<1>2. Current' = r /\ earned' = earned \cup Succeeded(r) /\ inst' = r.inst
  BY <1>1, Landed DEF Commit
<1>3. Inv'
  BY <1>2 DEF Inv
<1>4. Claims => Claims'
  BY <1>2 DEF Claims, RequirementsAgree
<1>5. \A i \in DOMAIN inst : inst[i].required /\ inst[i].status \in Live => Kept(i)
  BY <1>2, CurrentFields DEF Kept, Works
<1>. QED
  BY <1>3, <1>4, <1>5 DEF Advances

\* A step that leaves stages and instance statuses alone.
LEMMA QuietAdvances ==
  ASSUME Inv, StateInv(Current', earned', frozen'),
         ClaimsInv(Current, earned, frozen) => ClaimsInv(Current', earned', frozen'),
         DOMAIN inst' = DOMAIN inst,
         \A i \in DOMAIN inst : inst'[i].status = inst[i].status /\ inst'[i].stage = inst[i].stage,
         policy' \in {"none", "manual", "auto"}, queued' \subseteq Ids
  PROVE  Advances
<1>1. Inv' /\ (Claims => Claims')
  BY DEF Inv, Claims, RequirementsAgree, Ids
<1>2. \A i \in DOMAIN inst : inst[i].required /\ inst[i].status \in Live => Kept(i)
  BY DEF Kept, Live, Executing, Waiting
<1>. QED
  BY <1>1, <1>2 DEF Advances

\* A runtime transition.
LEMMA TransitionAdvances ==
  ASSUME Inv, NEW i, NEW t, Allowed(Current, frozen, i, t), Commit(Transitioned(i, t)),
         frozen' = frozen, policy' = policy, queued' \subseteq queued
  PROVE  Advances
<1>. DEFINE r == Transitioned(i, t)
<1>1. StateInv(Current, earned, frozen) /\ IsPlan(Current) /\ i \in DOMAIN inst /\ t \in InstanceStatuses
  BY CurrentFields DEF Inv, StateInv, Settled, Allowed
<1>2. r.ok /\ Commit(r)
  BY DEF Commit, Land
<1>3. /\ StateInv(r, earned \cup Succeeded(r), frozen)
      /\ DOMAIN r.inst = DOMAIN inst
      /\ r.inst[i].status = t
      /\ \A j \in DOMAIN inst \ {i} : r.inst[j].status = inst[j].status
      /\ \A j \in DOMAIN inst : r.inst[j].stage = inst[j].stage
      /\ ClaimsInv(Current, earned, frozen) => ClaimsInv(r, earned \cup Succeeded(r), frozen)
  BY <1>1, <1>2, TransitionKeeps
<1>4. t \in InstanceTransitions[inst[i].status] /\ inst[i].status \in InstanceStatuses
  BY <1>1, <1>2, TransitionedFields, InstTyped, CurrentFields
<1>5. inst[i].status \in Live => t # "READY"
  BY <1>4, TransitionSources
<1>. HIDE DEF r
<1>6. Works(Current, r)
  BY <1>3, <1>5, CurrentFields DEF Works, Live, Executing, Waiting
<1>. QED
  BY <1>2, <1>3, <1>6, CommitAdvances

\* What tells that a task is not dead.
LEMMA NotDead ==
  ASSUME Inv
  PROVE  /\ status \notin {"CANCELLED", "ARCHIVED"} => ~Dead(Current, frozen)
         /\ \A i \in DOMAIN inst : inst[i].status \notin AtRest => ~Dead(Current, frozen)
         /\ \A i \in DOMAIN inst : inst[i].rejected /\ inst[i].status = "FAILED" => ~Dead(Current, frozen)
         /\ \A i \in DOMAIN inst : inst[i].rejected => inst[i].activated
<1>1. /\ Snapshot(Current, frozen) /\ Over(Current, frozen)
      /\ Current.status = status /\ Current.inst = inst /\ Sound(Current)
  BY CurrentFields DEF Inv, StateInv, Settled
<1>2. status \notin {"CANCELLED", "ARCHIVED"} => ~Dead(Current, frozen)
  BY <1>1 DEF Snapshot, Dead, TaskTerminal
<1>3. \A i \in DOMAIN inst : inst[i].status \notin AtRest => ~Dead(Current, frozen)
  BY <1>1 DEF Over
<1>4. \A i \in DOMAIN inst : inst[i].rejected /\ inst[i].status = "FAILED" => ~Dead(Current, frozen)
  BY <1>1 DEF Over
<1>5. \A i \in DOMAIN inst : inst[i].rejected => inst[i].activated
  BY <1>1 DEF Sound, SoundInstance
<1>. QED
  BY <1>2, <1>3, <1>4, <1>5

\* The transitions of an instance that is not at rest, or that the commands of a running task
\* ask for.
LEMMA AllowedBy ==
  ASSUME Inv, NEW i \in DOMAIN inst, NEW t \in InstanceStatuses \ {"SUPERSEDED", "STOPPED"},
         t = "STARTING" => inst[i].activated \/ DependenciesAuthorized(Current, inst[i].stage),
         inst[i].status = "SUCCEEDED" => frozen = NoSnapshot,
         \/ ~Dead(Current, frozen)
         \/ t \in {"CANCELLED", "ARCHIVED", "FAILED"}
  PROVE  Allowed(Current, frozen, i, t)
BY CurrentFields DEF Allowed

\* start_instance, restart_instance and retry_start_operation, up to the acceptance.
LEMMA AcceptAdvances ==
  ASSUME Inv, NEW i \in DOMAIN inst, AcceptStart(i)
  PROVE  Advances
<1>1. /\ Current' = Current /\ earned' = earned /\ frozen' = frozen /\ inst' = inst
      /\ policy' = policy /\ queued' \subseteq Ids
  BY DEF AcceptStart, plan, Current, Inv
<1>. QED
  BY <1>1, QuietAdvances DEF Inv

\* _restore_startable_instance.
LEMMA RestoreStartableAdvances ==
  ASSUME Inv, NEW i \in DOMAIN inst, RestoreStartable(i)
  PROVE  Advances
<1>1. /\ inst[i].status = "FAILED_TO_START" /\ Commit(Transitioned(i, "READY"))
      /\ frozen' = frozen /\ policy' = policy /\ queued' \subseteq queued
  BY DEF RestoreStartable, TransitionInstance
<1>2. ~Dead(Current, frozen)
  BY <1>1, NotDead DEF AtRest
<1>3. "READY" \in InstanceStatuses \ {"SUPERSEDED", "STOPPED"}
  BY Catalog
<1>4. Allowed(Current, frozen, i, "READY")
  BY <1>1, <1>2, <1>3, AllowedBy
<1>. QED
  BY <1>1, <1>4, TransitionAdvances

\* The runner of a start operation: the gates of both services, or the recorded failure.
LEMMA RunAdvances ==
  ASSUME Inv, NEW i \in DOMAIN inst, RunStart(i)
  PROVE  Advances
<1>1. /\ frozen' = frozen /\ policy' = policy /\ queued' \subseteq queued
      /\ {"STARTING", "FAILED_TO_START"} \subseteq InstanceStatuses \ {"SUPERSEDED", "STOPPED"}
  BY Catalog DEF RunStart
<1>2. CASE /\ inst[i].status \in {"READY", "FAILED_TO_START", "FAILED", "CRASHED", "STOPPED"}
           /\ SupervisorGate(i) /\ Commit(Transitioned(i, "STARTING"))
  <2>1. ~Dead(Current, frozen)
    BY <1>2, NotDead DEF SupervisorGate
  <2>2. Allowed(Current, frozen, i, "STARTING")
    BY <1>1, <1>2, <2>1, AllowedBy DEF SupervisorGate
  <2>. QED
    BY <1>1, <1>2, <2>2, TransitionAdvances
<1>3. CASE inst[i].status = "READY" /\ Commit(Transitioned(i, "FAILED_TO_START"))
  <2>1. ~Dead(Current, frozen)
    BY <1>3, NotDead DEF AtRest
  <2>2. Allowed(Current, frozen, i, "FAILED_TO_START")
    BY <1>1, <1>3, <2>1, AllowedBy
  <2>. QED
    BY <1>1, <1>3, <2>2, TransitionAdvances
<1>4. CASE UNCHANGED <<plan, earned>>
  <2>1. Current' = Current /\ earned' = earned /\ inst' = inst /\ queued' \subseteq Ids
    BY <1>1, <1>4 DEF plan, Current, Inv
  <2>. QED
    BY <1>1, <2>1, QuietAdvances DEF Inv
<1>. QED
  BY <1>2, <1>3, <1>4 DEF RunStart

\* What the supervisor and the observer report.
LEMMA AgentAdvances ==
  ASSUME Inv, NEW i \in DOMAIN inst, NEW t, AgentEvent(i, t)
  PROVE  Advances
<1>1. /\ inst[i].status \in {"STARTING", "RUNNING", "WAITING_APPROVAL"}
      /\ t \in {"RUNNING", "WAITING_APPROVAL", "SUCCEEDED", "FAILED", "CRASHED", "FAILED_TO_START"}
      /\ Commit(Transitioned(i, t))
      /\ frozen' = frozen /\ policy' = policy /\ queued' \subseteq queued
  BY DEF AgentEvent, TransitionInstance
<1>2. ~Dead(Current, frozen)
  BY <1>1, NotDead DEF AtRest
<1>3. t \in InstanceStatuses \ {"SUPERSEDED", "STOPPED"} /\ t # "STARTING"
  BY <1>1, Catalog
<1>4. Allowed(Current, frozen, i, t)
  BY <1>1, <1>2, <1>3, AllowedBy
<1>. QED
  BY <1>1, <1>4, TransitionAdvances

\* reject_instance_delivery.
LEMMA RejectAdvances ==
  ASSUME Inv, NEW i \in DOMAIN inst, RejectInstanceDelivery(i)
  PROVE  Advances
<1>. DEFINE r == Reaggregated(RefreshStages(Rejection(i), TRUE))
<1>1. /\ inst[i].status = "RUNNING" /\ Commit(r)
      /\ frozen' = frozen /\ policy' = policy /\ queued' \subseteq queued
  BY DEF RejectInstanceDelivery, Rejection
<1>2. StateInv(Current, earned, frozen) /\ r.ok
  BY <1>1 DEF Inv, Commit, Land
<1>3. /\ StateInv(r, earned \cup Succeeded(r), frozen)
      /\ DOMAIN r.inst = DOMAIN inst
      /\ \A j \in DOMAIN inst : /\ r.inst[j].status \in {inst[j].status, "FAILED"}
                                /\ r.inst[j].stage = inst[j].stage
      /\ ClaimsInv(Current, earned, frozen) => ClaimsInv(r, earned \cup Succeeded(r), frozen)
  BY <1>1, <1>2, RejectKeeps
<1>. HIDE DEF r
<1>4. Works(Current, r)
  BY <1>3, CurrentFields DEF Works, Live, Executing, Waiting
<1>. QED
  BY <1>1, <1>3, <1>4, CommitAdvances

\* retry_rejected_delivery.
LEMMA RetryAdvances ==
  ASSUME Inv, NEW i \in DOMAIN inst, RetryRejectedDelivery(i)
  PROVE  Advances
<1>1. /\ inst[i].rejected /\ inst[i].activated /\ frozen = NoSnapshot
      /\ inst[i].status \in {"FAILED", "READY", "STARTING"}
  BY NotDead, NoIntent DEF RetryRejectedDelivery
<1>2. PICK t \in {"READY", "STARTING", "RUNNING"} : TransitionInstance(i, t)
  BY DEF RetryRejectedDelivery
<1>3. ~Dead(Current, frozen)
  BY <1>1, NotDead DEF AtRest
<1>4. t \in InstanceStatuses \ {"SUPERSEDED", "STOPPED"}
  BY Catalog
<1>5. Allowed(Current, frozen, i, t)
  BY <1>1, <1>3, <1>4, AllowedBy
<1>. QED
  BY <1>2, <1>5, TransitionAdvances DEF TransitionInstance

\* cancel_task.
LEMMA CancelAdvances ==
  ASSUME Inv, CancelTask
  PROVE  Advances
<1>. DEFINE r == Cancelled(Current)
<1>1. /\ Commit(r) /\ frozen = NoSnapshot
      /\ frozen' = frozen /\ policy' = policy /\ queued' \subseteq queued
  BY NoIntent DEF CancelTask
<1>2. StateInv(Current, earned, frozen) /\ r.ok
  BY <1>1 DEF Inv, Commit, Land
<1>3. /\ StateInv(r, earned \cup Succeeded(r), frozen)
      /\ DOMAIN r.inst = DOMAIN inst
      /\ \A i \in DOMAIN inst : r.inst[i].stage = inst[i].stage /\ r.inst[i].status # "READY"
      /\ ClaimsInv(Current, earned, frozen) => ClaimsInv(r, earned \cup Succeeded(r), frozen)
  BY <1>1, <1>2, CancelKeeps
<1>. HIDE DEF r
<1>4. Works(Current, r)
  BY <1>3, CurrentFields DEF Works
<1>. QED
  BY <1>1, <1>3, <1>4, CommitAdvances

\* cancel_instance and archive_instance.
LEMMA EndAdvances ==
  ASSUME Inv, NEW i \in DOMAIN inst, CancelInstance(i) \/ ArchiveInstance(i)
  PROVE  Advances
<1>1. PICK t \in {"CANCELLED", "ARCHIVED"} :
        /\ Commit(Transitioned(i, t)) /\ frozen = NoSnapshot
        /\ frozen' = frozen /\ policy' = policy /\ queued' \subseteq queued
  BY NoIntent DEF CancelInstance, ArchiveInstance
<1>2. t \in InstanceStatuses \ {"SUPERSEDED", "STOPPED"}
  BY Catalog
<1>3. Allowed(Current, frozen, i, t)
  BY <1>1, <1>2, AllowedBy
<1>. QED
  BY <1>1, <1>3, TransitionAdvances

\* downgrade_instance.
LEMMA DowngradeAdvances ==
  ASSUME Inv, NEW i \in DOMAIN inst, DowngradeInstance(i)
  PROVE  Advances
<1>. DEFINE r == Reaggregated(RefreshStages(Downgraded(i), TRUE))
<1>1. /\ inst[i].original /\ inst[i].activated /\ Commit(r)
      /\ frozen' = frozen /\ policy' = policy /\ queued' \subseteq queued
  BY DEF DowngradeInstance
<1>2. StateInv(Current, earned, frozen) /\ r.ok
  BY <1>1 DEF Inv, Commit, Land
<1>3. /\ StateInv(r, earned \cup Succeeded(r), frozen)
      /\ DOMAIN r.inst = DOMAIN inst
      /\ \A j \in DOMAIN inst : r.inst[j].status = inst[j].status /\ r.inst[j].stage = inst[j].stage
      /\ ClaimsInv(Current, earned, frozen) => ClaimsInv(r, earned \cup Succeeded(r), frozen)
  BY <1>1, <1>2, DowngradeKeeps
<1>. HIDE DEF r
<1>4. Works(Current, r)
  BY <1>3, CurrentFields DEF Works, Live, Executing, Waiting
<1>. QED
  BY <1>1, <1>3, <1>4, CommitAdvances

\* Edits of gates, boards and cards.
LEMMA EditAdvances ==
  ASSUME Inv, Edited(Current, Current'), earned' = earned, frozen' = frozen, policy' = policy,
         queued' = queued
  PROVE  Advances
<1>1. /\ StateInv(Current', earned, frozen)
      /\ ClaimsInv(Current, earned, frozen) => ClaimsInv(Current', earned, frozen)
  BY EditedKeeps DEF Inv
<1>2. Current'.inst = inst' /\ Current.inst = inst
  BY CurrentFields DEF Current
<1>3. /\ DOMAIN inst' = DOMAIN inst
      /\ \A i \in DOMAIN inst : inst'[i].status = inst[i].status /\ inst'[i].stage = inst[i].stage
  BY <1>2 DEF Edited
<1>. QED
  BY <1>1, <1>3, QuietAdvances DEF Inv

\* set_manual_finished and set_manual_business_status.
LEMMA ManualAdvances ==
  ASSUME Inv, NEW i \in DOMAIN inst,
         \/ \E done \in BOOLEAN : SetManualFinished(i, done)
         \/ \E board \in {"OPEN", "COMPLETED"} : SetManualBusinessStatus(i, board)
  PROVE  Advances
<1>1. Edited(Current, Current')
  BY FinishedEdits, BoardEdits DEF Inv
<1>2. earned' = earned /\ frozen' = frozen /\ policy' = policy /\ queued' = queued
  BY DEF SetManualFinished, SetManualBusinessStatus
<1>. QED
  BY <1>1, <1>2, EditAdvances

\* save_plan, mode merge.
LEMMA MergeAdvances ==
  ASSUME Inv, NEW cards \in [DOMAIN inst -> 1..MaxCard], MergePlan(cards)
  PROVE  Advances
<1>1. Edited(Current, Current')
  BY MergeEdits DEF Inv
<1>2. earned' = earned /\ frozen' = frozen /\ policy' = policy /\ queued' = queued
  BY DEF MergePlan, Save
<1>. QED
  BY <1>1, <1>2, EditAdvances

\* Steps that change the task status or the archive intent alone.
LEMMA IntentAdvances ==
  ASSUME Inv, (\E mode \in {"manual", "auto"} : CreateTask(mode)) \/ PrepareArchive \/ AbortArchive \/ ArchiveTask
  PROVE  Advances
<1>1. /\ inst' = inst /\ earned' = earned /\ queued' = queued
      /\ policy' \in {"none", "manual", "auto"}
  BY DEF Inv, CreateTask, PrepareArchive, AbortArchive, ArchiveTask, plan
<1>2. /\ StateInv(Current', earned', frozen')
      /\ ClaimsInv(Current, earned, frozen) => ClaimsInv(Current', earned', frozen')
  <2>1. CASE \E mode \in {"manual", "auto"} : CreateTask(mode)
    <3>1. frozen' = frozen
      BY <2>1 DEF CreateTask
    <3>. QED
      BY <1>1, <2>1, <3>1, CreateKeeps DEF Inv
  <2>2. CASE PrepareArchive
    <3>1. Current' = Current
      BY <2>2 DEF PrepareArchive, plan, Current
    <3>. QED
      BY <1>1, <2>2, <3>1, PrepareKeeps DEF Inv
  <2>3. CASE AbortArchive
    <3>1. Current' = Current /\ frozen' = NoSnapshot /\ Archiving
      BY <2>3 DEF AbortArchive, plan, Current
    <3>. QED
      BY <1>1, <3>1, AbortKeeps DEF Inv
  <2>4. CASE ArchiveTask
    <3>1. frozen' = frozen
      BY <2>4 DEF ArchiveTask
    <3>. QED
      BY <1>1, <2>4, <3>1, ArchiveKeeps DEF Inv
  <2>. QED
    BY <2>1, <2>2, <2>3, <2>4
<1>. QED
  BY <1>1, <1>2, QuietAdvances DEF Inv

\* The suspensions of an archive.
LEMMA SuspendAdvances ==
  ASSUME Inv, NEW i \in DOMAIN inst, SuspendInstance(i)
  PROVE  Advances
<1>1. /\ i \in DOMAIN frozen.inst \ frozen.parked /\ frozen' = Parking(i)
      /\ policy' = policy /\ queued' = queued /\ StateInv(Current, earned, frozen)
      /\ Current.inst = inst
  BY CurrentFields DEF SuspendInstance, Parking, Inv
<1>2. CASE Commit(Transitioned(i, "STOPPED"))
  <2>. DEFINE r == Transitioned(i, "STOPPED")
  <2>1. r.ok /\ Commit(r)
    BY <1>2 DEF Commit, Land
  <2>2. /\ StateInv(r, earned \cup Succeeded(r), Parking(i))
        /\ DOMAIN r.inst = DOMAIN inst
        /\ \A j \in DOMAIN inst : /\ r.inst[j].status \in {inst[j].status, "STOPPED"}
                                  /\ r.inst[j].stage = inst[j].stage
        /\ ClaimsInv(Current, earned, frozen) => ClaimsInv(r, earned \cup Succeeded(r), Parking(i))
    BY <1>1, <2>1, SuspendKeeps
  <2>. HIDE DEF r
  <2>3. Works(Current, r)
    BY <1>1, <2>2 DEF Works, Live, Executing, Waiting
  <2>. QED
    BY <1>1, <2>1, <2>2, <2>3, CommitAdvances
<1>3. CASE inst[i].status = "STOPPED" /\ UNCHANGED <<plan, earned>>
  <2>1. Current' = Current /\ earned' = earned /\ inst' = inst
    BY <1>3 DEF plan, Current
  <2>2. /\ StateInv(Current, earned, Parking(i))
        /\ ClaimsInv(Current, earned, frozen) => ClaimsInv(Current, earned, Parking(i))
    BY <1>1, <1>3, ParkedKeeps
  <2>. QED
    BY <1>1, <2>1, <2>2, QuietAdvances DEF Inv
<1>. QED
  BY <1>2, <1>3 DEF SuspendInstance

\* A process that cannot be woken for a resume.
LEMMA WakeAdvances ==
  ASSUME Inv, NEW i \in DOMAIN inst, WakeFails(i)
  PROVE  Advances
<1>1. /\ inst[i].status = "STOPPED" /\ Commit(Transitioned(i, "FAILED"))
      /\ frozen' = frozen /\ policy' = policy /\ queued' \subseteq queued
  BY DEF WakeFails, TransitionInstance
<1>2. "FAILED" \in InstanceStatuses \ {"SUPERSEDED", "STOPPED"}
  BY Catalog
<1>3. Allowed(Current, frozen, i, "FAILED")
  BY <1>1, <1>2, AllowedBy
<1>. QED
  BY <1>1, <1>3, TransitionAdvances

\* A task in a status that lets its plan be replaced has no live required instance.
LEMMA NothingToReplace ==
  ASSUME Inv, status \in {"DRAFT", "PLANNED", "BLOCKED_UNAVAILABLE", "FAILED"}, NEW i \in DOMAIN inst,
         inst[i].required
  PROVE  inst[i].status \notin Live
<1>. DEFINE p == Current
<1>1. /\ p.status = status /\ p.inst = inst /\ p.stages = stages
      /\ ValidPlan(p) /\ TaskFollows(p)
  BY CurrentFields DEF Inv, StateInv, Settled
<1>. HIDE DEF p
<1>2. p.stages # <<>>
  BY <1>1, NoStages
<1>3. status = TaskSays(p)
  BY <1>1, <1>2, AggregateTaskIs DEF TaskFollows, OverStatuses, TaskTerminal
<1>4. inst[i].status \in StatusesOf(p, RequiredOf(p)) /\ inst[i].status \in StatusesOf(p, DOMAIN p.inst)
  BY <1>1 DEF StatusesOf, RequiredOf
<1>5. ASSUME inst[i].status \in Live PROVE TaskSays(p) \in {"WAITING_APPROVAL", "RUNNING"}
  BY <1>4, <1>5 DEF TaskSays, Live, Waiting, Executing, Active
<1>. QED
  BY <1>3, <1>5

\* What the replacement of a plan writes.
LEMMA ReplaceWrites ==
  ASSUME NEW d, IsDraft(d), ValidPlan(Normalized(d)),
         \/ Land([Normalized(d) EXCEPT !.status = "AWAITING_START_CONFIRMATION"], {})
         \/ Land(Started(ActivateCurrentStages(Normalized(d))), {})
  PROVE  /\ DOMAIN inst' = DOMAIN d.members
         /\ StateInv(Current', earned', NoSnapshot)
         /\ DraftAgrees(d) => ClaimsInv(Current', earned', NoSnapshot)
<1>. DEFINE p == Normalized(d)
            w == [p EXCEPT !.status = "AWAITING_START_CONFIRMATION"]
            r == Started(ActivateCurrentStages(p))
<1>1. CASE Land(w, {})
  <2>1. IsPlan(p)
    <3>1. p = RefreshStages(NormalizedBase(d), FALSE)
      BY DEF Normalized, NormalizedBase
    <3>2. IsPlan(NormalizedBase(d))
      BY NormalizedSound
    <3>3. Framed(NormalizedBase(d), p)
      BY <3>1, <3>2, RefreshFrame
    <3>. QED
      BY <3>3 DEF Framed
  <2>2. w.ok = p.ok
    BY <2>1, WriteStatus DEF IsPlan, Shape
  <2>3. p.ok
    BY <1>1, <2>2 DEF Land
  <2>4. /\ IsPlan(w) /\ DOMAIN w.inst = DOMAIN d.members
        /\ StateInv(w, {} \cup Succeeded(w), NoSnapshot)
        /\ DraftAgrees(d) => ClaimsInv(w, {} \cup Succeeded(w), NoSnapshot)
    BY <2>3, WaitingPlanKeeps
  <2>. HIDE DEF w
  <2>. QED
    BY <1>1, <2>4, Landed
<1>2. CASE Land(r, {})
  <2>1. r.ok
    BY <1>2 DEF Land
  <2>2. /\ IsPlan(r) /\ DOMAIN r.inst = DOMAIN d.members
        /\ StateInv(r, {} \cup Succeeded(r), NoSnapshot)
        /\ DraftAgrees(d) => ClaimsInv(r, {} \cup Succeeded(r), NoSnapshot)
    BY <2>1, StartedPlanKeeps
  <2>. HIDE DEF r
  <2>. QED
    BY <1>2, <2>2, Landed
<1>. QED
  BY <1>1, <1>2

\* save_plan, mode replace.
LEMMA ReplaceAdvances ==
  ASSUME Inv, NEW d \in Drafts, ReplacePlan(d)
  PROVE  Advances
<1>1. /\ status \in {"DRAFT", "PLANNED", "BLOCKED_UNAVAILABLE", "FAILED"}
      /\ frozen = NoSnapshot /\ frozen' = frozen /\ policy' = policy /\ queued' = queued
      /\ ValidPlan(Normalized(d))
      /\ \/ Land([Normalized(d) EXCEPT !.status = "AWAITING_START_CONFIRMATION"], {})
         \/ Land(Started(ActivateCurrentStages(Normalized(d))), {})
  BY NoIntent DEF ReplacePlan, Save
<1>2. IsDraft(d)
  BY DraftAssumption
<1>3. /\ DOMAIN inst' = DOMAIN d.members
      /\ StateInv(Current', earned', NoSnapshot)
      /\ DraftAgrees(d) => ClaimsInv(Current', earned', NoSnapshot)
  BY <1>1, <1>2, ReplaceWrites
<1>4. Inv'
  BY <1>1, <1>3 DEF Inv, Ids
<1>5. Claims'
  BY <1>1, <1>3 DEF Claims, RequirementsAgree
<1>6. \A i \in DOMAIN inst : inst[i].required => inst[i].status \notin Live
  BY <1>1, NothingToReplace
<1>. QED
  BY <1>4, <1>5, <1>6 DEF Advances

\* save_plan, mode append.
LEMMA AppendAdvances ==
  ASSUME Inv, NEW d \in Extensions, AppendPlan(d)
  PROVE  Advances
<1>. DEFINE r == Reaggregated(ActivateCurrentStages(Extended(d)))
<1>1. /\ Unlocked /\ status \in {"RUNNING", "WAITING_APPROVAL"} /\ ValidPlan(Extended(d))
      /\ Land(r, earned) /\ frozen' = frozen /\ policy' = policy /\ queued' = queued
      /\ StateInv(Current, earned, frozen) /\ IsDraft(d) /\ r.ok
  BY DraftAssumption DEF AppendPlan, Save, Commit, Land, Inv
<1>2. /\ StateInv(r, earned \cup Succeeded(r), frozen)
      /\ DOMAIN r.inst = DOMAIN inst \cup DOMAIN d.members
      /\ \A i \in DOMAIN inst : r.inst[i].status = inst[i].status /\ r.inst[i].stage = inst[i].stage
      /\ ClaimsInv(Current, earned, frozen) /\ DraftAgrees(d) =>
           ClaimsInv(r, earned \cup Succeeded(r), frozen)
  BY <1>1, AppendKeeps
<1>. HIDE DEF r
<1>3. IsPlan(r)
  BY <1>2 DEF StateInv, Settled
<1>4. Current' = r /\ earned' = earned \cup Succeeded(r) /\ inst' = r.inst
  BY <1>1, <1>3, Landed
<1>5. Inv'
  BY <1>1, <1>2, <1>4 DEF Inv, Ids
<1>6. Claims => Claims'
  BY <1>1, <1>2, <1>4 DEF Claims, RequirementsAgree
<1>7. \A i \in DOMAIN inst : inst[i].status \in Live => Kept(i)
  BY <1>2, <1>4 DEF Kept, Live, Executing, Waiting
<1>. QED
  BY <1>5, <1>6, <1>7 DEF Advances

\* confirm_start.
LEMMA ConfirmAdvances ==
  ASSUME Inv, ConfirmStart
  PROVE  Advances
<1>. DEFINE r == Started(ActivateCurrentStages(Current))
<1>1. /\ Unlocked /\ status = "AWAITING_START_CONFIRMATION" /\ Commit(r) /\ r.ok
      /\ frozen' = frozen /\ policy' = policy /\ queued' \subseteq queued
      /\ StateInv(Current, earned, frozen)
  BY DEF ConfirmStart, Commit, Land, Inv
<1>2. /\ StateInv(r, earned \cup Succeeded(r), frozen)
      /\ DOMAIN r.inst = DOMAIN inst
      /\ \A i \in DOMAIN inst : r.inst[i].status = inst[i].status /\ r.inst[i].stage = inst[i].stage
      /\ ClaimsInv(Current, earned, frozen) => ClaimsInv(r, earned \cup Succeeded(r), frozen)
  BY <1>1, ConfirmKeeps
<1>. HIDE DEF r
<1>3. Works(Current, r)
  BY <1>2, CurrentFields DEF Works, Live, Executing, Waiting
<1>. QED
  BY <1>1, <1>2, <1>3, CommitAdvances

\* restore_archived, with or without a plan.
LEMMA RestoreAdvances ==
  ASSUME Inv, NEW lost, RestoreArchived(lost)
  PROVE  Advances
<1>1. /\ status = "ARCHIVED" /\ frozen' = NoSnapshot /\ policy' = policy /\ queued' \subseteq queued
      /\ StateInv(Current, earned, frozen) /\ Current.inst = inst
  BY CurrentFields DEF RestoreArchived, Inv
<1>2. CASE Commit(Restored(lost))
  <2>. DEFINE r == Restored(lost)
  <2>1. r.ok /\ Commit(r)
    BY <1>2 DEF Commit, Land
  <2>2. /\ StateInv(r, earned \cup Succeeded(r), NoSnapshot)
        /\ DOMAIN r.inst = DOMAIN inst
        /\ \A i \in DOMAIN inst :
             r.inst[i].stage = inst[i].stage /\ (r.inst[i].status = "READY" => inst[i].status = "READY")
        /\ ClaimsInv(Current, earned, frozen) => ClaimsInv(r, earned \cup Succeeded(r), NoSnapshot)
    BY <1>1, <2>1, RestoreKeeps
  <2>. HIDE DEF r
  <2>3. Works(Current, r)
    BY <1>1, <2>2 DEF Works, Live, Executing, Waiting
  <2>. QED
    BY <1>1, <2>1, <2>2, <2>3, CommitAdvances
<1>3. CASE ~HasPlan /\ status' = frozen.status /\ UNCHANGED <<stages, inst, earned>>
  <2>1. /\ StateInv(Current', earned, NoSnapshot)
        /\ ClaimsInv(Current, earned, frozen) => ClaimsInv(Current', earned, NoSnapshot)
    BY <1>1, <1>3, RestoreEmptyKeeps
  <2>2. queued' \subseteq Ids
    BY <1>1 DEF Inv
  <2>. QED
    BY <1>1, <1>3, <2>1, <2>2, QuietAdvances DEF Inv
<1>. QED
  BY <1>2, <1>3 DEF RestoreArchived

\* A step that changes nothing.
LEMMA StutterAdvances ==
  ASSUME Inv, UNCHANGED vars
  PROVE  Advances
<1>1. /\ Current' = Current /\ earned' = earned /\ frozen' = frozen /\ inst' = inst
      /\ policy' = policy /\ queued' = queued
  BY DEF vars, plan, Current
<1>. QED
  BY <1>1, QuietAdvances DEF Inv

\* Every step of the specification.
LEMMA NextAdvances ==
  ASSUME Inv, [Next]_vars
  PROVE  Advances
<1>1. CASE \E d \in Drafts : ReplacePlan(d)
  BY <1>1, ReplaceAdvances
<1>2. CASE \E d \in Extensions : AppendPlan(d)
  BY <1>2, AppendAdvances
<1>3. CASE \E cards \in [DOMAIN inst -> 1..MaxCard] : HasPlan /\ MergePlan(cards)
  BY <1>3, MergeAdvances
<1>4. CASE ConfirmStart
  BY <1>4, ConfirmAdvances
<1>5. ASSUME NEW i \in DOMAIN inst, Runtime(i) PROVE Advances
  BY <1>5, AcceptAdvances, RestoreStartableAdvances, RunAdvances, AgentAdvances, RejectAdvances,
     RetryAdvances DEF Runtime
<1>6. ASSUME NEW i \in DOMAIN inst, Operator(i) PROVE Advances
  BY <1>6, EndAdvances, DowngradeAdvances, ManualAdvances, SuspendAdvances, WakeAdvances DEF Operator
<1>7. CASE CancelTask
  BY <1>7, CancelAdvances
<1>8. CASE \/ \E mode \in {"manual", "auto"} : CreateTask(mode)
           \/ PrepareArchive \/ AbortArchive \/ ArchiveTask
  BY <1>8, IntentAdvances
<1>9. CASE \E lost \in SUBSET DOMAIN inst : RestoreArchived(lost)
  BY <1>9, RestoreAdvances
<1>10. CASE UNCHANGED vars
  BY <1>10, StutterAdvances
<1>. QED
  BY <1>1, <1>2, <1>3, <1>4, <1>5, <1>6, <1>7, <1>8, <1>9, <1>10 DEF Next

(***************************************************************************)
(* The theorems.                                                           *)
(***************************************************************************)

LEMMA InitInv ==
  ASSUME Init
  PROVE  Inv /\ Claims
<1>. DEFINE p == Current
            z == NoSnapshot
<1>1. /\ p.ok = TRUE /\ p.status = "NONE" /\ p.stages = <<>> /\ DOMAIN p.inst = {}
      /\ p = [ok |-> p.ok, status |-> p.status, stages |-> p.stages, inst |-> p.inst]
      /\ inst = p.inst /\ earned = {} /\ queued = {} /\ policy = "none" /\ frozen = z
      /\ p.inst = [i \in {} |-> z]
  BY DEF Init, Current
<1>. HIDE DEF p
<1>2. Snapshot(p, z) /\ z.status = "NONE"
  BY <1>1, EmptySnapshot
<1>. HIDE DEF z
<1>3. p.inst \in [DOMAIN p.inst -> InstanceType] /\ p.stages \in Seq(StageType)
  BY <1>1
<1>4. DOMAIN p.stages = {}
  BY <1>1
<1>5. IsPlan(p)
  BY <1>1, <1>3, Catalog DEF IsPlan
<1>6. ValidPlan(p) /\ Sound(p) /\ Opened(p) /\ Carried(p, {}) /\ Fresh(p)
  BY <1>1, <1>4 DEF ValidPlan, Sound, Boards, Images, Opened, Carried, Fresh
<1>7. Settled(p, {}, z)
  BY <1>1, <1>4, <1>5, <1>6 DEF Settled, Succeeded
<1>8. Early(p) /\ Over(p, z) /\ TaskFollows(p)
  BY <1>1 DEF Early, Over, TaskFollows
<1>9. ClaimsInv(p, {}, z)
  BY <1>1, <1>2 DEF ClaimsInv, Agrees, Done
<1>. QED
  BY <1>1, <1>2, <1>7, <1>8, <1>9 DEF Inv, Claims, StateInv, p

\* The inductive invariant: after every command of every actor the plan is well formed, every
\* stage shows what its instances say and the task what its children say.
THEOREM InvHolds == Spec => []Inv
<1>1. Init => Inv
  BY InitInv
<1>2. Inv /\ [Next]_vars => Inv'
  BY NextAdvances DEF Advances
<1>. QED
  BY <1>1, <1>2, PTL DEF Spec

\* The types of task, stages and instances, and the references between a plan, the archive
\* intent, the history and the start queue.
THEOREM TypeCorrect == Spec => []TypeOK
<1>1. Inv => TypeOK
  <2>1. SUFFICES ASSUME Inv PROVE TypeOK
    OBVIOUS
  <2>2. /\ IsPlan(Current) /\ ValidPlan(Current) /\ earned \subseteq DOMAIN inst
        /\ Snapshot(Current, frozen)
        /\ Current.status = status /\ Current.stages = stages /\ Current.inst = inst
    BY <2>1, CurrentFields DEF Inv, StateInv, Settled
  <2>3. /\ status \in DOMAIN TaskTransitions
        /\ \A s \in DOMAIN stages : stages[s] \in StageType
        /\ \A i \in DOMAIN inst : inst[i] \in InstanceType
    BY <2>2, StageTyped, InstTyped DEF IsPlan, TaskStatuses
  <2>4. /\ frozen.status \in DOMAIN TaskTransitions
        /\ DOMAIN frozen.inst \subseteq DOMAIN inst
        /\ frozen.parked \subseteq DOMAIN frozen.inst
    BY <2>2 DEF Snapshot, TaskStatuses
  <2>. QED
    BY <2>1, <2>2, <2>3, <2>4 DEF TypeOK, Inv, Ids
<1>. QED
  BY <1>1, InvHolds, PTL

\* The gates in front of an agent tell the same: an Image is finished exactly while its card
\* shows COMPLETED, and the supervisor starts the PPT whose Images have all delivered.
THEOREM GatesTellTheSame == Spec => []GatesAgree
<1>1. ASSUME Inv PROVE GateMatchesBoard
  BY <1>1, CurrentFields DEF Inv, StateInv, Settled, Sound, Boards, GateMatchesBoard
<1>2. ASSUME Inv PROVE DeliveredImagesOpenBothGates
  <2>. DEFINE p == Current
  <2>1. SUFFICES ASSUME NEW i \in DOMAIN inst, AgentType(Current, i) = "ppt", inst[i].status = "READY",
                        status \in {"RUNNING", "FAILED"},
                        \A j \in Images(Current) : inst[j].required /\ inst[j].status = "SUCCEEDED"
                 PROVE  SupervisorGate(i)
    BY DEF DeliveredImagesOpenBothGates
  <2>2. /\ p.status = status /\ p.inst = inst /\ p.stages = stages
        /\ ValidPlan(p) /\ Fresh(p) /\ Carried(p, earned)
        /\ \A s \in DOMAIN p.stages : p.stages[s].status # "CANCELLED"
    BY <1>2, <2>1, NotDead, CurrentFields DEF Inv, StateInv, Settled
  <2>3. \A j \in Images(p) : p.inst[j].required /\ p.inst[j].status = "SUCCEEDED"
    BY <2>1, <2>2
  <2>. DEFINE s == p.inst[i].stage
  <2>. HIDE DEF p
  <2>4. ASSUME NEW d \in p.stages[s].deps PROVE p.stages[d].status = "SUCCEEDED"
    <3>1. s \in DOMAIN p.stages
      BY <2>2 DEF ValidPlan
    <3>2. d \in DOMAIN p.stages /\ p.stages[d].type = "image" /\ InstancesOf(p, d) # {}
      <4>1. d \in 1..(s - 1) /\ p.stages[d].type = "image"
        BY <2>2, <2>4, <3>1 DEF ValidPlan
      <4>2. DOMAIN p.stages = 1..Len(p.stages) /\ Len(p.stages) \in Nat
        BY <1>2, StageTyped DEF p, Inv, StateInv, Settled
      <4>3. d \in DOMAIN p.stages
        BY <3>1, <4>1, <4>2
      <4>. QED
        BY <2>2, <4>1, <4>3 DEF ValidPlan
    <3>3. \A j \in InstancesOf(p, d) : p.inst[j].required /\ p.inst[j].status = "SUCCEEDED"
      BY <2>3, <3>2 DEF InstancesOf, Images, AgentType
    <3>4. /\ NeededOf(p, d) = InstancesOf(p, d)
          /\ StatusesOf(p, InstancesOf(p, d)) = {"SUCCEEDED"}
          /\ StatusesOf(p, NeededOf(p, d)) = {"SUCCEEDED"}
      BY <3>2, <3>3 DEF NeededOf, StatusesOf
    <3>5. p.stages[d].status # "SKIPPED"
      BY <2>2, <3>2, <3>4 DEF Carried, CarriedStage
    <3>6. p.stages[d].status # "CANCELLED"
      BY <2>2, <3>2
    <3>7. p.stages[d].status = MembersSay(p.stages[d].status, p, d)
      BY <2>2, <3>2, <3>5, <3>6 DEF Fresh, FreshStage
    <3>. QED
      BY <3>2, <3>4, <3>5, <3>6, <3>7 DEF MembersSay, Rule, Executing, Waiting, Failed
  <2>5. DependenciesAuthorized(p, s)
    BY <2>4 DEF DependenciesAuthorized
  <2>. QED
    BY <2>1, <2>2, <2>5 DEF SupervisorGate, p
<1>3. Inv => GatesAgree
  BY <1>1, <1>2 DEF GatesAgree
<1>. QED
  BY <1>3, InvHolds, PTL

\* No step of any actor takes a live required agent out of the plan or back to READY.
THEOREM RequiredWorkStays == Spec => RequiredWorkIsNotReplaced
<1>1. Inv /\ [Next]_vars =>
        [\A i \in DOMAIN inst : inst[i].required /\ inst[i].status \in Live => Kept(i)]_vars
  BY NextAdvances DEF Advances
<1>. QED
  BY <1>1, InvHolds, PTL DEF Spec, RequiredWorkIsNotReplaced

\* Where the clients' plans put required instances in required stages, what a task that ended
\* claims is true: a SUCCEEDED task earned every original requirement, a PARTIAL one was
\* downgraded, and no required agent works for a task that is over.
THEOREM EndedTasks ==
  ASSUME RequirementsAgree
  PROVE  Spec => []EndedTasksAreDone
<1>1. Init => Inv /\ Claims
  BY InitInv
<1>2. Inv /\ Claims /\ [Next]_vars => (Inv /\ Claims)'
  BY NextAdvances DEF Advances
<1>3. ASSUME Inv, Claims PROVE EndedTasksAreDone
  <2>. DEFINE p == Current
  <2>1. /\ p.status = status /\ p.inst = inst /\ p.stages = stages
        /\ Agrees(p) /\ Done(status, p, earned) /\ ValidPlan(p) /\ Over(p, frozen)
        /\ Dead(p, frozen) \/ Fresh(p)
        /\ status = "CANCELLED" => Dead(p, frozen)
    BY <1>3, CurrentFields DEF Inv, Claims, StateInv, Settled, ClaimsInv, Dead
  <2>2. SuccessIsEarned
    BY <2>1 DEF SuccessIsEarned, Done
  <2>3. ASSUME status \in TaskTerminal, NEW i \in DOMAIN inst, inst[i].required
        PROVE  inst[i].status \notin Live
    <3>1. CASE status = "CANCELLED"
      BY <2>1, <2>3, <3>1 DEF Over, AtRest, Live, Executing, Waiting
    <3>2. CASE status \in {"SUCCEEDED", "PARTIAL"}
      <4>. DEFINE s == p.inst[i].stage
      <4>1. Fresh(p)
        BY <1>3, <2>1, <3>2, NotDead
      <4>. HIDE DEF p
      <4>2. s \in DOMAIN p.stages /\ p.stages[s].required /\ i \in NeededOf(p, s)
        BY <2>1, <2>3 DEF ValidPlan, Agrees, NeededOf, InstancesOf
      <4>3. p.stages[s].status = "SUCCEEDED" /\ FreshStage(p, s)
        BY <2>1, <3>2, <4>1, <4>2 DEF Done, Fresh
      <4>. QED
        BY <2>1, <4>2, <4>3, SucceededIsQuiet
    <3>. QED
      BY <2>3, <3>1, <3>2 DEF TaskTerminal
  <2>. QED
    BY <2>2, <2>3 DEF EndedTasksAreDone, FinishedTaskIsQuiet
<1>4. Inv /\ Claims => EndedTasksAreDone
  BY <1>3
<1>. QED
  BY <1>1, <1>2, <1>4, PTL DEF Spec

(***************************************************************************)
(* What a live agent does next can be recorded.                            *)
(***************************************************************************)

ExitStatuses ==
  {"SUCCEEDED", "FAILED", "CRASHED", "FAILED_TO_START", "CANCELLED", "STOPPED", "WAITING_APPROVAL"}

\* q is the plan p after a transition of its instance i to t and the refresh of its stages.
ExitsTo(p, q, i, t) ==
  /\ DOMAIN q.inst = DOMAIN p.inst /\ DOMAIN q.stages = DOMAIN p.stages
  /\ \A s \in DOMAIN p.stages :
       /\ q.stages[s].type = p.stages[s].type /\ q.stages[s].deps = p.stages[s].deps
       /\ q.stages[s].required = p.stages[s].required
       /\ p.stages[s].activated => q.stages[s].activated
       /\ q.stages[s].status = RuleFrom(p.stages[s].status, q, s)
  /\ \A j \in DOMAIN p.inst :
       /\ q.inst[j].stage = p.inst[j].stage /\ q.inst[j].required = p.inst[j].required
       /\ q.inst[j].status = IF j = i THEN t ELSE p.inst[j].status

\* A plan without optional, downgraded or archived instances, in which no start was refused
\* at the gate.
Plain(p) ==
  \A j \in DOMAIN p.inst :
    /\ p.inst[j].required /\ p.inst[j].status # "ARCHIVED"
    /\ p.inst[j].status \in Failed => p.inst[j].activated

\* A task that runs.
Running(p, e) ==
  /\ IsPlan(p) /\ ValidPlan(p) /\ Sound(p) /\ Opened(p) /\ Carried(p, e) /\ Fresh(p)
  /\ \A s \in DOMAIN p.stages : p.stages[s].status # "CANCELLED"

\* The members of the other stages are the same, and say the same.
LEMMA OthersSay ==
  ASSUME NEW p, NEW q, NEW i, NEW t, ExitsTo(p, q, i, t), NEW s, s # p.inst[i].stage,
         s \in DOMAIN p.stages
  PROVE  \A old : MembersSay(old, q, s) = MembersSay(old, p, s)
<1>1. InstancesOf(q, s) = InstancesOf(p, s) /\ NeededOf(q, s) = NeededOf(p, s)
  BY DEF ExitsTo, InstancesOf, NeededOf
<1>2. \A j \in InstancesOf(p, s) : q.inst[j].status = p.inst[j].status
  BY DEF ExitsTo, InstancesOf
<1>3. /\ StatusesOf(q, InstancesOf(q, s)) = StatusesOf(p, InstancesOf(p, s))
      /\ StatusesOf(q, NeededOf(q, s)) = StatusesOf(p, NeededOf(p, s))
  BY <1>1, <1>2 DEF StatusesOf, NeededOf
<1>. QED
  BY <1>1, <1>3 DEF MembersSay, ExitsTo

\* A stage that had delivered its dependencies still has.
LEMMA StaysDelivered ==
  ASSUME NEW p, NEW e, Running(p, e), NEW q, NEW i \in DOMAIN p.inst, NEW t, ExitsTo(p, q, i, t),
         p.inst[i].status \in Live, p.inst[i].required,
         NEW s \in DOMAIN p.stages, Delivered(p, s)
  PROVE  Delivered(q, s)
<1>1. SUFFICES ASSUME NEW d \in p.stages[s].deps PROVE q.stages[d].status = "SUCCEEDED"
  BY DEF Delivered, ExitsTo
<1>2. d \in DOMAIN p.stages /\ p.stages[d].type = "image"
  <2>1. d \in 1..(s - 1) /\ p.stages[d].type = "image"
    BY DEF Running, ValidPlan
  <2>2. DOMAIN p.stages = 1..Len(p.stages) /\ Len(p.stages) \in Nat
    BY StageTyped DEF Running
  <2>. QED
    BY <2>1, <2>2
<1>3. p.stages[d].status = "SUCCEEDED" /\ FreshStage(p, d)
  BY <1>2 DEF Delivered, Running, Fresh
<1>4. d # p.inst[i].stage
  <2>1. ASSUME d = p.inst[i].stage PROVE FALSE
    <3>1. i \in NeededOf(p, d)
      BY <2>1 DEF NeededOf, InstancesOf
    <3>. QED
      BY <1>3, <3>1, SucceededIsQuiet
  <2>. QED
    BY <2>1
<1>5. p.stages[d].deps = {}
  BY <1>2 DEF Running, ValidPlan
<1>6. DependenciesAuthorized(q, d)
  BY <1>2, <1>5 DEF DependenciesAuthorized, ExitsTo
<1>7. q.stages[d].status = MembersSay("SUCCEEDED", q, d)
  BY <1>2, <1>3, <1>6, RuleEntered DEF ExitsTo, Entered
<1>8. MembersSay("SUCCEEDED", p, d) = "SUCCEEDED"
  BY <1>3 DEF FreshStage
<1>. QED
  BY <1>2, <1>4, <1>7, <1>8, OthersSay

\* The aggregate of a stage with a live required agent.
LEMMA LiveRule ==
  ASSUME NEW old, NEW required, NEW needed, NEW all, NEW some, NEW x \in Live, x \in all, x \in some,
         old \notin {"SKIPPED", "CANCELLED"}, "CREATED" \notin all,
         old = Rule(old, TRUE, required, needed, all, some)
  PROVE  old \in {"RUNNING", "WAITING_APPROVAL"} \/ (old = "READY" /\ "READY" \in all)
<1>1. CASE all \cap Executing # {}
  BY <1>1 DEF Rule
<1>2. CASE all \cap Executing = {}
  <2>1. x \in some \cap Waiting
    BY <1>2 DEF Live
  <2>2. CASE all \cap {"READY", "CREATED"} # {}
    <3>1. "READY" \in all
      BY <2>2
    <3>. QED
      BY <1>2, <2>2, <3>1 DEF Rule
  <2>3. CASE all \cap {"READY", "CREATED"} = {}
    BY <1>2, <2>1, <2>3 DEF Rule
  <2>. QED
    BY <2>2, <2>3
<1>. QED
  BY <1>1, <1>2

\* What the stage of a live required agent shows.
LEMMA LiveStage ==
  ASSUME NEW p, NEW e, Running(p, e), NEW i \in DOMAIN p.inst,
         p.inst[i].status \in Live, p.inst[i].required
  PROVE  LET s == p.inst[i].stage
             old == p.stages[s].status
             all == StatusesOf(p, InstancesOf(p, s)) IN
         /\ s \in DOMAIN p.stages
         /\ p.stages[s].activated \/ Delivered(p, s)
         /\ \/ old \in {"RUNNING", "WAITING_APPROVAL"}
            \/ old = "READY" /\ \E j \in InstancesOf(p, s) : j # i /\ p.inst[j].status = "READY"
<1>. DEFINE s == p.inst[i].stage
            old == p.stages[s].status
            all == StatusesOf(p, InstancesOf(p, s))
            some == StatusesOf(p, NeededOf(p, s))
<1>1. s \in DOMAIN p.stages /\ i \in NeededOf(p, s) /\ i \in InstancesOf(p, s)
  BY DEF Running, ValidPlan, NeededOf, InstancesOf
<1>2. FreshStage(p, s) /\ CarriedStage(p, s, e) /\ old # "CANCELLED"
  BY <1>1 DEF Running, Fresh, Carried
<1>3. old # "SKIPPED"
  BY <1>1, <1>2 DEF CarriedStage
<1>4. p.inst[i].activated
  BY DEF Running, Sound, SoundInstance, Begun
<1>5. p.stages[s].type = "ppt" => p.stages[s].activated
  BY <1>4 DEF Running, Opened, AgentType
<1>6. (p.stages[s].activated \/ Delivered(p, s)) /\ old = MembersSay(old, p, s)
  BY <1>2, <1>3, <1>5 DEF FreshStage
<1>7. p.inst[i].status \in all /\ p.inst[i].status \in some
  BY <1>1 DEF StatusesOf
<1>8. \A x \in all : x \notin {"CREATED", "UNAVAILABLE"}
  BY DEF StatusesOf, InstancesOf, Running, Sound, SoundInstance
<1>9. "READY" \in all => \E j \in InstancesOf(p, s) : j # i /\ p.inst[j].status = "READY"
  BY DEF StatusesOf, Live, Executing, Waiting
<1>. HIDE DEF s, all, some
<1>10. old = Rule(old, TRUE, p.stages[s].required, NeededOf(p, s), all, some)
  BY <1>6 DEF MembersSay, all, some
<1>11. old \in {"RUNNING", "WAITING_APPROVAL"} \/ (old = "READY" /\ "READY" \in all)
  BY <1>2, <1>3, <1>7, <1>8, <1>10, LiveRule
<1>. QED
  BY <1>1, <1>6, <1>9, <1>11 DEF s

\* A member of a stage behind its gate waits, or was cancelled while it waited.
LEMMA GatedMembers ==
  ASSUME NEW p, NEW e, Running(p, e), Plain(p), NEW s \in DOMAIN p.stages,
         p.stages[s].type = "ppt", ~p.stages[s].activated, NEW j \in InstancesOf(p, s)
  PROVE  p.inst[j].status \in {"READY", "CANCELLED"} /\ p.inst[j].required
<1>1. j \in DOMAIN p.inst /\ p.inst[j].stage = s
  BY DEF InstancesOf
<1>2. ~p.inst[j].activated
  BY <1>1 DEF Running, Opened, AgentType
<1>3. SoundInstance(p.inst[j]) /\ p.inst[j].status \in InstanceStatuses
  BY <1>1, InstTyped DEF Running, Sound
<1>4. p.inst[j].status \notin Failed \cup {"ARCHIVED"} /\ p.inst[j].required
  BY <1>1, <1>2 DEF Plain
<1>. QED
  BY <1>2, <1>3, <1>4, Catalog DEF SoundInstance, Begun, Live, Executing, Waiting, Failed

\* No stage of such a plan raises.
LEMMA ExitStage ==
  ASSUME NEW p, NEW e, Running(p, e), Plain(p), NEW q, NEW i \in DOMAIN p.inst, NEW t \in ExitStatuses,
         ExitsTo(p, q, i, t), p.inst[i].status \in Live, NEW s \in DOMAIN p.stages
  PROVE  Follows(p.stages[s].status, q.stages[s].status)
<1>. DEFINE old == p.stages[s].status
            new == q.stages[s].status
            home == p.inst[i].stage
<1>1. new = RuleFrom(old, q, s) /\ FreshStage(p, s) /\ p.inst[i].required
  BY DEF ExitsTo, Running, Fresh, Plain
<1>2. CASE s # home
  <2>1. CASE old \in {"SKIPPED", "CANCELLED"}
    BY <1>1, <2>1, RuleEntered DEF Follows
  <2>2. CASE old = "PENDING" /\ p.stages[s].type = "ppt" /\ ~p.stages[s].activated
    <3>. DEFINE all == StatusesOf(p, InstancesOf(p, s))
                some == StatusesOf(p, NeededOf(p, s))
    <3>1. all \subseteq {"READY", "CANCELLED"} /\ some = all
      BY <2>2, GatedMembers DEF StatusesOf, NeededOf
    <3>2. NeededOf(p, s) # {} /\ all # {}
      BY <2>2, GatedMembers DEF StatusesOf, NeededOf, Running, ValidPlan
    <3>. HIDE DEF all, some
    <3>3. MembersSay("PENDING", p, s) = Rule("PENDING", TRUE, p.stages[s].required, NeededOf(p, s), all, some)
      BY DEF MembersSay, all, some
    <3>4. Rule("PENDING", TRUE, p.stages[s].required, NeededOf(p, s), all, some) \in {"PENDING", "READY"}
      BY <3>1, <3>2 DEF Rule, Executing, Waiting, Failed
    <3>5. MembersSay("PENDING", q, s) \in {"PENDING", "READY"}
      <4>1. \A x : MembersSay(x, q, s) = MembersSay(x, p, s)
        BY <1>2, OthersSay
      <4>. QED
        BY <3>3, <3>4, <4>1
    <3>6. new = "PENDING" \/ new = MembersSay("PENDING", q, s)
      BY <1>1, <2>2, RuleEntered
    <3>7. new \in {"PENDING", "READY"}
      BY <3>5, <3>6
    <3>. QED
      BY <2>2, <3>7, Catalog DEF Follows, StageReaggregates, StageTransitions
  <2>3. CASE (p.stages[s].activated \/ Delivered(p, s)) /\ old = MembersSay(old, p, s)
    <3>1. q.stages[s].activated \/ Delivered(q, s)
      <4>1. Delivered(p, s) => Delivered(q, s)
        BY <1>1, StaysDelivered
      <4>. QED
        BY <2>3, <4>1 DEF ExitsTo
    <3>2. Entered(q, s)
      BY <3>1 DEF Entered, Delivered, DependenciesAuthorized
    <3>3. new = MembersSay(old, q, s)
      BY <1>1, <3>2, RuleEntered
    <3>. QED
      BY <1>2, <2>3, <3>3, OthersSay DEF Follows
  <2>. QED
    BY <1>1, <2>1, <2>2, <2>3 DEF FreshStage
<1>3. CASE s = home
  <2>. DEFINE all == StatusesOf(q, InstancesOf(q, s))
              some == StatusesOf(q, NeededOf(q, s))
              needed == NeededOf(q, s)
  <2>1. /\ p.stages[s].activated \/ Delivered(p, s)
        /\ \/ old \in {"RUNNING", "WAITING_APPROVAL"}
           \/ old = "READY" /\ \E j \in InstancesOf(p, s) : j # i /\ p.inst[j].status = "READY"
    BY <1>1, <1>3, LiveStage
  <2>2. q.stages[s].activated \/ Delivered(q, s)
    BY <1>1, <2>1, StaysDelivered DEF ExitsTo
  <2>3. Entered(q, s)
    BY <2>2 DEF Entered, Delivered, DependenciesAuthorized
  <2>4. new = MembersSay(old, q, s)
    BY <1>1, <2>3, RuleEntered
  <2>5. needed # {} /\ "UNAVAILABLE" \notin some
    <3>1. i \in needed
      BY <1>1, <1>3 DEF NeededOf, InstancesOf, ExitsTo
    <3>2. \A j \in DOMAIN p.inst : q.inst[j].status # "UNAVAILABLE"
      BY DEF ExitsTo, Running, Sound, SoundInstance, ExitStatuses
    <3>3. "UNAVAILABLE" \notin some
      BY <3>2 DEF StatusesOf, NeededOf, InstancesOf, ExitsTo
    <3>. QED
      BY <3>1, <3>3
  <2>6. old = "READY" => "READY" \in all
    BY <2>1 DEF StatusesOf, InstancesOf, ExitsTo
  <2>. HIDE DEF old, new, all, some, needed
  <2>7. new = Rule(old, TRUE, q.stages[s].required, needed, all, some)
    BY <2>4 DEF MembersSay, all, some, needed
  <2>8. CASE old \in {"RUNNING", "WAITING_APPROVAL"}
    <3>1. new \in {"RUNNING", "WAITING_APPROVAL", "FAILED", "SUCCEEDED"}
      BY <2>5, <2>7, <2>8 DEF Rule
    <3>. QED
      BY <2>8, <3>1 DEF Follows, StageReaggregates, StageTransitions, old, new
  <2>9. CASE old = "READY"
    <3>1. new \in {"RUNNING", "READY"}
      BY <2>6, <2>7, <2>9 DEF Rule
    <3>. QED
      BY <2>9, <3>1 DEF Follows, StageReaggregates, StageTransitions, old, new
  <2>. QED
    BY <2>1, <2>8, <2>9 DEF old
<1>. QED
  BY <1>2, <1>3

\* The task follows, too.
LEMMA ExitTask ==
  ASSUME NEW p, IsPlan(p), ValidPlan(p), TaskFollows(p), Early(p), p.status # "ARCHIVED",
         NEW i \in DOMAIN p.inst, p.inst[i].status \in Live, p.inst[i].required,
         NEW q, q.status = p.status
  PROVE  AggregateTask(q) = q.status \/ AggregateTask(q) \in TaskTransitions[q.status]
<1>1. CASE p.status \in OverStatuses
  BY <1>1, AggregateTaskIs
<1>2. CASE p.status \notin OverStatuses
  <2>1. p.stages # <<>>
    BY NoStages
  <2>2. p.status # "AWAITING_START_CONFIRMATION"
    BY DEF Early, Live, Executing, Waiting
  <2>3. p.status = TaskSays(p)
    BY <1>2, <2>1, <2>2, AggregateTaskIs DEF TaskFollows
  <2>4. p.inst[i].status \in StatusesOf(p, RequiredOf(p)) /\ p.inst[i].status \in StatusesOf(p, DOMAIN p.inst)
    BY DEF StatusesOf, RequiredOf
  <2>5. TaskSays(p) \in {"WAITING_APPROVAL", "RUNNING"}
    BY <2>4 DEF TaskSays, Live, Waiting, Executing, Active
  <2>6. AggregateTask(q) \in TaskResults
    BY <1>2, AggregateTaskIs
  <2>7. \A x \in {"WAITING_APPROVAL", "RUNNING"} : \A y \in TaskResults :
          y = x \/ y \in TaskTransitions[x]
    BY DEF TaskResults, TaskTransitions
  <2>. QED
    BY <2>3, <2>5, <2>6, <2>7
<1>. QED
  BY <1>1, <1>2

\* The refreshed plan of a transition.
LEMMA ExitPlan ==
  ASSUME NEW e, Running(Current, e), NEW i \in DOMAIN inst,
         NEW t \in InstanceTransitions[inst[i].status]
  PROVE  LET m == Moved(Current, i, t)
             q == RefreshStages(m, TRUE) IN
         /\ IsPlan(q) /\ q.status = status
         /\ ExitsTo(Current, q, i, t)
         /\ (\A s \in DOMAIN stages : Follows(stages[s].status, q.stages[s].status)) => q.ok
<1>. DEFINE p == Current
            m == Moved(p, i, t)
            q == RefreshStages(m, TRUE)
<1>1. /\ IsPlan(p) /\ ValidPlan(p) /\ Sound(p) /\ p.ok = TRUE
      /\ p.inst = inst /\ p.stages = stages /\ p.status = status
  BY CurrentFields DEF Running
<1>2. inst[i].status \in InstanceStatuses
  BY <1>1, InstTyped
<1>3. t \in InstanceStatuses
  BY <1>2, TransitionSources
<1>4. /\ Replaced(p, m, i, m.inst[i])
      /\ MovedTo(p.inst[i], m.inst[i], t, AgentType(p, i) = "image")
      /\ m.ok = (p.ok /\ t \in InstanceTransitions[p.inst[i].status])
  BY <1>1, <1>3, MovedFields
<1>5. m.ok
  BY <1>1, <1>4
<1>. HIDE DEF p, m
<1>6. /\ IsPlan(m) /\ m.status = p.status /\ m.stages = p.stages /\ DOMAIN m.inst = DOMAIN p.inst
      /\ \A j \in DOMAIN p.inst :
           /\ m.inst[j].stage = p.inst[j].stage /\ m.inst[j].required = p.inst[j].required
           /\ m.inst[j].status = IF j = i THEN t ELSE p.inst[j].status
  BY <1>4 DEF Replaced, MovedTo
<1>7. ValidPlan(m)
  BY <1>1, <1>6 DEF ValidPlan, InstancesOf
<1>8. Refreshed(m, q, TRUE)
  BY <1>6, <1>7, RefreshFacts
<1>. HIDE DEF q
<1>9. IsPlan(q) /\ q.status = status
  BY <1>1, <1>6, <1>8 DEF Refreshed, Framed
<1>10. \A j \in DOMAIN p.inst :
         /\ q.inst[j].stage = p.inst[j].stage /\ q.inst[j].required = p.inst[j].required
         /\ q.inst[j].status = IF j = i THEN t ELSE p.inst[j].status
  BY <1>6, <1>8 DEF Refreshed, Framed, SameInstance
<1>11. \A s \in DOMAIN p.stages :
         /\ q.stages[s].type = p.stages[s].type /\ q.stages[s].deps = p.stages[s].deps
         /\ q.stages[s].required = p.stages[s].required
         /\ p.stages[s].activated => q.stages[s].activated
         /\ q.stages[s].status = RuleFrom(p.stages[s].status, q, s)
  <2>1. \A s \in DOMAIN p.stages : SameStage(p.stages[s], q.stages[s])
    BY <1>6, <1>8 DEF Refreshed, Framed
  <2>2. \A s \in DOMAIN p.stages : q.stages[s].status = RuleFrom(p.stages[s].status, q, s)
    BY <1>6, <1>8 DEF Refreshed
  <2>. QED
    BY <2>1, <2>2 DEF SameStage
<1>12. DOMAIN q.inst = DOMAIN p.inst /\ DOMAIN q.stages = DOMAIN p.stages
  BY <1>6, <1>8 DEF Refreshed, Framed
<1>13. ExitsTo(p, q, i, t)
  BY <1>10, <1>11, <1>12 DEF ExitsTo
<1>14. (\A s \in DOMAIN stages : Follows(stages[s].status, q.stages[s].status)) => q.ok
  BY <1>1, <1>5, <1>6, <1>8 DEF Refreshed
<1>. QED
  BY <1>9, <1>13, <1>14 DEF p, m, q

\* Children and task agree in both directions: the task has the status its children say, and
\* whatever a live agent of a plan without optional, downgraded, archived or refused instances
\* does next can be recorded.
THEOREM ChildrenDecideTheTask == Spec => []ChildrenDecide
<1>1. ASSUME Inv PROVE TaskFollowsChildren
  BY <1>1, CurrentFields DEF Inv, StateInv, TaskFollows, TaskFollowsChildren, HasPlan, OverStatuses
<1>2. ASSUME Inv PROVE RequiredExitsAreRecordable
  <2>1. SUFFICES ASSUME status # "ARCHIVED",
                        \A j \in DOMAIN inst : /\ inst[j].required /\ inst[j].status # "ARCHIVED"
                                               /\ ~RefusedAtGate(j),
                        NEW i \in DOMAIN inst, inst[i].status \in Live,
                        NEW t \in Exits(i)
                 PROVE  Transitioned(i, t).ok
    BY DEF RequiredExitsAreRecordable, Recordable
  <2>. DEFINE p == Current
              m == Moved(p, i, t)
              q == RefreshStages(m, TRUE)
  <2>2. /\ p.inst = inst /\ p.stages = stages /\ p.status = status
        /\ TaskFollows(p) /\ Early(p) /\ inst[i].required
    BY <1>2, <2>1, CurrentFields DEF Inv, StateInv
  <2>3. ~Dead(p, frozen)
    BY <1>2, <2>1, NotDead DEF AtRest, Live, Executing, Waiting
  <2>4. Running(p, earned)
    BY <1>2, <2>3 DEF Running, Inv, StateInv, Settled
  <2>5. Plain(p)
    BY <2>1, <2>2 DEF Plain, RefusedAtGate
  <2>6. t \in InstanceTransitions[inst[i].status] /\ t \in ExitStatuses
    BY <2>1 DEF Exits, ExitStatuses
  <2>7. /\ IsPlan(q) /\ q.status = status /\ ExitsTo(p, q, i, t)
        /\ (\A s \in DOMAIN stages : Follows(stages[s].status, q.stages[s].status)) => q.ok
    BY <2>4, <2>6, ExitPlan
  <2>8. Transitioned(i, t) = Reaggregated(q)
    BY DEF Transitioned
  <2>. HIDE DEF p, q
  <2>9. \A s \in DOMAIN p.stages : Follows(p.stages[s].status, q.stages[s].status)
    BY <2>1, <2>2, <2>4, <2>5, <2>6, <2>7, ExitStage
  <2>10. q.ok
    BY <2>2, <2>7, <2>9
  <2>11. IsPlan(p) /\ ValidPlan(p)
    BY <2>4 DEF Running
  <2>12. AggregateTask(q) = q.status \/ AggregateTask(q) \in TaskTransitions[q.status]
    BY <2>1, <2>2, <2>7, <2>11, ExitTask
  <2>13. Reaggregated(q).ok = (q.ok /\ (AggregateTask(q) = q.status \/ AggregateTask(q) \in TaskTransitions[q.status]))
    BY <2>7, ReaggregatedFields
  <2>. QED
    BY <2>8, <2>10, <2>12, <2>13
<1>3. Inv => ChildrenDecide
  BY <1>1, <1>2 DEF ChildrenDecide
<1>. QED
  BY <1>3, InvHolds, PTL
=============================================================================
