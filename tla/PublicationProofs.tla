------------------------- MODULE PublicationProofs -------------------------
(***************************************************************************)
(* Proofs about Publication, for any bundles, decks, commands and faults.  *)
(***************************************************************************)
EXTENDS Publication, WellFoundedInduction, TLAPS

-----------------------------------------------------------------------------
(* The inductive invariant.                                                *)

\* Where a thread is while it holds the task lock, and where while it does not.
Observing == {"persist", "wait", "ask", "notify"}
Settled == {"read", "settle", "tell", "finish"}
Resolved == {"handle"} \cup Settled
Decided == {"commit"} \cup Resolved
Inside == Observing \cup {"deck", "publish", "decide"} \cup Decided
Outside == {"idle", "status", "recheck", "collect", "review", "completed"}

Doers == Ops \cup {None}
AssetStates == {"none", "prepared", "copied", "linked", "manifested", "announced", "committed"}
BatchStates == {"none", "prepared", "filed", "announced", "committed"}
BatchIds == Bundles \cup {Manual}
CandType == [status : {"NONE", "PENDING", "PUBLISHED", "REJECTED"}, by : Doers]
ReviewType == [status : {"NONE", "PENDING", "APPROVED", "REJECTED"}, by : Doers]
BatchType == [stage : BatchStates, by : Doers, assets : SUBSET Assets]
ThreadType == [pc : Inside \cup Outside, todo : SUBSET Bundles]

\* The types of all variables, of the threads among them.
AgentTypes ==
  /\ image \in {"RUNNING", "WAITING_APPROVAL", "SUCCEEDED", "FAILED", "CRASHED"}
  /\ ppt \in {"READY", "RUNNING", "SUCCEEDED"}
  /\ offered \subseteq Bundles /\ broken \subseteq offered
  /\ told \subseteq {"image", "ppt"}
ReviewTypes ==
  /\ cand \in [Bundles -> CandType]
  /\ review \in [Bundles -> ReviewType]
  /\ note \in [Bundles -> {"NONE", "OPEN", "HANDLED"}]
DiskTypes ==
  /\ asset \in [Assets -> AssetStates]
  /\ batch \in [BatchIds -> BatchType]
IntentTypes ==
  /\ intent \in [Ops -> {"NONE", "PREPARED", "PUBLISHED", "COMMITTED"}]
  /\ bound \in [Ops -> {"NONE", "BOUND", "COMMITTED"}]
ThreadTypes ==
  /\ th \in [Threads -> ThreadType]
  /\ lock \in Threads \cup {None}
  /\ \A t \in Threads : th[t].pc = "notify" => th[t].todo # {}
ControlTypes ==
  /\ mode \in {"up", "down", "assets", "intents"}
  /\ todo \subseteq Ops
TypeInv == AgentTypes /\ ReviewTypes /\ DiskTypes /\ IntentTypes /\ ThreadTypes /\ ControlTypes

\* The task lock is held by the one thread that is inside.
LockInv == \A t \in Threads : th[t].pc \in Inside <=> lock = t

\* A batch of a bundle belongs to an approval and begins when both parts are published; a
\* part is not touched before some approval of its bundle is begun.
BatchInv ==
  \A b \in Bundles :
    /\ batch[b].stage # "none" =>
         /\ batch[b].by \in Ops /\ Of(batch[b].by) = b /\ Approves(batch[b].by)
         /\ intent[batch[b].by] # "NONE"
         /\ batch[b].assets = Parts(b)
         /\ \A a \in Parts(b) : asset[a] = "committed"
    /\ \A a \in Parts(b) : asset[a] # "none" =>
         \E o \in Ops : Of(o) = b /\ Approves(o) /\ intent[o] # "NONE"

\* The manual batch begins when every required deck is published.
ManualInv ==
  /\ batch[Manual].stage # "none" => /\ Required \subseteq batch[Manual].assets
                                     /\ \A d \in batch[Manual].assets : asset[d] = "committed"
  /\ ppt = "SUCCEEDED" => batch[Manual].stage = "committed"

\* The Image instance succeeds with a committed bundle only.
ImageInv == image = "SUCCEEDED" => \E b \in Bundles : batch[b].stage = "committed"

\* Who decided a candidate, and what its review and its notification say of it.
CandInv ==
  \A b \in Bundles :
    /\ cand[b].by = None => cand[b].status \in {"NONE", "PENDING"}
    /\ cand[b].by # None => /\ Of(cand[b].by) = b /\ intent[cand[b].by] # "NONE"
                            /\ cand[b].status = Outcome(cand[b].by)
                            /\ Approves(cand[b].by) => intent[cand[b].by] \in {"PUBLISHED", "COMMITTED"}
    /\ review[b].by = None => review[b].status \in {"NONE", "PENDING"}
    /\ review[b].by # None => /\ cand[b].by = review[b].by
                              /\ review[b].status = Command[review[b].by].verdict
    /\ review[b].status # "NONE" => cand[b].status # "NONE"
    /\ note[b] = "HANDLED" => review[b].by # None

\* What an intent on disk stands for.
IntentInv ==
  \A o \in Ops :
    /\ intent[o] # "NONE" => review[Of(o)].status # "NONE"
    /\ intent[o] = "PUBLISHED" => Approves(o)
    /\ Approves(o) /\ intent[o] \in {"PUBLISHED", "COMMITTED"} =>
         batch[Of(o)].stage = "committed" /\ batch[Of(o)].by = o
    /\ intent[o] = "COMMITTED" => review[Of(o)].by = o /\ note[Of(o)] # "OPEN"

\* What a deciding thread has achieved where it is.
DecidingInv ==
  \A o \in Ops :
    /\ th[o].pc = "publish" => Approves(o) /\ intent[o] = "PREPARED"
    /\ th[o].pc \in {"decide"} \cup Decided =>
         intent[o] # "NONE" /\ (Approves(o) => intent[o] \in {"PUBLISHED", "COMMITTED"})
    /\ th[o].pc \in Decided => cand[Of(o)].by = o
    /\ th[o].pc \in Resolved => review[Of(o)].by = o
    /\ th[o].pc \in Settled => note[Of(o)] # "OPEN"

\* What an observing thread has yet to ask for is not decided.
AskingInv ==
  \A t \in Threads : th[t].pc \in {"ask", "notify"} =>
    \A b \in th[t].todo : cand[b].status = "PENDING"

\* Nothing runs while the process is down or recovers its assets; then the deciding threads
\* run one after the other, and only the one that publishes has a transaction open.
StartupInv ==
  /\ mode \in {"down", "assets"} => \A t \in Threads : th[t].pc = "idle"
  /\ mode = "intents" => \A t \in Threads :
       th[t].pc = "idle" \/ (t \in Ops /\ th[t].pc \in {"publish", "decide"} \cup Decided)
  /\ mode = "intents" => \A o \in Ops : th[o].pc = "settle" => image = "WAITING_APPROVAL"
Publishing(o) == th[o].pc = "publish"
OpenInv ==
  mode = "intents" =>
    /\ \A a \in Assets : asset[a] \notin {"none", "committed"} =>
         \E o \in Ops : Publishing(o) /\ a \in Parts(Of(o))
    /\ \A x \in BatchIds : batch[x].stage \notin {"none", "committed"} =>
         \E o \in Ops : Publishing(o) /\ x = Of(o) /\ batch[x].by = o

\* A decision that recovery is done with and that is not committed lost against a rival: to
\* the one that decided the candidate, or to the one whose batch is already there.
Lost(o) ==
  \/ cand[Of(o)].by \notin {o, None}
  \/ Approves(o) /\ batch[Of(o)].stage # "none" /\ batch[Of(o)].by # o
LostInv ==
  mode = "intents" =>
    \A o \in Ops : intent[o] \in {"NONE", "COMMITTED"} \/ o \in todo \/ th[o].pc # "idle" \/ Lost(o)
TodoInv == \A o \in todo : intent[o] # "NONE"

Inv ==
  /\ TypeInv /\ LockInv
  /\ BatchInv /\ ManualInv /\ ImageInv
  /\ CandInv /\ IntentInv
  /\ DecidingInv /\ AskingInv
  /\ StartupInv /\ OpenInv /\ LostInv /\ TodoInv

-----------------------------------------------------------------------------
(* Lemmas on the operators.                                                *)

\* A choice from a set that is not empty is one of its elements.  The lemmas on the
\* choices are Zenon's, and the choices are never expanded elsewhere.
LEMMA PickIs ==
  ASSUME NEW S, S # {} PROVE Pick(S) \in S
<1>1. \E x : x \in S
  BY Zenon
<1>. QED
  BY Zenon, <1>1 DEF Pick

\* A state of an asset stands at its place on the ladder.
LEMMA PlaceIs ==
  ASSUME NEW s, \E k \in DOMAIN Stages : Stages[k] = s
  PROVE  PlaceOf(s) \in DOMAIN Stages /\ Stages[PlaceOf(s)] = s
  BY Zenon DEF PlaceOf

\* So does a state of a batch.
LEMMA BatchPlaceIs ==
  ASSUME NEW s, \E k \in DOMAIN BatchStages : BatchStages[k] = s
  PROVE  BatchPlaceOf(s) \in DOMAIN BatchStages /\ BatchStages[BatchPlaceOf(s)] = s
  BY Zenon DEF BatchPlaceOf

\* The next deck is missing and none before it is.
LEMMA NextDeckIs ==
  ASSUME NEW k \in DOMAIN Decks, asset[Decks[k]] # "committed",
         \A j \in 1..(k - 1) : asset[Decks[j]] = "committed"
  PROVE  NextDeck \in DOMAIN Decks /\ asset[Decks[NextDeck]] # "committed"
  BY Zenon DEF NextDeck

\* A publication that is not committed takes one step on its ladder and never falls back.
LEMMA AssetLadder ==
  ASSUME NEW s \in AssetStates, s # "committed"
  PROVE  After(s) \in AssetStates \ {"none"}
<1>1. PICK k \in 1..6 : Stages[k] = s
  BY SMT DEF AssetStates, Stages
<1>2. \A j \in DOMAIN Stages : Stages[j] = s => j = k
  BY SMT, <1>1 DEF Stages
<1>3. PlaceOf(s) = k
  <2>1. k \in DOMAIN Stages
    BY <1>1 DEF Stages
  <2>2. PlaceOf(s) \in DOMAIN Stages /\ Stages[PlaceOf(s)] = s
    BY <1>1, <2>1, PlaceIs
  <2>. QED
    BY <1>2, <2>2
<1>4. After(s) = Stages[1 + k]
  BY <1>3 DEF After
<1>. QED
  BY SMT, <1>4 DEF AssetStates, Stages

\* So does the record of a batch.
LEMMA BatchLadder ==
  ASSUME NEW s \in BatchStates, s # "committed"
  PROVE  AfterBatch(s) \in BatchStates \ {"none"}
<1>1. PICK k \in 1..4 : BatchStages[k] = s
  BY SMT DEF BatchStates, BatchStages
<1>2. \A j \in DOMAIN BatchStages : BatchStages[j] = s => j = k
  BY SMT, <1>1 DEF BatchStages
<1>3. BatchPlaceOf(s) = k
  <2>1. k \in DOMAIN BatchStages
    BY <1>1 DEF BatchStages
  <2>2. BatchPlaceOf(s) \in DOMAIN BatchStages /\ BatchStages[BatchPlaceOf(s)] = s
    BY <1>1, <2>1, BatchPlaceIs
  <2>. QED
    BY <1>2, <2>2
<1>4. AfterBatch(s) = BatchStages[1 + k]
  BY <1>3 DEF AfterBatch
<1>. QED
  BY SMT, <1>4 DEF BatchStates, BatchStages

\* While a required deck is missing there is a next deck to publish.
LEMMA NextDeckIsMissing ==
  ASSUME ~(Required \subseteq Published)
  PROVE  NextDeck \in DOMAIN Decks /\ asset[Decks[NextDeck]] # "committed"
<1>. DEFINE M == {k \in DOMAIN Decks : asset[Decks[k]] # "committed"}
<1>1. M # {}
  BY ConstAssumption DEF Published, DeckSet
<1>2. DOMAIN Decks = 1..Len(Decks) /\ Len(Decks) \in Nat
  BY NameAssumption
<1>3. M \subseteq Nat
  BY <1>2
<1>4. PICK k \in M : \A j \in M : <<j, k>> \notin OpToRel(<, Nat)
  <2>. HIDE DEF M
  <2>. QED
    BY <1>1, <1>3, NatLessThanWellFounded, WFMin
<1>5. \A j \in 1..(k - 1) : asset[Decks[j]] = "committed"
  <2>. SUFFICES ASSUME NEW j \in 1..(k - 1), j \in M PROVE FALSE
    BY <1>2, <1>3
  <2>1. <<j, k>> \in OpToRel(<, Nat)
    BY <1>3 DEF OpToRel
  <2>. QED
    BY <1>4, <2>1
<1>6. k \in DOMAIN Decks /\ asset[Decks[k]] # "committed"
  BY <1>4
<1>. QED
  BY <1>5, <1>6, NextDeckIs

\* A part of a bundle is one of its two files, and no deck.
LEMMA PartsAreAssets ==
  ASSUME NEW b \in Bundles
  PROVE  /\ Parts(b) \subseteq Assets /\ <<b, "image">> \in Parts(b) /\ <<b, "note">> \in Parts(b)
         /\ Parts(b) \cap DeckSet = {}
         /\ \A c \in Bundles : c # b => Parts(b) \cap Parts(c) = {}
<1>1. Parts(b) \subseteq Assets /\ <<b, "image">> \in Parts(b) /\ <<b, "note">> \in Parts(b)
  BY DEF Parts, Assets
<1>2. Parts(b) \cap DeckSet = {}
  BY NameAssumption
<1>3. \A c \in Bundles : c # b => Parts(b) \cap Parts(c) = {}
  BY DEF Parts
<1>. QED
  BY <1>1, <1>2, <1>3

LEMMA DecksAreAssets == DeckSet \subseteq Assets
<1>. DEFINE U == UNION {Parts(b) : b \in Bundles}
<1>1. Assets = U \cup DeckSet
  BY DEF Assets
<1>. HIDE DEF U
<1>. QED
  BY <1>1

\* A command is about a bundle, and its outcome is a decision.
LEMMA Commands ==
  ASSUME NEW o \in Ops
  PROVE  /\ Of(o) \in Bundles /\ Of(o) \in BatchIds /\ Of(o) # Manual
         /\ Outcome(o) \in {"PUBLISHED", "REJECTED"} /\ Command[o].verdict \in {"APPROVED", "REJECTED"}
         /\ Approves(o) <=> Outcome(o) = "PUBLISHED"
         /\ Approves(o) <=> Command[o].verdict = "APPROVED"
         /\ o \in Threads /\ o # None /\ o # Observer /\ o # Collector
BY ConstAssumption, NameAssumption DEF Of, Outcome, Approves, Threads, BatchIds

-----------------------------------------------------------------------------
(* Which step does what.                                                   *)
\* Which steps write which variable.
LEMMA Writers ==
  ASSUME [Next]_vars
  PROVE  /\ \/ Observe(Observer)
            \/ AgentExit
            \/ Restart
            \/ (\E t \in Ops \cup {Observer} : AwaitReview(t))
            \/ (\E o \in Ops : SettleInstance(o) \/ CollectTarget(o))
            \/ image' = image
         /\ \/ StartDecks
            \/ CompleteDecks
            \/ ppt' = ppt
         /\ \/ (\E b \in Bundles : FinishBranch(b))
            \/ offered' = offered
         /\ \/ (\E b \in Bundles : FinishBranch(b) \/ RepairBranch(b))
            \/ broken' = broken
         /\ \/ AnnounceDecks
            \/ Recovered
            \/ (\E o \in Ops : TellSuccess(o))
            \/ told' = told
         /\ \/ (\E t \in Ops \cup {Observer} : PersistCandidate(t))
            \/ (\E o \in Ops : DecideCandidate(o))
            \/ cand' = cand
         /\ \/ (\E t \in Ops \cup {Observer} : AskReview(t))
            \/ (\E o \in Ops : CommitResolution(o))
            \/ review' = review
         /\ \/ (\E t \in Ops \cup {Observer} : NotifyReview(t))
            \/ (\E o \in Ops : HandleNotification(o))
            \/ note' = note
         /\ \/ PublishDeck
            \/ RecoverAsset
            \/ (\E o \in Ops : PublishPart(o))
            \/ asset' = asset
         /\ \/ CommitDecks
            \/ RecoverAsset
            \/ (\E o \in Ops : CommitBatch(o))
            \/ batch' = batch
         /\ \/ (\E o \in Ops : Resolve(o) \/ CommitBatch(o) \/ FinishIntent(o) \/ ResolveReview(o))
            \/ intent' = intent
         /\ \/ (\E o \in Ops : CompleteBundle(o) \/ CheckStatus(o) \/ ResolveReview(o) \/ RecordCompletion(o))
            \/ bound' = bound
         /\ \/ Crash
            \/ Start
            \/ AssetsRecovered
            \/ Recovered
            \/ mode' = mode
         /\ \/ Crash
            \/ AssetsRecovered
            \/ RecoverIntent
            \/ todo' = todo
<1>1. Observe(Observer) \/ AgentExit \/ Restart \/ (\E t \in Ops \cup {Observer} :
      AwaitReview(t)) \/ (\E o \in Ops : SettleInstance(o) \/ CollectTarget(o)) \/ image' =
      image
  BY DEF vars, Next, Collecting, Deciding, Completing, DeckSteps, Startup, FinishBranch,
         RepairBranch, PersistCandidate, AskReview, NotifyReview, StartDecks, CollectDecks,
         PublishDeck, CommitDecks, CompleteDecks, AnnounceDecks, Resolve, CompleteBundle,
         PublishPart, CommitBatch, DecideCandidate, CommitResolution, HandleNotification,
         ReadInstance, TellSuccess, Answer, FinishIntent, CheckStatus, ResolveReview, RecordCompletion,
         PublishFails, Crash, Start, RecoverAsset, AssetsRecovered, RecoverIntent, Recovered
<1>2. StartDecks \/ CompleteDecks \/ ppt' = ppt
  BY DEF vars, Next, Collecting, Deciding, Completing, DeckSteps, Startup, FinishBranch,
         RepairBranch, AgentExit, Restart, Observe, PersistCandidate, AwaitReview, AskReview,
         NotifyReview, CollectDecks, PublishDeck, CommitDecks, AnnounceDecks, Resolve,
         CompleteBundle, PublishPart, CommitBatch, DecideCandidate, CommitResolution,
         HandleNotification, ReadInstance, SettleInstance, TellSuccess, Answer, FinishIntent,
         CheckStatus, CollectTarget, ResolveReview, RecordCompletion, PublishFails, Crash,
         Start, RecoverAsset, AssetsRecovered, RecoverIntent, Recovered
<1>3. (\E b \in Bundles : FinishBranch(b)) \/ offered' = offered
  BY DEF vars, Next, Collecting, Deciding, Completing, DeckSteps, Startup, agent, RepairBranch,
         AgentExit, Restart, Observe, PersistCandidate, AwaitReview, AskReview, NotifyReview,
         StartDecks, CollectDecks, PublishDeck, CommitDecks, CompleteDecks, AnnounceDecks,
         Resolve, CompleteBundle, PublishPart, CommitBatch, DecideCandidate, CommitResolution,
         HandleNotification, ReadInstance, SettleInstance, TellSuccess, Answer, FinishIntent,
         CheckStatus, CollectTarget, ResolveReview, RecordCompletion, PublishFails, Crash,
         Start, RecoverAsset, AssetsRecovered, RecoverIntent, Recovered
<1>4. (\E b \in Bundles : FinishBranch(b) \/ RepairBranch(b)) \/ broken' = broken
  BY DEF vars, Next, Collecting, Deciding, Completing, DeckSteps, Startup, agent, AgentExit,
         Restart, Observe, PersistCandidate, AwaitReview, AskReview, NotifyReview, StartDecks,
         CollectDecks, PublishDeck, CommitDecks, CompleteDecks, AnnounceDecks, Resolve,
         CompleteBundle, PublishPart, CommitBatch, DecideCandidate, CommitResolution,
         HandleNotification, ReadInstance, SettleInstance, TellSuccess, Answer, FinishIntent,
         CheckStatus, CollectTarget, ResolveReview, RecordCompletion, PublishFails, Crash,
         Start, RecoverAsset, AssetsRecovered, RecoverIntent, Recovered
<1>5. AnnounceDecks \/ Recovered \/ (\E o \in Ops : TellSuccess(o)) \/ told' = told
  BY DEF vars, Next, Collecting, Deciding, Completing, DeckSteps, Startup, FinishBranch,
         RepairBranch, AgentExit, Restart, Observe, PersistCandidate, AwaitReview, AskReview,
         NotifyReview, StartDecks, CollectDecks, PublishDeck, CommitDecks, CompleteDecks,
         Resolve, CompleteBundle, PublishPart, CommitBatch, DecideCandidate, CommitResolution,
         HandleNotification, ReadInstance, SettleInstance, FinishIntent, CheckStatus,
         CollectTarget, ResolveReview, RecordCompletion, PublishFails, Crash, Start,
         RecoverAsset, AssetsRecovered, RecoverIntent
<1>6. (\E t \in Ops \cup {Observer} : PersistCandidate(t)) \/ (\E o \in Ops :
      DecideCandidate(o)) \/ cand' = cand
  BY DEF vars, Next, Collecting, Deciding, Completing, DeckSteps, Startup, reviews,
         FinishBranch, RepairBranch, AgentExit, Restart, Observe, AwaitReview, AskReview,
         NotifyReview, StartDecks, CollectDecks, PublishDeck, CommitDecks, CompleteDecks,
         AnnounceDecks, Resolve, CompleteBundle, PublishPart, CommitBatch, CommitResolution,
         HandleNotification, ReadInstance, SettleInstance, TellSuccess, Answer, FinishIntent,
         CheckStatus, CollectTarget, ResolveReview, RecordCompletion, PublishFails, Crash,
         Start, RecoverAsset, AssetsRecovered, RecoverIntent, Recovered
<1>7. (\E t \in Ops \cup {Observer} : AskReview(t)) \/ (\E o \in Ops : CommitResolution(o)) \/
      review' = review
  BY DEF vars, Next, Collecting, Deciding, Completing, DeckSteps, Startup, reviews,
         FinishBranch, RepairBranch, AgentExit, Restart, Observe, PersistCandidate,
         AwaitReview, NotifyReview, StartDecks, CollectDecks, PublishDeck, CommitDecks,
         CompleteDecks, AnnounceDecks, Resolve, CompleteBundle, PublishPart, CommitBatch,
         DecideCandidate, HandleNotification, ReadInstance, SettleInstance, TellSuccess,
         FinishIntent, CheckStatus, CollectTarget, ResolveReview, RecordCompletion,
         PublishFails, Crash, Start, RecoverAsset, AssetsRecovered, RecoverIntent, Recovered
<1>8. (\E t \in Ops \cup {Observer} : NotifyReview(t)) \/ (\E o \in Ops : HandleNotification(o))
      \/ note' = note
  BY DEF vars, Next, Collecting, Deciding, Completing, DeckSteps, Startup, reviews,
         FinishBranch, RepairBranch, AgentExit, Restart, Observe, PersistCandidate,
         AwaitReview, AskReview, StartDecks, CollectDecks, PublishDeck, CommitDecks,
         CompleteDecks, AnnounceDecks, Resolve, CompleteBundle, PublishPart, CommitBatch,
         DecideCandidate, CommitResolution, ReadInstance, SettleInstance, TellSuccess,
         FinishIntent, CheckStatus, CollectTarget, ResolveReview, RecordCompletion,
         PublishFails, Crash, Start, RecoverAsset, AssetsRecovered, RecoverIntent, Recovered
<1>9. PublishDeck \/ RecoverAsset \/ (\E o \in Ops : PublishPart(o)) \/ asset' = asset
  BY DEF vars, Next, Collecting, Deciding, Completing, DeckSteps, Startup, disk, FinishBranch,
         RepairBranch, AgentExit, Restart, Observe, PersistCandidate, AwaitReview, AskReview,
         NotifyReview, StartDecks, CollectDecks, CommitDecks, CompleteDecks, AnnounceDecks,
         Resolve, CompleteBundle, CommitBatch, DecideCandidate, CommitResolution,
         HandleNotification, ReadInstance, SettleInstance, TellSuccess, Answer, FinishIntent,
         CheckStatus, CollectTarget, ResolveReview, RecordCompletion, PublishFails, Crash,
         Start, AssetsRecovered, RecoverIntent, Recovered
<1>10. CommitDecks \/ RecoverAsset \/ (\E o \in Ops : CommitBatch(o)) \/ batch' = batch
  BY DEF vars, Next, Collecting, Deciding, Completing, DeckSteps, Startup, disk, FinishBranch,
         RepairBranch, AgentExit, Restart, Observe, PersistCandidate, AwaitReview, AskReview,
         NotifyReview, StartDecks, CollectDecks, PublishDeck, CompleteDecks, AnnounceDecks,
         Resolve, CompleteBundle, PublishPart, DecideCandidate, CommitResolution,
         HandleNotification, ReadInstance, SettleInstance, TellSuccess, Answer, FinishIntent,
         CheckStatus, CollectTarget, ResolveReview, RecordCompletion, PublishFails, Crash,
         Start, AssetsRecovered, RecoverIntent, Recovered
<1>11. (\E o \in Ops : Resolve(o) \/ CommitBatch(o) \/ FinishIntent(o) \/ ResolveReview(o)) \/
      intent' = intent
  BY DEF vars, Next, Collecting, Deciding, Completing, DeckSteps, Startup, intents,
         RecordResult, FinishBranch, RepairBranch, AgentExit, Restart, Observe,
         PersistCandidate, AwaitReview, AskReview, NotifyReview, StartDecks, CollectDecks,
         PublishDeck, CommitDecks, CompleteDecks, AnnounceDecks, CompleteBundle, PublishPart,
         DecideCandidate, CommitResolution, HandleNotification, ReadInstance, SettleInstance,
         TellSuccess, CheckStatus, CollectTarget, RecordCompletion, PublishFails, Crash, Start,
         RecoverAsset, AssetsRecovered, RecoverIntent, Recovered
<1>12. (\E o \in Ops : CompleteBundle(o) \/ CheckStatus(o) \/ ResolveReview(o) \/
      RecordCompletion(o)) \/ bound' = bound
  BY DEF vars, Next, Collecting, Deciding, Completing, DeckSteps, Startup, intents,
         FinishBranch, RepairBranch, AgentExit, Restart, Observe, PersistCandidate,
         AwaitReview, AskReview, NotifyReview, StartDecks, CollectDecks, PublishDeck,
         CommitDecks, CompleteDecks, AnnounceDecks, Resolve, PublishPart, CommitBatch,
         DecideCandidate, CommitResolution, HandleNotification, ReadInstance, SettleInstance,
         TellSuccess, Answer, FinishIntent, CollectTarget, PublishFails, Crash, Start, RecoverAsset,
         AssetsRecovered, RecoverIntent, Recovered
<1>13. Crash \/ Start \/ AssetsRecovered \/ Recovered \/ mode' = mode
  BY DEF vars, Next, Collecting, Deciding, Completing, DeckSteps, Startup, control,
         FinishBranch, RepairBranch, AgentExit, Restart, Observe, PersistCandidate,
         AwaitReview, AskReview, NotifyReview, StartDecks, CollectDecks, PublishDeck,
         CommitDecks, CompleteDecks, AnnounceDecks, Resolve, CompleteBundle, PublishPart,
         CommitBatch, DecideCandidate, CommitResolution, HandleNotification, ReadInstance,
         SettleInstance, TellSuccess, Answer, FinishIntent, CheckStatus, CollectTarget, ResolveReview,
         RecordCompletion, PublishFails, RecoverAsset, RecoverIntent
<1>14. Crash \/ AssetsRecovered \/ RecoverIntent \/ todo' = todo
  BY DEF vars, Next, Collecting, Deciding, Completing, DeckSteps, Startup, control,
         FinishBranch, RepairBranch, AgentExit, Restart, Observe, PersistCandidate,
         AwaitReview, AskReview, NotifyReview, StartDecks, CollectDecks, PublishDeck,
         CommitDecks, CompleteDecks, AnnounceDecks, Resolve, CompleteBundle, PublishPart,
         CommitBatch, DecideCandidate, CommitResolution, HandleNotification, ReadInstance,
         SettleInstance, TellSuccess, Answer, FinishIntent, CheckStatus, CollectTarget, ResolveReview,
         RecordCompletion, PublishFails, Start, RecoverAsset, Recovered
<1>. QED
  BY <1>1, <1>2, <1>3, <1>4, <1>5, <1>6, <1>7, <1>8, <1>9, <1>10, <1>11, <1>12, <1>13, <1>14

\* The thread t is moved, in or out of the lock as its new place demands.
Quiet == {"persist", "wait", "deck"} \cup Outside
Move(t) ==
  \E l \in Inside \cup Outside, s \in SUBSET Bundles :
    /\ th' = [th EXCEPT ![t] = [pc |-> l, todo |-> s]]
    /\ l \in Inside => lock \in {t, None} /\ lock' = t
    /\ l \in Outside => lock' = IF lock = t THEN None ELSE lock
    /\ l = "notify" => s # {}

\* Inside and outside are different places.
LEMMA Places == \A l \in Inside : l \notin Outside
BY DEF Inside, Outside, Observing, Decided, Resolved, Settled

\* Writing the place of a thread keeps what it has to do.
LEMMA SetPc ==
  ASSUME ThreadTypes, NEW t \in Threads, NEW l
  PROVE  [th EXCEPT ![t].pc = l] = [th EXCEPT ![t] = [pc |-> l, todo |-> th[t].todo]]
<1>1. th[t] \in ThreadType
  BY DEF ThreadTypes
<1>2. [th[t] EXCEPT !.pc = l] = [pc |-> l, todo |-> th[t].todo]
  BY <1>1 DEF ThreadType
<1>. QED
  BY <1>2

\* The four ways in which the code moves a thread.
LEMMA GoMoves ==
  ASSUME ThreadTypes, LockInv, NEW t \in Threads, NEW l \in Inside \cup Outside,
         l = "notify" => th[t].todo # {}, l \in Inside <=> th[t].pc \in Inside, Go(t, l)
  PROVE  Move(t) /\ th'[t].pc = l
<1>1. th[t] \in ThreadType /\ t # None
  BY NameAssumption DEF ThreadTypes
<1>2. th' = [th EXCEPT ![t] = [pc |-> l, todo |-> th[t].todo]] /\ lock' = lock
  BY <1>1, SetPc DEF Go
<1>3. th[t].todo \in SUBSET Bundles
  BY <1>1 DEF ThreadType
<1>4. l \in Inside <=> lock = t
  BY DEF LockInv
<1>5. l \in Outside => lock # t
  BY <1>4, Places
<1>6. Move(t)
  <2>. DEFINE s == th[t].todo
  <2>1. /\ th' = [th EXCEPT ![t] = [pc |-> l, todo |-> s]]
        /\ l \in Inside => lock \in {t, None} /\ lock' = t
        /\ l \in Outside => lock' = IF lock = t THEN None ELSE lock
        /\ l = "notify" => s # {}
    BY <1>2, <1>4, <1>5
  <2>. QED
    BY <2>1, <1>3 DEF Move
<1>. QED
  BY <1>2, <1>6 DEF ThreadTypes

LEMMA EnterMoves ==
  ASSUME ThreadTypes, LockInv, NEW t \in Threads, NEW l \in Inside \ {"notify"}, Free, Enter(t, l)
  PROVE  Move(t) /\ th'[t].pc = l
<1>1. th' = [th EXCEPT ![t] = [pc |-> l, todo |-> {}]] /\ lock' = t /\ lock = None
  BY DEF Enter, Free
<1>2. l \notin Outside /\ l # "notify" /\ {} \in SUBSET Bundles
  BY Places
<1>3. Move(t)
  <2>. DEFINE s == {}
  <2>1. /\ th' = [th EXCEPT ![t] = [pc |-> l, todo |-> s]]
        /\ l \in Inside => lock \in {t, None} /\ lock' = t
        /\ l \in Outside => lock' = IF lock = t THEN None ELSE lock
        /\ l = "notify" => s # {}
    BY <1>1, <1>2
  <2>. QED
    BY <2>1 DEF Move
<1>. QED
  BY <1>1, <1>3 DEF ThreadTypes

LEMMA ReturnMoves ==
  ASSUME ThreadTypes, NEW t \in Threads, Return(t)
  PROVE  Move(t) /\ th'[t].pc = "idle"
<1>1. th' = [th EXCEPT ![t] = [pc |-> "idle", todo |-> {}]] /\ lock' = IF lock = t THEN None ELSE lock
  BY DEF Return, Idle
<1>2. "idle" \in Outside /\ "idle" \notin Inside
  BY Places DEF Outside
<1>3. Move(t)
  <2>. DEFINE l == "idle"
              s == {}
  <2>1. /\ th' = [th EXCEPT ![t] = [pc |-> l, todo |-> s]]
        /\ l \in Inside => lock \in {t, None} /\ lock' = t
        /\ l \in Outside => lock' = IF lock = t THEN None ELSE lock
        /\ l = "notify" => s # {}
    BY <1>1, <1>2
  <2>. QED
    BY <2>1, <1>2 DEF Move
<1>. QED
  BY <1>1, <1>3 DEF ThreadTypes

LEMMA DropMoves ==
  ASSUME ThreadTypes, NEW t \in Threads, NEW l \in Outside, lock = t,
         th' = [th EXCEPT ![t].pc = l], lock' = None
  PROVE  Move(t) /\ th'[t].pc = l
<1>1. th[t] \in ThreadType
  BY DEF ThreadTypes
<1>2. th' = [th EXCEPT ![t] = [pc |-> l, todo |-> th[t].todo]] /\ th[t].todo \in SUBSET Bundles
  BY <1>1, SetPc DEF ThreadType
<1>3. l \notin Inside /\ l # "notify"
  BY Places DEF Outside
<1>4. Move(t)
  <2>. DEFINE s == th[t].todo
  <2>1. /\ th' = [th EXCEPT ![t] = [pc |-> l, todo |-> s]]
        /\ l \in Inside => lock \in {t, None} /\ lock' = t
        /\ l \in Outside => lock' = IF lock = t THEN None ELSE lock
        /\ l = "notify" => s # {}
    BY <1>2, <1>3
  <2>. QED
    BY <2>1, <1>2 DEF Move
<1>. QED
  BY <1>2, <1>4 DEF ThreadTypes

\* The steps that leave the thread of an operation inside a decision.
Decides(o) ==
  \/ Resolve(o) \/ ResolveReview(o) \/ RecoverIntent
  \/ CommitBatch(o) \/ DecideCandidate(o) \/ CommitResolution(o) \/ HandleNotification(o)
  \/ ReadInstance(o) \/ SettleInstance(o) \/ TellSuccess(o)
Stay == th' = th /\ lock' = lock
Stop == mode' = "down" /\ th' = [t \in Threads |-> Idle] /\ lock' = None
\* Those that leave a thread asking for reviews.
Asks(t) == AwaitReview(t) \/ AskReview(t) \/ NotifyReview(t)
Moves(t) ==
  /\ Move(t)
  /\ th'[t].pc \in Quiet \/ (t \in Ops /\ Decides(t)) \/ (t \in Ops \cup {Observer} /\ Asks(t))

\* What the entry of a decision is.
LEMMA EntryIsInside ==
  ASSUME NEW o
  PROVE  Entry(o) \in {"publish", "decide"} /\ Entry(o) \in Inside \ {"notify"}
BY DEF Entry, Inside, Observing, Decided, Resolved, Settled

\* What is entered when a review is resolved or an intent resumed.
LEMMA PrepareMoves ==
  ASSUME ThreadTypes, LockInv, NEW o \in Ops, Free, Prepare(o)
  PROVE  Move(o) /\ th'[o].pc = Entry(o)
BY EntryIsInside, EnterMoves, Commands DEF Prepare

\* Observation moves its own thread and never into a decision.
LEMMA CollectingMoves ==
  ASSUME TypeInv, LockInv, NEW t \in Ops \cup {Observer}, Collecting(t)
  PROVE  Stay \/ (Move(t) /\ (th'[t].pc \in Quiet \/ Asks(t)))
<1>. USE DEF TypeInv
<1>0. t \in Threads /\ th[t] \in ThreadType /\ t # None
  BY NameAssumption DEF Threads, ThreadTypes
<1>1. CASE PersistCandidate(t)
  BY <1>0, <1>1, GoMoves DEF PersistCandidate, Running, Stay, Quiet, Inside, Observing
<1>2. CASE AwaitReview(t)
  <2>1. PICK s \in SUBSET Bundles : th' = [th EXCEPT ![t] = [pc |-> "ask", todo |-> s]]
    BY <1>2 DEF AwaitReview, AgentTypes
  <2>2. th[t].pc = "wait" /\ lock' = lock
    BY <1>2 DEF AwaitReview, Running
  <2>3. lock = t
    BY <1>0, <2>2 DEF LockInv, Inside, Observing
  <2>4. "ask" \in Inside /\ "ask" # "notify" /\ "ask" \notin Outside
    BY DEF Inside, Observing, Outside
  <2>5. Move(t)
    <3>. DEFINE l == "ask"
    <3>1. /\ th' = [th EXCEPT ![t] = [pc |-> l, todo |-> s]]
          /\ l \in Inside => lock \in {t, None} /\ lock' = t
          /\ l \in Outside => lock' = IF lock = t THEN None ELSE lock
          /\ l = "notify" => s # {}
      BY <2>1, <2>2, <2>3, <2>4
    <3>. QED
      BY <3>1, <2>4 DEF Move
  <2>. QED
    BY <1>2, <2>5 DEF Asks
<1>3. CASE AskReview(t)
  <2>0. th[t].pc = "ask"
    BY <1>3 DEF AskReview, Running
  <2>1. lock = t
    BY <1>0, <2>0 DEF LockInv, Inside, Observing
  <2>2. CASE th[t].todo = {} /\ t = Observer
    BY <1>0, <1>3, <2>2, ReturnMoves DEF AskReview, Quiet, Outside
  <2>3. CASE th[t].todo = {} /\ t # Observer
    BY <1>0, <1>3, <2>1, <2>3, DropMoves DEF AskReview, Quiet, Outside
  <2>4. CASE th[t].todo # {}
    BY <1>0, <1>3, <2>0, <2>4, GoMoves DEF AskReview, Asks, Inside, Observing
  <2>. QED
    BY <2>2, <2>3, <2>4
<1>4. CASE NotifyReview(t)
  <2>1. PICK s \in SUBSET Bundles : th' = [th EXCEPT ![t] = [pc |-> "ask", todo |-> s]]
    <3>. DEFINE b == Pick(th[t].todo)
    <3>1. th' = [th EXCEPT ![t] = [pc |-> "ask", todo |-> th[t].todo \ {b}]]
      BY <1>0, <1>4 DEF NotifyReview
    <3>2. th[t].todo \ {b} \in SUBSET Bundles
      BY <1>0 DEF ThreadType
    <3>. QED
      BY <3>1, <3>2
  <2>2. th[t].pc = "notify" /\ lock' = lock
    BY <1>4 DEF NotifyReview, Running
  <2>3. lock = t
    BY <1>0, <2>2 DEF LockInv, Inside, Observing
  <2>4. "ask" \in Inside /\ "ask" # "notify" /\ "ask" \notin Outside
    BY DEF Inside, Observing, Outside
  <2>5. Move(t)
    <3>. DEFINE l == "ask"
    <3>1. /\ th' = [th EXCEPT ![t] = [pc |-> l, todo |-> s]]
          /\ l \in Inside => lock \in {t, None} /\ lock' = t
          /\ l \in Outside => lock' = IF lock = t THEN None ELSE lock
          /\ l = "notify" => s # {}
      BY <2>1, <2>2, <2>3, <2>4
    <3>. QED
      BY <3>1, <2>4 DEF Move
  <2>. QED
    BY <1>4, <2>5 DEF Asks
<1>. QED
  BY <1>1, <1>2, <1>3, <1>4 DEF Collecting

\* A decision moves its own thread.
LEMMA DecidingMoves ==
  ASSUME TypeInv, LockInv, NEW o \in Ops, Deciding(o)
  PROVE  Stay \/ (Move(o) /\ (th'[o].pc \in Quiet \/ Decides(o)))
<1>. USE DEF TypeInv
<1>0. o \in Threads /\ o # None /\ (th[o].pc \in Inside <=> lock = o)
  BY Commands DEF LockInv
<1>l. {"publish", "decide", "commit", "handle", "read", "settle", "tell", "finish"} \subseteq Inside \ {"notify"}
  BY DEF Inside, Observing, Decided, Resolved, Settled
<1>q. "idle" \in Quiet /\ "completed" \in Quiet /\ "completed" \in Outside
  BY DEF Quiet, Outside
<1>1. CASE PublishPart(o)
  BY <1>1 DEF PublishPart, Stay
<1>2. CASE CommitBatch(o)
  BY <1>0, <1>l, <1>q, <1>2, GoMoves, ReturnMoves DEF CommitBatch, Running, Decides, Stay
<1>3. CASE DecideCandidate(o)
  BY <1>0, <1>l, <1>q, <1>3, GoMoves, ReturnMoves DEF DecideCandidate, Running, Decides
<1>4. CASE CommitResolution(o)
  BY <1>0, <1>l, <1>q, <1>4, GoMoves, ReturnMoves DEF CommitResolution, Running, Decides
<1>5. CASE HandleNotification(o)
  BY <1>0, <1>l, <1>q, <1>5, GoMoves, ReturnMoves DEF HandleNotification, Running, Decides
<1>6. CASE ReadInstance(o)
  BY <1>0, <1>l, <1>q, <1>6, GoMoves, ReturnMoves DEF ReadInstance, Running, Decides
<1>7. CASE SettleInstance(o)
  <2>1. lock = o /\ Decides(o) /\ Running(o, "settle")
    BY <1>0, <1>l, <1>7 DEF SettleInstance, Running, Decides
  <2>2. Go(o, "tell") \/ Return(o) \/ (th' = [th EXCEPT ![o].pc = "completed"] /\ lock' = None)
    BY <1>7 DEF SettleInstance, Answer
  <2>3. CASE Go(o, "tell")
    BY <1>0, <1>l, <2>1, <2>3, GoMoves DEF Running
  <2>4. CASE Return(o)
    BY <1>0, <1>q, <2>4, ReturnMoves
  <2>5. CASE th' = [th EXCEPT ![o].pc = "completed"] /\ lock' = None
    BY <1>0, <1>q, <2>1, <2>5, DropMoves
  <2>. QED
    BY <2>2, <2>3, <2>4, <2>5
<1>8. CASE TellSuccess(o)
  BY <1>0, <1>l, <1>q, <1>8, GoMoves, ReturnMoves DEF TellSuccess, Running, Decides
<1>9. CASE FinishIntent(o)
  BY <1>0, <1>l, <1>q, <1>9, ReturnMoves, DropMoves DEF FinishIntent, Answer, Running
<1>. QED
  BY <1>1, <1>2, <1>3, <1>4, <1>5, <1>6, <1>7, <1>8, <1>9 DEF Deciding

\* So does a completion command.
LEMMA CompletingMoves ==
  ASSUME TypeInv, LockInv, NEW o \in Ops, Completing(o)
  PROVE  Stay \/ (Move(o) /\ (th'[o].pc \in Quiet \/ Decides(o)))
<1>. USE DEF TypeInv
<1>0. o \in Threads /\ o # None
  BY Commands
<1>q. /\ Outside \subseteq Quiet /\ "idle" \in Outside /\ "persist" \in Quiet
      /\ "persist" \in Inside \ {"notify"}
      /\ \A l \in Outside : l # "notify" /\ l \notin Inside
      /\ {"status", "recheck", "review", "collect"} \subseteq Outside
  BY Places DEF Quiet, Outside, Inside, Observing
<1>1. CASE CheckStatus(o)
  BY <1>0, <1>q, <1>1, GoMoves, ReturnMoves DEF CheckStatus, Running, RecordResult
<1>2. CASE CollectTarget(o)
  BY <1>0, <1>q, <1>2, EnterMoves, ReturnMoves DEF CollectTarget, Running
<1>3. CASE ResolveReview(o)
  BY <1>0, <1>q, <1>3, PrepareMoves, ReturnMoves DEF ResolveReview, RecordResult, Decides
<1>4. CASE RecordCompletion(o)
  BY <1>0, <1>q, <1>4, ReturnMoves DEF RecordCompletion, RecordResult
<1>. QED
  BY <1>1, <1>2, <1>3, <1>4 DEF Completing

\* Every step of the system moves at most one thread, or stops them all.
LEMMA OneThreadMoves ==
  ASSUME TypeInv, LockInv, [Next]_vars
  PROVE  Stay \/ Stop \/ \E t \in Threads : Moves(t)
<1>. USE DEF TypeInv
<1>q. /\ "deck" \in Quiet /\ "persist" \in Quiet /\ "idle" \in Quiet /\ "status" \in Quiet
      /\ {"deck", "persist"} \subseteq Inside \ {"notify"}
      /\ "status" \in Outside /\ "idle" \notin Inside /\ "status" \notin Inside
  BY Places DEF Quiet, Outside, Inside, Observing
<1>t. Observer \in Threads /\ Collector \in Threads /\ Ops \subseteq Threads
  BY DEF Threads
<1>1. CASE \E t \in Ops \cup {Observer} : Collecting(t)
  BY <1>1, <1>t, CollectingMoves DEF Moves
<1>2. CASE \E o \in Ops : Deciding(o)
  BY <1>2, <1>t, DecidingMoves DEF Moves
<1>3. CASE \E o \in Ops : Completing(o)
  BY <1>3, <1>t, CompletingMoves DEF Moves
<1>4. CASE Observe(Observer)
  BY <1>4, <1>q, <1>t, EnterMoves DEF Observe, RejectDelivery, Moves, Stay
<1>5. CASE CollectDecks
  BY <1>5, <1>q, <1>t, EnterMoves DEF CollectDecks, Moves
<1>6. CASE AnnounceDecks
  BY <1>6, <1>q, <1>t, ReturnMoves DEF AnnounceDecks, Moves
<1>7. CASE \E o \in Ops : Resolve(o)
  <2>. PICK o \in Ops : Resolve(o)
    BY <1>7
  <2>1. Move(o)
    BY PrepareMoves DEF Resolve
  <2>. QED
    BY <2>1, <1>t DEF Moves, Decides
<1>8. CASE \E o \in Ops : CompleteBundle(o)
  <2>. PICK o \in Ops : CompleteBundle(o)
    BY <1>8
  <2>1. th[o].pc = "idle"
    BY DEF CompleteBundle, Idle
  <2>2. Go(o, "status")
    BY DEF CompleteBundle, Go
  <2>. QED
    BY <2>1, <2>2, <1>q, <1>t, GoMoves DEF Moves
<1>9. CASE \E o \in Ops : PublishFails(o)
  BY <1>9, <1>q, <1>t, ReturnMoves DEF PublishFails, Moves
<1>10. CASE Crash
  BY <1>10 DEF Crash, Stop
<1>11. CASE RecoverIntent
  <2>. DEFINE o == Pick(todo)
  <2>1. o \in Ops /\ Free /\ Enter(o, Entry(o))
    BY <1>11, PickIs DEF RecoverIntent, ControlTypes
  <2>2. Move(o)
    BY <2>1, <1>t, EntryIsInside, EnterMoves
  <2>. QED
    BY <1>11, <2>1, <2>2, <1>t DEF Moves, Decides
<1>12. CASE (\E b \in Bundles : FinishBranch(b) \/ RepairBranch(b)) \/ AgentExit \/ Restart
  BY <1>12 DEF FinishBranch, RepairBranch, AgentExit, Restart, Stay
<1>13. CASE StartDecks \/ PublishDeck \/ CommitDecks \/ CompleteDecks
  BY <1>13 DEF StartDecks, PublishDeck, CommitDecks, CompleteDecks, Stay
<1>14. CASE Start \/ RecoverAsset \/ AssetsRecovered \/ Recovered
  BY <1>14 DEF Start, RecoverAsset, AssetsRecovered, Recovered, Stay
<1>15. CASE UNCHANGED vars
  BY <1>15 DEF vars, Stay
<1>. QED
  BY <1>1, <1>2, <1>3, <1>4, <1>5, <1>6, <1>7, <1>8, <1>9, <1>10, <1>11, <1>12, <1>13, <1>14,
     <1>15 DEF Next, DeckSteps, Startup

\* The other threads stay where they are.
LEMMA OthersStay ==
  ASSUME ThreadTypes, NEW t \in Threads, Move(t), NEW u \in Threads, u # t
  PROVE  th'[u] = th[u]
BY DEF Move, ThreadTypes

\* The lock has one holder.
LEMMA LockStep ==
  ASSUME TypeInv, LockInv, [Next]_vars
  PROVE  ThreadTypes' /\ LockInv'
<1>1. CASE Stay
  BY <1>1 DEF Stay, TypeInv, ThreadTypes, LockInv
<1>2. CASE Stop
  <2>1. Idle \in ThreadType /\ Idle.pc = "idle" /\ "idle" \notin Inside
    BY Places DEF Idle, ThreadType, Outside
  <2>2. None \notin Threads
    BY NameAssumption
  <2>. QED
    BY <1>2, <2>1, <2>2 DEF Stop, ThreadTypes, LockInv
<1>3. CASE \E t \in Threads : Moves(t)
  <2>. PICK t \in Threads : Move(t)
    BY <1>3 DEF Moves
  <2>. PICK l \in Inside \cup Outside, s \in SUBSET Bundles :
         /\ th' = [th EXCEPT ![t] = [pc |-> l, todo |-> s]]
         /\ l \in Inside => lock \in {t, None} /\ lock' = t
         /\ l \in Outside => lock' = IF lock = t THEN None ELSE lock
         /\ l = "notify" => s # {}
    BY DEF Move
  <2>0. None \notin Threads
    BY NameAssumption
  <2>1. [pc |-> l, todo |-> s] \in ThreadType
    BY DEF ThreadType
  <2>2. th' \in [Threads -> ThreadType] /\ th'[t] = [pc |-> l, todo |-> s]
    BY <2>1 DEF TypeInv, ThreadTypes
  <2>3. lock' \in Threads \cup {None}
    BY DEF TypeInv, ThreadTypes
  <2>4. \A u \in Threads : th'[u].pc = "notify" => th'[u].todo # {}
    BY <2>2, OthersStay DEF TypeInv, ThreadTypes
  <2>5. th'[t].pc \in Inside <=> lock' = t
    BY <2>0, <2>2, Places
  <2>6. ASSUME NEW u \in Threads, u # t PROVE th'[u].pc \in Inside <=> lock' = u
    <3>1. th'[u] = th[u]
      BY <2>6, OthersStay DEF TypeInv
    <3>2. lock = u <=> lock' = u
      BY <2>0, <2>6
    <3>. QED
      BY <3>1, <3>2 DEF LockInv
  <2>. QED
    BY <2>2, <2>3, <2>4, <2>5, <2>6 DEF ThreadTypes, LockInv
<1>. QED
  BY <1>1, <1>2, <1>3, OneThreadMoves

\* Two threads are never inside at once.
LEMMA OneInside ==
  ASSUME LockInv, NEW t \in Threads, NEW u \in Threads, th[t].pc \in Inside, th[u].pc \in Inside
  PROVE  t = u
BY DEF LockInv

-----------------------------------------------------------------------------
(* The types.                                                              *)

\* One more step of an asset and one more step of a batch.
LEMMA PublishSteps ==
  ASSUME DiskTypes, NEW a \in Assets, asset[a] # "committed", PublishStep(a)
  PROVE  /\ asset' = [asset EXCEPT ![a] = asset'[a]]
         /\ asset'[a] \in AssetStates \ {"none"}
         /\ asset' \in [Assets -> AssetStates]
<1>1. After(asset[a]) \in AssetStates \ {"none"}
  BY AssetLadder DEF DiskTypes
<1>2. asset' = [asset EXCEPT ![a] = After(asset[a])]
  BY DEF PublishStep
<1>. QED
  BY <1>1, <1>2 DEF DiskTypes

LEMMA BatchSteps ==
  ASSUME DiskTypes, NEW x \in BatchIds, NEW by \in Doers, NEW s \in SUBSET Assets,
         batch[x].stage # "committed", BatchStep(x, by, s)
  PROVE  /\ batch' = [batch EXCEPT ![x] = batch'[x]]
         /\ batch'[x].stage \in BatchStates \ {"none"} /\ batch'[x].by = by /\ batch'[x].assets = s
         /\ batch' \in [BatchIds -> BatchType]
<1>1. AfterBatch(batch[x].stage) \in BatchStates \ {"none"}
  BY BatchLadder DEF DiskTypes, BatchType
<1>2. batch' = [batch EXCEPT ![x] = [stage |-> AfterBatch(batch[x].stage), by |-> by, assets |-> s]]
  BY DEF BatchStep
<1>3. [stage |-> AfterBatch(batch[x].stage), by |-> by, assets |-> s] \in BatchType
  BY <1>1 DEF BatchType
<1>. QED
  BY <1>1, <1>2, <1>3 DEF DiskTypes

\* What PublishDeck, PublishPart and RecoverAsset publish.
LEMMA AssetWrite ==
  ASSUME DiskTypes, [Next]_vars
  PROVE  \/ asset' = asset
         \/ \E a \in Assets :
              /\ asset[a] # "committed" /\ PublishStep(a)
              /\ \/ PublishDeck /\ a \in DeckSet
                 \/ RecoverAsset /\ asset[a] # "none"
                 \/ \E o \in Ops : PublishPart(o) /\ a = NextPart(o)
<1>1. CASE PublishDeck
  <2>. DEFINE a == Decks[NextDeck]
  <2>1. a \in DeckSet /\ asset[a] # "committed"
    BY <1>1, NextDeckIsMissing DEF PublishDeck, DeckSet
  <2>2. PublishStep(a)
    BY <1>1 DEF PublishDeck
  <2>. HIDE DEF a
  <2>3. a \in Assets
    BY <2>1, DecksAreAssets
  <2>. QED
    BY <1>1, <2>1, <2>2, <2>3
<1>2. CASE RecoverAsset
  <2>1. CASE asset' = asset
    BY <2>1
  <2>2. CASE asset' # asset
    <3>. DEFINE a == Pick(Unfinished)
    <3>1. a \in Unfinished /\ PublishStep(a)
      BY <1>2, <2>2, PickIs DEF RecoverAsset
    <3>. HIDE DEF a
    <3>. QED
      BY <1>2, <3>1 DEF Unfinished
  <2>. QED
    BY <2>1, <2>2
<1>3. CASE \E o \in Ops : PublishPart(o)
  <2>. PICK o \in Ops : PublishPart(o)
    BY <1>3
  <2>1. NextPart(o) \in Assets
    BY Commands, PartsAreAssets DEF NextPart
  <2>. QED
    BY <2>1 DEF PublishPart
<1>. QED
  BY <1>1, <1>2, <1>3, Writers

\* What CommitDecks, CommitBatch and RecoverAsset write of a batch.
LEMMA BatchWrite ==
  ASSUME DiskTypes, [Next]_vars
  PROVE  \/ batch' = batch
         \/ \E x \in BatchIds, by \in Doers, s \in SUBSET Assets :
              /\ batch[x].stage # "committed" /\ BatchStep(x, by, s)
              /\ \/ CommitDecks /\ x = Manual /\ by = None
                    /\ (batch[x].stage = "none" => s = Published /\ Complete)
                 \/ RecoverAsset /\ batch[x].stage # "none" /\ by = batch[x].by /\ s = batch[x].assets
                 \/ \E o \in Ops : CommitBatch(o) /\ x = Of(o) /\ by = o /\ s = Parts(Of(o)) /\ PartsReady(o)
<1>1. CASE CommitDecks
  <2>. DEFINE s == IF batch[Manual].stage = "none" THEN Published ELSE batch[Manual].assets
  <2>1. Manual \in BatchIds /\ None \in Doers
    BY DEF BatchIds, Doers
  <2>a. Published \subseteq Assets
    BY DecksAreAssets DEF Published
  <2>b. batch[Manual].assets \in SUBSET Assets
    BY <2>1 DEF DiskTypes, BatchType
  <2>2. s \in SUBSET Assets
    BY <2>a, <2>b
  <2>3. batch[Manual].stage # "committed" /\ BatchStep(Manual, None, s) /\ Complete
    BY <1>1 DEF CommitDecks
  <2>4. batch[Manual].stage = "none" => s = Published
    OBVIOUS
  <2>. HIDE DEF s
  <2>. QED
    BY <1>1, <2>1, <2>2, <2>3, <2>4
<1>2. CASE RecoverAsset
  <2>1. CASE batch' = batch
    BY <2>1
  <2>2. CASE batch' # batch
    <3>. DEFINE x == Pick(OpenBatches)
    <3>1. x \in OpenBatches /\ BatchStep(x, batch[x].by, batch[x].assets)
      BY <1>2, <2>2, PickIs DEF RecoverAsset
    <3>. HIDE DEF x
    <3>2. x \in BatchIds /\ batch[x].stage \notin {"none", "committed"}
      BY <3>1 DEF OpenBatches, BatchIds
    <3>3. batch[x].by \in Doers /\ batch[x].assets \in SUBSET Assets
      BY <3>2 DEF DiskTypes, BatchType
    <3>. QED
      BY <1>2, <3>1, <3>2, <3>3
  <2>. QED
    BY <2>1, <2>2
<1>3. CASE \E o \in Ops : CommitBatch(o)
  <2>. PICK o \in Ops : CommitBatch(o)
    BY <1>3
  <2>1. Of(o) \in BatchIds /\ o \in Doers /\ Parts(Of(o)) \in SUBSET Assets
    BY Commands, PartsAreAssets DEF Doers
  <2>2. batch' = batch \/ (batch[Of(o)].stage # "committed" /\ BatchStep(Of(o), o, Parts(Of(o))))
    BY DEF CommitBatch
  <2>3. PartsReady(o)
    BY DEF CommitBatch
  <2>. QED
    BY <2>1, <2>2, <2>3
<1>. QED
  BY <1>1, <1>2, <1>3, Writers

LEMMA DiskTypesStep ==
  ASSUME TypeInv, [Next]_vars
  PROVE  DiskTypes'
<1>. USE DEF TypeInv
<1>1. asset' \in [Assets -> AssetStates]
  <2>1. CASE asset' = asset
    BY <2>1 DEF DiskTypes
  <2>2. CASE asset' # asset
    <3>. PICK a \in Assets : asset[a] # "committed" /\ PublishStep(a)
      BY <2>2, AssetWrite
    <3>. QED
      BY PublishSteps
  <2>. QED
    BY <2>1, <2>2
<1>2. batch' \in [BatchIds -> BatchType]
  <2>1. CASE batch' = batch
    BY <2>1 DEF DiskTypes
  <2>2. CASE batch' # batch
    <3>. PICK x \in BatchIds, by \in Doers, s \in SUBSET Assets :
           batch[x].stage # "committed" /\ BatchStep(x, by, s)
      BY <2>2, BatchWrite
    <3>. QED
      BY BatchSteps
  <2>. QED
    BY <2>1, <2>2
<1>. QED
  BY <1>1, <1>2 DEF DiskTypes

LEMMA AgentTypesStep ==
  ASSUME TypeInv, [Next]_vars
  PROVE  AgentTypes'
<1>. USE DEF TypeInv
<1>1. image' \in {"RUNNING", "WAITING_APPROVAL", "SUCCEEDED", "FAILED", "CRASHED"}
  BY Writers DEF AgentTypes, Observe, RejectDelivery, AgentExit, Restart, AwaitReview, SettleInstance,
                 Target, CollectTarget
<1>2. ppt' \in {"READY", "RUNNING", "SUCCEEDED"}
  BY Writers DEF AgentTypes, StartDecks, CompleteDecks
<1>3. offered' \subseteq Bundles
  BY Writers DEF AgentTypes, FinishBranch
<1>4. broken' \subseteq offered'
  <2>1. CASE offered' = offered
    BY <2>1, Writers DEF AgentTypes, FinishBranch, RepairBranch
  <2>2. CASE offered' # offered
    <3>. PICK b \in Bundles : FinishBranch(b)
      BY <2>2, Writers
    <3>. QED
      BY DEF AgentTypes, FinishBranch
  <2>. QED
    BY <2>1, <2>2
<1>5. told' \subseteq {"image", "ppt"}
  BY Writers DEF AgentTypes, AnnounceDecks, Recovered, TellSuccess
<1>. QED
  BY <1>1, <1>2, <1>3, <1>4, <1>5 DEF AgentTypes

\* What is written of a candidate: a first sight, or a decision.
LEMMA CandWrite ==
  ASSUME TypeInv, [Next]_vars
  PROVE  \/ cand' = cand
         \/ \E b \in Bundles : cand[b].status = "NONE"
                               /\ cand' = [cand EXCEPT ![b] = [status |-> "PENDING", by |-> None]]
         \/ \E o \in Ops : /\ DecideCandidate(o) /\ (cand[Of(o)].status = "PENDING" \/ cand[Of(o)].by = o)
                           /\ cand' = [cand EXCEPT ![Of(o)] = [status |-> Outcome(o), by |-> o]]
<1>1. CASE \E t \in Ops \cup {Observer} : PersistCandidate(t)
  <2>. PICK t \in Ops \cup {Observer} : PersistCandidate(t)
    BY <1>1
  <2>. DEFINE new == {b \in offered : cand[b].status = "NONE"}
              c == Pick(new)
  <2>1. CASE new = {}
    BY <2>1 DEF PersistCandidate
  <2>2. CASE new # {}
    <3>1. cand' = [cand EXCEPT ![c] = [status |-> "PENDING", by |-> None]]
      BY <2>2 DEF PersistCandidate
    <3>2. c \in new
      BY <2>2, PickIs
    <3>3. c \in Bundles /\ cand[c].status = "NONE"
      BY <3>2 DEF TypeInv, AgentTypes
    <3>. HIDE DEF c
    <3>. QED
      BY <3>1, <3>3
  <2>. QED
    BY <2>1, <2>2
<1>2. CASE \E o \in Ops : DecideCandidate(o)
  <2>. PICK o \in Ops : DecideCandidate(o)
    BY <1>2
  <2>1. CASE cand[Of(o)].status # "PENDING" /\ cand[Of(o)].by # o
    BY <2>1 DEF DecideCandidate
  <2>2. CASE ~(cand[Of(o)].status # "PENDING" /\ cand[Of(o)].by # o)
    BY <2>2 DEF DecideCandidate
  <2>. QED
    BY <2>1, <2>2
<1>. QED
  BY <1>1, <1>2, Writers

\* What is written of a review: the question, or the answer.
LEMMA ReviewWrite ==
  ASSUME TypeInv, [Next]_vars
  PROVE  \/ review' = review
         \/ \E t \in Ops \cup {Observer} : \E b \in th[t].todo :
              /\ AskReview(t) /\ th[t].pc = "ask" /\ t \in Threads /\ b \in Bundles
              /\ review[b].status = "NONE" /\ review' = [review EXCEPT ![b].status = "PENDING"]
         \/ \E o \in Ops : /\ CommitResolution(o) /\ review[Of(o)].by # o /\ review[Of(o)].status = "PENDING"
                           /\ review' = [review EXCEPT ![Of(o)] = [status |-> Command[o].verdict, by |-> o]]
<1>1. CASE \E t \in Ops \cup {Observer} : AskReview(t)
  <2>. PICK t \in Ops \cup {Observer} : AskReview(t)
    BY <1>1
  <2>. DEFINE c == Pick(th[t].todo)
  <2>1. CASE review' = review
    BY <2>1
  <2>2. CASE review' # review
    <3>1. th[t].todo # {} /\ review[c].status = "NONE" /\ review' = [review EXCEPT ![c].status = "PENDING"]
      BY <2>2 DEF AskReview
    <3>2. c \in th[t].todo
      BY <3>1, PickIs
    <3>3. t \in Threads /\ th[t].pc = "ask"
      BY DEF Threads, AskReview, Running
    <3>4. th[t] \in ThreadType
      BY <3>3 DEF TypeInv, ThreadTypes
    <3>5. c \in Bundles
      BY <3>2, <3>4 DEF ThreadType
    <3>. HIDE DEF c
    <3>. QED
      BY <3>1, <3>2, <3>3, <3>5
  <2>. QED
    BY <2>1, <2>2
<1>2. CASE \E o \in Ops : CommitResolution(o)
  <2>. PICK o \in Ops : CommitResolution(o)
    BY <1>2
  <2>1. CASE review[Of(o)].by = o
    BY <2>1 DEF CommitResolution
  <2>2. CASE review[Of(o)].by # o /\ review[Of(o)].status = "PENDING"
    BY <2>2 DEF CommitResolution
  <2>3. CASE review[Of(o)].by # o /\ review[Of(o)].status # "PENDING"
    BY <2>3 DEF CommitResolution
  <2>. QED
    BY <2>1, <2>2, <2>3
<1>. QED
  BY <1>1, <1>2, Writers

\* What is written of a notification.
LEMMA NoteWrite ==
  ASSUME TypeInv, [Next]_vars
  PROVE  \/ note' = note
         \/ \E t \in Ops \cup {Observer} : \E b \in th[t].todo :
              /\ NotifyReview(t) /\ th[t].pc = "notify" /\ t \in Threads /\ b \in Bundles
              /\ note[b] = "NONE" /\ note' = [note EXCEPT ![b] = "OPEN"]
         \/ \E o \in Ops : /\ HandleNotification(o) /\ note[Of(o)] = "OPEN"
                           /\ note' = [note EXCEPT ![Of(o)] = "HANDLED"]
<1>1. CASE \E t \in Ops \cup {Observer} : NotifyReview(t)
  <2>. PICK t \in Ops \cup {Observer} : NotifyReview(t)
    BY <1>1
  <2>. DEFINE c == Pick(th[t].todo)
  <2>1. CASE note' = note
    BY <2>1
  <2>2. CASE note' # note
    <3>1. note[c] = "NONE" /\ note' = [note EXCEPT ![c] = "OPEN"]
      BY <2>2 DEF NotifyReview
    <3>2. t \in Threads /\ th[t].pc = "notify"
      BY DEF Threads, NotifyReview, Running
    <3>3. th[t] \in ThreadType /\ th[t].todo # {}
      BY <3>2 DEF TypeInv, ThreadTypes
    <3>4. c \in th[t].todo
      BY <3>3, PickIs
    <3>5. c \in Bundles
      BY <3>3, <3>4 DEF ThreadType
    <3>. HIDE DEF c
    <3>. QED
      BY <3>1, <3>2, <3>4, <3>5
  <2>. QED
    BY <2>1, <2>2
<1>2. CASE \E o \in Ops : HandleNotification(o)
  <2>. PICK o \in Ops : HandleNotification(o)
    BY <1>2
  <2>0. Of(o) \in Bundles
    BY Commands
  <2>1. CASE note[Of(o)] = "OPEN"
    BY <2>1 DEF HandleNotification
  <2>2. CASE note[Of(o)] # "OPEN"
    <3>1. note' = [note EXCEPT ![Of(o)] = note[Of(o)]]
      BY <2>2 DEF HandleNotification
    <3>. QED
      BY <3>1, <2>0 DEF TypeInv, ReviewTypes
  <2>. QED
    BY <2>1, <2>2
<1>. QED
  BY <1>1, <1>2, Writers

\* What is written of an intent: its beginning, its publication, its end.
LEMMA IntentWrite ==
  ASSUME TypeInv, [Next]_vars
  PROVE  \/ intent' = intent
         \/ \E o \in Ops :
              \/ /\ Resolve(o) \/ ResolveReview(o)
                 /\ intent[o] = "NONE" /\ review[Of(o)].status = "PENDING"
                 /\ intent' = [intent EXCEPT ![o] = "PREPARED"]
              \/ /\ CommitBatch(o) /\ th[o].pc = "publish"
                 /\ batch[Of(o)].stage = "committed" /\ batch[Of(o)].by = o
                 /\ intent' = [intent EXCEPT ![o] = "PUBLISHED"]
              \/ /\ FinishIntent(o) /\ th[o].pc = "finish"
                 /\ intent' = [intent EXCEPT ![o] = "COMMITTED"]
<1>0. ASSUME NEW o \in Ops, Prepare(o)
      PROVE  intent' = intent \/ (intent[o] = "NONE" /\ intent' = [intent EXCEPT ![o] = "PREPARED"])
  <2>1. CASE intent[o] = "NONE"
    BY <1>0, <2>1 DEF Prepare
  <2>2. CASE intent[o] # "NONE"
    <3>1. intent' = [intent EXCEPT ![o] = intent[o]]
      BY <1>0, <2>2 DEF Prepare
    <3>. QED
      BY <3>1 DEF TypeInv, IntentTypes
  <2>. QED
    BY <2>1, <2>2
<1>1. ASSUME NEW o \in Ops, Resolve(o)
      PROVE  intent' = intent \/ (intent[o] = "NONE" /\ review[Of(o)].status = "PENDING"
                                  /\ intent' = [intent EXCEPT ![o] = "PREPARED"])
  BY <1>0, <1>1 DEF Resolve
<1>2. ASSUME NEW o \in Ops, ResolveReview(o)
      PROVE  intent' = intent \/ (intent[o] = "NONE" /\ review[Of(o)].status = "PENDING"
                                  /\ intent' = [intent EXCEPT ![o] = "PREPARED"])
  <2>1. CASE intent[o] # "NONE" \/ review[Of(o)].status = "PENDING"
    <3>1. Prepare(o)
      BY <1>2, <2>1 DEF ResolveReview
    <3>. QED
      BY <1>0, <2>1, <3>1
  <2>2. CASE ~(intent[o] # "NONE" \/ review[Of(o)].status = "PENDING")
    BY <1>2, <2>2 DEF ResolveReview, intents
  <2>. QED
    BY <2>1, <2>2
<1>3. ASSUME NEW o \in Ops, CommitBatch(o)
      PROVE  intent' = intent \/ (/\ th[o].pc = "publish"
                                  /\ batch[Of(o)].stage = "committed" /\ batch[Of(o)].by = o
                                  /\ intent' = [intent EXCEPT ![o] = "PUBLISHED"])
  BY <1>3 DEF CommitBatch, BatchConflict, Running
<1>4. ASSUME NEW o \in Ops, FinishIntent(o)
      PROVE  th[o].pc = "finish" /\ intent' = [intent EXCEPT ![o] = "COMMITTED"]
  BY <1>4 DEF FinishIntent, Answer, Running
<1>. QED
  BY <1>1, <1>2, <1>3, <1>4, Writers

LEMMA ReviewTypesStep ==
  ASSUME TypeInv, [Next]_vars
  PROVE  ReviewTypes'
<1>1. cand' \in [Bundles -> CandType]
  <2>1. [status |-> "PENDING", by |-> None] \in CandType
    BY DEF CandType, Doers
  <2>2. \A o \in Ops : [status |-> Outcome(o), by |-> o] \in CandType
    BY Commands DEF CandType, Doers
  <2>3. cand \in [Bundles -> CandType]
    BY DEF TypeInv, ReviewTypes
  <2>. QED
    BY <2>1, <2>2, <2>3, CandWrite
<1>2. review' \in [Bundles -> ReviewType]
  <2>1. \A o \in Ops : [status |-> Command[o].verdict, by |-> o] \in ReviewType
    BY Commands DEF ReviewType, Doers
  <2>2. review \in [Bundles -> ReviewType]
    BY DEF TypeInv, ReviewTypes
  <2>3. \A b \in Bundles : [review[b] EXCEPT !.status = "PENDING"] \in ReviewType
    BY <2>2 DEF ReviewType
  <2>4. CASE \E b \in Bundles : review' = [review EXCEPT ![b].status = "PENDING"]
    BY <2>2, <2>3, <2>4
  <2>5. CASE \E o \in Ops : review' = [review EXCEPT ![Of(o)] = [status |-> Command[o].verdict, by |-> o]]
    BY <2>1, <2>2, <2>5
  <2>. QED
    BY <2>2, <2>4, <2>5, ReviewWrite
<1>3. note' \in [Bundles -> {"NONE", "OPEN", "HANDLED"}]
  <2>1. note \in [Bundles -> {"NONE", "OPEN", "HANDLED"}]
    BY DEF TypeInv, ReviewTypes
  <2>. QED
    BY <2>1, NoteWrite
<1>. QED
  BY <1>1, <1>2, <1>3 DEF ReviewTypes

LEMMA TypeStep ==
  ASSUME TypeInv, LockInv, [Next]_vars
  PROVE  TypeInv'
<1>1. intent' \in [Ops -> {"NONE", "PREPARED", "PUBLISHED", "COMMITTED"}]
  <2>1. intent \in [Ops -> {"NONE", "PREPARED", "PUBLISHED", "COMMITTED"}]
    BY DEF TypeInv, IntentTypes
  <2>. QED
    BY <2>1, IntentWrite
<1>2. bound' \in [Ops -> {"NONE", "BOUND", "COMMITTED"}]
  <2>1. bound \in [Ops -> {"NONE", "BOUND", "COMMITTED"}]
    BY DEF TypeInv, IntentTypes
  <2>2. ASSUME NEW o \in Ops,
               CompleteBundle(o) \/ CheckStatus(o) \/ ResolveReview(o) \/ RecordCompletion(o)
        PROVE  \/ bound' = bound
               \/ bound' = [bound EXCEPT ![o] = "BOUND"] \/ bound' = [bound EXCEPT ![o] = "COMMITTED"]
    BY <2>2 DEF CompleteBundle, CheckStatus, ResolveReview, RecordCompletion, RecordResult, intents
  <2>. QED
    BY <2>1, <2>2, Writers
<1>3. mode' \in {"up", "down", "assets", "intents"}
  BY Writers DEF TypeInv, ControlTypes, Crash, Start, AssetsRecovered, Recovered
<1>4. todo' \subseteq Ops
  BY Writers DEF TypeInv, ControlTypes, Crash, AssetsRecovered, Resumable, RecoverIntent
<1>. QED
  BY <1>1, <1>2, <1>3, <1>4, AgentTypesStep, ReviewTypesStep, DiskTypesStep, LockStep
  DEF TypeInv, IntentTypes, ControlTypes

-----------------------------------------------------------------------------
(* What is done stays done.                                                *)

LEMMA AssetProgress ==
  ASSUME TypeInv, [Next]_vars, NEW a \in Assets
  PROVE  /\ asset[a] = "committed" => asset'[a] = "committed"
         /\ asset[a] # "none" => asset'[a] # "none"
<1>1. CASE asset' = asset
  BY <1>1
<1>2. CASE asset' # asset
  <2>. PICK c \in Assets : asset[c] # "committed" /\ PublishStep(c)
    BY <1>2, AssetWrite DEF TypeInv
  <2>1. asset' = [asset EXCEPT ![c] = asset'[c]] /\ asset'[c] # "none"
    BY PublishSteps DEF TypeInv
  <2>2. asset'[a] = IF a = c THEN asset'[c] ELSE asset[a]
    BY <2>1 DEF TypeInv, DiskTypes
  <2>. QED
    BY <2>1, <2>2
<1>. QED
  BY <1>1, <1>2

\* A batch keeps its owner and its assets.
LEMMA BatchProgress ==
  ASSUME TypeInv, [Next]_vars, NEW x \in BatchIds, batch[x].stage # "none"
  PROVE  /\ batch'[x].stage # "none"
         /\ batch'[x].by = batch[x].by /\ batch'[x].assets = batch[x].assets
         /\ batch[x].stage = "committed" => batch'[x].stage = "committed"
<1>1. CASE batch' = batch
  BY <1>1
<1>2. CASE batch' # batch
  <2>. PICK y \in BatchIds, by \in Doers, s \in SUBSET Assets :
         batch[y].stage # "committed" /\ BatchStep(y, by, s)
    BY <1>2, BatchWrite DEF TypeInv
  <2>1. /\ batch' = [batch EXCEPT ![y] = batch'[y]]
        /\ batch'[y].stage # "none" /\ batch'[y].by = by /\ batch'[y].assets = s
    BY BatchSteps DEF TypeInv
  <2>2. batch'[x] = IF x = y THEN batch'[y] ELSE batch[x]
    BY <2>1 DEF TypeInv, DiskTypes
  <2>3. CASE x = y
    <3>1. batch[y].by = by /\ batch[y].assets = s
      BY <2>3 DEF BatchStep
    <3>. QED
      BY <2>1, <2>3, <3>1
  <2>4. CASE x # y
    BY <2>2, <2>4
  <2>. QED
    BY <2>3, <2>4
<1>. QED
  BY <1>1, <1>2

LEMMA IntentProgress ==
  ASSUME TypeInv, DecidingInv, [Next]_vars, NEW o \in Ops
  PROVE  /\ intent[o] # "NONE" => intent'[o] # "NONE"
         /\ intent[o] \in {"PUBLISHED", "COMMITTED"} => intent'[o] \in {"PUBLISHED", "COMMITTED"}
         /\ intent[o] = "COMMITTED" => intent'[o] = "COMMITTED"
<1>1. intent \in [Ops -> {"NONE", "PREPARED", "PUBLISHED", "COMMITTED"}]
  BY DEF TypeInv, IntentTypes
<1>2. \A p \in Ops : th[p].pc = "publish" => intent[p] = "PREPARED"
  BY DEF DecidingInv
<1>. QED
  BY <1>1, <1>2, IntentWrite

LEMMA CandProgress ==
  ASSUME TypeInv, CandInv, [Next]_vars, NEW b \in Bundles
  PROVE  /\ cand[b].by # None => cand'[b] = cand[b]
         /\ cand[b].status # "NONE" => cand'[b].status # "NONE"
<1>0. cand \in [Bundles -> CandType]
  BY DEF TypeInv, ReviewTypes
<1>1. cand[b].by # None => /\ cand[b].by \in Ops /\ cand[b].status = Outcome(cand[b].by)
                           /\ cand[b].status \in {"PUBLISHED", "REJECTED"}
                           /\ cand[b] = [status |-> Outcome(cand[b].by), by |-> cand[b].by]
  BY <1>0, Commands DEF CandInv, CandType, Doers
<1>2. CASE \E c \in Bundles : cand[c].status = "NONE"
                              /\ cand' = [cand EXCEPT ![c] = [status |-> "PENDING", by |-> None]]
  BY <1>0, <1>1, <1>2
<1>3. CASE \E o \in Ops : /\ cand[Of(o)].status = "PENDING" \/ cand[Of(o)].by = o
                          /\ cand' = [cand EXCEPT ![Of(o)] = [status |-> Outcome(o), by |-> o]]
  <2>. PICK o \in Ops : /\ cand[Of(o)].status = "PENDING" \/ cand[Of(o)].by = o
                        /\ cand' = [cand EXCEPT ![Of(o)] = [status |-> Outcome(o), by |-> o]]
    BY <1>3
  <2>1. CASE b = Of(o)
    <3>1. cand'[b] = [status |-> Outcome(o), by |-> o]
      BY <1>0, <2>1
    <3>2. Outcome(o) # "NONE"
      BY Commands
    <3>. QED
      BY <1>1, <2>1, <3>1, <3>2
  <2>2. CASE b # Of(o)
    BY <1>0, <2>2
  <2>. QED
    BY <2>1, <2>2
<1>. QED
  BY <1>2, <1>3, CandWrite

LEMMA ReviewProgress ==
  ASSUME TypeInv, CandInv, [Next]_vars, NEW b \in Bundles
  PROVE  /\ review[b].by # None => review'[b] = review[b]
         /\ review[b].status # "NONE" => review'[b].status # "NONE"
<1>0. review \in [Bundles -> ReviewType]
  BY DEF TypeInv, ReviewTypes
<1>1. review[b].by # None => review[b].by \in Ops /\ review[b].status \in {"APPROVED", "REJECTED"}
  BY <1>0, Commands DEF CandInv, ReviewType, Doers
<1>2. CASE \E c \in Bundles : review[c].status = "NONE" /\ review' = [review EXCEPT ![c].status = "PENDING"]
  BY <1>0, <1>1, <1>2 DEF ReviewType
<1>3. CASE \E o \in Ops : /\ review[Of(o)].status = "PENDING"
                          /\ review' = [review EXCEPT ![Of(o)] = [status |-> Command[o].verdict, by |-> o]]
  BY <1>0, <1>1, <1>3, Commands
<1>. QED
  BY <1>2, <1>3, ReviewWrite

\* Once its candidate is decided, a notification does not come back.
LEMMA NoteProgress ==
  ASSUME TypeInv, CandInv, AskingInv, [Next]_vars, NEW b \in Bundles, cand[b].by # None, note[b] # "OPEN"
  PROVE  note'[b] # "OPEN"
<1>0. note \in [Bundles -> {"NONE", "OPEN", "HANDLED"}]
  BY DEF TypeInv, ReviewTypes
<1>1. cand[b].status # "PENDING"
  <2>1. cand[b].by \in Ops /\ cand[b].status = Outcome(cand[b].by)
    BY DEF TypeInv, ReviewTypes, CandType, Doers, CandInv
  <2>. QED
    BY <2>1, Commands
<1>2. ASSUME NEW t \in Threads, NEW c \in th[t].todo, th[t].pc = "notify" PROVE c # b
  BY <1>1, <1>2 DEF AskingInv
<1>. QED
  BY <1>0, <1>2, NoteWrite

-----------------------------------------------------------------------------
(* Batches and successes.                                                  *)

LEMMA BatchInvStep ==
  ASSUME TypeInv, BatchInv, DecidingInv, [Next]_vars
  PROVE  BatchInv'
<1>. SUFFICES ASSUME NEW b \in Bundles
              PROVE  /\ batch'[b].stage # "none" =>
                          /\ batch'[b].by \in Ops /\ Of(batch'[b].by) = b /\ Approves(batch'[b].by)
                          /\ intent'[batch'[b].by] # "NONE"
                          /\ batch'[b].assets = Parts(b)
                          /\ \A a \in Parts(b) : asset'[a] = "committed"
                     /\ \A a \in Parts(b) : asset'[a] # "none" =>
                          \E o \in Ops : Of(o) = b /\ Approves(o) /\ intent'[o] # "NONE"
  BY DEF BatchInv, Approves
<1>0. b \in BatchIds /\ b # Manual
  BY NameAssumption DEF BatchIds
<1>1. ASSUME batch'[b].stage # "none"
      PROVE  /\ batch'[b].by \in Ops /\ Of(batch'[b].by) = b /\ Approves(batch'[b].by)
             /\ intent'[batch'[b].by] # "NONE"
             /\ batch'[b].assets = Parts(b)
             /\ \A a \in Parts(b) : asset'[a] = "committed"
  <2>1. CASE batch[b].stage # "none"
    <3>1. batch'[b].by = batch[b].by /\ batch'[b].assets = batch[b].assets
      BY <1>0, <2>1, BatchProgress
    <3>2. /\ batch[b].by \in Ops /\ Of(batch[b].by) = b /\ Approves(batch[b].by)
          /\ intent[batch[b].by] # "NONE"
          /\ batch[b].assets = Parts(b)
          /\ \A a \in Parts(b) : asset[a] = "committed"
      BY <2>1 DEF BatchInv
    <3>. QED
      BY <3>1, <3>2, IntentProgress, AssetProgress, PartsAreAssets
  <2>2. CASE batch[b].stage = "none"
    <3>0. batch' # batch
      BY <1>1, <2>2
    <3>. PICK x \in BatchIds, by \in Doers, s \in SUBSET Assets :
           /\ batch[x].stage # "committed" /\ BatchStep(x, by, s)
           /\ \/ CommitDecks /\ x = Manual
              \/ RecoverAsset /\ batch[x].stage # "none"
              \/ \E o \in Ops : CommitBatch(o) /\ x = Of(o) /\ by = o /\ s = Parts(Of(o)) /\ PartsReady(o)
      BY <3>0, BatchWrite DEF TypeInv
    <3>1. batch' = [batch EXCEPT ![x] = batch'[x]] /\ batch'[x].by = by /\ batch'[x].assets = s
      BY BatchSteps DEF TypeInv
    <3>2. x = b
      BY <1>0, <1>1, <2>2, <3>1 DEF TypeInv, DiskTypes
    <3>. PICK o \in Ops : CommitBatch(o) /\ x = Of(o) /\ by = o /\ s = Parts(Of(o)) /\ PartsReady(o)
      BY <1>0, <2>2, <3>2
    <3>3. Approves(o) /\ intent[o] # "NONE"
      BY DEF CommitBatch, Running, DecidingInv
    <3>4. \A a \in Parts(b) : asset[a] = "committed"
      BY <3>2 DEF PartsReady
    <3>. QED
      BY <3>1, <3>2, <3>3, <3>4, IntentProgress, AssetProgress, PartsAreAssets
  <2>. QED
    BY <2>1, <2>2
<1>2. ASSUME NEW a \in Parts(b), asset'[a] # "none"
      PROVE  \E o \in Ops : Of(o) = b /\ Approves(o) /\ intent'[o] # "NONE"
  <2>0. a \in Assets /\ a \notin DeckSet
    BY PartsAreAssets
  <2>1. CASE asset[a] # "none"
    BY <2>1, IntentProgress DEF BatchInv
  <2>2. CASE asset[a] = "none"
    <3>0. asset' # asset
      BY <1>2, <2>2
    <3>. PICK c \in Assets : /\ asset[c] # "committed" /\ PublishStep(c)
                             /\ \/ c \in DeckSet
                                \/ asset[c] # "none"
                                \/ \E o \in Ops : PublishPart(o) /\ c = NextPart(o)
      BY <3>0, AssetWrite DEF TypeInv
    <3>1. asset' = [asset EXCEPT ![c] = asset'[c]]
      BY PublishSteps DEF TypeInv
    <3>2. c = a
      BY <1>2, <2>0, <2>2, <3>1 DEF TypeInv, DiskTypes
    <3>. PICK o \in Ops : PublishPart(o) /\ c = NextPart(o)
      BY <2>0, <2>2, <3>2
    <3>3. NextPart(o) \in Parts(Of(o))
      BY DEF NextPart, Parts
    <3>4. Of(o) = b
      <4>1. Of(o) \in Bundles /\ a \in Parts(Of(o)) /\ a \in Parts(b)
        BY <3>2, <3>3, Commands
      <4>2. Of(o) # b => Parts(b) \cap Parts(Of(o)) = {}
        BY <4>1, PartsAreAssets
      <4>. QED
        BY <4>1, <4>2
    <3>5. Approves(o) /\ intent[o] # "NONE"
      BY DEF PublishPart, Running, DecidingInv
    <3>. QED
      BY <3>4, <3>5, IntentProgress
  <2>. QED
    BY <2>1, <2>2
<1>. QED
  BY <1>1, <1>2

LEMMA ManualInvStep ==
  ASSUME TypeInv, ManualInv, [Next]_vars
  PROVE  ManualInv'
<1>0. Manual \in BatchIds
  BY DEF BatchIds
<1>1. ASSUME batch'[Manual].stage # "none"
      PROVE  /\ Required \subseteq batch'[Manual].assets
             /\ \A d \in batch'[Manual].assets : asset'[d] = "committed"
  <2>1. CASE batch[Manual].stage # "none"
    <3>1. batch'[Manual].assets = batch[Manual].assets
      BY <1>0, <2>1, BatchProgress
    <3>2. batch[Manual].assets \subseteq Assets
      BY <1>0 DEF TypeInv, DiskTypes, BatchType
    <3>. QED
      BY <2>1, <3>1, <3>2, AssetProgress DEF ManualInv
  <2>2. CASE batch[Manual].stage = "none"
    <3>0. batch' # batch
      BY <1>1, <2>2
    <3>. PICK x \in BatchIds, by \in Doers, s \in SUBSET Assets :
           /\ batch[x].stage # "committed" /\ BatchStep(x, by, s)
           /\ \/ x = Manual /\ (batch[x].stage = "none" => s = Published /\ Complete)
              \/ batch[x].stage # "none"
              \/ \E o \in Ops : x = Of(o)
      BY <3>0, BatchWrite DEF TypeInv
    <3>1. batch' = [batch EXCEPT ![x] = batch'[x]] /\ batch'[x].assets = s
      BY BatchSteps DEF TypeInv
    <3>2. x = Manual
      BY <1>0, <1>1, <2>2, <3>1 DEF TypeInv, DiskTypes
    <3>3. s = Published /\ Complete
      BY <2>2, <3>2, Commands
    <3>4. Required \subseteq s /\ \A d \in s : asset[d] = "committed"
      BY <3>3 DEF Complete, Published
    <3>. QED
      BY <3>1, <3>2, <3>4, AssetProgress
  <2>. QED
    BY <2>1, <2>2
<1>2. ASSUME ppt' = "SUCCEEDED" PROVE batch'[Manual].stage = "committed"
  <2>1. batch[Manual].stage = "committed"
    BY <1>2, Writers DEF ManualInv, StartDecks, CompleteDecks
  <2>. QED
    BY <1>0, <2>1, BatchProgress
<1>. QED
  BY <1>1, <1>2 DEF ManualInv

LEMMA ImageInvStep ==
  ASSUME TypeInv, ImageInv, CandInv, IntentInv, DecidingInv, [Next]_vars
  PROVE  ImageInv'
<1>. SUFFICES ASSUME image' = "SUCCEEDED" PROVE \E b \in Bundles : batch'[b].stage = "committed"
  BY DEF ImageInv
<1>1. \E b \in Bundles : batch[b].stage = "committed"
  <2>1. CASE image = "SUCCEEDED"
    BY <2>1 DEF ImageInv
  <2>2. CASE image # "SUCCEEDED"
    <3>. PICK o \in Ops : SettleInstance(o)
      BY <2>2, Writers DEF Observe, RejectDelivery, AgentExit, Restart, AwaitReview, CollectTarget
    <3>0. th[o].pc = "settle" /\ Target(o) = "SUCCEEDED"
      BY <2>2 DEF SettleInstance, Answer, Running
    <3>1. \A p \in Ops : Approves(p) /\ intent[p] \in {"PUBLISHED", "COMMITTED"} => batch[Of(p)].stage = "committed"
      BY DEF IntentInv
    <3>2. CASE Approves(o)
      <4>1. intent[o] \in {"PUBLISHED", "COMMITTED"}
        BY <3>0, <3>2 DEF DecidingInv, Decided, Resolved, Settled
      <4>. QED
        BY <3>1, <3>2, <4>1, Commands
    <3>3. CASE \E b \in Bundles : cand[b].status = "PUBLISHED"
      <4>. PICK b \in Bundles : cand[b].status = "PUBLISHED"
        BY <3>3
      <4>1. cand[b].by # None /\ cand[b].by \in Ops
        BY DEF CandInv, TypeInv, ReviewTypes, CandType, Doers
      <4>2. Approves(cand[b].by) /\ intent[cand[b].by] \in {"PUBLISHED", "COMMITTED"}
        BY <4>1, Commands DEF CandInv
      <4>. QED
        BY <3>1, <4>1, <4>2, Commands
    <3>. QED
      BY <3>0, <3>2, <3>3 DEF Target
  <2>. QED
    BY <2>1, <2>2
<1>. QED
  BY <1>1, BatchProgress DEF BatchIds

-----------------------------------------------------------------------------
(* Candidates, reviews and intents.                                        *)

LEMMA CandInvStep ==
  ASSUME TypeInv, CandInv, IntentInv, DecidingInv, AskingInv, [Next]_vars
  PROVE  CandInv'
<1>. SUFFICES ASSUME NEW b \in Bundles
              PROVE  /\ cand'[b].by = None => cand'[b].status \in {"NONE", "PENDING"}
                     /\ cand'[b].by # None =>
                          /\ Of(cand'[b].by) = b /\ intent'[cand'[b].by] # "NONE"
                          /\ cand'[b].status = Outcome(cand'[b].by)
                          /\ Approves(cand'[b].by) => intent'[cand'[b].by] \in {"PUBLISHED", "COMMITTED"}
                     /\ review'[b].by = None => review'[b].status \in {"NONE", "PENDING"}
                     /\ review'[b].by # None =>
                          /\ cand'[b].by = review'[b].by
                          /\ review'[b].status = Command[review'[b].by].verdict
                     /\ review'[b].status # "NONE" => cand'[b].status # "NONE"
                     /\ note'[b] = "HANDLED" => review'[b].by # None
  BY DEF CandInv, Approves, Outcome
<1>0. /\ cand \in [Bundles -> CandType] /\ review \in [Bundles -> ReviewType]
      /\ note \in [Bundles -> {"NONE", "OPEN", "HANDLED"}]
  BY DEF TypeInv, ReviewTypes
<1>1. /\ cand'[b].by = None => cand'[b].status \in {"NONE", "PENDING"}
      /\ cand'[b].by # None =>
           /\ Of(cand'[b].by) = b /\ intent'[cand'[b].by] # "NONE"
           /\ cand'[b].status = Outcome(cand'[b].by)
           /\ Approves(cand'[b].by) => intent'[cand'[b].by] \in {"PUBLISHED", "COMMITTED"}
  <2>0. cand[b].by \in Ops \/ cand[b].by = None
    BY <1>0 DEF CandType, Doers
  <2>1. CASE cand'[b] = cand[b]
    BY <2>0, <2>1, IntentProgress DEF CandInv
  <2>2. CASE cand'[b] = [status |-> "PENDING", by |-> None]
    BY <2>2
  <2>3. ASSUME NEW o \in Ops, DecideCandidate(o), b = Of(o), cand'[b] = [status |-> Outcome(o), by |-> o]
        PROVE  /\ cand'[b].by # None /\ Of(cand'[b].by) = b /\ intent'[cand'[b].by] # "NONE"
               /\ cand'[b].status = Outcome(cand'[b].by)
               /\ Approves(cand'[b].by) => intent'[cand'[b].by] \in {"PUBLISHED", "COMMITTED"}
    <3>1. intent[o] # "NONE" /\ (Approves(o) => intent[o] \in {"PUBLISHED", "COMMITTED"})
      BY <2>3 DEF DecideCandidate, Running, DecidingInv
    <3>. QED
      BY <2>3, <3>1, IntentProgress, Commands
  <2>4. \/ cand'[b] = cand[b] \/ cand'[b] = [status |-> "PENDING", by |-> None]
        \/ \E o \in Ops : DecideCandidate(o) /\ b = Of(o) /\ cand'[b] = [status |-> Outcome(o), by |-> o]
    BY <1>0, CandWrite
  <2>. QED
    BY <2>1, <2>2, <2>3, <2>4
<1>2. /\ review'[b].by = None => review'[b].status \in {"NONE", "PENDING"}
      /\ review'[b].by # None => /\ cand'[b].by = review'[b].by
                                 /\ review'[b].status = Command[review'[b].by].verdict
      /\ review'[b].status # "NONE" => cand'[b].status # "NONE"
  <2>1. CASE review'[b] = review[b]
    <3>1. review[b].by # None => cand'[b].by = review[b].by
      BY CandProgress DEF CandInv
    <3>2. review[b].status # "NONE" => cand'[b].status # "NONE"
      BY CandProgress DEF CandInv
    <3>. QED
      BY <2>1, <3>1, <3>2 DEF CandInv
  <2>2. ASSUME NEW t \in Threads, th[t].pc = "ask", b \in th[t].todo, review[b].status = "NONE",
               review' = [review EXCEPT ![b].status = "PENDING"]
        PROVE  review'[b].by = None /\ review'[b].status = "PENDING" /\ cand'[b].status # "NONE"
    <3>1. cand[b].status = "PENDING"
      BY <2>2 DEF AskingInv
    <3>2. review[b].by = None
      BY <1>0, <2>2, Commands DEF CandInv, ReviewType, Doers
    <3>3. review'[b] = [review[b] EXCEPT !.status = "PENDING"]
      BY <1>0, <2>2
    <3>4. review'[b].by = review[b].by /\ review'[b].status = "PENDING"
      BY <1>0, <3>3 DEF ReviewType
    <3>. QED
      BY <3>1, <3>2, <3>4, CandProgress
  <2>3. ASSUME NEW o \in Ops, CommitResolution(o), b = Of(o),
               review'[b] = [status |-> Command[o].verdict, by |-> o]
        PROVE  /\ review'[b].by # None /\ cand'[b].by = review'[b].by /\ cand'[b].status # "NONE"
               /\ review'[b].status = Command[review'[b].by].verdict
    <3>1. cand[b].by = o
      BY <2>3 DEF CommitResolution, Running, DecidingInv, Decided
    <3>2. o # None
      BY Commands
    <3>3. cand[b].status # "NONE"
      BY <3>1, <3>2, Commands DEF CandInv
    <3>. QED
      BY <2>3, <3>1, <3>2, <3>3, CandProgress
  <2>4. \/ review'[b] = review[b]
        \/ \E t \in Threads : /\ th[t].pc = "ask" /\ b \in th[t].todo /\ review[b].status = "NONE"
                              /\ review' = [review EXCEPT ![b].status = "PENDING"]
        \/ \E o \in Ops : CommitResolution(o) /\ b = Of(o)
                          /\ review'[b] = [status |-> Command[o].verdict, by |-> o]
    BY <1>0, ReviewWrite
  <2>. QED
    BY <2>1, <2>2, <2>3, <2>4
<1>3. ASSUME note'[b] = "HANDLED" PROVE review'[b].by # None
  <2>1. review[b].by # None
    <3>1. CASE note[b] = "HANDLED"
      BY <3>1 DEF CandInv
    <3>2. CASE note[b] # "HANDLED"
      <4>. PICK o \in Ops : HandleNotification(o) /\ note' = [note EXCEPT ![Of(o)] = "HANDLED"]
        BY <1>0, <1>3, <3>2, NoteWrite
      <4>1. b = Of(o)
        BY <1>0, <1>3, <3>2
      <4>2. review[b].by = o
        BY <4>1 DEF HandleNotification, Running, DecidingInv, Resolved
      <4>. QED
        BY <4>2, Commands
    <3>. QED
      BY <3>1, <3>2
  <2>. QED
    BY <2>1, ReviewProgress
<1>. QED
  BY <1>1, <1>2, <1>3

LEMMA IntentInvStep ==
  ASSUME TypeInv, CandInv, IntentInv, DecidingInv, AskingInv, [Next]_vars
  PROVE  IntentInv'
<1>. SUFFICES ASSUME NEW o \in Ops
              PROVE  /\ intent'[o] # "NONE" => review'[Of(o)].status # "NONE"
                     /\ intent'[o] = "PUBLISHED" => Approves(o)
                     /\ Approves(o) /\ intent'[o] \in {"PUBLISHED", "COMMITTED"} =>
                          batch'[Of(o)].stage = "committed" /\ batch'[Of(o)].by = o
                     /\ intent'[o] = "COMMITTED" => review'[Of(o)].by = o /\ note'[Of(o)] # "OPEN"
  BY DEF IntentInv, Approves, Of
<1>0. intent \in [Ops -> {"NONE", "PREPARED", "PUBLISHED", "COMMITTED"}]
  BY DEF TypeInv, IntentTypes
<1>b. Of(o) \in Bundles /\ Of(o) \in BatchIds /\ o # None
  BY Commands
<1>w. \/ intent'[o] = intent[o]
      \/ intent'[o] = "PREPARED" /\ review[Of(o)].status = "PENDING"
      \/ /\ intent'[o] = "PUBLISHED" /\ th[o].pc = "publish"
         /\ batch[Of(o)].stage = "committed" /\ batch[Of(o)].by = o
      \/ intent'[o] = "COMMITTED" /\ th[o].pc = "finish"
  BY <1>0, IntentWrite
<1>1. intent'[o] # "NONE" => review'[Of(o)].status # "NONE"
  <2>1. intent'[o] # "NONE" => review[Of(o)].status # "NONE"
    BY <1>w DEF IntentInv, DecidingInv, Decided, Resolved, Settled
  <2>. QED
    BY <1>b, <2>1, ReviewProgress
<1>2. intent'[o] = "PUBLISHED" => Approves(o)
  BY <1>w DEF IntentInv, DecidingInv
<1>3. ASSUME Approves(o), intent'[o] \in {"PUBLISHED", "COMMITTED"}
      PROVE  batch'[Of(o)].stage = "committed" /\ batch'[Of(o)].by = o
  <2>1. batch[Of(o)].stage = "committed" /\ batch[Of(o)].by = o
    BY <1>w, <1>3 DEF IntentInv, DecidingInv, Decided, Resolved, Settled
  <2>. QED
    BY <1>b, <2>1, BatchProgress
<1>4. ASSUME intent'[o] = "COMMITTED" PROVE review'[Of(o)].by = o /\ note'[Of(o)] # "OPEN"
  <2>1. review[Of(o)].by = o /\ note[Of(o)] # "OPEN"
    BY <1>w, <1>4 DEF IntentInv, DecidingInv, Decided, Resolved, Settled
  <2>2. cand[Of(o)].by # None
    BY <1>b, <2>1 DEF CandInv
  <2>. QED
    BY <1>b, <2>1, <2>2, ReviewProgress, NoteProgress
<1>. QED
  BY <1>1, <1>2, <1>3, <1>4

\* What has been achieved by a thread that stays where it is, is kept.
LEMMA DecidingKept ==
  ASSUME TypeInv, CandInv, DecidingInv, AskingInv, [Next]_vars, NEW o \in Ops,
         intent'[o] = intent[o] \/ th[o].pc # "publish"
  PROVE  /\ th[o].pc = "publish" => Approves(o) /\ intent'[o] = "PREPARED"
         /\ th[o].pc \in {"decide"} \cup Decided =>
              intent'[o] # "NONE" /\ (Approves(o) => intent'[o] \in {"PUBLISHED", "COMMITTED"})
         /\ th[o].pc \in Decided => cand'[Of(o)].by = o
         /\ th[o].pc \in Resolved => review'[Of(o)].by = o
         /\ th[o].pc \in Settled => note'[Of(o)] # "OPEN"
<1>b. Of(o) \in Bundles /\ o # None
  BY Commands
<1>0. Settled \subseteq Resolved /\ Resolved \subseteq Decided
  BY DEF Resolved, Decided
<1>1. th[o].pc = "publish" => Approves(o) /\ intent'[o] = "PREPARED"
  BY DEF DecidingInv
<1>2. th[o].pc \in {"decide"} \cup Decided =>
        intent'[o] # "NONE" /\ (Approves(o) => intent'[o] \in {"PUBLISHED", "COMMITTED"})
  BY IntentProgress DEF DecidingInv
<1>3. th[o].pc \in Decided => cand'[Of(o)].by = o
  BY <1>b, CandProgress DEF DecidingInv
<1>4. th[o].pc \in Resolved => review'[Of(o)].by = o
  BY <1>b, ReviewProgress DEF DecidingInv
<1>5. th[o].pc \in Settled => note'[Of(o)] # "OPEN"
  <2>1. th[o].pc \in Settled => cand[Of(o)].by = o /\ note[Of(o)] # "OPEN"
    BY <1>0 DEF DecidingInv
  <2>. QED
    BY <1>b, <2>1, NoteProgress
<1>. QED
  BY <1>1, <1>2, <1>3, <1>4, <1>5

\* A thread that is asked about either stays, or leaves the decision, or takes the step itself.
LEMMA WhereFrom ==
  ASSUME TypeInv, LockInv, [Next]_vars, NEW t \in Threads
  PROVE  \/ th'[t] = th[t]
         \/ th'[t].pc \in Quiet
         \/ t \in Ops /\ Decides(t)
         \/ t \in Ops \cup {Observer} /\ Asks(t)
<1>1. CASE Stay
  BY <1>1 DEF Stay
<1>2. CASE Stop
  BY <1>2 DEF Stop, Idle, Quiet, Outside
<1>3. CASE \E u \in Threads : Moves(u)
  <2>. PICK u \in Threads : Moves(u)
    BY <1>3
  <2>1. CASE u = t
    BY <2>1 DEF Moves
  <2>2. CASE u # t
    BY <2>2, OthersStay DEF Moves, TypeInv
  <2>. QED
    BY <2>1, <2>2
<1>. QED
  BY <1>1, <1>2, <1>3, OneThreadMoves

\* Where the asking steps lead.
LEMMA AskingPlaces ==
  ASSUME TypeInv, NEW t \in Ops \cup {Observer}, Asks(t)
  PROVE  th'[t].pc \in {"ask", "notify"} \cup Outside
<1>1. t \in Threads
  BY DEF Threads
<1>2. CASE AwaitReview(t)
  BY <1>1, <1>2 DEF AwaitReview, TypeInv, ThreadTypes
<1>3. CASE AskReview(t)
  BY <1>1, <1>3 DEF AskReview, Return, Go, Idle, Outside, TypeInv, ThreadTypes, ThreadType
<1>4. CASE NotifyReview(t)
  BY <1>1, <1>4 DEF NotifyReview, TypeInv, ThreadTypes
<1>. QED
  BY <1>2, <1>3, <1>4 DEF Asks

\* Where the places of a decision are not.
LEMMA DecidingPlaces ==
  /\ \A l \in {"publish", "decide"} \cup Decided : l \notin Quiet /\ l \notin {"ask", "notify"}
  /\ Settled \subseteq Resolved /\ Resolved \subseteq Decided
BY DEF Decided, Resolved, Settled, Quiet, Outside

\* What a resumed decision finds.
LEMMA EntryFinds ==
  ASSUME TypeInv, NEW o \in Ops, th'[o].pc = Entry(o), intent'[o] # "NONE",
         intent'[o] = intent[o] \/ (intent[o] = "NONE" /\ intent'[o] = "PREPARED")
  PROVE  \/ th'[o].pc = "publish" /\ Approves(o) /\ intent'[o] = "PREPARED"
         \/ th'[o].pc = "decide" /\ (Approves(o) => intent'[o] \in {"PUBLISHED", "COMMITTED"})
<1>1. intent[o] \in {"NONE", "PREPARED", "PUBLISHED", "COMMITTED"}
  BY DEF TypeInv, IntentTypes
<1>. QED
  BY <1>1 DEF Entry

LEMMA DecidingInvStep ==
  ASSUME TypeInv, LockInv, CandInv, IntentInv, DecidingInv, AskingInv, TodoInv, [Next]_vars
  PROVE  DecidingInv'
<1>. SUFFICES ASSUME NEW o \in Ops
              PROVE  /\ th'[o].pc = "publish" => Approves(o) /\ intent'[o] = "PREPARED"
                     /\ th'[o].pc \in {"decide"} \cup Decided =>
                          intent'[o] # "NONE" /\ (Approves(o) => intent'[o] \in {"PUBLISHED", "COMMITTED"})
                     /\ th'[o].pc \in Decided => cand'[Of(o)].by = o
                     /\ th'[o].pc \in Resolved => review'[Of(o)].by = o
                     /\ th'[o].pc \in Settled => note'[Of(o)] # "OPEN"
  BY DEF DecidingInv, Approves, Of
<1>. DEFINE Goal == /\ th'[o].pc = "publish" => Approves(o) /\ intent'[o] = "PREPARED"
                    /\ th'[o].pc \in {"decide"} \cup Decided =>
                         intent'[o] # "NONE" /\ (Approves(o) => intent'[o] \in {"PUBLISHED", "COMMITTED"})
                    /\ th'[o].pc \in Decided => cand'[Of(o)].by = o
                    /\ th'[o].pc \in Resolved => review'[Of(o)].by = o
                    /\ th'[o].pc \in Settled => note'[Of(o)] # "OPEN"
<1>b. o \in Threads /\ Of(o) \in Bundles /\ o # None /\ th[o] \in ThreadType
  BY Commands DEF TypeInv, ThreadTypes
<1>i. intent \in [Ops -> {"NONE", "PREPARED", "PUBLISHED", "COMMITTED"}]
  BY DEF TypeInv, IntentTypes
<1>l. /\ "publish" \notin Decided /\ "decide" \notin Decided /\ "idle" \notin Decided
      /\ "commit" \in Decided /\ "commit" \notin Resolved
      /\ "handle" \in Resolved /\ "handle" \notin Settled
      /\ Settled \subseteq Resolved /\ Resolved \subseteq Decided
  BY DEF Decided, Resolved, Settled
<1>p. \A l : th' = [th EXCEPT ![o].pc = l] => th'[o].pc = l
  BY <1>b DEF TypeInv, ThreadTypes, ThreadType
<1>r. Return(o) => th'[o].pc = "idle"
  BY <1>b DEF Return, Idle, TypeInv, ThreadTypes
<1>k. intent'[o] = intent[o] \/ th[o].pc # "publish" =>
        /\ th[o].pc = "publish" => Approves(o) /\ intent'[o] = "PREPARED"
        /\ th[o].pc \in {"decide"} \cup Decided =>
             intent'[o] # "NONE" /\ (Approves(o) => intent'[o] \in {"PUBLISHED", "COMMITTED"})
        /\ th[o].pc \in Decided => cand'[Of(o)].by = o
        /\ th[o].pc \in Resolved => review'[Of(o)].by = o
        /\ th[o].pc \in Settled => note'[Of(o)] # "OPEN"
  BY DecidingKept
<1>1. CASE th'[o] = th[o]
  <2>1. intent'[o] = intent[o] \/ th[o].pc # "publish"
    <3>. SUFFICES ASSUME th[o].pc = "publish", intent'[o] # intent[o] PROVE FALSE
      OBVIOUS
    <3>1. CommitBatch(o) /\ intent' # intent
      BY <1>i, IntentWrite DEF Resolve, ResolveReview, Running, Idle
    <3>2. th'[o].pc = "decide"
      BY <1>p, <3>1 DEF CommitBatch, Go
    <3>. QED
      BY <1>1, <3>2
  <2>. QED
    BY <1>1, <1>k, <2>1
<1>2. CASE th'[o].pc \in Quiet \cup {"ask", "notify"}
  BY <1>2, DecidingPlaces DEF Quiet, Outside
<1>3. CASE th'[o] # th[o] /\ Decides(o)
  <2>1. ASSUME Prepare(o) PROVE Goal
    <3>1. th'[o].pc = Entry(o)
      BY <2>1, <1>b DEF Prepare, Enter, TypeInv, ThreadTypes
    <3>2. intent'[o] = IF intent[o] = "NONE" THEN "PREPARED" ELSE intent[o]
      BY <2>1, <1>i DEF Prepare
    <3>. QED
      BY <1>l, <3>1, <3>2, EntryFinds
  <2>2. CASE Resolve(o)
    BY <2>1, <2>2 DEF Resolve
  <2>3. CASE ResolveReview(o)
    <3>1. Prepare(o) \/ Return(o)
      BY <2>3 DEF ResolveReview, RecordResult
    <3>. QED
      BY <1>l, <1>r, <2>1, <3>1, DecidingPlaces DEF Quiet, Outside
  <2>4. CASE RecoverIntent
    <3>. DEFINE c == Pick(todo)
    <3>1. c \in todo /\ Enter(c, Entry(c)) /\ intent' = intent
      BY <2>4, PickIs DEF RecoverIntent, intents
    <3>. HIDE DEF c
    <3>2. c \in Ops /\ c \in Threads
      BY <3>1, Commands DEF TypeInv, ControlTypes
    <3>3. c = o
      BY <1>3, <1>b, <3>1, <3>2 DEF Enter, TypeInv, ThreadTypes
    <3>4. th'[o].pc = Entry(o)
      BY <1>b, <3>1, <3>3 DEF Enter, TypeInv, ThreadTypes
    <3>5. intent'[o] # "NONE" /\ intent'[o] = intent[o]
      BY <3>1, <3>3 DEF TodoInv
    <3>. QED
      BY <1>l, <3>4, <3>5, EntryFinds
  <2>5. CASE CommitBatch(o)
    <3>1. CASE Return(o)
      BY <1>l, <1>r, <3>1, DecidingPlaces DEF Quiet, Outside
    <3>2. CASE Go(o, "decide") /\ intent' = [intent EXCEPT ![o] = "PUBLISHED"]
      <4>1. th'[o].pc = "decide" /\ intent'[o] = "PUBLISHED"
        BY <1>p, <1>i, <3>2 DEF Go
      <4>. QED
        BY <1>l, <4>1
    <3>. QED
      BY <1>3, <2>5, <3>1, <3>2 DEF CommitBatch
  <2>6. CASE DecideCandidate(o)
    <3>0. th[o].pc = "decide"
      BY <2>6 DEF DecideCandidate, Running
    <3>1. CASE Return(o)
      BY <1>l, <1>r, <3>1, DecidingPlaces DEF Quiet, Outside
    <3>2. CASE Go(o, "commit") /\ cand' = [cand EXCEPT ![Of(o)] = [status |-> Outcome(o), by |-> o]]
      <4>1. th'[o].pc = "commit"
        BY <1>p, <3>2 DEF Go
      <4>2. cand'[Of(o)].by = o
        BY <1>b, <3>2 DEF TypeInv, ReviewTypes
      <4>. QED
        BY <1>l, <1>k, <3>0, <4>1, <4>2
    <3>. QED
      BY <2>6, <3>1, <3>2 DEF DecideCandidate
  <2>7. CASE CommitResolution(o)
    <3>0. th[o].pc = "commit"
      BY <2>7 DEF CommitResolution, Running
    <3>1. CASE Return(o)
      BY <1>l, <1>r, <3>1, DecidingPlaces DEF Quiet, Outside
    <3>2. CASE ~Return(o)
      <4>1. /\ Go(o, "handle")
            /\ \/ review' = review /\ review[Of(o)].by = o
               \/ review' = [review EXCEPT ![Of(o)] = [status |-> Command[o].verdict, by |-> o]]
        BY <2>7, <3>2 DEF CommitResolution
      <4>2. th'[o].pc = "handle"
        BY <1>p, <4>1 DEF Go
      <4>3. review'[Of(o)].by = o
        BY <1>b, <4>1 DEF TypeInv, ReviewTypes
      <4>. QED
        BY <1>l, <1>k, <3>0, <4>2, <4>3
    <3>. QED
      BY <3>1, <3>2
  <2>8. CASE HandleNotification(o)
    <3>0. th[o].pc = "handle"
      BY <2>8 DEF HandleNotification, Running
    <3>1. th'[o].pc = "read"
      BY <1>p, <2>8 DEF HandleNotification, Go
    <3>2. note'[Of(o)] # "OPEN"
      BY <1>b, <2>8 DEF HandleNotification, TypeInv, ReviewTypes
    <3>. QED
      BY <1>l, <1>k, <3>0, <3>1, <3>2 DEF Settled
  <2>9. CASE ReadInstance(o) \/ SettleInstance(o) \/ TellSuccess(o)
    <3>0. th[o].pc \in Settled
      BY <2>9 DEF ReadInstance, SettleInstance, TellSuccess, Answer, Running, Settled
    <3>1. Return(o) \/ (\E l \in Settled : Go(o, l)) \/ th' = [th EXCEPT ![o].pc = "completed"]
      BY <2>9 DEF ReadInstance, SettleInstance, TellSuccess, Answer, Settled
    <3>2. th'[o].pc \in {"idle", "completed"} \/ th'[o].pc \in Settled
      BY <1>p, <1>r, <3>1 DEF Go
    <3>3. /\ th[o].pc # "publish" /\ "publish" \notin Settled /\ "decide" \notin Settled
          /\ "completed" \notin Decided
      BY <3>0 DEF Settled, Resolved, Decided
    <3>. QED
      BY <1>l, <1>k, <3>0, <3>2, <3>3
  <2>. QED
    BY <1>3, <2>2, <2>3, <2>4, <2>5, <2>6, <2>7, <2>8, <2>9 DEF Decides
<1>4. CASE o \in Ops \cup {Observer} /\ Asks(o)
  BY <1>2, <1>4, AskingPlaces DEF Quiet
<1>. QED
  BY <1>b, <1>1, <1>2, <1>3, <1>4, WhereFrom

LEMMA AskingInvStep ==
  ASSUME TypeInv, LockInv, CandInv, AskingInv, [Next]_vars
  PROVE  AskingInv'
<1>. SUFFICES ASSUME NEW t \in Threads, th'[t].pc \in {"ask", "notify"}, NEW b \in th'[t].todo
              PROVE  cand'[b].status = "PENDING"
  BY DEF AskingInv
<1>0. th[t] \in ThreadType /\ cand \in [Bundles -> CandType]
  BY DEF TypeInv, ThreadTypes, ReviewTypes
<1>1. CASE th'[t] = th[t]
  <2>1. cand[b].status = "PENDING" /\ b \in Bundles
    BY <1>0, <1>1 DEF AskingInv, ThreadType
  <2>2. ASSUME NEW o \in Ops, DecideCandidate(o) PROVE FALSE
    <3>1. th[o].pc = "decide" /\ o \in Threads
      BY <2>2 DEF DecideCandidate, Running, Threads
    <3>2. th[o].pc \in Inside /\ th[t].pc \in Inside
      BY <1>1, <3>1 DEF Inside, Observing
    <3>. QED
      BY <1>1, <3>1, <3>2, OneInside
  <2>. QED
    BY <1>0, <2>1, <2>2, CandWrite
<1>2. CASE t \in Ops \cup {Observer} /\ Asks(t)
  <2>1. CASE AwaitReview(t)
    BY <1>0, <2>1 DEF AwaitReview, TypeInv, ThreadTypes, reviews
  <2>2. CASE AskReview(t)
    <3>1. th[t].pc = "ask" /\ cand' = cand
      BY <2>2 DEF AskReview, Running
    <3>2. CASE Return(t)
      BY <3>2 DEF Return, Idle, TypeInv, ThreadTypes
    <3>3. CASE ~Return(t)
      <4>1. \E l : th' = [th EXCEPT ![t].pc = l]
        BY <2>2, <3>3 DEF AskReview, Go
      <4>2. th'[t].todo = th[t].todo
        BY <1>0, <4>1 DEF TypeInv, ThreadTypes, ThreadType
      <4>. QED
        BY <3>1, <4>2 DEF AskingInv
    <3>. QED
      BY <3>2, <3>3
  <2>3. CASE NotifyReview(t)
    <3>1. th[t].pc = "notify" /\ cand' = cand
      BY <2>3 DEF NotifyReview, Running
    <3>2. th'[t].todo \subseteq th[t].todo
      BY <1>0, <2>3 DEF NotifyReview, TypeInv, ThreadTypes
    <3>. QED
      BY <3>1, <3>2 DEF AskingInv
  <2>. QED
    BY <1>2, <2>1, <2>2, <2>3 DEF Asks
<1>3. CASE th'[t].pc \in Quiet
  BY <1>3 DEF Quiet, Outside
<1>4. CASE t \in Ops /\ Decides(t)
  <2>0. \A l : th' = [th EXCEPT ![t].pc = l] => th'[t].pc = l
    BY <1>0 DEF TypeInv, ThreadTypes, ThreadType
  <2>r. Return(t) => th'[t].pc = "idle"
    BY DEF Return, Idle, TypeInv, ThreadTypes
  <2>1. CASE Resolve(t) \/ ResolveReview(t)
    <3>1. Prepare(t) \/ Return(t)
      BY <2>1 DEF Resolve, ResolveReview, RecordResult
    <3>2. Prepare(t) => th'[t].pc \in {"publish", "decide"}
      BY DEF Prepare, Entry, Enter, TypeInv, ThreadTypes
    <3>. QED
      BY <2>r, <3>1, <3>2
  <2>2. CASE RecoverIntent
    BY <1>0, <1>1, <2>2 DEF RecoverIntent, Entry, Enter, TypeInv, ThreadTypes
  <2>3. CASE CommitBatch(t)
    <3>1. th' = th \/ Return(t) \/ Go(t, "decide")
      BY <2>3 DEF CommitBatch
    <3>. QED
      BY <1>1, <2>0, <2>r, <3>1 DEF Go
  <2>4. CASE DecideCandidate(t) \/ CommitResolution(t) \/ HandleNotification(t)
    <3>1. Return(t) \/ Go(t, "commit") \/ Go(t, "handle") \/ Go(t, "read")
      BY <2>4 DEF DecideCandidate, CommitResolution, HandleNotification
    <3>. QED
      BY <2>0, <2>r, <3>1 DEF Go
  <2>5. CASE ReadInstance(t) \/ SettleInstance(t) \/ TellSuccess(t)
    <3>1. \/ Return(t) \/ Go(t, "settle") \/ Go(t, "tell") \/ Go(t, "finish")
          \/ th' = [th EXCEPT ![t].pc = "completed"]
      BY <2>5 DEF ReadInstance, SettleInstance, TellSuccess, Answer
    <3>. QED
      BY <2>0, <2>r, <3>1 DEF Go
  <2>. QED
    BY <1>4, <2>1, <2>2, <2>3, <2>4, <2>5 DEF Decides
<1>. QED
  BY <1>1, <1>2, <1>3, <1>4, WhereFrom

-----------------------------------------------------------------------------
(* The startup.                                                            *)

\* What runs at all runs in one of its places.
LEMMA RunningPlaces ==
  /\ \A t \in Ops \cup {Observer} : Collecting(t) => th[t].pc \in Observing
  /\ \A o \in Ops : Deciding(o) => th[o].pc \in {"publish", "decide"} \cup Decided
  /\ \A o \in Ops : Completing(o) => th[o].pc \in Outside \ {"idle"}
  /\ DeckSteps => th[Collector].pc = "deck"
<1>1. ASSUME NEW t \in Ops \cup {Observer}, Collecting(t) PROVE th[t].pc \in Observing
  BY <1>1 DEF Collecting, PersistCandidate, AwaitReview, AskReview, NotifyReview, Running, Observing
<1>2. ASSUME NEW o \in Ops, Deciding(o) PROVE th[o].pc \in {"publish", "decide"} \cup Decided
  BY <1>2 DEF Deciding, PublishPart, CommitBatch, DecideCandidate, CommitResolution, HandleNotification,
              ReadInstance, SettleInstance, TellSuccess, Answer, FinishIntent, Running, Decided, Resolved, Settled
<1>3. ASSUME NEW o \in Ops, Completing(o) PROVE th[o].pc \in Outside \ {"idle"}
  BY <1>3 DEF Completing, CheckStatus, CollectTarget, ResolveReview, RecordCompletion, Running, Outside
<1>4. DeckSteps => th[Collector].pc = "deck"
  BY DEF DeckSteps, PublishDeck, CommitDecks, CompleteDecks, AnnounceDecks, Running
<1>. QED
  BY <1>1, <1>2, <1>3, <1>4

\* While the process is down or recovers its assets.
LEMMA StartupSteps ==
  ASSUME StartupInv, mode \in {"down", "assets"}, [Next]_vars
  PROVE  UNCHANGED vars \/ Crash \/ Start \/ AgentExit \/ RecoverAsset \/ AssetsRecovered
<1>1. \A t \in Threads : th[t].pc = "idle"
  BY DEF StartupInv
<1>2. Ops \subseteq Threads /\ Observer \in Threads /\ Collector \in Threads
  BY DEF Threads
<1>3. "idle" \notin Observing /\ "idle" \notin {"publish", "decide"} \cup Decided
  BY DEF Observing, Decided, Resolved, Settled
<1>4. /\ \A t \in Ops \cup {Observer} : ~Collecting(t)
      /\ \A o \in Ops : ~Deciding(o) /\ ~Completing(o)
      /\ ~DeckSteps
  BY <1>1, <1>2, <1>3, RunningPlaces
<1>5. /\ \A b \in Bundles : ~FinishBranch(b) /\ ~RepairBranch(b)
      /\ ~Restart /\ ~Observe(Observer) /\ ~StartDecks /\ ~CollectDecks /\ ~RecoverIntent /\ ~Recovered
      /\ \A o \in Ops : ~Resolve(o) /\ ~CompleteBundle(o) /\ ~PublishFails(o)
  BY DEF FinishBranch, RepairBranch, Restart, Observe, StartDecks, CollectDecks, RecoverIntent, Recovered,
         Resolve, CompleteBundle, PublishFails
<1>. QED
  BY <1>4, <1>5 DEF Next, Startup

\* While it resumes the intents.
LEMMA RecoverySteps ==
  ASSUME StartupInv, mode = "intents", [Next]_vars
  PROVE  UNCHANGED vars \/ Crash \/ RecoverIntent \/ Recovered \/ \E o \in Ops : Deciding(o)
<1>1. \A t \in Threads : th[t].pc = "idle" \/ (t \in Ops /\ th[t].pc \in {"publish", "decide"} \cup Decided)
  BY DEF StartupInv
<1>2. Ops \subseteq Threads /\ Observer \in Threads /\ Collector \in Threads
  BY DEF Threads
<1>3. /\ "idle" \notin Observing /\ "deck" # "idle" /\ "deck" \notin {"publish", "decide"} \cup Decided
      /\ \A l \in {"publish", "decide"} \cup Decided : l \notin Observing /\ l \notin Outside
  BY DEF Observing, Outside, Decided, Resolved, Settled
<1>4. /\ \A t \in Ops \cup {Observer} : ~Collecting(t)
      /\ \A o \in Ops : ~Completing(o)
      /\ ~DeckSteps
  BY <1>1, <1>2, <1>3, RunningPlaces
<1>5. /\ \A b \in Bundles : ~FinishBranch(b) /\ ~RepairBranch(b)
      /\ ~AgentExit /\ ~Restart /\ ~Observe(Observer) /\ ~StartDecks /\ ~CollectDecks
      /\ ~Start /\ ~RecoverAsset /\ ~AssetsRecovered
      /\ \A o \in Ops : ~Resolve(o) /\ ~CompleteBundle(o) /\ ~PublishFails(o)
  BY DEF FinishBranch, RepairBranch, AgentExit, Restart, Observe, StartDecks, CollectDecks, Start,
         RecoverAsset, AssetsRecovered, Resolve, CompleteBundle, PublishFails
<1>. QED
  BY <1>4, <1>5 DEF Next, Startup

\* How a mode is reached.
LEMMA ModeStep ==
  ASSUME [Next]_vars
  PROVE  /\ mode' = "down" => Crash \/ mode = "down"
         /\ mode' = "assets" => mode \in {"down", "assets"}
         /\ mode' = "intents" => AssetsRecovered \/ mode = "intents"
BY Writers DEF Crash, Start, AssetsRecovered, Recovered

LEMMA StartupInvStep ==
  ASSUME TypeInv, LockInv, StartupInv, [Next]_vars
  PROVE  StartupInv'
<1>0. Ops \subseteq Threads /\ th \in [Threads -> ThreadType]
  BY DEF Threads, TypeInv, ThreadTypes
<1>1. ASSUME mode' \in {"down", "assets"} PROVE \A t \in Threads : th'[t].pc = "idle"
  <2>1. CASE Crash
    BY <2>1 DEF Crash, Idle
  <2>2. CASE ~Crash
    <3>1. mode \in {"down", "assets"}
      BY <1>1, <2>2, ModeStep
    <3>2. th' = th
      BY <2>2, <3>1, StartupSteps DEF vars, Start, AgentExit, RecoverAsset, AssetsRecovered
    <3>. QED
      BY <3>1, <3>2 DEF StartupInv
  <2>. QED
    BY <2>1, <2>2
<1>2. ASSUME mode' = "intents", NEW t \in Threads
      PROVE  th'[t].pc = "idle" \/ (t \in Ops /\ th'[t].pc \in {"publish", "decide"} \cup Decided)
  <2>1. CASE AssetsRecovered
    BY <2>1 DEF AssetsRecovered, StartupInv
  <2>2. CASE ~AssetsRecovered
    <3>1. mode = "intents"
      BY <1>2, <2>2, ModeStep
    <3>2. th[t].pc = "idle" \/ (t \in Ops /\ th[t].pc \in {"publish", "decide"} \cup Decided)
      BY <3>1 DEF StartupInv
    <3>3. CASE UNCHANGED vars
      BY <3>2, <3>3 DEF vars
    <3>4. CASE Crash
      BY <1>2, <3>4 DEF Crash
    <3>5. CASE Recovered
      BY <1>2, <3>5 DEF Recovered
    <3>6. CASE RecoverIntent
      <4>. DEFINE c == Pick(todo)
      <4>1. c \in todo /\ th' = [th EXCEPT ![c] = [pc |-> Entry(c), todo |-> {}]]
        BY <3>6, PickIs DEF RecoverIntent, Enter
      <4>. HIDE DEF c
      <4>2. c \in Ops
        BY <4>1 DEF TypeInv, ControlTypes
      <4>3. CASE t = c
        <5>1. th'[t].pc = Entry(c)
          BY <1>0, <4>1, <4>3
        <5>. QED
          BY <4>2, <4>3, <5>1, EntryIsInside
      <4>4. CASE t # c
        <5>1. th'[t] = th[t]
          BY <1>0, <4>1, <4>4
        <5>. QED
          BY <3>2, <5>1
      <4>. QED
        BY <4>3, <4>4
    <3>7. ASSUME NEW o \in Ops, Deciding(o)
          PROVE  th'[t].pc = "idle" \/ (t \in Ops /\ th'[t].pc \in {"publish", "decide"} \cup Decided)
      <4>1. th' = th \/ Return(o)
            \/ \E l \in {"decide", "commit", "handle", "read", "settle", "tell", "finish"} : Go(o, l)
        BY <3>1, <3>7 DEF Deciding, PublishPart, CommitBatch, DecideCandidate, CommitResolution,
           HandleNotification, ReadInstance, SettleInstance, TellSuccess, Answer, FinishIntent
      <4>2. CASE th' = th
        BY <3>2, <4>2
      <4>3. CASE Return(o)
        <5>1. th'[t] = IF t = o THEN Idle ELSE th[t]
          BY <1>0, <4>3 DEF Return
        <5>. QED
          BY <3>2, <5>1 DEF Idle
      <4>4. ASSUME NEW l \in {"decide", "commit", "handle", "read", "settle", "tell", "finish"}, Go(o, l)
            PROVE  th'[t].pc = "idle" \/ (t \in Ops /\ th'[t].pc \in {"publish", "decide"} \cup Decided)
        <5>1. th'[t].pc = IF t = o THEN l ELSE th[t].pc
          BY <1>0, <4>4 DEF Go, ThreadType
        <5>2. l \in {"publish", "decide"} \cup Decided
          BY DEF Decided, Resolved, Settled
        <5>. QED
          BY <3>2, <5>1, <5>2
      <4>. QED
        BY <4>1, <4>2, <4>3, <4>4
    <3>. QED
      BY <3>1, <3>3, <3>4, <3>5, <3>6, <3>7, RecoverySteps
  <2>. QED
    BY <2>1, <2>2
<1>3. ASSUME mode' = "intents", NEW o \in Ops, th'[o].pc = "settle" PROVE image' = "WAITING_APPROVAL"
  <2>0. o \in Threads
    BY <1>0
  <2>1. CASE AssetsRecovered
    <3>1. th'[o].pc = "idle"
      BY <2>0, <2>1 DEF AssetsRecovered, StartupInv
    <3>. QED
      BY <1>3, <3>1
  <2>2. CASE ~AssetsRecovered
    <3>1. mode = "intents"
      BY <1>3, <2>2, ModeStep
    <3>2. CASE UNCHANGED vars
      BY <1>3, <3>1, <3>2 DEF vars, StartupInv
    <3>3. CASE Crash \/ Recovered
      BY <1>3, <3>3 DEF Crash, Recovered
    <3>4. CASE RecoverIntent
      <4>. DEFINE c == Pick(todo)
      <4>1. th' = [th EXCEPT ![c] = [pc |-> Entry(c), todo |-> {}]] /\ image' = image
        BY <3>4 DEF RecoverIntent, Enter
      <4>. HIDE DEF c
      <4>2. th'[o] = IF o = c THEN [pc |-> Entry(c), todo |-> {}] ELSE th[o]
        BY <1>0, <4>1
      <4>3. th[o].pc = "settle"
        BY <1>3, <4>2, EntryIsInside
      <4>. QED
        BY <3>1, <4>1, <4>3 DEF StartupInv
    <3>5. ASSUME NEW p \in Ops, Deciding(p) PROVE image' = "WAITING_APPROVAL"
      <4>0. p \in Threads /\ th[p].pc \in Inside
        BY <3>5, <1>0, RunningPlaces DEF Inside
      <4>1. CASE p = o
        <5>1. CASE ReadInstance(o)
          <6>1. \A l : th' = [th EXCEPT ![o].pc = l] => th'[o].pc = l
            BY <1>0 DEF ThreadType
          <6>2. Ends(o) /\ image' = image
            BY <1>3, <5>1, <6>1 DEF ReadInstance, Go
          <6>. QED
            BY <6>2 DEF Ends
        <5>2. CASE ~ReadInstance(o)
          <6>1. \A l : th' = [th EXCEPT ![o].pc = l] => th'[o].pc = l
            BY <1>0 DEF ThreadType
          <6>2. Return(o) => th'[o].pc = "idle"
            BY <1>0 DEF Return, Idle
          <6>3. \/ Return(o)
                \/ \E l \in {"decide", "commit", "handle", "read", "tell", "finish"} : Go(o, l)
                \/ (th' = th /\ image' = image)
            BY <3>1, <3>5, <4>1, <5>2 DEF Deciding, PublishPart, CommitBatch, DecideCandidate,
               CommitResolution, HandleNotification, SettleInstance, TellSuccess, Answer, FinishIntent
          <6>4. th' = th /\ image' = image
            BY <1>3, <6>1, <6>2, <6>3 DEF Go
          <6>. QED
            BY <1>3, <3>1, <6>4 DEF StartupInv
        <5>. QED
          BY <5>1, <5>2
      <4>2. CASE p # o
        <5>1. th'[o] = th[o]
          <6>1. th' = th \/ Return(p) \/ \E l : Go(p, l)
            BY <3>1, <3>5 DEF Deciding, PublishPart, CommitBatch, DecideCandidate, CommitResolution,
               HandleNotification, ReadInstance, SettleInstance, TellSuccess, Answer, FinishIntent
          <6>. QED
            BY <1>0, <4>2, <6>1 DEF Return, Go
        <5>2. th[o].pc \in Inside
          BY <1>3, <5>1 DEF Inside, Decided, Resolved, Settled
        <5>. QED
          BY <2>0, <4>0, <4>2, <5>2, OneInside
      <4>. QED
        BY <4>1, <4>2
    <3>. QED
      BY <3>1, <3>2, <3>3, <3>4, <3>5, RecoverySteps
  <2>. QED
    BY <2>1, <2>2
<1>. QED
  BY <1>1, <1>2, <1>3 DEF StartupInv

LEMMA TodoInvStep ==
  ASSUME TypeInv, DecidingInv, TodoInv, [Next]_vars
  PROVE  TodoInv'
<1>1. \A o \in todo' : o \in Ops /\ intent[o] # "NONE"
  BY Writers DEF TodoInv, TypeInv, ControlTypes, Crash, AssetsRecovered, Resumable, RecoverIntent
<1>. QED
  BY <1>1, IntentProgress DEF TodoInv

\* Only the thread that is inside can be the one that publishes.
LEMMA OnePublishes ==
  ASSUME LockInv, NEW o \in Ops, th[o].pc \in Inside, NEW p \in Ops, Publishing(p)
  PROVE  p = o
<1>1. o \in Threads /\ p \in Threads /\ th[p].pc \in Inside
  BY DEF Threads, Publishing, Inside
<1>. QED
  BY <1>1, OneInside

LEMMA NobodyPublishes ==
  ASSUME LockInv, Free, NEW p \in Ops
  PROVE  ~Publishing(p)
BY Commands DEF LockInv, Free, Publishing, Inside

LEMMA OpenInvStep ==
  ASSUME TypeInv, LockInv, BatchInv, StartupInv, OpenInv, [Next]_vars
  PROVE  OpenInv'
<1>. SUFFICES ASSUME mode' = "intents"
              PROVE  /\ \A a \in Assets : asset'[a] \notin {"none", "committed"} =>
                          \E o \in Ops : th'[o].pc = "publish" /\ a \in Parts(Of(o))
                     /\ \A x \in BatchIds : batch'[x].stage \notin {"none", "committed"} =>
                          \E o \in Ops : th'[o].pc = "publish" /\ x = Of(o) /\ batch'[x].by = o
  BY DEF OpenInv, Publishing, Of
<1>. DEFINE Closed == /\ \A a \in Assets : asset[a] \in {"none", "committed"}
                      /\ \A x \in BatchIds : batch[x].stage \in {"none", "committed"}
            Goal == /\ \A a \in Assets : asset'[a] \notin {"none", "committed"} =>
                         \E o \in Ops : th'[o].pc = "publish" /\ a \in Parts(Of(o))
                    /\ \A x \in BatchIds : batch'[x].stage \notin {"none", "committed"} =>
                         \E o \in Ops : th'[o].pc = "publish" /\ x = Of(o) /\ batch'[x].by = o
<1>1. CASE AssetsRecovered
  <2>1. asset' = asset /\ batch' = batch
    BY <1>1 DEF AssetsRecovered, disk
  <2>2. Closed
    BY <1>1 DEF AssetsRecovered, Unfinished, OpenBatches, BatchIds
  <2>. QED
    BY <2>1, <2>2
<1>2. CASE ~AssetsRecovered
  <2>0. mode = "intents"
    BY <1>2, ModeStep
  <2>o. /\ \A a \in Assets : asset[a] \notin {"none", "committed"} =>
             \E o \in Ops : Publishing(o) /\ a \in Parts(Of(o))
        /\ \A x \in BatchIds : batch[x].stage \notin {"none", "committed"} =>
             \E o \in Ops : Publishing(o) /\ x = Of(o) /\ batch[x].by = o
    BY <2>0 DEF OpenInv
  <2>1. CASE UNCHANGED vars
    BY <2>o, <2>1 DEF vars, disk, Publishing
  <2>2. CASE Crash \/ Recovered
    BY <2>2 DEF Crash, Recovered
  <2>3. CASE RecoverIntent
    <3>1. asset' = asset /\ batch' = batch /\ Free
      BY <2>3 DEF RecoverIntent, disk
    <3>2. Closed
      BY <2>o, <3>1, NobodyPublishes
    <3>. QED
      BY <3>1, <3>2
  <2>4. ASSUME NEW o \in Ops, Deciding(o) PROVE Goal
    <3>0. th[o].pc \in Inside /\ Of(o) \in Bundles /\ Of(o) \in BatchIds
      BY <2>4, RunningPlaces, Commands DEF Inside
    <3>1. CASE PublishPart(o)
      <4>1. th' = th /\ batch' = batch /\ th[o].pc = "publish"
        BY <3>1 DEF PublishPart, Running
      <4>2. NextPart(o) \in Parts(Of(o)) /\ asset' = [asset EXCEPT ![NextPart(o)] = After(@)]
        BY <3>1 DEF PublishPart, PublishStep, NextPart, Parts
      <4>3. ASSUME NEW a \in Assets, asset'[a] \notin {"none", "committed"}
            PROVE  \E p \in Ops : th'[p].pc = "publish" /\ a \in Parts(Of(p))
        <5>1. CASE a = NextPart(o)
          BY <4>1, <4>2, <5>1
        <5>2. CASE a # NextPart(o)
          <6>1. asset'[a] = asset[a]
            BY <4>2, <5>2 DEF TypeInv, DiskTypes
          <6>. QED
            BY <2>o, <4>1, <4>3, <6>1 DEF Publishing
        <5>. QED
          BY <5>1, <5>2
      <4>4. \A x \in BatchIds : batch'[x].stage \notin {"none", "committed"} =>
              \E p \in Ops : th'[p].pc = "publish" /\ x = Of(p) /\ batch'[x].by = p
        BY <2>o, <4>1 DEF Publishing
      <4>. QED
        BY <4>3, <4>4
    <3>2. CASE CommitBatch(o)
      <4>1. asset' = asset /\ PartsReady(o) /\ th[o].pc = "publish"
        BY <3>2 DEF CommitBatch, Running
      <4>2. \A a \in Assets : asset[a] \in {"none", "committed"}
        <5>1. ASSUME NEW a \in Assets, asset[a] \notin {"none", "committed"} PROVE FALSE
          <6>1. PICK p \in Ops : Publishing(p) /\ a \in Parts(Of(p))
            BY <2>o, <5>1
          <6>2. p = o
            BY <3>0, <6>1, OnePublishes
          <6>. QED
            BY <4>1, <5>1, <6>1, <6>2 DEF PartsReady
        <5>. QED
          BY <5>1
      <4>3. \A x \in BatchIds : batch[x].stage \notin {"none", "committed"} => x = Of(o) /\ batch[x].by = o
        BY <2>o, <3>0, OnePublishes
      <4>4. CASE BatchConflict(Of(o), o, Parts(Of(o)))
        <5>1. batch' = batch
          BY <3>2, <4>4 DEF CommitBatch
        <5>2. batch[Of(o)].stage # "none" /\ batch[Of(o)].by # o
          BY <3>0, <4>4 DEF BatchConflict, BatchInv
        <5>. QED
          BY <4>1, <4>2, <4>3, <5>1, <5>2
      <4>5. CASE ~BatchConflict(Of(o), o, Parts(Of(o))) /\ batch[Of(o)].stage = "committed"
        <5>1. batch' = batch
          BY <3>2, <4>5 DEF CommitBatch
        <5>. QED
          BY <4>1, <4>2, <4>3, <4>5, <5>1
      <4>6. CASE ~BatchConflict(Of(o), o, Parts(Of(o))) /\ batch[Of(o)].stage # "committed"
        <5>1. th' = th /\ BatchStep(Of(o), o, Parts(Of(o)))
          BY <3>2, <4>6 DEF CommitBatch
        <5>2. o \in Doers /\ Parts(Of(o)) \in SUBSET Assets
          BY <3>0, PartsAreAssets DEF Doers
        <5>3. batch' = [batch EXCEPT ![Of(o)] = batch'[Of(o)]] /\ batch'[Of(o)].by = o
          BY <3>0, <4>6, <5>1, <5>2, BatchSteps DEF TypeInv
        <5>4. \A x \in BatchIds : x # Of(o) => batch'[x] = batch[x]
          BY <5>3 DEF TypeInv, DiskTypes
        <5>5. \A x \in BatchIds : batch'[x].stage \notin {"none", "committed"} => x = Of(o) /\ batch'[x].by = o
          BY <4>3, <5>3, <5>4
        <5>. QED
          BY <4>1, <4>2, <5>1, <5>5
      <4>. QED
        BY <4>4, <4>5, <4>6
    <3>3. CASE ~PublishPart(o) /\ ~CommitBatch(o)
      <4>1. th[o].pc # "publish" /\ asset' = asset /\ batch' = batch
        BY <2>4, <3>3 DEF Deciding, DecideCandidate, CommitResolution, HandleNotification, ReadInstance,
           SettleInstance, TellSuccess, Answer, FinishIntent, Running, disk
      <4>2. \A p \in Ops : ~Publishing(p)
        BY <3>0, <4>1, OnePublishes DEF Publishing
      <4>3. Closed
        BY <2>o, <4>2
      <4>. QED
        BY <4>1, <4>3
    <3>. QED
      BY <3>1, <3>2, <3>3
  <2>. QED
    BY <2>0, <2>1, <2>2, <2>3, <2>4, RecoverySteps
<1>. QED
  BY <1>1, <1>2

\* A decision that lost stays lost.
LEMMA LostIsFinal ==
  ASSUME TypeInv, CandInv, [Next]_vars, NEW o \in Ops, Lost(o)
  PROVE  \/ cand'[Of(o)].by \notin {o, None}
         \/ Approves(o) /\ batch'[Of(o)].stage # "none" /\ batch'[Of(o)].by # o
<1>1. Of(o) \in Bundles /\ Of(o) \in BatchIds
  BY Commands
<1>. QED
  BY <1>1, CandProgress, BatchProgress DEF Lost

\* A decision returns early only when it lost.
LEMMA ReturnsWhenLost ==
  ASSUME TypeInv, BatchInv, CandInv, IntentInv, DecidingInv, StartupInv, mode = "intents",
         NEW o \in Ops, Deciding(o), Return(o), ~FinishIntent(o), th[o].pc # "idle"
  PROVE  Lost(o)
<1>0. Of(o) \in Bundles /\ o # None /\ o \in Threads
  BY Commands
<1>1. th'[o].pc = "idle"
  BY <1>0 DEF Return, Idle, TypeInv, ThreadTypes
<1>g. \A l : Go(o, l) => l = "idle"
  BY <1>0, <1>1 DEF Go, TypeInv, ThreadTypes, ThreadType
<1>2. CASE PublishPart(o)
  BY <1>1, <1>2 DEF PublishPart
<1>3. CASE CommitBatch(o)
  <2>1. Approves(o)
    BY <1>3 DEF CommitBatch, Running, DecidingInv
  <2>2. th' # th
    BY <1>1
  <2>3. BatchConflict(Of(o), o, Parts(Of(o)))
    BY <1>3, <1>g, <2>2 DEF CommitBatch
  <2>4. batch[Of(o)].stage # "none" /\ batch[Of(o)].by # o
    BY <1>0, <2>3 DEF BatchConflict, BatchInv
  <2>. QED
    BY <2>1, <2>4 DEF Lost
<1>4. CASE DecideCandidate(o)
  <2>1. intent[o] # "NONE"
    BY <1>4 DEF DecideCandidate, Running, DecidingInv
  <2>2. cand[Of(o)].status # "PENDING" /\ cand[Of(o)].by # o
    BY <1>4, <1>g DEF DecideCandidate
  <2>3. cand[Of(o)].status # "NONE"
    BY <1>0, <2>1 DEF IntentInv, CandInv
  <2>4. cand[Of(o)].by # None
    BY <1>0, <2>2, <2>3 DEF CandInv
  <2>. QED
    BY <2>2, <2>4 DEF Lost
<1>5. CASE CommitResolution(o)
  <2>1. intent[o] # "NONE" /\ cand[Of(o)].by = o
    BY <1>5 DEF CommitResolution, Running, DecidingInv, Decided
  <2>2. review[Of(o)].by # o /\ review[Of(o)].status # "PENDING"
    BY <1>5, <1>g DEF CommitResolution
  <2>3. review[Of(o)].status # "NONE"
    BY <2>1 DEF IntentInv
  <2>. QED
    BY <1>0, <2>1, <2>2, <2>3 DEF CandInv
<1>6. CASE HandleNotification(o) \/ ReadInstance(o) \/ TellSuccess(o)
  BY <1>6, <1>g DEF HandleNotification, ReadInstance, TellSuccess
<1>7. CASE SettleInstance(o)
  <2>1. image = "WAITING_APPROVAL"
    BY <1>7 DEF SettleInstance, Answer, Running, StartupInv
  <2>. QED
    BY <1>7, <1>g, <2>1 DEF SettleInstance
<1>. QED
  BY <1>2, <1>3, <1>4, <1>5, <1>6, <1>7 DEF Deciding

LEMMA LostInvStep ==
  ASSUME TypeInv, LockInv, BatchInv, CandInv, IntentInv, DecidingInv, StartupInv, LostInv, [Next]_vars
  PROVE  LostInv'
<1>. SUFFICES ASSUME mode' = "intents", NEW o \in Ops
              PROVE  \/ intent'[o] \in {"NONE", "COMMITTED"} \/ o \in todo' \/ th'[o].pc # "idle"
                     \/ cand'[Of(o)].by \notin {o, None}
                     \/ Approves(o) /\ batch'[Of(o)].stage # "none" /\ batch'[Of(o)].by # o
  BY DEF LostInv, Lost, Approves, Of
<1>. DEFINE Goal == \/ intent'[o] \in {"NONE", "COMMITTED"} \/ o \in todo' \/ th'[o].pc # "idle"
                    \/ cand'[Of(o)].by \notin {o, None}
                    \/ Approves(o) /\ batch'[Of(o)].stage # "none" /\ batch'[Of(o)].by # o
<1>0. o \in Threads /\ th \in [Threads -> ThreadType] /\ "idle" \notin Inside
  BY Commands, Places DEF TypeInv, ThreadTypes, Outside
<1>i. intent \in [Ops -> {"NONE", "PREPARED", "PUBLISHED", "COMMITTED"}]
  BY DEF TypeInv, IntentTypes
<1>1. CASE AssetsRecovered
  <2>1. intent' = intent /\ todo' = Resumable
    BY <1>1 DEF AssetsRecovered, intents
  <2>. QED
    BY <2>1 DEF Resumable
<1>2. CASE ~AssetsRecovered
  <2>0. mode = "intents"
    BY <1>2, ModeStep
  <2>1. CASE Lost(o)
    BY <2>1, LostIsFinal
  <2>2. CASE ~Lost(o)
    <3>0. intent[o] \in {"NONE", "COMMITTED"} \/ o \in todo \/ th[o].pc # "idle"
      BY <2>0, <2>2 DEF LostInv
    <3>1. CASE UNCHANGED vars
      BY <3>0, <3>1 DEF vars, intents, control
    <3>2. CASE Crash \/ Recovered
      BY <3>2 DEF Crash, Recovered
    <3>3. CASE RecoverIntent
      <4>. DEFINE c == Pick(todo)
      <4>1. /\ th' = [th EXCEPT ![c] = [pc |-> Entry(c), todo |-> {}]]
            /\ todo' = todo \ {c} /\ intent' = intent
        BY <3>3 DEF RecoverIntent, Enter, intents
      <4>. HIDE DEF c
      <4>2. CASE o = c
        <5>1. th'[o].pc = Entry(c)
          BY <1>0, <4>1, <4>2
        <5>. QED
          BY <5>1, EntryIsInside
      <4>3. CASE o # c
        <5>1. th'[o] = th[o]
          BY <1>0, <4>1, <4>3
        <5>. QED
          BY <3>0, <4>1, <4>3, <5>1
      <4>. QED
        BY <4>2, <4>3
    <3>4. ASSUME NEW p \in Ops, Deciding(p), p # o PROVE Goal
      <4>0. p \in Threads /\ th[p].pc \in Inside
        BY <3>4, RunningPlaces, Commands DEF Inside
      <4>1. th'[o] = th[o] /\ todo' = todo
        <5>1. (th' = th \/ Return(p) \/ \E l : Go(p, l)) /\ todo' = todo
          BY <2>0, <3>4 DEF Deciding, PublishPart, CommitBatch, DecideCandidate, CommitResolution,
             HandleNotification, ReadInstance, SettleInstance, TellSuccess, Answer, FinishIntent, control
        <5>. QED
          BY <1>0, <3>4, <5>1 DEF Return, Go
      <4>2. th[o].pc \notin Inside
        BY <1>0, <3>4, <4>0, OneInside
      <4>3. intent'[o] = intent[o]
        <5>1. ~Resolve(o) /\ ~ResolveReview(o)
          BY <2>0 DEF Resolve, ResolveReview
        <5>2. "publish" \in Inside /\ "finish" \in Inside
          BY DEF Inside, Decided, Resolved, Settled
        <5>. QED
          BY <1>i, <4>2, <5>1, <5>2, IntentWrite
      <4>. QED
        BY <3>0, <4>1, <4>3
    <3>5. CASE Deciding(o)
      <4>0. th[o].pc # "idle"
        BY <1>0, <3>5, RunningPlaces DEF Inside
      <4>1. CASE FinishIntent(o)
        BY <1>i, <4>1 DEF FinishIntent
      <4>2. CASE Return(o) /\ ~FinishIntent(o)
        BY <2>0, <2>2, <3>5, <4>0, <4>2, ReturnsWhenLost
      <4>3. CASE ~Return(o) /\ ~FinishIntent(o)
        <5>1. th' = th
              \/ \E l \in {"decide", "commit", "handle", "read", "settle", "tell", "finish"} : Go(o, l)
          BY <2>0, <3>5, <4>3 DEF Deciding, PublishPart, CommitBatch, DecideCandidate, CommitResolution,
             HandleNotification, ReadInstance, SettleInstance, TellSuccess, Answer
        <5>2. th'[o].pc # "idle"
          BY <1>0, <4>0, <5>1 DEF Go, ThreadType
        <5>. QED
          BY <5>2
      <4>. QED
        BY <4>1, <4>2, <4>3
    <3>. QED
      BY <2>0, <3>1, <3>2, <3>3, <3>4, <3>5, RecoverySteps
  <2>. QED
    BY <2>1, <2>2
<1>. QED
  BY <1>1, <1>2

-----------------------------------------------------------------------------
(* The theorems.                                                           *)

LEMMA InvInit == Init => Inv
<1>. SUFFICES ASSUME Init PROVE Inv
  OBVIOUS
<1>0. None \notin Threads /\ "idle" \notin Inside /\ Idle \in ThreadType /\ Idle.pc = "idle"
  BY NameAssumption, Places DEF Idle, ThreadType, Outside
<1>1. AgentTypes /\ ControlTypes
  BY DEF Init, AgentTypes, ControlTypes
<1>2. ReviewTypes /\ IntentTypes
  BY DEF Init, ReviewTypes, IntentTypes, CandType, ReviewType, Doers
<1>3. DiskTypes
  BY DEF Init, DiskTypes, AssetStates, BatchStates, BatchType, BatchIds, Doers
<1>4. ThreadTypes /\ LockInv
  BY <1>0 DEF Init, ThreadTypes, LockInv
<1>5. BatchInv /\ ManualInv /\ ImageInv
  <2>1. \A b \in Bundles : batch[b].stage = "none" /\ \A a \in Parts(b) : asset[a] = "none"
    BY PartsAreAssets DEF Init
  <2>2. batch[Manual].stage = "none" /\ ppt # "SUCCEEDED" /\ image # "SUCCEEDED"
    BY DEF Init
  <2>. QED
    BY <2>1, <2>2 DEF BatchInv, ManualInv, ImageInv
<1>6. CandInv /\ IntentInv /\ TodoInv
  BY Commands DEF Init, CandInv, IntentInv, TodoInv
<1>7. DecidingInv /\ AskingInv
  <2>1. \A t \in Threads : th[t].pc = "idle"
    BY <1>0 DEF Init
  <2>2. \A o \in Ops : th[o].pc = "idle"
    BY <2>1, Commands
  <2>3. "idle" \notin {"publish", "decide"} \cup Decided /\ Resolved \subseteq Decided /\ Settled \subseteq Decided
    BY DEF Decided, Resolved, Settled
  <2>. QED
    BY <2>1, <2>2, <2>3 DEF DecidingInv, AskingInv
<1>8. StartupInv /\ OpenInv /\ LostInv
  BY DEF Init, StartupInv, OpenInv, LostInv
<1>. QED
  BY <1>1, <1>2, <1>3, <1>4, <1>5, <1>6, <1>7, <1>8 DEF Inv, TypeInv

LEMMA InvNext == Inv /\ [Next]_vars => Inv'
<1>. SUFFICES ASSUME Inv, [Next]_vars PROVE Inv'
  OBVIOUS
<1>. USE DEF Inv
<1>1. TypeInv' /\ LockInv'
  BY TypeStep, LockStep
<1>2. BatchInv' /\ ManualInv' /\ ImageInv'
  BY BatchInvStep, ManualInvStep, ImageInvStep
<1>3. CandInv' /\ IntentInv'
  BY CandInvStep, IntentInvStep
<1>4. DecidingInv' /\ AskingInv'
  BY DecidingInvStep, AskingInvStep
<1>5. StartupInv' /\ OpenInv' /\ LostInv' /\ TodoInv'
  BY StartupInvStep, OpenInvStep, LostInvStep, TodoInvStep
<1>. QED
  BY <1>1, <1>2, <1>3, <1>4, <1>5

\* The inductive invariant holds in every reachable state.
THEOREM InvariantHolds == Spec => []Inv
BY InvInit, InvNext, PTL DEF Spec

\* The files, the transactions and the threads keep their types.
THEOREM PublicationTypesCorrect == Spec => []TypeOK
<1>1. Inv => TypeOK
  <2>. SUFFICES ASSUME Inv PROVE TypeOK
    OBVIOUS
  <2>. USE DEF Inv, TypeInv
  <2>1. AssetStates = {Stages[k] : k \in DOMAIN Stages}
    BY SMT DEF AssetStates, Stages
  <2>2. asset \in [Assets -> {Stages[k] : k \in DOMAIN Stages}]
    BY <2>1 DEF DiskTypes
  <2>3. \A x \in DOMAIN batch : batch[x].assets \subseteq Assets
    BY DEF DiskTypes, BatchType
  <2>4. \A b \in Bundles : /\ cand[b].status \in {"NONE", "PENDING", "PUBLISHED", "REJECTED"}
                           /\ review[b].status \in {"NONE", "PENDING", "APPROVED", "REJECTED"}
                           /\ {cand[b].by, review[b].by} \subseteq Ops \cup {None}
                           /\ note[b] \in {"NONE", "OPEN", "HANDLED"}
    BY DEF ReviewTypes, CandType, ReviewType, Doers
  <2>. QED
    BY <2>2, <2>3, <2>4 DEF TypeOK, AgentTypes, IntentTypes, ThreadTypes, ControlTypes
<1>. QED
  BY <1>1, InvariantHolds, PTL

\* What the library shows of a bundle: all of it, or nothing.
LEMMA VisibleWhole ==
  ASSUME BatchInv, NEW b \in Bundles
  PROVE  VisibleParts(b) = IF BatchCommitted(b) /\ image = "SUCCEEDED" THEN Parts(b) ELSE {}
<1>1. CASE BatchCommitted(b) /\ image = "SUCCEEDED"
  <2>1. batch[b].assets = Parts(b) /\ \A a \in Parts(b) : asset[a] = "committed"
    BY <1>1 DEF BatchInv, BatchCommitted
  <2>2. Visible(b, image) = Parts(b)
    BY <1>1, <2>1 DEF Visible, Announced
  <2>. QED
    BY <1>1, <2>2 DEF VisibleParts
<1>2. CASE ~(BatchCommitted(b) /\ image = "SUCCEEDED")
  BY <1>2 DEF VisibleParts, Visible
<1>. QED
  BY <1>1, <1>2

\* What the human decided is what the library shows: bundles appear whole and only when
\* approved, a rejection alone publishes nothing, candidate, approval, batch and notification
\* agree, and a succeeded instance shows what it delivered.
THEOREM ReviewIsHonouredAlways == Spec => []ReviewIsHonoured
<1>1. Inv => ReviewIsHonoured
  <2>. SUFFICES ASSUME Inv PROVE ReviewIsHonoured
    OBVIOUS
  <2>. USE DEF Inv
  <2>1. BundlesAppearWhole
    <3>. SUFFICES ASSUME NEW b \in Bundles
                  PROVE  /\ VisibleParts(b) \in {{}, Parts(b)}
                         /\ VisibleParts(b) # {} =>
                              /\ \E o \in Ops : Of(o) = b /\ Approves(o) /\ intent[o] # "NONE"
                              /\ \A a \in Parts(b) : asset[a] = "committed"
      BY DEF BundlesAppearWhole
    <3>1. VisibleParts(b) \in {{}, Parts(b)} /\ (VisibleParts(b) # {} => batch[b].stage # "none")
      BY VisibleWhole DEF BatchCommitted
    <3>. QED
      BY <3>1 DEF BatchInv
  <2>2. RejectionPublishesNothing
    BY DEF RejectionPublishesNothing, BatchInv
  <2>3. DecisionsAgree
    <3>. SUFFICES ASSUME NEW b \in Bundles
                  PROVE  /\ review[b].by # None => cand[b].by = review[b].by
                         /\ review[b].status = "APPROVED" => cand[b].status = "PUBLISHED"
                         /\ review[b].status = "REJECTED" => cand[b].status = "REJECTED"
                         /\ cand[b].status = "PUBLISHED" => batch[b].by = cand[b].by /\ BatchCommitted(b)
                         /\ note[b] = "HANDLED" => review[b].status \in {"APPROVED", "REJECTED"}
      BY DEF DecisionsAgree
    <3>0. review[b].by \in Doers /\ cand[b].by \in Doers
      BY DEF TypeInv, ReviewTypes, CandType, ReviewType
    <3>1. review[b].by # None => /\ cand[b].by = review[b].by /\ review[b].by \in Ops
                                 /\ review[b].status = Command[review[b].by].verdict
                                 /\ cand[b].status = Outcome(review[b].by)
      BY <3>0 DEF CandInv, Doers
    <3>2. review[b].by = None => review[b].status \in {"NONE", "PENDING"}
      BY DEF CandInv
    <3>3. /\ review[b].status = "APPROVED" => cand[b].status = "PUBLISHED"
          /\ review[b].status = "REJECTED" => cand[b].status = "REJECTED"
      BY <3>1, <3>2 DEF Outcome, Approves
    <3>4. note[b] = "HANDLED" => review[b].status \in {"APPROVED", "REJECTED"}
      BY <3>1, Commands DEF CandInv
    <3>5. ASSUME cand[b].status = "PUBLISHED" PROVE batch[b].by = cand[b].by /\ BatchCommitted(b)
      <4>1. cand[b].by \in Ops /\ Of(cand[b].by) = b /\ Outcome(cand[b].by) = "PUBLISHED"
        BY <3>0, <3>5 DEF CandInv, Doers
      <4>2. Approves(cand[b].by) /\ intent[cand[b].by] \in {"PUBLISHED", "COMMITTED"}
        BY <4>1, Commands DEF CandInv
      <4>. QED
        BY <4>1, <4>2 DEF IntentInv, BatchCommitted
    <3>. QED
      BY <3>1, <3>3, <3>4, <3>5
  <2>4. SuccessShowsDeliveries
    <3>1. image = "SUCCEEDED" => \E b \in Bundles : VisibleParts(b) = Parts(b)
      BY VisibleWhole DEF ImageInv, BatchCommitted
    <3>2. ppt = "SUCCEEDED" => Required \subseteq Visible(Manual, ppt)
      BY DEF ManualInv, Visible, BatchCommitted, Announced
    <3>. QED
      BY <3>1, <3>2 DEF SuccessShowsDeliveries
  <2>. QED
    BY <2>1, <2>2, <2>3, <2>4 DEF ReviewIsHonoured
<1>. QED
  BY <1>1, InvariantHolds, PTL

\* When recovery is done with all intents, every decision is finished or lost to a rival.
LEMMA RecoveredDecisions ==
  ASSUME Inv, Recovered, NEW o \in Ops
  PROVE  intent[o] \in {"NONE", "COMMITTED"} \/ cand[Of(o)].by \notin {o, None}
<1>. USE DEF Inv
<1>0. mode = "intents" /\ Free /\ todo = {}
  BY DEF Recovered
<1>1. \A p \in Ops : p \in Threads /\ th[p].pc = "idle"
  <2>. SUFFICES ASSUME NEW p \in Ops PROVE p \in Threads /\ th[p].pc = "idle"
    OBVIOUS
  <2>1. p \in Threads /\ p # None
    BY Commands
  <2>2. th[p].pc \notin Inside
    BY <1>0, <2>1 DEF LockInv, Free
  <2>. QED
    BY <1>0, <2>1, <2>2 DEF StartupInv, Inside
<1>2. \A p \in Ops : intent[p] \in {"NONE", "COMMITTED"} \/ Lost(p)
  BY <1>0, <1>1 DEF LostInv
<1>3. ASSUME Approves(o), batch[Of(o)].stage # "none", batch[Of(o)].by # o
      PROVE  cand[Of(o)].by \notin {o, None}
  <2>. DEFINE b == Of(o)
              r == batch[b].by
  <2>1. b \in Bundles /\ r \in Ops /\ Of(r) = b /\ intent[r] # "NONE" /\ r # None
    BY <1>3, Commands DEF BatchInv
  <2>2. cand[b].by # None
    <3>1. CASE intent[r] = "COMMITTED"
      <4>1. review[b].by = r
        BY <2>1, <3>1 DEF IntentInv
      <4>. QED
        BY <2>1, <4>1 DEF CandInv
    <3>2. CASE intent[r] # "COMMITTED"
      <4>1. Lost(r)
        BY <1>2, <2>1, <3>2
      <4>. QED
        BY <2>1, <4>1 DEF Lost
    <3>. QED
      BY <3>1, <3>2
  <2>3. cand[b].by # o
    <3>. SUFFICES ASSUME cand[b].by = o PROVE FALSE
      OBVIOUS
    <3>1. o # None /\ intent[o] \in {"PUBLISHED", "COMMITTED"}
      BY <1>3, <2>1, Commands DEF CandInv
    <3>. QED
      BY <1>3, <3>1 DEF IntentInv
  <2>. QED
    BY <2>2, <2>3
<1>. QED
  BY <1>2, <1>3 DEF Lost

\* A decided candidate has its answer in the approval and no open notification.
LEMMA RecoveredReviews ==
  ASSUME Inv, Recovered, NEW b \in Bundles, cand[b].by # None
  PROVE  review[b].by = cand[b].by /\ note[b] # "OPEN"
<1>. DEFINE o == cand[b].by
<1>1. o \in Ops /\ Of(o) = b /\ intent[o] # "NONE"
  BY DEF Inv, TypeInv, ReviewTypes, CandType, Doers, CandInv
<1>2. intent[o] = "COMMITTED"
  BY <1>1, RecoveredDecisions
<1>. QED
  BY <1>1, <1>2 DEF Inv, IntentInv

\* A restart leaves no decision half done, no transaction open and no success untold.
THEOREM RestartFinishesDecisionsAlways == Spec => RestartFinishesDecisions
<1>. DEFINE Finished ==
       /\ \A o \in Ops : intent[o] \in {"NONE", "COMMITTED"} \/ cand[Of(o)].by \notin {o, None}
       /\ \A b \in Bundles : cand[b].by # None => review[b].by = cand[b].by /\ note[b] # "OPEN"
       /\ Unfinished = {} /\ OpenBatches = {}
       /\ (image = "SUCCEEDED" => "image" \in told') /\ (ppt = "SUCCEEDED" => "ppt" \in told')
<1>1. Inv /\ [Next]_vars => [mode = "intents" /\ mode' = "up" => Finished]_vars
  <2>. SUFFICES ASSUME Inv, [Next]_vars, mode = "intents", mode' = "up" PROVE Finished
    OBVIOUS
  <2>1. Recovered
    BY Writers DEF Crash, Start, AssetsRecovered
  <2>2. Free
    BY <2>1 DEF Recovered
  <2>3. Unfinished = {} /\ OpenBatches = {}
    <3>1. \A p \in Ops : ~Publishing(p)
      BY <2>2, NobodyPublishes DEF Inv
    <3>. QED
      BY <3>1 DEF Inv, OpenInv, Unfinished, OpenBatches, BatchIds
  <2>4. (image = "SUCCEEDED" => "image" \in told') /\ (ppt = "SUCCEEDED" => "ppt" \in told')
    BY <2>1 DEF Recovered
  <2>. QED
    BY <2>1, <2>3, <2>4, RecoveredDecisions, RecoveredReviews
<1>. QED
  BY <1>1, InvariantHolds, PTL DEF Spec, RestartFinishesDecisions
=============================================================================
