---------------------------- MODULE Publication ----------------------------
(***************************************************************************)
(* From the private outputs of an Agent to public assets:                  *)
(* services/application_delivery.py on top of assets.py,                   *)
(* asset_recovery.py and approvals.py.                                     *)
(*                                                                         *)
(* An Image instance offers branch bundles, an image and a design note     *)
(* each.  Observation freezes them as candidates and asks for a review; a  *)
(* human approves or rejects, directly or with the one-click completion;   *)
(* an approval publishes the two assets, commits their batch and ends the  *)
(* instance.  A PPT instance publishes its declared decks under one manual *)
(* batch without a review.                                                 *)
(*                                                                         *)
(* Every step is one durable write.  An asset and a batch are described by *)
(* the last write of their transaction, because recovery continues exactly *)
(* there.  Observation holds the task lock and the task guard; a decision  *)
(* holds the task lock only, so the supervisor may move the instance       *)
(* meanwhile.  Private outputs do not change once they are staged.         *)
(***************************************************************************)
EXTENDS Naturals, Sequences, FiniteSets

CONSTANTS
  Bundles,      \* branch bundles the Image instance may offer
  Breakable,    \* bundles that may first be offered in a state validation refuses
  Decks,        \* sequence: the deliveries the PPT Agent declares
  Required,     \* the decks its task card requires
  Ops,          \* operation ids of the human's commands
  Flaky,        \* operations whose publication may fail for a moment (lock timeout, full disk)
  Command,      \* [Ops -> [bundle, verdict, completes]]
  Observer, Collector,   \* the threads that observe the Image and the PPT instance
  Manual,       \* the manual batch of the PPT instance
  None,
  MaxCrashes,   \* bound on crashes of the control process
  MaxExits,     \* bound on exits of the Image Agent's process
  MaxFails,     \* bound on such failures
  MaxFaults     \* bound on the three together

DeckSet == {Decks[k] : k \in DOMAIN Decks}

ASSUME ConstAssumption ==
  /\ Required \subseteq DeckSet /\ Breakable \subseteq Bundles /\ Flaky \subseteq Ops
  /\ \A o \in Ops : /\ Command[o].bundle \in Bundles
                    /\ Command[o].verdict \in {"APPROVED", "REJECTED"}
                    /\ Command[o].completes => Command[o].verdict = "APPROVED"
  /\ MaxCrashes \in Nat /\ MaxExits \in Nat /\ MaxFails \in Nat /\ MaxFaults \in Nat

VARIABLES
  image, ppt,   \* status of the two instances
  offered,      \* bundles the Image Agent exposes
  broken,       \* those validation refuses
  cand,         \* DeliveryBundleCandidate: [status, by]
  review,       \* the DELIVERY_REVIEW approval: [status, by]
  note,         \* its notification
  told,         \* instances with a success notification
  asset,        \* last write of the publication of an asset
  batch,        \* publication batch: [stage, by, assets]
  intent,       \* RESOLVE_APPROVAL intents
  bound,        \* COMPLETE_DELIVERY_BUNDLE intents
  lock,         \* holder of the task lock
  th,           \* threads: [pc, todo]
  mode,         \* "up", "down", "assets" or "intents"
  todo,         \* intents recover() has not looked at
  crashes, exits, fails

agent == <<offered, broken>>
reviews == <<cand, review, note>>
disk == <<asset, batch>>
intents == <<intent, bound>>
control == <<mode, todo, crashes, exits, fails>>
vars == <<image, ppt, agent, reviews, told, disk, intents, lock, th, control>>

Threads == Ops \cup {Observer, Collector}
FaultLeft == crashes + exits + fails < MaxFaults
Parts(b) == {<<b, "image">>, <<b, "note">>}
Assets == (UNION {Parts(b) : b \in Bundles}) \cup DeckSet
Of(o) == Command[o].bundle
Approves(o) == Command[o].verdict = "APPROVED"

\* Names: a deck is an output of the PPT instance and no part of an Image bundle.
ASSUME NameAssumption ==
  /\ Decks \in Seq(DeckSet)
  /\ DeckSet \cap (UNION {Parts(b) : b \in Bundles}) = {}
  /\ Manual \notin Bundles
  /\ Observer # Collector /\ Observer \notin Ops /\ Collector \notin Ops
  /\ None \notin Threads

Idle == [pc |-> "idle", todo |-> {}]
Free == lock = None
Running(t, label) == mode # "down" /\ th[t].pc = label
Go(t, label) == th' = [th EXCEPT ![t].pc = label] /\ lock' = lock
Enter(t, label) == th' = [th EXCEPT ![t] = [pc |-> label, todo |-> {}]] /\ lock' = t
Return(t) == th' = [th EXCEPT ![t] = Idle] /\ lock' = IF lock = t THEN None ELSE lock
\* The task guard is held as long as an observation is persisted.
Guarded == \E t \in Threads : lock = t /\ th[t].pc \in {"persist", "wait", "ask", "notify", "deck"}

\* A loop over the files of a directory: the order of their names is all it depends on.
Pick(S) == CHOOSE x \in S : TRUE

-----------------------------------------------------------------------------
(* Assets and batches: asset_recovery.py.                                  *)

Stages == <<"none", "prepared", "copied", "linked", "manifested", "announced", "committed">>
PlaceOf(s) == CHOOSE k \in DOMAIN Stages : Stages[k] = s
After(s) == Stages[1 + PlaceOf(s)]
Announced(a) == asset[a] \in {"announced", "committed"}

\* _resume_publication: the record, the copy, the link under resources/shared, the
\* manifest, the event and the record again, one durable write after the other.
PublishStep(a) == asset' = [asset EXCEPT ![a] = After(@)]

BatchStages == <<"none", "prepared", "filed", "announced", "committed">>
BatchPlaceOf(s) == CHOOSE k \in DOMAIN BatchStages : BatchStages[k] = s
AfterBatch(s) == BatchStages[1 + BatchPlaceOf(s)]
BatchCommitted(x) == batch[x].stage \in {"announced", "committed"}

\* commit_publication_batch and _resume_publication_batch: the record freezes the assets
\* and, in the bundle manifest, who published; then the manifest, the event, the record.
\* The event is refused while a publication is missing.
BatchStep(x, by, assets) ==
  /\ batch[x].stage = "none" \/ (batch[x].by = by /\ batch[x].assets = assets)
  /\ batch[x].stage \in {"none", "committed"} \/ \A a \in batch[x].assets : Announced(a)
  /\ batch' = [batch EXCEPT ![x] = [stage |-> AfterBatch(@.stage), by |-> by, assets |-> assets]]
BatchConflict(x, by, assets) ==
  batch[x].stage # "none" /\ (batch[x].by # by \/ batch[x].assets # assets)

\* _visible_asset_events.
VisibleEvents(x, producer) == {a \in Assets : Announced(a)}
Visible(x, producer) ==
  IF BatchCommitted(x) /\ producer = "SUCCEEDED" THEN {a \in batch[x].assets : Announced(a)} ELSE {}
VisibleParts(b) == Visible(b, image) \cap Parts(b)
\* list_bundle_manifests verifies the assets of every committed batch and raises if one
\* of them is not visible.
ListingRaises == \E b \in Bundles : BatchCommitted(b) /\ VisibleParts(b) # Parts(b)

-----------------------------------------------------------------------------
(* The Image Agent and its process.                                        *)

FinishBranch(b) ==
  /\ mode = "up" /\ image \in {"RUNNING", "WAITING_APPROVAL", "SUCCEEDED"}
  /\ b \notin offered
  /\ offered' = offered \cup {b}
  /\ broken' \in {broken} \cup {broken \cup ({b} \cap Breakable)}
  /\ UNCHANGED <<image, ppt, reviews, told, disk, intents, lock, th, control>>

RepairBranch(b) ==
  /\ mode = "up" /\ b \in broken
  /\ broken' = broken \ {b}
  /\ UNCHANGED <<image, ppt, offered, reviews, told, disk, intents, lock, th, control>>

\* The supervisor's monitor, and its reconcile() at startup, fail a waiting instance and
\* crash a running one.
AgentExit ==
  /\ mode \in {"up", "assets"} /\ ~Guarded
  /\ exits < MaxExits /\ FaultLeft
  /\ image \in {"RUNNING", "WAITING_APPROVAL"}
  /\ exits' = exits + 1
  /\ image' = IF image = "RUNNING" THEN "CRASHED" ELSE "FAILED"
  /\ UNCHANGED <<ppt, agent, reviews, told, disk, intents, lock, th, mode, todo, crashes, fails>>

Restart ==
  /\ mode = "up" /\ Free
  /\ image \in {"FAILED", "CRASHED"}
  /\ image' = "RUNNING"
  /\ UNCHANGED <<ppt, agent, reviews, told, disk, intents, lock, th, control>>

-----------------------------------------------------------------------------
(* Observation of a completed Image Agent: candidates, then the reviews.   *)

Observable == image \in {"RUNNING", "WAITING_APPROVAL"} /\ offered # {}

\* Every offered bundle is staged and normalized at every collection.
Valid == offered \cap broken = {}

\* A bundle that validation refuses fails the instance as a rejected delivery.
RejectDelivery == image' = "FAILED" /\ UNCHANGED <<lock, th>>

\* An observation that changes nothing is left out.
UnseenRunning == image = "RUNNING"
Unseen ==
  \/ image = "RUNNING"
  \/ \E b \in offered : cand[b].status = "NONE" \/ (cand[b].status = "PENDING" /\ note[b] = "NONE")

Observe(t) ==
  /\ mode = "up" /\ Free /\ th[t] = Idle
  /\ Observable
  /\ IF ~Valid THEN RejectDelivery
     ELSE Unseen = TRUE /\ Enter(t, "persist") /\ image' = image
  /\ UNCHANGED <<ppt, agent, reviews, told, disk, intents, control>>

PersistCandidate(t) ==
  /\ Running(t, "persist")
  /\ LET new == {b \in offered : cand[b].status = "NONE"} IN
     IF new = {} THEN Go(t, "wait") /\ cand' = cand
     ELSE /\ cand' = [cand EXCEPT ![Pick(new)] = [status |-> "PENDING", by |-> None]]
          /\ UNCHANGED <<th, lock>>
  /\ UNCHANGED <<image, ppt, agent, review, note, told, disk, intents, control>>

AwaitReview(t) ==
  /\ Running(t, "wait")
  /\ image' = IF image = "RUNNING" THEN "WAITING_APPROVAL" ELSE image
  /\ th' = [th EXCEPT ![t] = [pc |-> "ask", todo |-> {b \in offered : cand[b].status = "PENDING"}]]
  /\ UNCHANGED <<ppt, agent, reviews, told, disk, intents, lock, control>>

\* ensure_delivery_review_approval for the next candidate, then its notification.
AskReview(t) ==
  /\ Running(t, "ask")
  /\ IF th[t].todo = {}
     THEN /\ review' = review
          /\ IF t = Observer THEN Return(t) ELSE th' = [th EXCEPT ![t].pc = "recheck"] /\ lock' = None
     ELSE LET b == Pick(th[t].todo) IN
          /\ review' = IF review[b].status = "NONE" THEN [review EXCEPT ![b].status = "PENDING"] ELSE review
          /\ Go(t, "notify")
  /\ UNCHANGED <<image, ppt, agent, cand, note, told, disk, intents, control>>

NotifyReview(t) ==
  LET b == Pick(th[t].todo) IN
  /\ Running(t, "notify")
  /\ note' = IF note[b] = "NONE" THEN [note EXCEPT ![b] = "OPEN"] ELSE note
  /\ th' = [th EXCEPT ![t] = [pc |-> "ask", todo |-> @.todo \ {b}]]
  /\ UNCHANGED <<image, ppt, agent, cand, review, told, disk, intents, lock, control>>

-----------------------------------------------------------------------------
(* The PPT instance: _collect_declared_deliveries_and_complete publishes   *)
(* one deck after the other and completes the instance as soon as the      *)
(* published ones satisfy the task card.                                   *)

Published == {d \in DeckSet : asset[d] = "committed"}

\* Its stage depends on the Image stage and opens with its success.
StartDecks ==
  /\ mode = "up" /\ Free
  /\ ppt = "READY" /\ image = "SUCCEEDED"
  /\ ppt' = "RUNNING"
  /\ UNCHANGED <<image, agent, reviews, told, disk, intents, lock, th, control>>

CollectDecks ==
  /\ mode = "up" /\ Free
  /\ ppt = "RUNNING"
  /\ Enter(Collector, "deck")
  /\ UNCHANGED <<image, ppt, agent, reviews, told, disk, intents, control>>

NextDeck == CHOOSE k \in DOMAIN Decks : asset[Decks[k]] # "committed"
                                        /\ \A j \in 1..(k - 1) : asset[Decks[j]] = "committed"

\* publish_delivery_and_complete; a succeeded instance only replays.
PublishDeck ==
  /\ Running(Collector, "deck")
  /\ ppt = "RUNNING" /\ ~(Required \subseteq Published)
  /\ PublishStep(Decks[NextDeck])
  /\ UNCHANGED <<image, ppt, agent, reviews, told, batch, intents, lock, th, control>>

Complete == Required \subseteq Published
CommitDecks ==
  /\ Running(Collector, "deck")
  /\ ppt = "RUNNING" /\ Complete
  /\ batch[Manual].stage # "committed"
  /\ BatchStep(Manual, None, IF batch[Manual].stage = "none" THEN Published ELSE batch[Manual].assets)
  /\ UNCHANGED <<image, ppt, agent, reviews, told, asset, intents, lock, th, control>>

\* _complete_instance_if_ready, the sole gate to success.
CompleteDecks ==
  /\ Running(Collector, "deck")
  /\ ppt = "RUNNING" /\ batch[Manual].stage = "committed"
  /\ ppt' = "SUCCEEDED"
  /\ UNCHANGED <<image, agent, reviews, told, disk, intents, lock, th, control>>

AnnounceDecks ==
  /\ Running(Collector, "deck")
  /\ ppt = "SUCCEEDED"
  /\ told' = told \cup {"ppt"}
  /\ Return(Collector)
  /\ UNCHANGED <<image, ppt, agent, reviews, disk, intents, control>>

-----------------------------------------------------------------------------
(* resolve_approval and _resume_delivery_review_approval.                  *)

Entry(o) == IF Approves(o) /\ intent[o] \in {"NONE", "PREPARED"} THEN "publish" ELSE "decide"

Prepare(o) ==
  /\ intent' = [intent EXCEPT ![o] = IF @ = "NONE" THEN "PREPARED" ELSE @]
  /\ Enter(o, Entry(o))

\* A call, or its repetition; a completed operation only returns its result.
Resolve(o) ==
  /\ mode = "up" /\ Free
  /\ ~Command[o].completes /\ th[o] = Idle
  /\ intent[o] # "COMMITTED"
  /\ intent[o] # "NONE" \/ review[Of(o)].status = "PENDING"
  /\ Prepare(o)
  /\ UNCHANGED <<image, ppt, agent, reviews, told, disk, bound, control>>

NextPart(o) == IF asset[<<Of(o), "image">>] # "committed" THEN <<Of(o), "image">> ELSE <<Of(o), "note">>

PublishPart(o) ==
  /\ Running(o, "publish")
  /\ asset[NextPart(o)] # "committed"
  /\ PublishStep(NextPart(o))
  /\ UNCHANGED <<image, ppt, agent, reviews, told, batch, intents, lock, th, control>>

\* A failure that is none of the transaction's raises; the intent stays as it is.
PublishFails(o) ==
  /\ o \in Flaky /\ mode = "up" /\ Running(o, "publish")
  /\ fails < MaxFails /\ FaultLeft
  /\ fails' = fails + 1
  /\ Return(o)
  /\ UNCHANGED <<image, ppt, agent, reviews, told, disk, intents, mode, todo, crashes, exits>>

PartsReady(o) == \A a \in Parts(Of(o)) : asset[a] = "committed"

CommitBatch(o) ==
  /\ Running(o, "publish") /\ PartsReady(o)
  /\ IF BatchConflict(Of(o), o, Parts(Of(o)))
     THEN Return(o) /\ UNCHANGED <<batch, intent>>
     ELSE IF batch[Of(o)].stage = "committed"
     THEN /\ intent' = [intent EXCEPT ![o] = "PUBLISHED"] /\ Go(o, "decide") /\ batch' = batch
     ELSE BatchStep(Of(o), o, Parts(Of(o))) /\ UNCHANGED <<intent, th, lock>>
  /\ UNCHANGED <<image, ppt, agent, reviews, told, asset, bound, control>>

OutcomeIsVerdict(o) == Command[o].verdict
Outcome(o) == IF Approves(o) THEN "PUBLISHED" ELSE "REJECTED"

\* _decide_delivery_bundle_candidate: only the operation that decided may repeat it.
DecideCandidate(o) ==
  LET b == Of(o) IN
  /\ Running(o, "decide")
  /\ IF cand[b].status # "PENDING" /\ cand[b].by # o
     THEN Return(o) /\ cand' = cand
     ELSE cand' = [cand EXCEPT ![b] = [status |-> Outcome(o), by |-> o]] /\ Go(o, "commit")
  /\ UNCHANGED <<image, ppt, agent, review, note, told, disk, intents, control>>

\* commit_resolution.
CommitResolution(o) ==
  LET b == Of(o) IN
  /\ Running(o, "commit")
  /\ CASE review[b].by = o -> review' = review /\ Go(o, "handle")
       [] review[b].by # o /\ review[b].status = "PENDING" ->
            review' = [review EXCEPT ![b] = [status |-> Command[o].verdict, by |-> o]] /\ Go(o, "handle")
       [] OTHER -> review' = review /\ Return(o)
  /\ UNCHANGED <<image, ppt, agent, cand, note, told, disk, intents, control>>

HandleNotification(o) ==
  /\ Running(o, "handle")
  /\ note' = [note EXCEPT ![Of(o)] = IF @ = "OPEN" THEN "HANDLED" ELSE @]
  /\ Go(o, "read")
  /\ UNCHANGED <<image, ppt, agent, cand, review, told, disk, intents, control>>

\* An approval ends the instance; a rejection does once no candidate is left to review.
Ends(o) == image = "WAITING_APPROVAL" /\ (Approves(o) \/ \A b \in Bundles : cand[b].status # "PENDING")
Target(o) == IF Approves(o) \/ (\E b \in Bundles : cand[b].status = "PUBLISHED")
             THEN "SUCCEEDED" ELSE "FAILED"

ReadInstance(o) ==
  /\ Running(o, "read")
  /\ Go(o, IF Ends(o) THEN "settle" ELSE "finish")
  /\ UNCHANGED <<image, ppt, agent, reviews, told, disk, intents, control>>

\* The answer of a resolution that has decided: a completion goes on to its own record.
Answer(o) ==
  IF Command[o].completes /\ mode = "up"
  THEN th' = [th EXCEPT ![o].pc = "completed"] /\ lock' = None ELSE Return(o)

\* The instance may have left WAITING_APPROVAL since: the transition then raises, and a
\* completion takes the bundle that it finds published for the answer.
SettleInstance(o) ==
  /\ Running(o, "settle")
  /\ IF image = "WAITING_APPROVAL" THEN image' = Target(o) /\ Go(o, "tell")
     ELSE image' = image /\ IF ListingRaises THEN Return(o) ELSE Answer(o)
  /\ UNCHANGED <<ppt, agent, reviews, told, disk, intents, control>>

TellSuccess(o) ==
  /\ Running(o, "tell")
  /\ told' = IF image = "SUCCEEDED" THEN told \cup {"image"} ELSE told
  /\ Go(o, "finish")
  /\ UNCHANGED <<image, ppt, agent, reviews, disk, intents, control>>

FinishIntent(o) ==
  /\ Running(o, "finish")
  /\ intent' = [intent EXCEPT ![o] = "COMMITTED"]
  /\ Answer(o)
  /\ UNCHANGED <<image, ppt, agent, reviews, told, disk, bound, control>>

-----------------------------------------------------------------------------
(* complete_delivery_bundle: bind, look, collect, resolve, record.         *)

CompleteBundle(o) ==
  /\ mode = "up" /\ Free
  /\ Command[o].completes /\ th[o] = Idle
  /\ bound[o] # "COMMITTED"
  /\ bound' = [bound EXCEPT ![o] = "BOUND"]
  /\ th' = [th EXCEPT ![o].pc = "status"]
  /\ UNCHANGED <<image, ppt, agent, reviews, told, disk, intent, lock, control>>

RecordResult(o) == bound' = [bound EXCEPT ![o] = "COMMITTED"] /\ Return(o)

\* delivery_bundle_status, before and after the collection of a bundle not yet known.
CheckStatus(o) ==
  /\ Running(o, "status") \/ Running(o, "recheck")
  /\ LET s == cand[Of(o)].status IN
     CASE ListingRaises -> Return(o) /\ bound' = bound
       [] ~ListingRaises /\ s = "PUBLISHED" -> RecordResult(o)
       [] ~ListingRaises /\ s = "PENDING" /\ review[Of(o)].status = "PENDING" -> Go(o, "review") /\ bound' = bound
       [] ~ListingRaises /\ s = "NONE" /\ th[o].pc = "status" -> Go(o, "collect") /\ bound' = bound
       [] OTHER -> Return(o) /\ bound' = bound
  /\ UNCHANGED <<image, ppt, agent, reviews, told, disk, intent, control>>

\* observe_instance while the instance is active, _collect_succeeded_instance_bundles after.
CollectTarget(o) ==
  /\ mode = "up" /\ Running(o, "collect") /\ Free
  /\ IF Valid /\ offered # {} /\ image \in {"RUNNING", "WAITING_APPROVAL", "SUCCEEDED"}
     THEN Enter(o, "persist") /\ image' = image
     ELSE /\ Return(o)
          /\ image' = IF Observable /\ ~Valid THEN "FAILED" ELSE image
  /\ UNCHANGED <<ppt, agent, reviews, told, disk, intents, control>>

\* With the approval gone another decision won: a published bundle is the answer.
ResolveReview(o) ==
  /\ mode = "up" /\ Running(o, "review") /\ Free
  /\ CASE intent[o] # "NONE" \/ review[Of(o)].status = "PENDING" -> Prepare(o) /\ bound' = bound
       [] intent[o] = "NONE" /\ review[Of(o)].status # "PENDING"
          /\ cand[Of(o)].status = "PUBLISHED" /\ ~ListingRaises -> RecordResult(o) /\ intent' = intent
       [] OTHER -> Return(o) /\ UNCHANGED intents
  /\ UNCHANGED <<image, ppt, agent, reviews, told, disk, control>>

RecordCompletion(o) ==
  /\ Running(o, "completed")
  /\ RecordResult(o)
  /\ UNCHANGED <<image, ppt, agent, reviews, told, disk, intent, control>>

-----------------------------------------------------------------------------
(* Crash and startup: assets.recover, then application.recover.            *)

Crash ==
  /\ mode # "down"
  /\ crashes < MaxCrashes /\ FaultLeft
  /\ crashes' = crashes + 1
  /\ mode' = "down" /\ todo' = {}
  /\ th' = [t \in Threads |-> Idle] /\ lock' = None
  /\ UNCHANGED <<image, ppt, agent, reviews, told, disk, intents, exits, fails>>

Start ==
  /\ mode = "down"
  /\ mode' = "assets"
  /\ UNCHANGED <<image, ppt, agent, reviews, told, disk, intents, lock, th, todo, crashes, exits, fails>>

Unfinished == {a \in Assets : asset[a] \notin {"none", "committed"}}
OpenBatches == {x \in Bundles \cup {Manual} : batch[x].stage \notin {"none", "committed"}}

RecoverAsset ==
  /\ mode = "assets"
  /\ \/ OpenBatches # {} /\ asset' = asset
        /\ LET x == Pick(OpenBatches) IN BatchStep(x, batch[x].by, batch[x].assets)
     \/ OpenBatches = {} /\ Unfinished # {} /\ PublishStep(Pick(Unfinished)) /\ batch' = batch
  /\ UNCHANGED <<image, ppt, agent, reviews, told, intents, lock, th, control>>

PreparedOnly == {o \in Ops : intent[o] = "PREPARED"}
Resumable == {o \in Ops : intent[o] \notin {"NONE", "COMMITTED"}}
AssetsRecovered ==
  /\ mode = "assets" /\ Unfinished = {} /\ OpenBatches = {}
  /\ mode' = "intents"
  /\ todo' = Resumable
  /\ UNCHANGED <<image, ppt, agent, reviews, told, disk, intents, lock, th, crashes, exits, fails>>

RecoverIntent ==
  /\ mode = "intents" /\ Free /\ todo # {}
  /\ LET o == Pick(todo) IN Enter(o, Entry(o)) /\ todo' = todo \ {o}
  /\ UNCHANGED <<image, ppt, agent, reviews, told, disk, intents, mode, crashes, exits, fails>>

\* reconcile_terminal_notifications, and the process serves again.
Recovered ==
  /\ mode = "intents" /\ Free /\ todo = {}
  /\ told' = told \cup (IF image = "SUCCEEDED" THEN {"image"} ELSE {})
                  \cup (IF ppt = "SUCCEEDED" THEN {"ppt"} ELSE {})
  /\ mode' = "up"
  /\ UNCHANGED <<image, ppt, agent, reviews, disk, intents, lock, th, todo, crashes, exits, fails>>

-----------------------------------------------------------------------------
Init ==
  /\ image = "RUNNING" /\ ppt = "READY"
  /\ offered = {} /\ broken = {}
  /\ cand = [b \in Bundles |-> [status |-> "NONE", by |-> None]]
  /\ review = [b \in Bundles |-> [status |-> "NONE", by |-> None]]
  /\ note = [b \in Bundles |-> "NONE"]
  /\ told = {}
  /\ asset = [a \in Assets |-> "none"]
  /\ batch = [x \in Bundles \cup {Manual} |-> [stage |-> "none", by |-> None, assets |-> {}]]
  /\ intent = [o \in Ops |-> "NONE"]
  /\ bound = [o \in Ops |-> "NONE"]
  /\ lock = None
  /\ th = [t \in Threads |-> Idle]
  /\ mode = "up" /\ todo = {}
  /\ crashes = 0 /\ exits = 0 /\ fails = 0

Collecting(t) == PersistCandidate(t) \/ AwaitReview(t) \/ AskReview(t) \/ NotifyReview(t)
Deciding(o) ==
  \/ PublishPart(o) \/ CommitBatch(o) \/ DecideCandidate(o) \/ CommitResolution(o)
  \/ HandleNotification(o) \/ ReadInstance(o) \/ SettleInstance(o) \/ TellSuccess(o) \/ FinishIntent(o)
Completing(o) == CheckStatus(o) \/ CollectTarget(o) \/ ResolveReview(o) \/ RecordCompletion(o)
DeckSteps == PublishDeck \/ CommitDecks \/ CompleteDecks \/ AnnounceDecks
Startup == Start \/ RecoverAsset \/ AssetsRecovered \/ RecoverIntent \/ Recovered

Next ==
  \/ \E b \in Bundles : FinishBranch(b) \/ RepairBranch(b)
  \/ AgentExit \/ Restart
  \/ Observe(Observer)
  \/ \E t \in Ops \cup {Observer} : Collecting(t)
  \/ StartDecks \/ CollectDecks \/ DeckSteps
  \/ \E o \in Ops : Resolve(o) \/ CompleteBundle(o) \/ Deciding(o) \/ Completing(o) \/ PublishFails(o)
  \/ Crash \/ Startup

Spec == Init /\ [][Next]_vars

\* The background observer comes back every two seconds and does not always find the task
\* lock taken, a thread inside a call goes on, and the service manager starts the process
\* again.
FairSpec ==
  /\ Spec
  /\ SF_vars(Observe(Observer)) /\ SF_vars(CollectDecks) /\ WF_vars(DeckSteps)
  /\ \A t \in Ops \cup {Observer} : WF_vars(Collecting(t))
  /\ \A o \in Ops : WF_vars(Deciding(o)) /\ WF_vars(Completing(o))
  /\ WF_vars(Startup)

-----------------------------------------------------------------------------
(* Properties.                                                             *)

\* The types of the files, of the transactions and of the threads.
TypeOK ==
  /\ image \in {"RUNNING", "WAITING_APPROVAL", "SUCCEEDED", "FAILED", "CRASHED"}
  /\ ppt \in {"READY", "RUNNING", "SUCCEEDED"}
  /\ offered \subseteq Bundles /\ broken \subseteq offered
  /\ \A b \in Bundles : /\ cand[b].status \in {"NONE", "PENDING", "PUBLISHED", "REJECTED"}
                        /\ review[b].status \in {"NONE", "PENDING", "APPROVED", "REJECTED"}
                        /\ {cand[b].by, review[b].by} \subseteq Ops \cup {None}
                        /\ note[b] \in {"NONE", "OPEN", "HANDLED"}
  /\ asset \in [Assets -> {Stages[k] : k \in DOMAIN Stages}]
  /\ \A x \in DOMAIN batch : batch[x].assets \subseteq Assets
  /\ intent \in [Ops -> {"NONE", "PREPARED", "PUBLISHED", "COMMITTED"}]
  /\ bound \in [Ops -> {"NONE", "BOUND", "COMMITTED"}]
  /\ lock \in Threads \cup {None}
  /\ told \subseteq {"image", "ppt"} /\ todo \subseteq Ops

\* The image and the note of a bundle become public at once, with their manifest in place,
\* and only for a bundle a human approved, wherever the process died on the way.
BundlesAppearWhole ==
  \A b \in Bundles :
    /\ VisibleParts(b) \in {{}, Parts(b)}
    /\ VisibleParts(b) # {} => /\ \E o \in Ops : Of(o) = b /\ Approves(o) /\ intent[o] # "NONE"
                               /\ \A a \in Parts(b) : asset[a] = "committed"

\* A rejected bundle is never public, whatever other bundles of the instance were published
\* and whichever decisions were interrupted.
RejectedStaysPrivate ==
  \A b \in Bundles : cand[b].status = "REJECTED" => VisibleParts(b) = {}

\* The same of a bundle whose approval nobody had begun: a rejection alone publishes nothing,
\* also when another bundle of the instance is published, or recovery resumes the rejection.
RejectionPublishesNothing ==
  \A b \in Bundles :
    (cand[b].status = "REJECTED" /\ \A o \in Ops : Of(o) = b /\ Approves(o) => intent[o] = "NONE")
      => \A a \in Parts(b) : asset[a] = "none"

\* Candidate, approval, batch and notification tell one story: the operation recorded in the
\* approval is the one that decided the candidate, and a published candidate has its batch.
DecisionsAgree ==
  \A b \in Bundles :
    /\ review[b].by # None => cand[b].by = review[b].by
    /\ review[b].status = "APPROVED" => cand[b].status = "PUBLISHED"
    /\ review[b].status = "REJECTED" => cand[b].status = "REJECTED"
    /\ cand[b].status = "PUBLISHED" => batch[b].by = cand[b].by /\ BatchCommitted(b)
    /\ note[b] = "HANDLED" => review[b].status \in {"APPROVED", "REJECTED"}

\* A succeeded instance shows what it delivered: a whole bundle, or every required deck.
SuccessShowsDeliveries ==
  /\ image = "SUCCEEDED" => \E b \in Bundles : VisibleParts(b) = Parts(b)
  /\ ppt = "SUCCEEDED" => Required \subseteq Visible(Manual, ppt)

\* The four together: what the human decided is what the library shows.
ReviewIsHonoured ==
  /\ BundlesAppearWhole
  /\ RejectionPublishesNothing
  /\ DecisionsAgree
  /\ SuccessShowsDeliveries

\* Once the process serves again no decision is left half done, unless a rival decision took
\* the candidate, no transaction is open and no success is untold.
RestartFinishesDecisions ==
  [][mode = "intents" /\ mode' = "up" =>
       /\ \A o \in Ops : intent[o] \in {"NONE", "COMMITTED"} \/ cand[Of(o)].by \notin {o, None}
       /\ \A b \in Bundles : cand[b].by # None => review[b].by = cand[b].by /\ note[b] # "OPEN"
       /\ Unfinished = {} /\ OpenBatches = {}
       /\ (image = "SUCCEEDED" => "image" \in told') /\ (ppt = "SUCCEEDED" => "ppt" \in told')]_vars

\* A finished branch of an active instance comes to a human, and the decks come out.
DeliveriesMoveOn ==
  /\ \A b \in Bundles : (b \in offered /\ image \in {"RUNNING", "WAITING_APPROVAL"})
                           ~> (review[b].status # "NONE" \/ broken # {} \/ image \notin {"RUNNING", "WAITING_APPROVAL"})
  /\ (ppt = "RUNNING") ~> (ppt = "SUCCEEDED" /\ "ppt" \in told)
=============================================================================
