---------------------------- MODULE RetryBudget ----------------------------
(***************************************************************************)
(* The automatic-retry budget of a task and the human overrides of it:     *)
(* services/retry_budget.py and retry_lineage.py on top of the approvals   *)
(* and the inbox of services/approvals.py.                                 *)
(*                                                                         *)
(* Three files are involved and no transaction spans them: the budget      *)
(* snapshot (policy, attempts, ledger), one approval per denied attempt    *)
(* and one notification per approval.  Each put is a step; whatever runs   *)
(* under the lock of the budget holds `lock` between its puts.  The        *)
(* control process may die between any two and recover() then completes    *)
(* what the files say was begun.                                           *)
(*                                                                         *)
(* Commands that only return a stored result, or that are refused, change  *)
(* nothing and are left out.  The limit of 200 of list_inbox is above the  *)
(* number of notifications modelled.                                       *)
(***************************************************************************)
EXTENDS Integers, FiniteSetsExt

CONSTANTS
  Attempts,     \* attempt ids a retry may be requested under
  Roots,        \* registered model-call attempts, the roots of retry groups
  RetryOf,      \* [Attempts -> Attempts \cup Roots]: retry_of_attempt_id
  Policies,     \* policies the operator may configure
  Estimates,    \* what a request may carry: [tokens, cost, priced]
  Usages,       \* what a settlement may report: [tokens, cost]
  Keys,         \* idempotency keys of the operator's decisions
  Decision,     \* [Keys -> [a, verdict, given, tokens, cost]]: a field that is given may be null
  Requesters,   \* threads that serve retry requests
  Deciders,     \* threads that serve the operator's decisions
  Recovery,     \* the thread that runs recover() at startup
  None,
  MaxCrashes,   \* bound on crashes of the control process
  MaxClears     \* bound on notifications cleared from the inbox

\* The fields of the payload of a decision.
Limits == {"tokens", "cost"}

ASSUME ConstAssumption ==
  /\ RetryOf \in [Attempts -> Attempts \cup Roots]
  /\ Attempts \cap Roots = {}
  /\ Policies \subseteq [retries : Nat, tokens : Nat, cost : Nat \cup {None}, reservation : Nat \cup {None}]
  /\ Estimates \subseteq [tokens : Nat \cup {None}, cost : Nat \cup {None}, priced : BOOLEAN]
  /\ Usages \subseteq [tokens : Nat, cost : Nat \cup {None}]
  /\ Decision \in [Keys -> [a : Attempts, verdict : {"APPROVED", "REJECTED"}, given : SUBSET Limits,
                            tokens : Nat \cup {None}, cost : Nat \cup {None}]]
  /\ Recovery \notin Requesters \cup Deciders
  /\ None \notin Keys \cup Requesters \cup Deciders \cup {Recovery}
  /\ MaxCrashes \in Nat /\ MaxClears \in Nat

VARIABLES
  policy,     \* retry_policy: [retries, tokens, cost, reservation]
  att,        \* the attempts of the snapshot
  ledger,     \* retry_budget_ledger
  approval,   \* status of the approval of an attempt
  note,       \* its notification: [status, rev]
  decided,    \* keys with a committed resolve_approval
  done,       \* keys with a committed resolve_budget_approval
  lock,       \* the holder of retry-budget-<task>.lock
  th,         \* threads: [pc, a, key, seen]
  mode,       \* "up", "down" or "recovering"
  todo,       \* attempts recover() has not looked at
  crashes, clears

control == <<mode, todo, crashes>>
vars == <<policy, att, ledger, approval, note, decided, done, lock, th, control, clears>>

Threads == Requesters \cup Deciders \cup {Recovery}
Idle == [pc |-> "idle", a |-> None, key |-> None, seen |-> 0]
NoNote == [status |-> "NONE", rev |-> 0]
NoAttempt ==
  [status |-> "NONE", root |-> None, tokens |-> 0, cost |-> None, gates |-> {}, consumed |-> FALSE,
   pending |-> None, resolution |-> None, used |-> [tokens |-> 0, cost |-> None]]
DefaultPolicy == [retries |-> 0, tokens |-> 0, cost |-> None, reservation |-> None]
EmptyLedger ==
  [reserved |-> 0, settled |-> 0, costReserved |-> 0, costSettled |-> 0, unknown |-> 0, frozen |-> FALSE]

Amount(x) == IF x = None THEN 0 ELSE x
NonNegative(n) == IF n < 0 THEN 0 ELSE n
Go(t, label) == th' = [th EXCEPT ![t].pc = label]
Return(t) ==
  /\ th' = [th EXCEPT ![t] = Idle]
  /\ lock' = IF lock = t THEN None ELSE lock
Serving(t) == mode = "up" /\ th[t] = Idle
Running(t, label) == mode # "down" /\ th[t].pc = label

-----------------------------------------------------------------------------
(* configure, request_retry, consume_override and settle: one put each.    *)

Configure ==
  /\ mode = "up" /\ lock = None
  /\ \E p \in Policies \ {policy} : policy' = p
  /\ UNCHANGED <<att, ledger, approval, note, decided, done, lock, th, control, clears>>

\* retry_lineage: the parent is a registered root or an attempt that knows its root.
Known(a) == RetryOf[a] \in Roots \cup {b \in Attempts : att[b].status # "NONE"}
RootIsParent(a) == RetryOf[a]
Root(a) == IF RetryOf[a] \in Roots THEN RetryOf[a] ELSE att[RetryOf[a]].root

GroupNow(root) == {a \in Attempts : att[a].root = root /\ att[a].status = "RESERVED"}
Group(root) == {a \in Attempts : att[a].root = root /\ att[a].status \in {"RESERVED", "SETTLED", "EXCEEDED"}}

Requested(e) == IF policy.reservation # None THEN policy.reservation ELSE e.tokens

TokenGatesOnSettled(tokens) ==
  CASE tokens = None -> {"TOKEN_BOUND_UNKNOWN"}
    [] tokens # None /\ ledger.settled + Amount(tokens) > policy.tokens -> {"TOKEN_LIMIT"}
    [] OTHER -> {}
TokenGates(tokens) ==
  CASE tokens = None -> {"TOKEN_BOUND_UNKNOWN"}
    [] tokens # None /\ ledger.settled + ledger.reserved + Amount(tokens) > policy.tokens -> {"TOKEN_LIMIT"}
    [] OTHER -> {}
CostGates(e) ==
  CASE policy.cost = None -> {}
    [] policy.cost # None /\ (e.cost = None \/ ~e.priced \/ ledger.costSettled = None) -> {"COST_UNKNOWN"}
    [] OTHER -> IF ledger.costSettled + ledger.costReserved + e.cost > policy.cost
                THEN {"COST_LIMIT"} ELSE {}
Gates(a, e) ==
  (IF Cardinality(Group(Root(a))) + 1 > policy.retries THEN {"RETRY_COUNT"} ELSE {})
  \cup TokenGates(Requested(e))
  \cup CostGates(e)
  \cup (IF ledger.frozen THEN {"LEDGER_FROZEN"} ELSE {})

Reserve(tokens, cost) ==
  ledger' = [ledger EXCEPT !.reserved = @ + Amount(tokens), !.costReserved = @ + Amount(cost)]

\* The denied attempt is committed under the lock; its approval is created after the lock.
RequestRetry(t, a) ==
  /\ Serving(t) /\ lock = None
  /\ att[a].status = "NONE"
  /\ Known(a)
  /\ \E e \in Estimates :
       LET gates == Gates(a, e) IN
       /\ policy.reservation = None \/ e.tokens \in {None, policy.reservation}
       /\ att' = [att EXCEPT ![a] =
                    [NoAttempt EXCEPT !.status = IF gates = {} THEN "RESERVED" ELSE "PENDING_APPROVAL",
                                      !.root = Root(a), !.tokens = Amount(Requested(e)),
                                      !.cost = e.cost, !.gates = gates]]
       /\ IF gates = {}
          THEN Reserve(Requested(e), e.cost) /\ th' = th
          ELSE ledger' = ledger /\ th' = [th EXCEPT ![t] = [Idle EXCEPT !.pc = "approval", !.a = a]]
  /\ UNCHANGED <<policy, approval, note, decided, done, lock, control, clears>>

\* A repeated request finds its denial and ensures the approval, under the lock.
ReplayDenied(t, a) ==
  /\ Serving(t) /\ lock = None
  /\ att[a].gates # {}
  /\ lock' = t
  /\ th' = [th EXCEPT ![t] = [Idle EXCEPT !.pc = "approval", !.a = a]]
  /\ UNCHANGED <<policy, att, ledger, approval, note, decided, done, control, clears>>

\* The reservation of an approval with a null Token limit is no number: consuming it raises.
Consumable(a) == att[a].status = "AUTHORIZED" /\ att[a].tokens # None
ConsumeOverride(a) ==
  /\ mode = "up" /\ lock = None
  /\ Consumable(a)
  /\ att' = [att EXCEPT ![a].status = "RESERVED", ![a].consumed = TRUE]
  /\ Reserve(att[a].tokens, att[a].cost)
  /\ UNCHANGED <<policy, approval, note, decided, done, lock, th, control, clears>>

Exceeds(a, u) ==
  \/ u.tokens > att[a].tokens
  \/ att[a].cost # None /\ u.cost # None /\ Amount(u.cost) > Amount(att[a].cost)

Settled(a, u) ==
  [reserved |-> NonNegative(ledger.reserved - att[a].tokens),
   settled |-> ledger.settled + u.tokens,
   costReserved |-> NonNegative(ledger.costReserved - Amount(att[a].cost)),
   costSettled |-> CASE u.cost = None -> None
                     [] u.cost # None /\ ledger.unknown = 0 -> Amount(ledger.costSettled) + u.cost
                     [] OTHER -> ledger.costSettled,
   unknown |-> ledger.unknown + (IF u.cost = None THEN 1 ELSE 0),
   frozen |-> ledger.frozen \/ Exceeds(a, u)]
Settle(a) ==
  /\ mode = "up" /\ lock = None
  /\ att[a].status = "RESERVED"
  /\ \E u \in Usages :
       /\ ledger' = Settled(a, u)
       /\ att' = [att EXCEPT ![a].status = IF Exceeds(a, u) THEN "EXCEEDED" ELSE "SETTLED", ![a].used = u]
  /\ UNCHANGED <<policy, approval, note, decided, done, lock, th, control, clears>>

-----------------------------------------------------------------------------
(* ensure_budget_approval and ensure_notification.                         *)

EnsuredAnew(status) == "PENDING"
Ensured(status) == IF status = "NONE" THEN "PENDING" ELSE status
EnsureApproval(t) ==
  LET a == th[t].a IN
  /\ Running(t, "approval")
  /\ approval' = [approval EXCEPT ![a] = Ensured(@)]
  /\ Go(t, "notify")
  /\ UNCHANGED <<policy, att, ledger, note, decided, done, lock, control, clears>>

\* A notification that was cleared is created again; its revision goes on.
EnsureNotification(t) ==
  LET a == th[t].a IN
  /\ Running(t, "notify")
  /\ note' = [note EXCEPT ![a] = IF @.status \in {"NONE", "CLEARED"}
                                 THEN [status |-> "UNREAD", rev |-> @.rev + 1] ELSE @]
  /\ Return(t)
  /\ UNCHANGED <<policy, att, ledger, approval, decided, done, control, clears>>

\* mark_instance_notifications_read and clear_read_notifications.
MarkRead(a) ==
  /\ mode = "up"
  /\ note[a].status = "UNREAD"
  /\ note' = [note EXCEPT ![a] = [status |-> "READ", rev |-> @.rev + 1]]
  /\ UNCHANGED <<policy, att, ledger, approval, decided, done, lock, th, control, clears>>

ClearRead(a) ==
  /\ mode = "up"
  /\ note[a].status = "READ"
  /\ clears < MaxClears
  /\ clears' = clears + 1
  /\ note' = [note EXCEPT ![a].status = "CLEARED"]
  /\ UNCHANGED <<policy, att, ledger, approval, decided, done, lock, th, control>>

-----------------------------------------------------------------------------
(* resolve_approval: prepared in the budget, committed in the approval,    *)
(* completed in the budget, handled in the inbox.                          *)

\* A limit that the gates could not establish has to be given by the operator; null will do.
Explicit(k) ==
  LET d == Decision[k] IN
  d.verdict = "APPROVED" =>
    /\ "TOKEN_BOUND_UNKNOWN" \in att[d.a].gates => "tokens" \in d.given
    /\ "COST_UNKNOWN" \in att[d.a].gates => "cost" \in d.given

Begin(t, k, label) ==
  /\ lock' = t
  /\ th' = [th EXCEPT ![t] = [Idle EXCEPT !.pc = label, !.a = Decision[k].a, !.key = k]]

PrepareResolution(t, k) ==
  LET a == Decision[k].a IN
  /\ Serving(t) /\ lock = None
  /\ approval[a] = "PENDING"
  /\ k \notin done
  /\ att[a].pending = None
  /\ att[a].status = "PENDING_APPROVAL"
  /\ Explicit(k)
  /\ att' = [att EXCEPT ![a].pending = k]
  /\ Begin(t, k, "prepared")
  /\ UNCHANGED <<policy, ledger, approval, note, decided, done, control, clears>>

\* The operator repeats a decision that was prepared or completed.
RepeatResolution(t, k) ==
  /\ Serving(t) /\ lock = None
  /\ \/ k \in done /\ Begin(t, k, "handle")
     \/ k \notin done /\ att[Decision[k].a].pending = k /\ Begin(t, k, "prepared")
  /\ UNCHANGED <<policy, att, ledger, approval, note, decided, done, control, clears>>

CommitResolution(t) ==
  LET a == th[t].a  k == th[t].key IN
  /\ Running(t, "prepared")
  /\ \/ k \in decided /\ UNCHANGED <<approval, decided>>
     \/ /\ k \notin decided /\ approval[a] = "PENDING"
        /\ approval' = [approval EXCEPT ![a] = Decision[k].verdict]
        /\ decided' = decided \cup {k}
  /\ Go(t, "decided")
  /\ UNCHANGED <<policy, att, ledger, note, done, lock, control, clears>>

Completed(a, k) ==
  LET d == Decision[k]  approved == d.verdict = "APPROVED" IN
  [att[a] EXCEPT !.status = IF approved THEN "AUTHORIZED" ELSE "CANCELLED",
                 !.tokens = IF approved /\ "tokens" \in d.given THEN d.tokens ELSE @,
                 !.cost = IF approved /\ "cost" \in d.given THEN d.cost ELSE @,
                 !.pending = None, !.resolution = k]

FinishResolution(t) ==
  /\ Running(t, "decided")
  /\ att' = [att EXCEPT ![th[t].a] = Completed(th[t].a, th[t].key)]
  /\ done' = done \cup {th[t].key}
  /\ Go(t, "handle")
  /\ UNCHANGED <<policy, ledger, approval, note, decided, lock, control, clears>>

\* handle_approval_notification lists the inbox, then updates the item it saw.
FindNotification(t) ==
  LET n == note[th[t].a] IN
  /\ Running(t, "handle")
  /\ IF n.status \in {"UNREAD", "READ"}
     THEN th' = [th EXCEPT ![t].pc = "handling", ![t].seen = n.rev] /\ lock' = lock
     ELSE Return(t)
  /\ UNCHANGED <<policy, att, ledger, approval, note, decided, done, control, clears>>

\* A revision conflict raises; the decision stands and the notification stays open.
HandleNotification(t) ==
  LET a == th[t].a IN
  /\ Running(t, "handling")
  /\ note' = IF note[a].rev = th[t].seen /\ note[a].status \in {"UNREAD", "READ"}
             THEN [note EXCEPT ![a] = [status |-> "HANDLED", rev |-> @.rev + 1]]
             ELSE note
  /\ Return(t)
  /\ UNCHANGED <<policy, att, ledger, approval, decided, done, control, clears>>

-----------------------------------------------------------------------------
(* Crash, start of the store and recover().                                *)

Crash ==
  /\ mode # "down"
  /\ crashes < MaxCrashes
  /\ crashes' = crashes + 1
  /\ mode' = "down"
  /\ todo' = {}
  /\ th' = [t \in Threads |-> Idle]
  /\ lock' = None
  /\ UNCHANGED <<policy, att, ledger, approval, note, decided, done, clears>>

\* The store replays its journal, and a removed notification returns as it last was.
Start ==
  /\ mode = "down"
  /\ mode' = "recovering"
  /\ todo' = {a \in Attempts : att[a].status # "NONE"}
  /\ note' = [a \in Attempts |-> IF note[a].status = "CLEARED" THEN [note[a] EXCEPT !.status = "READ"]
                                 ELSE note[a]]
  /\ UNCHANGED <<policy, att, ledger, approval, decided, done, lock, th, crashes, clears>>

RecoversPending(a) ==
  CASE att[a].pending # None -> "prepared"
    [] att[a].pending = None /\ att[a].status = "PENDING_APPROVAL" -> "approval"
    [] OTHER -> "idle"
Recovers(a) ==
  CASE att[a].pending # None -> "prepared"
    [] att[a].pending = None /\ att[a].status = "PENDING_APPROVAL" -> "approval"
    [] att[a].pending = None /\ att[a].status # "PENDING_APPROVAL" /\ att[a].resolution # None -> "handle"
    [] OTHER -> "idle"
RecoverAttempt(a) ==
  LET key == IF att[a].pending # None THEN att[a].pending ELSE att[a].resolution IN
  /\ mode = "recovering"
  /\ th[Recovery] = Idle
  /\ a \in todo
  /\ todo' = todo \ {a}
  /\ IF Recovers(a) = "idle" THEN UNCHANGED <<th, lock>>
     ELSE /\ th' = [th EXCEPT ![Recovery] = [pc |-> Recovers(a), a |-> a, key |-> key, seen |-> 0]]
          /\ lock' = Recovery
  /\ UNCHANGED <<policy, att, ledger, approval, note, decided, done, mode, crashes, clears>>

Recovered ==
  /\ mode = "recovering"
  /\ th[Recovery] = Idle
  /\ todo = {}
  /\ mode' = "up"
  /\ UNCHANGED <<policy, att, ledger, approval, note, decided, done, lock, th, todo, crashes, clears>>

-----------------------------------------------------------------------------
Init ==
  /\ policy = DefaultPolicy
  /\ att = [a \in Attempts |-> NoAttempt]
  /\ ledger = EmptyLedger
  /\ approval = [a \in Attempts |-> "NONE"]
  /\ note = [a \in Attempts |-> NoNote]
  /\ decided = {} /\ done = {}
  /\ lock = None
  /\ th = [t \in Threads |-> Idle]
  /\ mode = "up" /\ todo = {}
  /\ crashes = 0 /\ clears = 0

Step(t) ==
  \/ EnsureApproval(t) \/ EnsureNotification(t)
  \/ CommitResolution(t) \/ FinishResolution(t)
  \/ FindNotification(t) \/ HandleNotification(t)

Startup == Start \/ (\E a \in Attempts : RecoverAttempt(a)) \/ Recovered

Next ==
  \/ Configure
  \/ \E t \in Requesters, a \in Attempts : RequestRetry(t, a) \/ ReplayDenied(t, a)
  \/ \E t \in Deciders, k \in Keys : PrepareResolution(t, k) \/ RepeatResolution(t, k)
  \/ \E a \in Attempts : ConsumeOverride(a) \/ Settle(a) \/ MarkRead(a) \/ ClearRead(a)
  \/ \E t \in Threads : Step(t)
  \/ Crash
  \/ Startup

Spec == Init /\ [][Next]_vars

\* A thread inside a call goes on, and the service manager starts the process again.
FairSpec == Spec /\ (\A t \in Threads : WF_vars(Step(t))) /\ WF_vars(Startup)

-----------------------------------------------------------------------------
(* Properties.                                                             *)

Open == {"APPROVED", "REJECTED"}

\* The types of the snapshot, of the other files and of the threads.
TypeOK ==
  /\ \A a \in Attempts :
       /\ att[a].status \in {"NONE", "PENDING_APPROVAL", "RESERVED", "AUTHORIZED", "CANCELLED",
                             "SETTLED", "EXCEEDED"}
       /\ att[a].root \in Roots \cup {None}
       /\ att[a].pending \in Keys \cup {None} /\ att[a].resolution \in Keys \cup {None}
       /\ note[a].status \in {"NONE", "UNREAD", "READ", "HANDLED", "CLEARED"} /\ note[a].rev \in Nat
  /\ approval \in [Attempts -> {"NONE", "PENDING"} \cup Open]
  /\ decided \subseteq Keys /\ done \subseteq Keys
  /\ lock \in Threads \cup {None}
  /\ mode \in {"up", "down", "recovering"}

Holding(s) == {a \in Attempts : att[a].status \in s}
TokensOf(s) == MapThenSumSet(LAMBDA a : Amount(att[a].tokens), s)
CostOf(s) == MapThenSumSet(LAMBDA a : Amount(att[a].cost), s)
UsedBy(s) == MapThenSumSet(LAMBDA a : att[a].used.tokens, s)
PaidBy(s) == MapThenSumSet(LAMBDA a : Amount(att[a].used.cost), s)

Ended == Holding({"SETTLED", "EXCEEDED"})

\* The ledger of retry_budget.py is the sum over its attempts, whatever overrides,
\* settlements and replays went before: what is reserved is what the open attempts hold.
LedgerAddsUp ==
  /\ ledger.reserved = TokensOf(Holding({"RESERVED"}))
  /\ ledger.settled = UsedBy(Ended)
  /\ ledger.costReserved = CostOf(Holding({"RESERVED"}))
  /\ ledger.costSettled = IF \E a \in Ended : att[a].used.cost = None THEN None ELSE PaidBy(Ended)
  /\ ledger.frozen <=> Holding({"EXCEEDED"}) # {}

\* Budget and approval never disagree on a decision: an authorized or consumed override
\* has an approval that a human approved, a cancelled one was rejected.
OverridesAreApproved ==
  \A a \in Attempts :
    /\ att[a].status = "AUTHORIZED" \/ att[a].consumed => approval[a] = "APPROVED"
    /\ att[a].status = "CANCELLED" => approval[a] = "REJECTED"
    /\ att[a].gates # {} /\ att[a].status \in {"RESERVED", "SETTLED", "EXCEEDED"} => att[a].consumed

\* A retry granted without a human fits into the policy of the moment, counted over the
\* attempts themselves: group size, tokens and cost held and used.  Nothing was exceeded
\* before, the retry has a bound, and under a cost limit no cost is unknown.
GrantsFitThePolicy ==
  [][\A a \in Attempts :
       att[a].status = "NONE" /\ att'[a].status = "RESERVED" =>
         /\ Holding({"EXCEEDED"}) = {}
         /\ att'[a].tokens > 0
         /\ TokensOf(Holding({"RESERVED"})) + UsedBy(Holding({"SETTLED"})) + att'[a].tokens <= policy.tokens
         /\ policy.cost # None =>
              /\ None \notin {att'[a].cost} \cup {att[b].used.cost : b \in Ended}
              /\ CostOf(Holding({"RESERVED"})) + PaidBy(Holding({"SETTLED"})) + Amount(att'[a].cost) <= policy.cost
         /\ Cardinality({b \in Attempts : /\ att[b].root = att'[a].root
                                          /\ att[b].status \in {"RESERVED", "SETTLED", "EXCEEDED"}})
              < policy.retries]_vars

\* The ledger is right, and what it lets through fits.
LedgerIsSound == []LedgerAddsUp /\ GrantsFitThePolicy

\* recover(): once the process serves requests again, every decided approval has its
\* attempt moved on and its notification handled.
RestartFinishesDecisions ==
  [][mode = "recovering" /\ mode' = "up" =>
       \A a \in Attempts :
         /\ att[a].pending = None
         /\ approval[a] \in Open => /\ att[a].status # "PENDING_APPROVAL"
                                    /\ note[a].status \in {"NONE", "HANDLED"}
         /\ att[a].status = "PENDING_APPROVAL" => approval[a] = "PENDING" /\ note[a].status # "NONE"]_vars

\* A denial comes to the operator's notice, unless it is decided before that, and a
\* committed decision comes to its attempt.
DenialsReachTheOperator ==
  \A a \in Attempts :
    /\ att[a].status = "PENDING_APPROVAL" ~> approval[a] \in Open \/ (approval[a] # "NONE" /\ note[a].status # "NONE")
    /\ approval[a] \in Open ~> att[a].status # "PENDING_APPROVAL"

\* No decision and no denial is lost, neither at a restart nor by the waiting of a thread.
DecisionsArrive == RestartFinishesDecisions /\ DenialsReachTheOperator
=============================================================================
