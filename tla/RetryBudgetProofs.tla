------------------------- MODULE RetryBudgetProofs -------------------------
(***************************************************************************)
(* Proofs about RetryBudget, for any attempts, retry groups, policies,     *)
(* decisions, threads, crashes and cleared notifications.                  *)
(***************************************************************************)
EXTENDS RetryBudget, TLAPS

-----------------------------------------------------------------------------
(* The inductive invariant.                                                *)

Statuses ==
  {"NONE", "PENDING_APPROVAL", "RESERVED", "AUTHORIZED", "CANCELLED", "SETTLED", "EXCEEDED"}
GateNames == {"RETRY_COUNT", "TOKEN_BOUND_UNKNOWN", "TOKEN_LIMIT", "COST_UNKNOWN", "COST_LIMIT",
              "LEDGER_FROZEN"}
Labels == {"idle", "approval", "notify", "prepared", "decided", "handle", "handling"}
Verdicts == {"APPROVED", "REJECTED"}

MaybeNat == Nat \cup {None}
AttemptType ==
  [status : Statuses, root : Roots \cup {None}, tokens : MaybeNat, cost : MaybeNat,
   gates : SUBSET GateNames, consumed : BOOLEAN, pending : Keys \cup {None},
   resolution : Keys \cup {None}, used : [tokens : Nat, cost : MaybeNat]]
NoteType == [status : {"NONE", "UNREAD", "READ", "HANDLED", "CLEARED"}, rev : Nat]
ThreadType == [pc : Labels, a : Attempts \cup {None}, key : Keys \cup {None}, seen : Nat]
PolicyType == [retries : Nat, tokens : Nat, cost : MaybeNat, reservation : MaybeNat]

TypeInv ==
  /\ policy \in PolicyType
  /\ att \in [Attempts -> AttemptType]
  /\ note \in [Attempts -> NoteType]
  /\ th \in [Threads -> ThreadType]
  /\ approval \in [Attempts -> {"NONE", "PENDING"} \cup Verdicts]
  /\ decided \subseteq Keys /\ done \subseteq Keys
  /\ lock \in Threads \cup {None}
  /\ mode \in {"up", "down", "recovering"}

\* Whoever resolves holds the lock of the budget, and a thread holds it only inside a call.
LockInv ==
  /\ \A t \in Threads : th[t].pc \in {"prepared", "decided", "handle", "handling"} => lock = t
  /\ lock # None => th[lock] # Idle
  /\ mode = "down" => \A t \in Threads : th[t] = Idle
  /\ mode = "recovering" => \A t \in Threads \ {Recovery} : th[t] = Idle

\* A call is about an attempt.
CallInv == \A t \in Threads : th[t].pc # "idle" => th[t].a \in Attempts

\* A thread that resolves works on the decision that is pending on its attempt.
ResolverInv ==
  \A t \in Threads :
    /\ th[t].pc \in {"prepared", "decided"} =>
         th[t].key \in Keys /\ th[t].a = Decision[th[t].key].a /\ att[th[t].a].pending = th[t].key
    /\ th[t].pc = "decided" => approval[th[t].a] = Decision[th[t].key].verdict

\* A pending decision is one about its attempt, which waits for it.
PendingInv ==
  \A a \in Attempts :
    att[a].pending # None => Decision[att[a].pending].a = a /\ att[a].status = "PENDING_APPROVAL"

\* The approval shows the decision that was committed.
DecidedInv == \A k \in decided : approval[Decision[k].a] = Decision[k].verdict

\* What was not decided was not consumed.
FreshInv ==
  \A a \in Attempts :
    /\ att[a].status \in {"NONE", "PENDING_APPROVAL"} => ~att[a].consumed
    /\ att[a].status = "NONE" => att[a].gates = {}

ResolutionInv == CallInv /\ ResolverInv /\ PendingInv /\ DecidedInv /\ FreshInv /\ OverridesAreApproved

IInv == TypeInv /\ LockInv /\ ResolutionInv

-----------------------------------------------------------------------------
(* Types.                                                                  *)

\* The gates of a request are named ones.
LEMMA GatesType == ASSUME NEW a, NEW e PROVE Gates(a, e) \in SUBSET GateNames
<1>1. TokenGates(Requested(e)) \in SUBSET GateNames
  BY DEF TokenGates, GateNames
<1>2. CostGates(e) \in SUBSET GateNames
  BY DEF CostGates, GateNames
<1>. QED
  BY <1>1, <1>2 DEF Gates, GateNames

\* An absent amount counts as zero.
LEMMA AmountType == ASSUME NEW x \in MaybeNat PROVE Amount(x) \in Nat
  BY DEF Amount, MaybeNat

\* An idle thread and an unused attempt have their types.
LEMMA IdleTypes ==
  /\ Idle \in ThreadType
  /\ NoNote \in NoteType
  /\ NoAttempt \in AttemptType
  /\ DefaultPolicy \in PolicyType
  BY DEF Idle, ThreadType, Labels, NoNote, NoteType, NoAttempt, AttemptType, MaybeNat, Statuses,
         DefaultPolicy, PolicyType

\* A fresh budget has its types.
LEMMA InitType == Init => TypeInv
  BY IdleTypes DEF Init, TypeInv

\* The root of a retry is the root of its parent.
LEMMA RootType ==
  ASSUME TypeInv, NEW a \in Attempts PROVE Root(a) \in Roots \cup {None}
  BY ConstAssumption DEF TypeInv, AttemptType, Root

\* A request commits a well-typed attempt.
LEMMA RequestType ==
  ASSUME TypeInv, NEW t \in Requesters, NEW a \in Attempts, RequestRetry(t, a)
  PROVE  att' \in [Attempts -> AttemptType] /\ th' \in [Threads -> ThreadType]
<1>. PICK e \in Estimates :
       LET gates == Gates(a, e) IN
       /\ att' = [att EXCEPT ![a] =
                    [NoAttempt EXCEPT !.status = IF gates = {} THEN "RESERVED" ELSE "PENDING_APPROVAL",
                                      !.root = Root(a), !.tokens = Amount(Requested(e)),
                                      !.cost = e.cost, !.gates = gates]]
       /\ \/ th' = th
          \/ th' = [th EXCEPT ![t] = [Idle EXCEPT !.pc = "approval", !.a = a]]
  BY DEF RequestRetry
<1>1. e.cost \in MaybeNat /\ e.tokens \in MaybeNat /\ policy.reservation \in MaybeNat
  BY ConstAssumption DEF MaybeNat, TypeInv, PolicyType
<1>2. Amount(Requested(e)) \in MaybeNat
  BY <1>1, AmountType DEF Requested, MaybeNat
<1>3. [NoAttempt EXCEPT !.status = IF Gates(a, e) = {} THEN "RESERVED" ELSE "PENDING_APPROVAL",
                        !.root = Root(a), !.tokens = Amount(Requested(e)),
                        !.cost = e.cost, !.gates = Gates(a, e)] \in AttemptType
  BY <1>1, <1>2, GatesType, RootType, IdleTypes DEF AttemptType, NoAttempt, Statuses
<1>4. [Idle EXCEPT !.pc = "approval", !.a = a] \in ThreadType
  BY DEF Idle, ThreadType, Labels
<1>. QED
  BY <1>3, <1>4 DEF TypeInv

\* A field of an attempt changes within its type.
LEMMA AttemptFields ==
  ASSUME NEW r \in AttemptType
  PROVE  /\ \A x \in Statuses : [r EXCEPT !.status = x] \in AttemptType
         /\ \A x \in Keys : [r EXCEPT !.pending = x] \in AttemptType
         /\ \A x \in [tokens : Nat, cost : MaybeNat] : [r EXCEPT !.used = x] \in AttemptType
         /\ [r EXCEPT !.consumed = TRUE] \in AttemptType
<1>1. \A x \in Statuses : [r EXCEPT !.status = x] \in AttemptType
  BY DEF AttemptType
<1>2. \A x \in Keys : [r EXCEPT !.pending = x] \in AttemptType
  BY DEF AttemptType
<1>3. \A x \in [tokens : Nat, cost : MaybeNat] : [r EXCEPT !.used = x] \in AttemptType
  BY DEF AttemptType
<1>4. [r EXCEPT !.consumed = TRUE] \in AttemptType
  BY DEF AttemptType
<1>. QED
  BY <1>1, <1>2, <1>3, <1>4

\* A decision that is completed leaves a well-typed attempt.
LEMMA CompletedType ==
  ASSUME TypeInv, NEW a \in Attempts, NEW k \in Keys
  PROVE  Completed(a, k) \in AttemptType
<1>1. /\ Decision[k].tokens \in MaybeNat /\ Decision[k].cost \in MaybeNat
      /\ att[a] \in AttemptType
  BY ConstAssumption DEF MaybeNat, TypeInv
<1>. DEFINE d == Decision[k]
            s == IF d.verdict = "APPROVED" THEN "AUTHORIZED" ELSE "CANCELLED"
            n == IF d.verdict = "APPROVED" /\ "tokens" \in d.given THEN d.tokens ELSE att[a].tokens
            c == IF d.verdict = "APPROVED" /\ "cost" \in d.given THEN d.cost ELSE att[a].cost
<1>2. s \in Statuses
  BY DEF Statuses
<1>3. n \in MaybeNat /\ c \in MaybeNat
  <2>1. att[a].tokens \in MaybeNat /\ att[a].cost \in MaybeNat
    BY <1>1 DEF AttemptType
  <2>. QED
    BY <1>1, <2>1
<1>4. Completed(a, k) = [att[a] EXCEPT !.status = s, !.tokens = n, !.cost = c,
                                       !.pending = None, !.resolution = k]
  BY DEF Completed
<1>. HIDE DEF s, n, c
<1>5. [att[a] EXCEPT !.status = s, !.tokens = n, !.cost = c,
                     !.pending = None, !.resolution = k] \in AttemptType
  BY <1>1, <1>2, <1>3 DEF AttemptType
<1>. QED
  BY <1>4, <1>5

\* A thread that goes on or returns keeps the type of a thread.
LEMMA ThreadSteps ==
  ASSUME TypeInv, NEW t \in Threads
  PROVE  /\ \A label \in Labels : Go(t, label) => th' \in [Threads -> ThreadType]
         /\ Return(t) => th' \in [Threads -> ThreadType] /\ lock' \in Threads \cup {None}
<1>1. ASSUME NEW label \in Labels, Go(t, label) PROVE th' \in [Threads -> ThreadType]
  BY <1>1 DEF TypeInv, Go, ThreadType
<1>2. ASSUME Return(t) PROVE th' \in [Threads -> ThreadType] /\ lock' \in Threads \cup {None}
  BY <1>2, IdleTypes DEF TypeInv, Return
<1>. QED
  BY <1>1, <1>2

\* A thread that begins a resolution is well-typed and holds the lock.
LEMMA BeginType ==
  ASSUME TypeInv, NEW t \in Threads, NEW k \in Keys, NEW label \in Labels, Begin(t, k, label)
  PROVE  th' \in [Threads -> ThreadType] /\ lock' \in Threads \cup {None}
<1>1. [Idle EXCEPT !.pc = label, !.a = Decision[k].a, !.key = k] \in ThreadType
  BY ConstAssumption DEF Idle, ThreadType
<1>. QED
  BY <1>1 DEF Begin, TypeInv

\* Every step keeps the types.
LEMMA NextType == TypeInv /\ CallInv /\ ResolverInv /\ [Next]_vars => TypeInv'
<1>. SUFFICES ASSUME TypeInv, CallInv, ResolverInv, [Next]_vars PROVE TypeInv'
  OBVIOUS
<1>. USE DEF control
<1>1. ASSUME Configure PROVE TypeInv'
  BY <1>1, ConstAssumption DEF Configure, TypeInv, PolicyType, MaybeNat
<1>2. ASSUME NEW t \in Requesters, NEW a \in Attempts, RequestRetry(t, a) PROVE TypeInv'
  BY <1>2, RequestType DEF RequestRetry, TypeInv
<1>3. ASSUME NEW t \in Requesters, NEW a \in Attempts, ReplayDenied(t, a) PROVE TypeInv'
  <2>1. [Idle EXCEPT !.pc = "approval", !.a = a] \in ThreadType
    BY DEF Idle, ThreadType, Labels
  <2>. QED
    BY <1>3, <2>1 DEF ReplayDenied, TypeInv, Threads
<1>4. ASSUME NEW t \in Deciders, NEW k \in Keys, PrepareResolution(t, k) PROVE TypeInv'
  <2>1. th' \in [Threads -> ThreadType] /\ lock' \in Threads \cup {None}
    BY <1>4, BeginType DEF PrepareResolution, Threads, Labels
  <2>2. att' \in [Attempts -> AttemptType]
    <3>1. Decision[k].a \in Attempts
      BY ConstAssumption
    <3>2. [att[Decision[k].a] EXCEPT !.pending = k] \in AttemptType
      BY <3>1, AttemptFields DEF TypeInv
    <3>. QED
      BY <1>4, <3>1, <3>2 DEF PrepareResolution, TypeInv
  <2>. QED
    BY <1>4, <2>1, <2>2 DEF PrepareResolution, TypeInv
<1>5. ASSUME NEW t \in Deciders, NEW k \in Keys, RepeatResolution(t, k) PROVE TypeInv'
  <2>1. th' \in [Threads -> ThreadType] /\ lock' \in Threads \cup {None}
    BY <1>5, BeginType DEF RepeatResolution, Threads, Labels
  <2>. QED
    BY <1>5, <2>1 DEF RepeatResolution, TypeInv
<1>6. ASSUME NEW a \in Attempts, ConsumeOverride(a) PROVE TypeInv'
  <2>1. [att[a] EXCEPT !.status = "RESERVED", !.consumed = TRUE] \in AttemptType
    BY AttemptFields DEF TypeInv, Statuses
  <2>2. att' = [att EXCEPT ![a] = [att[a] EXCEPT !.status = "RESERVED", !.consumed = TRUE]]
    BY <1>6 DEF ConsumeOverride, TypeInv
  <2>. QED
    BY <1>6, <2>1, <2>2 DEF ConsumeOverride, TypeInv
<1>7. ASSUME NEW a \in Attempts, Settle(a) PROVE TypeInv'
  <2>1. PICK u \in Usages :
          att' = [att EXCEPT ![a].status = IF Exceeds(a, u) THEN "EXCEEDED" ELSE "SETTLED",
                             ![a].used = u]
    BY <1>7 DEF Settle
  <2>2. u \in [tokens : Nat, cost : MaybeNat]
    BY ConstAssumption DEF MaybeNat
  <2>3. [att[a] EXCEPT !.status = IF Exceeds(a, u) THEN "EXCEEDED" ELSE "SETTLED", !.used = u]
          \in AttemptType
    BY <2>2, AttemptFields DEF TypeInv, Statuses
  <2>4. att' = [att EXCEPT ![a] = [att[a] EXCEPT
                    !.status = IF Exceeds(a, u) THEN "EXCEEDED" ELSE "SETTLED", !.used = u]]
    BY <2>1 DEF TypeInv
  <2>. QED
    BY <1>7, <2>3, <2>4 DEF Settle, TypeInv
<1>8. ASSUME NEW a \in Attempts, MarkRead(a) PROVE TypeInv'
  BY <1>8 DEF MarkRead, TypeInv, NoteType
<1>9. ASSUME NEW a \in Attempts, ClearRead(a) PROVE TypeInv'
  BY <1>9 DEF ClearRead, TypeInv, NoteType
<1>10. ASSUME NEW t \in Threads, EnsureApproval(t) PROVE TypeInv'
  <2>1. th' \in [Threads -> ThreadType]
    BY <1>10, ThreadSteps DEF EnsureApproval, Labels
  <2>. QED
    BY <1>10, <2>1 DEF EnsureApproval, Ensured, TypeInv
<1>11. ASSUME NEW t \in Threads, EnsureNotification(t) PROVE TypeInv'
  <2>1. th' \in [Threads -> ThreadType] /\ lock' \in Threads \cup {None}
    BY <1>11, ThreadSteps DEF EnsureNotification
  <2>2. note' \in [Attempts -> NoteType]
    <3>. DEFINE n == note[th[t].a]
    <3>1. note' = [note EXCEPT ![th[t].a] = IF n.status \in {"NONE", "CLEARED"}
                                            THEN [status |-> "UNREAD", rev |-> n.rev + 1] ELSE n]
      BY <1>11 DEF EnsureNotification
    <3>2. CASE th[t].a \in Attempts
      BY <3>1, <3>2 DEF TypeInv, NoteType
    <3>3. CASE th[t].a \notin Attempts
      BY <3>1, <3>3 DEF TypeInv
    <3>. QED
      BY <3>2, <3>3
  <2>. QED
    BY <1>11, <2>1, <2>2 DEF EnsureNotification, TypeInv
<1>12. ASSUME NEW t \in Threads, CommitResolution(t) PROVE TypeInv'
  <2>1. th' \in [Threads -> ThreadType]
    BY <1>12, ThreadSteps DEF CommitResolution, Labels
  <2>2. th[t].key \in Keys
    BY <1>12 DEF CommitResolution, Running, ResolverInv
  <2>3. Decision[th[t].key].verdict \in Verdicts
    BY <2>2, ConstAssumption DEF Verdicts
  <2>. QED
    BY <1>12, <2>1, <2>2, <2>3 DEF CommitResolution, TypeInv
<1>13. ASSUME NEW t \in Threads, FinishResolution(t) PROVE TypeInv'
  <2>1. th' \in [Threads -> ThreadType]
    BY <1>13, ThreadSteps DEF FinishResolution, Labels
  <2>2. th[t].key \in Keys /\ th[t].a \in Attempts
    BY <1>13, ConstAssumption DEF FinishResolution, Running, ResolverInv
  <2>3. Completed(th[t].a, th[t].key) \in AttemptType
    BY <2>2, CompletedType
  <2>. QED
    BY <1>13, <2>1, <2>2, <2>3 DEF FinishResolution, TypeInv
<1>14. ASSUME NEW t \in Threads, FindNotification(t) PROVE TypeInv'
  <2>1. CASE Return(t)
    BY <1>14, <2>1, ThreadSteps DEF FindNotification, TypeInv
  <2>2. CASE ~Return(t)
    <3>1. /\ th' = [th EXCEPT ![t].pc = "handling", ![t].seen = note[th[t].a].rev] /\ lock' = lock
          /\ note[th[t].a].status \in {"UNREAD", "READ"}
      BY <1>14, <2>2 DEF FindNotification
    <3>2. th[t].a \in Attempts
      BY <1>14 DEF FindNotification, Running, CallInv
    <3>3. th' = [th EXCEPT ![t] = [th[t] EXCEPT !.pc = "handling", !.seen = note[th[t].a].rev]]
      BY <3>1 DEF TypeInv
    <3>4. note[th[t].a].rev \in Nat
      BY <3>2 DEF TypeInv, NoteType
    <3>5. [th[t] EXCEPT !.pc = "handling", !.seen = note[th[t].a].rev] \in ThreadType
      BY <3>4 DEF TypeInv, ThreadType, Labels
    <3>. QED
      BY <1>14, <3>1, <3>3, <3>5 DEF FindNotification, TypeInv
  <2>. QED
    BY <2>1, <2>2
<1>15. ASSUME NEW t \in Threads, HandleNotification(t) PROVE TypeInv'
  <2>1. th' \in [Threads -> ThreadType] /\ lock' \in Threads \cup {None}
    BY <1>15, ThreadSteps DEF HandleNotification
  <2>2. th[t].a \in Attempts
    BY <1>15 DEF HandleNotification, Running, CallInv
  <2>3. note' \in [Attempts -> NoteType]
    <3>. DEFINE n == note[th[t].a]
    <3>1. \/ note' = [note EXCEPT ![th[t].a] = [status |-> "HANDLED", rev |-> n.rev + 1]]
          \/ note' = note
      BY <1>15 DEF HandleNotification
    <3>. QED
      BY <2>2, <3>1 DEF TypeInv, NoteType
  <2>. QED
    BY <1>15, <2>1, <2>3 DEF HandleNotification, TypeInv
<1>16. ASSUME Crash PROVE TypeInv'
  BY <1>16, IdleTypes DEF Crash, TypeInv
<1>17. ASSUME Start PROVE TypeInv'
  <2>1. note' \in [Attempts -> NoteType]
    BY <1>17 DEF Start, TypeInv, NoteType
  <2>. QED
    BY <1>17, <2>1 DEF Start, TypeInv
<1>18. ASSUME NEW a \in Attempts, RecoverAttempt(a) PROVE TypeInv'
  <2>. DEFINE key == IF att[a].pending # None THEN att[a].pending ELSE att[a].resolution
  <2>1. Recovers(a) \in Labels /\ key \in Keys \cup {None} /\ Recovery \in Threads
    BY DEF Recovers, Labels, TypeInv, AttemptType, Threads
  <2>2. [pc |-> Recovers(a), a |-> a, key |-> key, seen |-> 0] \in ThreadType
    BY <2>1 DEF ThreadType
  <2>. QED
    BY <1>18, <2>1, <2>2 DEF RecoverAttempt, TypeInv
<1>19. ASSUME Recovered PROVE TypeInv'
  BY <1>19 DEF Recovered, TypeInv
<1>20. ASSUME UNCHANGED vars PROVE TypeInv'
  BY <1>20 DEF vars, TypeInv
<1>. QED
  BY <1>1, <1>2, <1>3, <1>4, <1>5, <1>6, <1>7, <1>8, <1>9, <1>10, <1>11, <1>12, <1>13, <1>14,
     <1>15, <1>16, <1>17, <1>18, <1>19, <1>20 DEF Next, Step, Startup

-----------------------------------------------------------------------------
(* The lock of the budget.                                                 *)

\* Every step keeps the discipline of the lock.
LEMMA NextLock == TypeInv /\ LockInv /\ [Next]_vars => LockInv'
<1>. SUFFICES ASSUME TypeInv, LockInv, [Next]_vars PROVE LockInv'
  OBVIOUS
<1>. USE ConstAssumption DEF control, Threads, Idle
<1>0. th \in [Threads -> ThreadType] /\ lock \in Threads \cup {None}
  BY DEF TypeInv
<1>1. ASSUME Configure PROVE LockInv'
  BY <1>1 DEF Configure, LockInv
<1>2. ASSUME NEW t \in Requesters, NEW a \in Attempts, RequestRetry(t, a) PROVE LockInv'
  <2>1. \/ th' = th
        \/ th' = [th EXCEPT ![t] = [Idle EXCEPT !.pc = "approval", !.a = a]]
    BY <1>2 DEF RequestRetry
  <2>2. mode = "up" /\ mode' = mode /\ lock = None /\ lock' = lock /\ t \in Threads
    BY <1>2 DEF RequestRetry, Serving
  <2>3. th' = [th EXCEPT ![t] = [Idle EXCEPT !.pc = "approval", !.a = a]] => th'[t].pc = "approval"
    BY <1>0, <2>2
  <2>4. \A s \in Threads \ {t} : th'[s] = th[s]
    BY <1>0, <2>1
  <2>. QED
    BY <2>1, <2>2, <2>3, <2>4 DEF LockInv
<1>3. ASSUME NEW t \in Requesters, NEW a \in Attempts, ReplayDenied(t, a) PROVE LockInv'
  BY <1>0, <1>3 DEF ReplayDenied, Serving, LockInv
<1>4. ASSUME NEW t \in Deciders, NEW k \in Keys, PrepareResolution(t, k) PROVE LockInv'
  <2>1. /\ mode = "up" /\ mode' = mode /\ lock = None /\ t \in Threads
        /\ Begin(t, k, "prepared")
    BY <1>4 DEF PrepareResolution, Serving
  <2>2. lock' = t /\ th'[t].pc = "prepared" /\ \A s \in Threads \ {t} : th'[s] = th[s]
    BY <1>0, <2>1 DEF Begin
  <2>. QED
    BY <2>1, <2>2 DEF LockInv
<1>5. ASSUME NEW t \in Deciders, NEW k \in Keys, RepeatResolution(t, k) PROVE LockInv'
  <2>1. /\ mode = "up" /\ mode' = mode /\ lock = None /\ t \in Threads
        /\ Begin(t, k, "handle") \/ Begin(t, k, "prepared")
    BY <1>5 DEF RepeatResolution, Serving
  <2>2. /\ lock' = t /\ th'[t].pc \in {"handle", "prepared"}
        /\ \A s \in Threads \ {t} : th'[s] = th[s]
    <3>1. CASE Begin(t, k, "handle")
      BY <1>0, <2>1, <3>1 DEF Begin
    <3>2. CASE Begin(t, k, "prepared")
      BY <1>0, <2>1, <3>2 DEF Begin
    <3>. QED
      BY <2>1, <3>1, <3>2
  <2>. QED
    BY <2>1, <2>2 DEF LockInv
<1>6. ASSUME NEW a \in Attempts, ConsumeOverride(a) \/ Settle(a) \/ MarkRead(a) \/ ClearRead(a)
      PROVE LockInv'
  BY <1>6 DEF ConsumeOverride, Settle, MarkRead, ClearRead, LockInv
<1>7. ASSUME NEW t \in Threads, EnsureApproval(t) PROVE LockInv'
  BY <1>0, <1>7 DEF EnsureApproval, Running, Go, ThreadType, LockInv
<1>8. ASSUME NEW t \in Threads, EnsureNotification(t) PROVE LockInv'
  BY <1>0, <1>8 DEF EnsureNotification, Running, Return, LockInv
<1>9. ASSUME NEW t \in Threads, CommitResolution(t) PROVE LockInv'
  BY <1>0, <1>9 DEF CommitResolution, Running, Go, ThreadType, LockInv
<1>10. ASSUME NEW t \in Threads, FinishResolution(t) PROVE LockInv'
  BY <1>0, <1>10 DEF FinishResolution, Running, Go, ThreadType, LockInv
<1>11. ASSUME NEW t \in Threads, FindNotification(t) PROVE LockInv'
  <2>1. CASE Return(t)
    BY <1>0, <1>11, <2>1 DEF FindNotification, Running, Return, LockInv
  <2>2. CASE ~Return(t)
    BY <1>0, <1>11, <2>2 DEF FindNotification, Running, ThreadType, LockInv
  <2>. QED
    BY <2>1, <2>2
<1>12. ASSUME NEW t \in Threads, HandleNotification(t) PROVE LockInv'
  BY <1>0, <1>12 DEF HandleNotification, Running, Return, LockInv
<1>13. ASSUME Crash PROVE LockInv'
  BY <1>13 DEF Crash, LockInv
<1>14. ASSUME Start PROVE LockInv'
  BY <1>14 DEF Start, LockInv
<1>15. ASSUME NEW a \in Attempts, RecoverAttempt(a) PROVE LockInv'
  BY <1>0, <1>15 DEF RecoverAttempt, Recovers, LockInv
<1>16. ASSUME Recovered PROVE LockInv'
  BY <1>16 DEF Recovered, LockInv
<1>17. ASSUME UNCHANGED vars PROVE LockInv'
  BY <1>17 DEF vars, LockInv
<1>. QED
  BY <1>1, <1>2, <1>3, <1>4, <1>5, <1>6, <1>7, <1>8, <1>9, <1>10, <1>11, <1>12, <1>13, <1>14,
     <1>15, <1>16, <1>17 DEF Next, Step, Startup

-----------------------------------------------------------------------------
(* Decisions.                                                              *)

\* No decision is known of a fresh budget.
LEMMA InitResolution == Init => LockInv /\ ResolutionInv
  BY ConstAssumption
     DEF Init, LockInv, ResolutionInv, CallInv, ResolverInv, PendingInv, DecidedInv, FreshInv,
         OverridesAreApproved, Idle, NoAttempt

\* A step that leaves attempts and approvals alone and begins no resolution keeps what is
\* known of the decisions.
LEMMA QuietStep ==
  ASSUME ResolutionInv, UNCHANGED <<att, approval, decided>>,
         \A t \in Threads : \/ th'[t] = th[t]
                            \/ /\ th'[t].pc \notin {"prepared", "decided"}
                               /\ th'[t].pc # "idle" => th'[t].a \in Attempts
  PROVE  ResolutionInv'
<1>1. CallInv'
  BY DEF ResolutionInv, CallInv
<1>2. ResolverInv'
  BY DEF ResolutionInv, ResolverInv
<1>. QED
  BY <1>1, <1>2 DEF ResolutionInv, PendingInv, DecidedInv, FreshInv, OverridesAreApproved

\* A step of a thread that returns or begins to answer is quiet.
LEMMA QuietThread ==
  ASSUME TypeInv, ResolutionInv, UNCHANGED <<att, approval, decided>>, NEW t \in Threads,
         \A s \in Threads \ {t} : th'[s] = th[s],
         th'[t].pc \notin {"prepared", "decided"}, th'[t].pc # "idle" => th'[t].a \in Attempts
  PROVE  ResolutionInv'
  BY QuietStep

\* A thread that takes up the decision pending on an attempt works on that decision.
LEMMA TakenUp ==
  ASSUME ResolutionInv, UNCHANGED <<att, approval, decided>>, NEW t \in Threads,
         \A s \in Threads \ {t} : th'[s] = th[s],
         th'[t].pc = "prepared", th'[t].a \in Attempts, th'[t].key \in Keys,
         th'[t].a = Decision[th'[t].key].a, att[th'[t].a].pending = th'[t].key
  PROVE  ResolutionInv'
<1>1. CallInv'
  BY DEF ResolutionInv, CallInv
<1>2. ResolverInv'
  BY DEF ResolutionInv, ResolverInv
<1>. QED
  BY <1>1, <1>2 DEF ResolutionInv, PendingInv, DecidedInv, FreshInv, OverridesAreApproved

\* An attempt without a pending decision changes and gets none: whoever resolves is not
\* disturbed.
LEMMA AttemptStep ==
  ASSUME ResolutionInv, UNCHANGED <<approval, decided>>, NEW a \in Attempts,
         \A b \in Attempts \ {a} : att'[b] = att[b],
         att[a].pending = None, att'[a].pending = None,
         \A t \in Threads : \/ th'[t] = th[t]
                            \/ /\ th'[t].pc \notin {"prepared", "decided"}
                               /\ th'[t].pc # "idle" => th'[t].a \in Attempts,
         att'[a].status \in {"NONE", "PENDING_APPROVAL"} => ~att'[a].consumed,
         att'[a].status = "NONE" => att'[a].gates = {},
         att'[a].status = "AUTHORIZED" \/ att'[a].consumed => approval[a] = "APPROVED",
         att'[a].status = "CANCELLED" => approval[a] = "REJECTED",
         att'[a].gates # {} /\ att'[a].status \in {"RESERVED", "SETTLED", "EXCEEDED"} => att'[a].consumed
  PROVE  ResolutionInv'
<1>1. CallInv'
  BY DEF ResolutionInv, CallInv
<1>2. ResolverInv'
  <2>. SUFFICES ASSUME NEW t \in Threads, th'[t].pc \in {"prepared", "decided"}
                PROVE  /\ /\ th'[t].key \in Keys /\ th'[t].a = Decision[th'[t].key].a
                          /\ att'[th'[t].a].pending = th'[t].key
                       /\ th'[t].pc = "decided" => approval'[th'[t].a] = Decision[th'[t].key].verdict
    BY DEF ResolverInv
  <2>1. /\ th'[t] = th[t]
        /\ th[t].key \in Keys /\ th[t].a = Decision[th[t].key].a
        /\ att[th[t].a].pending = th[t].key
        /\ th[t].pc = "decided" => approval[th[t].a] = Decision[th[t].key].verdict
    BY DEF ResolutionInv, ResolverInv
  <2>2. th[t].a \in Attempts /\ th[t].a # a
    BY <2>1, ConstAssumption
  <2>. QED
    BY <2>1, <2>2
<1>3. PendingInv'
  BY DEF ResolutionInv, PendingInv
<1>4. DecidedInv'
  BY DEF ResolutionInv, DecidedInv
<1>5. FreshInv'
  BY DEF ResolutionInv, FreshInv
<1>6. OverridesAreApproved'
  <2>. SUFFICES ASSUME NEW b \in Attempts
                PROVE  /\ att'[b].status = "AUTHORIZED" \/ att'[b].consumed => approval'[b] = "APPROVED"
                       /\ att'[b].status = "CANCELLED" => approval'[b] = "REJECTED"
                       /\ att'[b].gates # {} /\ att'[b].status \in {"RESERVED", "SETTLED", "EXCEEDED"}
                            => att'[b].consumed
    BY DEF OverridesAreApproved
  <2>1. CASE b = a
    BY <2>1
  <2>2. CASE b # a
    BY <2>2 DEF ResolutionInv, OverridesAreApproved
  <2>. QED
    BY <2>1, <2>2
<1>. QED
  BY <1>1, <1>2, <1>3, <1>4, <1>5, <1>6 DEF ResolutionInv

\* An approval that is created, or is there already, changes no decision.
LEMMA EnsureStep ==
  ASSUME TypeInv, ResolutionInv, NEW t \in Threads, EnsureApproval(t)
  PROVE  ResolutionInv'
<1>. DEFINE a == th[t].a
<1>1. /\ th[t].pc = "approval" /\ a \in Attempts
      /\ approval' = [approval EXCEPT ![a] = IF approval[a] = "NONE" THEN "PENDING" ELSE approval[a]]
      /\ th' = [th EXCEPT ![t].pc = "notify"]
      /\ att' = att /\ decided' = decided
  BY DEF EnsureApproval, Ensured, Running, Go, ResolutionInv, CallInv
<1>2. /\ th'[t].pc = "notify" /\ th'[t].a = a
      /\ \A s \in Threads \ {t} : th'[s] = th[s]
  BY <1>1 DEF TypeInv, ThreadType
<1>3. \A b \in Attempts : approval[b] # "NONE" => approval'[b] = approval[b]
  BY <1>1 DEF TypeInv
<1>4. \A k \in Keys : Decision[k].a \in Attempts /\ Decision[k].verdict # "NONE"
  BY ConstAssumption
<1>5. CallInv'
  BY <1>1, <1>2 DEF ResolutionInv, CallInv
<1>6. ResolverInv'
  <2>. SUFFICES ASSUME NEW s \in Threads, th'[s].pc \in {"prepared", "decided"}
                PROVE  /\ /\ th'[s].key \in Keys /\ th'[s].a = Decision[th'[s].key].a
                          /\ att'[th'[s].a].pending = th'[s].key
                       /\ th'[s].pc = "decided" => approval'[th'[s].a] = Decision[th'[s].key].verdict
    BY DEF ResolverInv
  <2>1. th'[s] = th[s]
    BY <1>2
  <2>. QED
    BY <1>1, <1>3, <1>4, <2>1 DEF ResolutionInv, ResolverInv
<1>7. DecidedInv'
  BY <1>1, <1>3, <1>4 DEF ResolutionInv, DecidedInv, TypeInv
<1>8. OverridesAreApproved'
  BY <1>1, <1>3 DEF ResolutionInv, OverridesAreApproved
<1>9. PendingInv' /\ FreshInv'
  BY <1>1 DEF ResolutionInv, PendingInv, FreshInv
<1>. QED
  BY <1>5, <1>6, <1>7, <1>8, <1>9 DEF ResolutionInv

\* The committed decision is the one that was prepared, and no other is committed on its
\* approval.
LEMMA CommitStep ==
  ASSUME TypeInv, LockInv, ResolutionInv, NEW t \in Threads, CommitResolution(t)
  PROVE  ResolutionInv'
<1>. DEFINE a == th[t].a
            k == th[t].key
<1>1. /\ th[t].pc = "prepared" /\ k \in Keys /\ a = Decision[k].a /\ a \in Attempts
      /\ att' = att
      /\ th' = [th EXCEPT ![t].pc = "decided"]
  BY ConstAssumption DEF CommitResolution, Running, Go, ResolutionInv, ResolverInv
<1>2. /\ th'[t].pc = "decided" /\ th'[t].a = a /\ th'[t].key = k
      /\ \A s \in Threads \ {t} : th'[s] = th[s] /\ th[s].pc \notin {"prepared", "decided"}
  BY <1>1 DEF TypeInv, ThreadType, LockInv
<1>3. /\ approval'[a] = Decision[k].verdict
      /\ \A b \in Attempts : approval[b] # "PENDING" => approval'[b] = approval[b]
      /\ decided' \subseteq decided \cup {k}
  <2>1. CASE k \in decided /\ UNCHANGED <<approval, decided>>
    BY <1>1, <2>1 DEF ResolutionInv, DecidedInv
  <2>2. CASE /\ k \notin decided /\ approval[a] = "PENDING"
             /\ approval' = [approval EXCEPT ![a] = Decision[k].verdict]
             /\ decided' = decided \cup {k}
    BY <1>1, <2>2 DEF TypeInv
  <2>. QED
    BY <2>1, <2>2 DEF CommitResolution
<1>4. \A j \in Keys : Decision[j].a \in Attempts /\ Decision[j].verdict # "PENDING"
  BY ConstAssumption
<1>5. CallInv'
  BY <1>1, <1>2 DEF ResolutionInv, CallInv
<1>6. ResolverInv'
  BY <1>1, <1>2, <1>3 DEF ResolutionInv, ResolverInv
<1>7. DecidedInv'
  BY <1>1, <1>3, <1>4 DEF ResolutionInv, DecidedInv, TypeInv
<1>8. OverridesAreApproved'
  BY <1>1, <1>3 DEF ResolutionInv, OverridesAreApproved
<1>9. PendingInv' /\ FreshInv'
  BY <1>1 DEF ResolutionInv, PendingInv, FreshInv
<1>. QED
  BY <1>5, <1>6, <1>7, <1>8, <1>9 DEF ResolutionInv

\* The attempt gets what its approval shows.
LEMMA FinishStep ==
  ASSUME TypeInv, LockInv, ResolutionInv, NEW t \in Threads, FinishResolution(t)
  PROVE  ResolutionInv'
<1>. DEFINE a == th[t].a
            k == th[t].key
<1>1. /\ th[t].pc = "decided" /\ k \in Keys /\ a = Decision[k].a /\ a \in Attempts
      /\ approval[a] = Decision[k].verdict /\ att[a].pending = k
      /\ att' = [att EXCEPT ![a] = Completed(a, k)]
      /\ approval' = approval /\ decided' = decided
      /\ th' = [th EXCEPT ![t].pc = "handle"]
  BY ConstAssumption DEF FinishResolution, Running, Go, ResolutionInv, ResolverInv
<1>2. /\ th'[t].pc = "handle" /\ th'[t].a = a
      /\ \A s \in Threads \ {t} : th'[s] = th[s] /\ th[s].pc \notin {"prepared", "decided"}
  BY <1>1 DEF TypeInv, ThreadType, LockInv
<1>3. att[a].status = "PENDING_APPROVAL" /\ ~att[a].consumed
  BY <1>1, ConstAssumption DEF ResolutionInv, PendingInv, FreshInv
<1>4. /\ Completed(a, k).status = IF Decision[k].verdict = "APPROVED" THEN "AUTHORIZED" ELSE "CANCELLED"
      /\ Completed(a, k).pending = None
      /\ Completed(a, k).consumed = att[a].consumed
      /\ Completed(a, k).gates = att[a].gates
  <2>1. att[a] \in AttemptType
    BY <1>1 DEF TypeInv
  <2>. QED
    BY <2>1 DEF Completed, AttemptType
<1>5. att'[a] = Completed(a, k) /\ \A b \in Attempts \ {a} : att'[b] = att[b]
  BY <1>1 DEF TypeInv
<1>6. Decision[k].verdict \in {"APPROVED", "REJECTED"}
  BY <1>1, ConstAssumption
<1>7. CallInv'
  BY <1>1, <1>2 DEF ResolutionInv, CallInv
<1>8. ResolverInv'
  BY <1>2 DEF ResolverInv
<1>9. PendingInv'
  BY <1>4, <1>5 DEF ResolutionInv, PendingInv
<1>10. DecidedInv'
  BY <1>1 DEF ResolutionInv, DecidedInv
<1>11. FreshInv'
  BY <1>3, <1>4, <1>5 DEF ResolutionInv, FreshInv
<1>12. OverridesAreApproved'
  <2>. SUFFICES ASSUME NEW b \in Attempts
                PROVE  /\ att'[b].status = "AUTHORIZED" \/ att'[b].consumed => approval'[b] = "APPROVED"
                       /\ att'[b].status = "CANCELLED" => approval'[b] = "REJECTED"
                       /\ att'[b].gates # {} /\ att'[b].status \in {"RESERVED", "SETTLED", "EXCEEDED"}
                            => att'[b].consumed
    BY DEF OverridesAreApproved
  <2>1. CASE b = a
    BY <1>1, <1>3, <1>4, <1>5, <1>6, <2>1
  <2>2. CASE b # a
    BY <1>1, <1>5, <2>2 DEF ResolutionInv, OverridesAreApproved
  <2>. QED
    BY <2>1, <2>2
<1>. QED
  BY <1>7, <1>8, <1>9, <1>10, <1>11, <1>12 DEF ResolutionInv

\* A decision is prepared on an attempt that waits, under the lock.
LEMMA PrepareStep ==
  ASSUME TypeInv, LockInv, ResolutionInv, NEW t \in Deciders, NEW k \in Keys, PrepareResolution(t, k)
  PROVE  ResolutionInv'
<1>. DEFINE a == Decision[k].a
<1>1. /\ t \in Threads /\ a \in Attempts /\ k # None
      /\ lock = None /\ approval' = approval /\ decided' = decided
      /\ att[a].pending = None /\ att[a].status = "PENDING_APPROVAL"
      /\ att' = [att EXCEPT ![a].pending = k]
      /\ th' = [th EXCEPT ![t] = [Idle EXCEPT !.pc = "prepared", !.a = Decision[k].a, !.key = k]]
  BY ConstAssumption DEF PrepareResolution, Begin, Threads
<1>2. \A s \in Threads : th[s].pc \notin {"prepared", "decided"}
  BY <1>1, ConstAssumption DEF LockInv, Threads
<1>3. /\ th'[t].pc = "prepared" /\ th'[t].a = a /\ th'[t].key = k
      /\ \A s \in Threads \ {t} : th'[s] = th[s]
  BY <1>1 DEF TypeInv, Idle
<1>4. /\ att'[a].pending = k /\ att'[a].status = att[a].status
      /\ att'[a].consumed = att[a].consumed /\ att'[a].gates = att[a].gates
      /\ \A b \in Attempts \ {a} : att'[b] = att[b]
  <2>1. att[a] \in AttemptType
    BY <1>1 DEF TypeInv
  <2>. QED
    BY <1>1, <2>1 DEF TypeInv, AttemptType
<1>5. CallInv'
  BY <1>1, <1>3 DEF ResolutionInv, CallInv
<1>6. ResolverInv'
  BY <1>1, <1>2, <1>3, <1>4 DEF ResolverInv
<1>7. PendingInv'
  BY <1>1, <1>4 DEF ResolutionInv, PendingInv
<1>8. DecidedInv' /\ FreshInv'
  BY <1>1, <1>4 DEF ResolutionInv, DecidedInv, FreshInv
<1>9. OverridesAreApproved'
  BY <1>1, <1>4 DEF ResolutionInv, OverridesAreApproved
<1>. QED
  BY <1>5, <1>6, <1>7, <1>8, <1>9 DEF ResolutionInv

\* recover() takes up the decision that was pending at the crash.
LEMMA RecoverStep ==
  ASSUME TypeInv, ResolutionInv, NEW a \in Attempts, RecoverAttempt(a)
  PROVE  ResolutionInv'
<1>. DEFINE key == IF att[a].pending # None THEN att[a].pending ELSE att[a].resolution
<1>1. UNCHANGED <<att, approval, decided>> /\ Recovery \in Threads
  BY DEF RecoverAttempt, Threads
<1>2. CASE th' = th
  BY <1>1, <1>2, QuietStep
<1>3. CASE th' = [th EXCEPT ![Recovery] = [pc |-> Recovers(a), a |-> a, key |-> key, seen |-> 0]]
  <2>1. /\ th'[Recovery].pc = Recovers(a) /\ th'[Recovery].a = a /\ th'[Recovery].key = key
        /\ \A s \in Threads \ {Recovery} : th'[s] = th[s]
    BY <1>1, <1>3 DEF TypeInv
  <2>2. CASE att[a].pending # None
    <3>1. Recovers(a) = "prepared" /\ key = att[a].pending /\ key \in Keys
      BY <2>2 DEF Recovers, TypeInv, AttemptType
    <3>2. Decision[key].a = a
      BY <2>2, <3>1 DEF ResolutionInv, PendingInv
    <3>. QED
      BY <1>1, <2>1, <3>1, <3>2, TakenUp
  <2>3. CASE att[a].pending = None
    <3>1. Recovers(a) \notin {"prepared", "decided"}
      BY <2>3 DEF Recovers
    <3>. QED
      BY <1>1, <2>1, <3>1, QuietThread
  <2>. QED
    BY <2>2, <2>3
<1>. QED
  BY <1>2, <1>3 DEF RecoverAttempt

\* Every step keeps what is known of the decisions.
LEMMA NextResolution == TypeInv /\ LockInv /\ ResolutionInv /\ [Next]_vars => ResolutionInv'
<1>. SUFFICES ASSUME TypeInv, LockInv, ResolutionInv, [Next]_vars PROVE ResolutionInv'
  OBVIOUS
<1>. USE DEF control
<1>0. th \in [Threads -> ThreadType] /\ Idle.pc = "idle"
  BY DEF TypeInv, Idle
<1>1. ASSUME Configure PROVE ResolutionInv'
  BY <1>1, QuietStep DEF Configure
<1>2. ASSUME NEW t \in Requesters, NEW a \in Attempts, RequestRetry(t, a) PROVE ResolutionInv'
  <2>1. PICK e \in Estimates :
          LET gates == Gates(a, e) IN
          /\ att' = [att EXCEPT ![a] =
                       [NoAttempt EXCEPT !.status = IF gates = {} THEN "RESERVED" ELSE "PENDING_APPROVAL",
                                         !.root = Root(a), !.tokens = Amount(Requested(e)),
                                         !.cost = e.cost, !.gates = gates]]
          /\ \/ th' = th
             \/ th' = [th EXCEPT ![t] = [Idle EXCEPT !.pc = "approval", !.a = a]]
    BY <1>2 DEF RequestRetry
  <2>2. /\ att'[a].status = IF Gates(a, e) = {} THEN "RESERVED" ELSE "PENDING_APPROVAL"
        /\ att'[a].gates = Gates(a, e) /\ att'[a].pending = None /\ ~att'[a].consumed
        /\ \A b \in Attempts \ {a} : att'[b] = att[b]
    BY <2>1 DEF TypeInv, NoAttempt
  <2>3. att[a].status = "NONE" /\ UNCHANGED <<approval, decided>>
    BY <1>2 DEF RequestRetry
  <2>4. att[a].pending = None
    BY <2>3 DEF ResolutionInv, PendingInv
  <2>5. \A s \in Threads : \/ th'[s] = th[s]
                           \/ th'[s].pc = "approval" /\ th'[s].a = a
    BY <1>0, <2>1 DEF Idle
  <2>. QED
    BY <2>2, <2>3, <2>4, <2>5, AttemptStep
<1>3. ASSUME NEW t \in Requesters, NEW a \in Attempts, ReplayDenied(t, a) PROVE ResolutionInv'
  <2>1. /\ UNCHANGED <<att, approval, decided>> /\ t \in Threads
        /\ th' = [th EXCEPT ![t] = [Idle EXCEPT !.pc = "approval", !.a = a]]
    BY <1>3 DEF ReplayDenied, Threads
  <2>2. th'[t].pc = "approval" /\ th'[t].a = a /\ \A s \in Threads \ {t} : th'[s] = th[s]
    BY <1>0, <2>1 DEF Idle
  <2>. QED
    BY <2>1, <2>2, QuietThread
<1>4. ASSUME NEW t \in Deciders, NEW k \in Keys, PrepareResolution(t, k) PROVE ResolutionInv'
  BY <1>4, PrepareStep
<1>5. ASSUME NEW t \in Deciders, NEW k \in Keys, RepeatResolution(t, k) PROVE ResolutionInv'
  <2>1. UNCHANGED <<att, approval, decided>> /\ t \in Threads /\ Decision[k].a \in Attempts
    BY <1>5, ConstAssumption DEF RepeatResolution, Threads
  <2>2. CASE Begin(t, k, "handle")
    <3>1. /\ th'[t].pc = "handle" /\ th'[t].a = Decision[k].a
          /\ \A s \in Threads \ {t} : th'[s] = th[s]
      BY <1>0, <2>1, <2>2 DEF Begin, Idle
    <3>. QED
      BY <2>1, <3>1, QuietThread
  <2>3. CASE att[Decision[k].a].pending = k /\ Begin(t, k, "prepared")
    <3>1. /\ th'[t].pc = "prepared" /\ th'[t].a = Decision[k].a /\ th'[t].key = k
          /\ \A s \in Threads \ {t} : th'[s] = th[s]
      BY <1>0, <2>1, <2>3 DEF Begin, Idle
    <3>. QED
      BY <2>1, <2>3, <3>1, TakenUp
  <2>. QED
    BY <1>5, <2>2, <2>3 DEF RepeatResolution
<1>6. ASSUME NEW a \in Attempts, ConsumeOverride(a) PROVE ResolutionInv'
  <2>1. /\ att[a].status = "AUTHORIZED" /\ UNCHANGED <<approval, decided, th>>
        /\ att' = [att EXCEPT ![a].status = "RESERVED", ![a].consumed = TRUE]
    BY <1>6 DEF ConsumeOverride, Consumable
  <2>2. att[a] \in AttemptType
    BY DEF TypeInv
  <2>3. /\ att'[a].status = "RESERVED" /\ att'[a].consumed /\ att'[a].pending = att[a].pending
        /\ \A b \in Attempts \ {a} : att'[b] = att[b]
    BY <2>1, <2>2 DEF TypeInv, AttemptType
  <2>4. att[a].pending = None /\ approval[a] = "APPROVED"
    BY <2>1 DEF ResolutionInv, PendingInv, OverridesAreApproved
  <2>. QED
    BY <2>1, <2>3, <2>4, AttemptStep
<1>7. ASSUME NEW a \in Attempts, Settle(a) PROVE ResolutionInv'
  <2>1. PICK u \in Usages :
          att' = [att EXCEPT ![a].status = IF Exceeds(a, u) THEN "EXCEEDED" ELSE "SETTLED",
                             ![a].used = u]
    BY <1>7 DEF Settle
  <2>2. att[a] \in AttemptType
    BY DEF TypeInv
  <2>3. /\ att'[a].status \in {"EXCEEDED", "SETTLED"} /\ att'[a].consumed = att[a].consumed
        /\ att'[a].pending = att[a].pending /\ att'[a].gates = att[a].gates
        /\ \A b \in Attempts \ {a} : att'[b] = att[b]
    BY <2>1, <2>2 DEF TypeInv, AttemptType
  <2>4. att[a].status = "RESERVED" /\ UNCHANGED <<approval, decided, th>>
    BY <1>7 DEF Settle
  <2>5. /\ att[a].pending = None
        /\ att[a].consumed => approval[a] = "APPROVED"
        /\ att[a].gates # {} => att[a].consumed
    BY <2>4 DEF ResolutionInv, PendingInv, OverridesAreApproved
  <2>. QED
    BY <2>3, <2>4, <2>5, AttemptStep
<1>8. ASSUME NEW a \in Attempts, MarkRead(a) \/ ClearRead(a) PROVE ResolutionInv'
  BY <1>8, QuietStep DEF MarkRead, ClearRead
<1>9. ASSUME NEW t \in Threads, EnsureApproval(t) PROVE ResolutionInv'
  BY <1>9, EnsureStep
<1>10. ASSUME NEW t \in Threads, EnsureNotification(t) \/ HandleNotification(t) PROVE ResolutionInv'
  <2>1. UNCHANGED <<att, approval, decided>> /\ th' = [th EXCEPT ![t] = Idle]
    BY <1>10 DEF EnsureNotification, HandleNotification, Return
  <2>. QED
    BY <1>0, <2>1, QuietThread
<1>11. ASSUME NEW t \in Threads, CommitResolution(t) PROVE ResolutionInv'
  BY <1>11, CommitStep
<1>12. ASSUME NEW t \in Threads, FinishResolution(t) PROVE ResolutionInv'
  BY <1>12, FinishStep
<1>13. ASSUME NEW t \in Threads, FindNotification(t) PROVE ResolutionInv'
  <2>1. /\ UNCHANGED <<att, approval, decided>> /\ th[t].pc = "handle" /\ th[t].a \in Attempts
        /\ \/ th' = [th EXCEPT ![t] = Idle]
           \/ th' = [th EXCEPT ![t].pc = "handling", ![t].seen = note[th[t].a].rev]
    BY <1>13 DEF FindNotification, Running, Return, ResolutionInv, CallInv
  <2>2. /\ th'[t].pc \in {"idle", "handling"}
        /\ th'[t].pc = "handling" => th'[t].a = th[t].a
        /\ \A s \in Threads \ {t} : th'[s] = th[s]
    BY <1>0, <2>1 DEF ThreadType
  <2>. QED
    BY <2>1, <2>2, QuietThread
<1>14. ASSUME Crash PROVE ResolutionInv'
  BY <1>0, <1>14, QuietStep DEF Crash
<1>15. ASSUME Start PROVE ResolutionInv'
  BY <1>15, QuietStep DEF Start
<1>16. ASSUME NEW a \in Attempts, RecoverAttempt(a) PROVE ResolutionInv'
  BY <1>16, RecoverStep
<1>17. ASSUME Recovered PROVE ResolutionInv'
  BY <1>17, QuietStep DEF Recovered
<1>18. ASSUME UNCHANGED vars PROVE ResolutionInv'
  BY <1>18, QuietStep DEF vars
<1>. QED
  BY <1>1, <1>2, <1>3, <1>4, <1>5, <1>6, <1>7, <1>8, <1>9, <1>10, <1>11, <1>12, <1>13, <1>14,
     <1>15, <1>16, <1>17, <1>18 DEF Next, Step, Startup

-----------------------------------------------------------------------------
(* The theorems.                                                           *)

\* The inductive invariant holds in every state.
LEMMA Invariance == Spec => []IInv
<1>1. Init => IInv
  BY InitType, InitResolution DEF IInv
<1>2. IInv /\ [Next]_vars => IInv'
  BY NextType, NextLock, NextResolution DEF IInv, ResolutionInv
<1>. QED
  BY <1>1, <1>2, PTL DEF Spec

\* The snapshot, the approvals, the inbox and the threads of retry_budget.py and approvals.py
\* keep their types, whatever a crash interrupts.
THEOREM TypeCorrect == Spec => []TypeOK
<1>1. IInv => TypeOK
  BY DEF IInv, TypeInv, TypeOK, AttemptType, Statuses, NoteType, Verdicts, Open
<1>. QED
  BY <1>1, Invariance, PTL

\* resolve_approval, consume_override and recover(): an override that is authorized or
\* consumed has an approved approval, a cancelled attempt a rejected one, and no denied attempt
\* runs without a consumed override; rival decisions and crashes between the files included.
THEOREM OverridesAreApprovedAlways == Spec => []OverridesAreApproved
<1>1. IInv => OverridesAreApproved
  BY DEF IInv, ResolutionInv
<1>. QED
  BY <1>1, Invariance, PTL

\* The lock of the budget: at most one thread is between the files of a decision.
THEOREM ResolutionsExclude ==
  Spec => [](\A s, t \in Threads :
               /\ th[s].pc \in {"prepared", "decided", "handle", "handling"}
               /\ th[t].pc \in {"prepared", "decided", "handle", "handling"}
               => s = t)
<1>1. IInv => \A s, t \in Threads :
                /\ th[s].pc \in {"prepared", "decided", "handle", "handling"}
                /\ th[t].pc \in {"prepared", "decided", "handle", "handling"}
                => s = t
  BY DEF IInv, LockInv
<1>. QED
  BY <1>1, Invariance, PTL
=============================================================================
