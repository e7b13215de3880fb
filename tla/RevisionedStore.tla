--------------------------- MODULE RevisionedStore ---------------------------
(***************************************************************************)
(* What the file repository promises to the services above it: every       *)
(* object is a register of numbered versions.  A commit is atomic, gives   *)
(* the object its next revision and is never undone; readers see it when it*)
(* is published, and no other commit or removal of the object comes in     *)
(* between.  A removal hides the object from readers and keeps its         *)
(* numbering; a restart publishes the last commit of every object again,   *)
(* the removed ones included.                                              *)
(***************************************************************************)
EXTENDS Integers

CONSTANTS Objects, Payloads, None

VARIABLES
  committed,   \* [Objects -> Version]: the last commit of an object
  visible,     \* [Objects -> Version]: what get, revision and list return
  pending      \* objects whose last commit is still to be published

regs == <<committed, visible, pending>>

Missing == [rev |-> 0, payload |-> None]

Init ==
  /\ committed = [o \in Objects |-> Missing]
  /\ visible = [o \in Objects |-> Missing]
  /\ pending = {}

Commit(o, p) ==
  /\ o \notin pending
  /\ visible[o] \in {committed[o], Missing}
  /\ committed' = [committed EXCEPT ![o] = [rev |-> @.rev + 1, payload |-> p]]
  /\ pending' = pending \cup {o}
  /\ visible' = visible

Publish(o) ==
  /\ o \in pending
  /\ visible' = [visible EXCEPT ![o] = committed[o]]
  /\ pending' = pending \ {o}
  /\ committed' = committed

Remove(o) ==
  /\ o \notin pending
  /\ visible[o] = committed[o]
  /\ visible' = [visible EXCEPT ![o] = Missing]
  /\ UNCHANGED <<committed, pending>>

Restart ==
  /\ pending' = {o \in Objects : committed[o] # Missing}
  /\ UNCHANGED <<committed, visible>>

Next ==
  \/ \E o \in Objects : Publish(o) \/ Remove(o) \/ \E p \in Payloads : Commit(o, p)
  \/ Restart

Spec == Init /\ [][Next]_regs
=============================================================================
