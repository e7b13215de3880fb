------------------------ MODULE MCRuntimeSettings ------------------------
(* Two instances: changes with sync targets, copies for peers and rebases. *)
EXTENDS RuntimeSettings, TLC

CONSTANTS a, b, p1, p2, p3, p4

MCTarget == p1 :> a @@ p2 :> b @@ p3 :> a @@ p4 :> a
MCFollows == p1 :> None @@ p2 :> None @@ p3 :> p2 @@ p4 :> None

Scene(asked, fresh, startable, n, s, c, f) ==
  [asked |-> asked, fresh |-> fresh, startable |-> startable, runs |-> startable, defaults |-> n, withdrawn |-> {},
   steps |-> s, crashes |-> c, faults |-> f]

Synced == Scene({p1}, {}, {b}, 1, 0, 1, 1)
Source == Scene({p1}, {}, {a}, 1, 0, 1, 1)
Competing == [Scene({p1, p2}, {}, {a}, 1, 0, 0, 1) EXCEPT !.runs = {}]
Copied == Scene({p2, p3}, {}, {a}, 1, 1, 1, 1)
Rebased == Scene({p4}, {b}, {b}, 2, 0, 1, 0)
Outdated == Scene({p1}, {}, {}, 2, 0, 0, 1)

Twice == [Scene({p1, p4}, {}, {a}, 1, 0, 0, 1) EXCEPT !.runs = {}]
Withdrawn == [Scene({p4}, {}, {a}, 2, 0, 1, 0) EXCEPT !.withdrawn = {2}]
Unsynced == [Scene({p1}, {}, {}, 2, 0, 1, 0) EXCEPT !.withdrawn = {2}]

MCScenes == {Withdrawn, Unsynced, Synced, Source, Competing, Twice, Copied, Rebased, Outdated}
Lost == {Scene({p4}, {}, {a}, 1, 0, 0, 1)}
==========================================================================
