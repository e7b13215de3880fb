--------------------------- MODULE MCSnapshotStore ---------------------------
(***************************************************************************)
(* Small instances of SnapshotStore for TLC.                               *)
(***************************************************************************)
EXTENDS SnapshotStore, FiniteSets, TLC

CONSTANTS o1, o2, k1, k2, t1, t2, p1, p2

OneDirectory == (o1 :> k1) @@ (o2 :> k1)
=============================================================================
