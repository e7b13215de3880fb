--------------------------- MODULE MCTaskAggregate ---------------------------
(***************************************************************************)
(* Small plans for TaskAggregate.                                          *)
(***************************************************************************)
EXTENDS TaskAggregate, TLC

CONSTANTS img1, img2, img3, ppt1, ppt2

StageDraft(type, deps, required) == [type |-> type, deps |-> deps, required |-> required]
Required(stage) == [stage |-> stage, required |-> TRUE]

\* Two images of one stage.
TwoImages ==
  [stages |-> <<StageDraft("image", {}, TRUE)>>,
   members |-> (img1 :> Required(1)) @@ (img2 :> Required(1))]
\* An image that feeds a PPT.
ImageToPpt ==
  [stages |-> <<StageDraft("image", {}, TRUE), StageDraft("ppt", {1}, TRUE)>>,
   members |-> (img3 :> Required(1)) @@ (ppt1 :> Required(2))]
\* A topology validate_plan refuses.
PptFirst ==
  [stages |-> <<StageDraft("ppt", {}, TRUE), StageDraft("image", {1}, TRUE)>>,
   members |-> (img3 :> Required(2)) @@ (ppt1 :> Required(1))]
\* A PPT behind the landed image.
LatePpt ==
  [stages |-> <<StageDraft("ppt", {1}, TRUE)>>, members |-> ppt2 :> Required(1)]

RequiredDrafts == {TwoImages, ImageToPpt, PptFirst}
LateDrafts == {LatePpt}

Symmetry == Permutations({img1, img2})
=============================================================================
