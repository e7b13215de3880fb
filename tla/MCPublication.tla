--------------------------- MODULE MCPublication ---------------------------
(* Two bundles and two decks; the first bundle is approved or rejected     *)
(* directly, the second one with the completion command.                   *)
EXTENDS Publication
CONSTANTS b1, b2, d1, d2, approve1, reject1, complete2

MCDecks == <<d1, d2>>
MCCommand ==
  [o \in {approve1, reject1, complete2} |->
     [bundle |-> IF o = complete2 THEN b2 ELSE b1,
      verdict |-> IF o = reject1 THEN "REJECTED" ELSE "APPROVED",
      completes |-> o = complete2]]
=============================================================================
