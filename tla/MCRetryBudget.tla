--------------------------- MODULE MCRetryBudget ---------------------------
(* Two attempts of one retry group, the second retrying the first.  Under   *)
(* the first policy the group is full after one retry; under the second     *)
(* tokens, cost, unknown costs or a frozen ledger decide.                   *)
EXTENDS RetryBudget
CONSTANTS a1, a2, r1, k1, k2, k3

MCRetryOf == [a \in {a1, a2} |-> IF a = a1 THEN r1 ELSE a1]
FullGroup == [retries |-> 1, tokens |-> 4, cost |-> None, reservation |-> 2]
FullPurse == [retries |-> 2, tokens |-> 3, cost |-> 2, reservation |-> None]
Unbounded == [tokens |-> None, cost |-> 0, priced |-> TRUE]
Unpriced == [tokens |-> 1, cost |-> None, priced |-> FALSE]
Long == [tokens |-> 2, cost |-> 0, priced |-> TRUE]
Dear == [tokens |-> 1, cost |-> 2, priced |-> TRUE]

MCPolicies == {FullGroup, FullPurse}
MCEstimates == {Unbounded, Unpriced, Long, Dear}
MCUsages == {[tokens |-> 1, cost |-> 1], [tokens |-> 1, cost |-> None], [tokens |-> 2, cost |-> 0]}

Approval == [a |-> a1, verdict |-> "APPROVED", given |-> {"tokens", "cost"}, tokens |-> 1, cost |-> 1]
Rejection == [a |-> a1, verdict |-> "REJECTED", given |-> {}, tokens |-> None, cost |-> None]
\* A payload {"token_limit": null, "cost_limit_micros": 1}.
NullLimit == [Approval EXCEPT !.tokens = None]
MCDecision == [k \in {k1, k2, k3} |-> CASE k = k1 -> Approval [] k = k2 -> Rejection [] k = k3 -> NullLimit]
=============================================================================
