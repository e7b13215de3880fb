SPECIFICATION FairSpec
CONSTANTS
  a1 = a1  a2 = a2  r1 = r1  k1 = k1  k2 = k2  k3 = k3
  None = None  Recovery = Recovery
  Attempts = {a1, a2}
  Roots = {r1}
  Keys = {k1, k2, k3}
  Requesters = {t1}
  Deciders = {t2}
  RetryOf <- MCRetryOf
  Policies <- MCPolicies
  Estimates <- MCEstimates
  Usages <- MCUsages
  Decision <- MCDecision
  MaxCrashes = 1
  MaxClears = 1
INVARIANTS
  TypeOK
  OverridesAreApproved
PROPERTIES
  LedgerIsSound
  DecisionsArrive
CHECK_DEADLOCK FALSE
