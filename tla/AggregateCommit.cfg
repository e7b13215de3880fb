SPECIFICATION MCFailureSpec
CONSTANTS
  i1 = i1  i2 = i2  k1 = k1  k2 = k2  k3 = k3  k4 = k4  t1 = t1  t2 = t2  f1 = f1
  None = None
  Threads = {t1, t2}
  Keys = {k1, k2, k3, k4}
  Instances = {i1, i2}
  Requests <- PlanRequests
  Facts = {f1}
  MaxCalls = 4
  MaxCrashes = 1
  MaxFailures = 1
SYMMETRY Symmetry
INVARIANTS
  TypeOK
  CommandsCommitOnce
  RepliesAreCommitted
  PlanIsAuthority
PROPERTY RestartRepairsProjections
