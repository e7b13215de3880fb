SPECIFICATION FairSpec
CONSTANTS
  i1 = i1  batch = batch  again = again
  None = None
  Instances = {i1}
  Ops = {batch, again}
  Order <- BatchFirst
  Kind <- OneKind
  Targets <- OneTargets
  MaxAttempts = 2
  MaxTroubles = 1
INVARIANTS
  TypeOK
  LaunchesAreOwned
CHECK_DEADLOCK FALSE
PROPERTIES
  RestartKeepsAgents
  OperationsEnd
