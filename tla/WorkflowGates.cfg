SPECIFICATION FairSpec
CONSTANTS
  s1 = s1  s2 = s2  s3 = s3  a1 = a1  a2 = a2
  approve1 = approve1  approve2 = approve2  reject = reject
  None = None  First = First  Observer = Observer
  Gates <- MCGates
  Workbench = {1}
  Ops = {approve1, approve2, reject}
  Command <- MCCommand
  MaxCrashes = 1
  MaxExits = 1
INVARIANTS
  TypeOK
  DecisionsHold
PROPERTIES
  RestartCompletesDecisions
  InboxFollowsGates
CHECK_DEADLOCK FALSE
