SPECIFICATION FairIOSpec
CONSTANTS
  o1 = o1  o2 = o2  k1 = k1  k2 = k2  t1 = t1  t2 = t2  p1 = p1  p2 = p2
  None = None
  Threads = {t1, t2}
  Objects = {o1, o2}
  Tasks = {k1}
  TaskOf <- OneDirectory
  Payloads = {p1}
  MaxCalls = 4
  MaxCrashes = 2
  MaxIOErrors = 1
INVARIANT
  TypeOK
  CommitsAreKept
  SnapshotIsLatestCommit
PROPERTIES
  ImplementsRegisters
  StoreMovesOn
CHECK_DEADLOCK FALSE
