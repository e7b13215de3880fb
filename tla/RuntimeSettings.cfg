SPECIFICATION Spec
CONSTANTS
  a = a
  b = b
  p1 = p1
  p2 = p2
  p3 = p3
  p4 = p4
  None = None
  Rebaser = Rebaser
  Insts = {a, b}
  Props = {p1, p2, p3, p4}
  Target <- MCTarget
  Follows <- MCFollows
  Syncs = {p1}
  Scenes <- MCScenes
  MaxRev = 4
  MaxDefaults = 2
  MaxTrouble = 1
CHECK_DEADLOCK FALSE
INVARIANTS
  TypeOK
  SettingsAgree
PROPERTIES
  
  ChangesSettle
