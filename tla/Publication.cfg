SPECIFICATION FairSpec
CONSTANTS
  b1 = b1  b2 = b2  d1 = d1  d2 = d2
  approve1 = approve1  reject1 = reject1  complete2 = complete2
  None = None  Manual = Manual  Observer = Observer  Collector = Collector
  Bundles = {b1, b2}
  Breakable = {b2}
  Decks <- MCDecks
  Required = {d1, d2}
  Ops = {approve1, reject1, complete2}
  Flaky = {approve1}
  Command <- MCCommand
  MaxCrashes = 1
  MaxExits = 1
  MaxFails = 1
  MaxFaults = 2
INVARIANTS
  TypeOK
  ReviewIsHonoured
PROPERTIES
  RestartFinishesDecisions
  DeliveriesMoveOn
CHECK_DEADLOCK FALSE
