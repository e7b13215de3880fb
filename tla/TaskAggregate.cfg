SPECIFICATION Spec
CONSTANTS
  img1 = img1  img2 = img2  img3 = img3  ppt1 = ppt1  ppt2 = ppt2
  Drafts <- RequiredDrafts
  Extensions <- LateDrafts
  MaxCommands = 3
  MaxQueued = 1
  MaxCard = 2
SYMMETRY Symmetry
INVARIANTS
  TypeOK
  ChildrenDecide
  EndedTasksAreDone
  GatesAgree
PROPERTIES
  WorkIsKept
CHECK_DEADLOCK FALSE
