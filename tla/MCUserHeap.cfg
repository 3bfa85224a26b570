SPECIFICATION Spec
CONSTANTS
  t1 = t1
  t2 = t2
  Threads = {t1, t2}
  MajorSize = 1
  MinorSize = 1
  Alignment = 2
  AlignInfo = 1
  PageSize = 8
  PageCount = 2
  Requests = {1, 5}
  BrkLimit = 40
CONSTRAINT OneAtATime
SYMMETRY Symmetry
INVARIANTS
  ListsCoherent
PROPERTIES
  ImplementsBlocks
CHECK_DEADLOCK FALSE
