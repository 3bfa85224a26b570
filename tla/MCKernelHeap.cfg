SPECIFICATION Spec
CONSTANTS
  MajorSize = 1
  MinorSize = 1
  Alignment = 2
  AlignInfo = 1
  PageSize = 8
  PageCount = 2
  Requests = {1, 3, 13}
  Frames = 4
  KernelEnd = 8
INVARIANTS
  HeapSound
PROPERTIES
  GrowsOnlyWhenFull
CHECK_DEADLOCK FALSE
