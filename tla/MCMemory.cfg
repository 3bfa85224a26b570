CONSTANTS
  Pids = {2, 3, 4}
  Frames = 11
  PageSize = 2
  PagesPerTable = 2
  UserTop = 8
  Program <- MCProgram
  BrkReserve = 4
  ForkReserve = 2
  MaxThreads = 2
  MaxDepth = 1
SPECIFICATION Spec
INVARIANTS
  FramesOwnedOnce
  BrkMatchesPages
  BrkLeavesReserve
  ReapReturnsPages
