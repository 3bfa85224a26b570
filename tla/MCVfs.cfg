SPECIFICATION Spec
CONSTANTS
  Volumes <- MCVolumes
  Slots = 6
  ClusterSize = 2
  EndMark = 268435448
  LongParts = 2
  Word = 16
  Procs = {p, q}
  Paths <- MCPaths
  Lengths = {1, 3}
  MaxOpens = 2
INVARIANTS
  TypeOK PathLeadsBack OpenCounts ReadReturnsFile
PROPERTIES
  TreeIsVolume LookupExact DescriptorsStable MountEnds
CHECK_DEADLOCK FALSE
