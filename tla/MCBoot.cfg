SPECIFICATION BootSpec
CONSTANTS
  Machines <- MCMachines
  NoDisc = NoDisc
  MaxErrors = 2
  BlockSize = 3
  TableStep = 4
  FreshIndices = {0, 3, 6, 9}
  CmdLines <- MCCmdLines
  BootImg = "boot.img"
  RamBlock = 2
  BootUnit = "fat"
  MaxReads = 1
INVARIANTS
  TreeIsDisc
  FilesIntact
  LostForCause
PROPERTIES
  BootEnds
CHECK_DEADLOCK FALSE
