CONSTANTS
  MaxPid = 3
  MaxTid = 3
  ExitCodes = {7}
SPECIFICATION FairSpec
PROPERTIES
  PickTerminates
  NoStarvation
  WaiterResumes
