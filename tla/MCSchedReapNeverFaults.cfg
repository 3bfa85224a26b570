SPECIFICATION Spec
CONSTANTS
  MaxPid = 4
  MaxTid = 4
  ExitCodes = {7}
INVARIANT
  ReapNeverFaults
