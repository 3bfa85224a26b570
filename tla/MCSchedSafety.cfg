CONSTANTS
  MaxPid = 4
  MaxTid = 4
  ExitCodes = {7}
SPECIFICATION Spec
INVARIANTS
  TypeOK
  PickNeverPanics
  QueueHoldsThreads
  WaitersCounted
PROPERTIES
  WaitEndsWithExit
  DeadStaysDead
