CONSTANTS
  Procs = {1, 2}
  InitProc = 1
  Names <- MCNames
  Values <- MCValues
  MAX_ENVIRON_VARS = 2
  Vectors <- MCVectors
  MAX_EXEC_ARGS = 9
  MAX_EXEC_ARG_SIZE = 5
  MAX_EXEC_ARGS_TOTAL = 10
  USER_STACK_REGION_SIZE = 84
  MaxEvents = 3
  Tids = {1, 2}
  Errors = {0, 13}
SPECIFICATION Spec
CHECK_DEADLOCK FALSE
INVARIANTS
  EnvAgrees
  ArgumentsArrive
  DiesForCause
