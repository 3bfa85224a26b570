CONSTANTS
  Names = {"sys"}
  Pids = {1, 2}
  Threads = {"t1", "t2", "t3"}
  Owner <- MCOwner
  Sizes = {1, 2}
  MaxMessageSize = 2
  MaxQueueBytes = 3
  MaxMessages = 2
  MaxInterfaces = 1
  MaxSent = 2
SPECIFICATION FairSpec
CHECK_DEADLOCK FALSE
INVARIANTS
  NoDanglingWait
  PrivateKept
PROPERTIES
  MailboxKept
  ReceiveCompletes
