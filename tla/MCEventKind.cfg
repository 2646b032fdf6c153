SPECIFICATION RbSpec
CONSTANTS
  Threads = {t1}
  Pollers = {q1}
  NoThread = NoThread
  Maps = {"syscall", "network", "process"}
  MaxInits = 1
  MaxEvents = 1
  Capacity = 1
CHECK_DEADLOCK FALSE
INVARIANT DecodedAsSent
