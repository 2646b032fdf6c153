SPECIFICATION RbSpec
CONSTANTS
  Threads = {t1, t2}
  Pollers = {q1, q2}
  NoThread = NoThread
  Maps = {"syscall"}
  MaxInits = 2
  MaxEvents = 2
  Capacity = 2
CHECK_DEADLOCK FALSE
INVARIANT ThreadSafe
