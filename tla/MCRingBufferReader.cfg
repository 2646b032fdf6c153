SPECIFICATION RbFairSpec
CONSTANTS
  Threads = {t1, t2}
  Pollers = {q1, q2}
  NoThread = NoThread
  Maps = {"syscall"}
  MaxInits = 2
  MaxEvents = 1
  Capacity = 1
CHECK_DEADLOCK FALSE
INVARIANTS
  RbTypeOK
  AbortNeedsCause
  PolledBufferIsOpen
  EachEventOnce
  JoinedThreadStops
PROPERTIES
  StopReturns
