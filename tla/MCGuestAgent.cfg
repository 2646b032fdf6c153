SPECIFICATION GaFairSpec
CONSTANTS
  Conns = {c1, c2}
  None = None
  MaxTime = 2
CHECK_DEADLOCK FALSE
INVARIANTS
  GaTypeOK
  RunsOwnCode
  ScriptsAreWiped
  
  EveryCallIsAnswered
PROPERTY HostCallReturns
