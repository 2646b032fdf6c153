SPECIFICATION GaSpec
CONSTANTS
  Conns = {c1}
  None = None
  MaxTime = 1
CHECK_DEADLOCK FALSE
INVARIANT ReportsGuestExitCode
