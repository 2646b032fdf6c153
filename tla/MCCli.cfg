SPECIFICATION CliSpec
CHECK_DEADLOCK FALSE
INVARIANTS
  CliTypeOK
  ExitLeavesNoGuest
  DestroyedOnlyOnError
  HandlerWaitsForItself
PROPERTY SignalEndsProcess
