SPECIFICATION Spec
CONSTANTS
  Infos = {a, b}
  Period <- MCPeriod
  NewTimers <- MCSingle
  Extras <- MCExtras
  Deltas = {}
  WakeupLead = 1
  NearFuture = 2
  ShutdownDelay = 1
  PowerFails = FALSE
  MaxTime = 3
  MaxCmds = 2
PROPERTY TimersSurvive
CHECK_DEADLOCK FALSE
