SPECIFICATION FairSpec
CONSTANTS
  Infos = {a}
  Period <- MCPeriod
  NewTimers <- MCSingle
  Extras <- MCExtras
  Deltas = {}
  WakeupLead = 1
  NearFuture = 2
  ShutdownDelay = 1
  PowerFails = FALSE
  MaxTime = 2
  MaxCmds = 1
PROPERTY ShutdownExits
CHECK_DEADLOCK FALSE
