SPECIFICATION Spec
CONSTANTS
  Infos = {a, b}
  Period <- MCPeriod
  NewTimers <- MCAll
  Extras <- MCExtras
  Deltas = {}
  WakeupLead = 1
  NearFuture = 2
  ShutdownDelay = 1
  PowerFails = TRUE
  MaxTime = 5
  MaxCmds = 2
INVARIANTS TimerInv RecordingOwned  WakeInTime
 
