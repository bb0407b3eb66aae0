SPECIFICATION FairSpec
CONSTANTS
  Infos = {a, b}
  Period <- MCPeriod
  NewTimers <- MCLive
  Extras <- MCExtras
  Deltas = {1}
  WakeupLead = 1
  NearFuture = 2
  ShutdownDelay = 1
  PowerFails = FALSE
  MaxTime = 4
  MaxCmds = 2
 
PROPERTIES DueFires RecordingStops  ShutdownCompletes
CHECK_DEADLOCK FALSE
