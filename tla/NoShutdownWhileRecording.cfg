SPECIFICATION Spec
CONSTANTS
  Infos = {a, b}
  Period <- MCPeriod
  NewTimers <- MCImmediate
  Extras <- MCExtras
  Deltas = {}
  WakeupLead = 1
  NearFuture = 2
  ShutdownDelay = 1
  PowerFails = FALSE
  MaxTime = 5
  MaxCmds = 2
PROPERTY NoShutdownWhileRecording
CHECK_DEADLOCK FALSE
