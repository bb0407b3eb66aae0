SPECIFICATION Spec
CONSTANTS
  Recordings <- MCRecordings
  NoRecording = 0
  Failures = {"WRITE_FAILURE"}
  Timers = {a, b}
  Immediates = {}
  NoTimer = none
  MaxEvents = 3
CHECK_DEADLOCK FALSE
INVARIANT BackIntoStandby
