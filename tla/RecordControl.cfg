SPECIFICATION LiveSpec
CONSTANTS
  Recordings <- MCRecordings
  NoRecording = 0
  Failures = {"WRITE_FAILURE"}
  Timers = {a, b}
  Immediates = {i}
  NoTimer = none
  MaxEvents = 3
CHECK_DEADLOCK FALSE
INVARIANTS TypeOK Stoppable StatusMatches HasTimer
PROPERTY RecordingEnds
