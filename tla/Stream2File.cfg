SPECIFICATION LiveSpec
CONSTANTS
  NumPids = 2
  RingSize = 5
  InSize = 2
  TsSize = 1
  SplitSize = 2
  MaxBytes <- MCBytes
  MaxStarts <- MCStarts
INVARIANTS TypeOK OneRecording  NeverOverrun  Drained
PROPERTIES ImplementsRecorder ThreadsEnd EndReported
