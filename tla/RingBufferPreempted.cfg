CONSTANTS
  Size = 4
  MaxBytes = 9
  Preempts = TRUE
SPECIFICATION Spec
INVARIANTS InOrder
CHECK_DEADLOCK FALSE
