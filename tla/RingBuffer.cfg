CONSTANTS
  Size = 4
  MaxBytes = 9
  Preempts = FALSE
SPECIFICATION Spec
INVARIANTS RingInv InOrder
PROPERTIES Implements
CHECK_DEADLOCK FALSE
