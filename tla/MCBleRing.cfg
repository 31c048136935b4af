SPECIFICATION Spec
CONSTANTS
  size = 3
  MaxWrite = 2
  MaxBytes = 9
  Torn = TRUE
INVARIANTS InOrder NoLostWakeup
PROPERTIES RefusedWhenFull EveryByteRead
CHECK_DEADLOCK FALSE
