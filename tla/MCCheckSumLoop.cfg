SPECIFICATION LoopSpec
CONSTANTS
  Bits = {1}
  Bufs <- MCBufs
INVARIANT ReturnsCheckSum
CHECK_DEADLOCK FALSE
