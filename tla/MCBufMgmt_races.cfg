SPECIFICATION Spec
CONSTANTS
  Packets = 2
  MaxCells = 2
  Buffers = 2
  MaxOpen = 1
  MaxFail = 0
  Smp = TRUE
  EarlyCells = TRUE
  LateSends = TRUE
INVARIANTS EachBufferOnce
CHECK_DEADLOCK FALSE
