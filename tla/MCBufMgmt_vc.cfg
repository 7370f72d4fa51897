SPECIFICATION LiveSpec
CONSTANTS
  Packets = 3
  MaxCells = 2
  Buffers = 3
  MaxOpen = 2
  MaxFail = 1
  Smp = FALSE
  EarlyCells = FALSE
  LateSends = FALSE
INVARIANTS TypeOK TxInSync RxInSync NothingLost FramesOnWire ClosedLeavesNothing
PROPERTIES ReleasedAfterLastCell EveryPacketReleased
CHECK_DEADLOCK FALSE
