SPECIFICATION Spec
CONSTANTS
  Lengths = {40, 41, 88, 140}
  Rooms = {0, 6, 7, 9, 56}
  RxRooms = {144, 160}
  Frames = 3
  Window = 1
  MaxLost = 2
INVARIANTS TypeOK CellsAsCovered FramesIntact GoodFramesArrive
CHECK_DEADLOCK FALSE
