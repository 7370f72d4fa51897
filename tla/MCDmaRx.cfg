SPECIFICATION LiveSpec
CONSTANTS
  N = 3
  Cells = 4
  Handlers = {"dpc", "open"}
  Opener = "open"
  Settings <- MCSettings
  Settle = TRUE
CHECK_DEADLOCK FALSE
INVARIANTS TypeOK RingSound OnlyNewCells
PROPERTIES CellsInOrder NeverStarved EveryCellDelivered
