SPECIFICATION LiveSpec
CONSTANTS
  N = 3
  Cells = 5
  Handlers = {"dpc", "timer"}
  Timer = "timer"
  Settings <- MCSettings
  Settle = TRUE
INVARIANTS TypeOK RingSound
PROPERTIES CellsInOrder NeverWedged EveryCellSent
