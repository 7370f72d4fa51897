SPECIFICATION LiveSpec
CONSTANTS
  MaxVc = 2
  Addresses = {"a", "b", "c"}
  CloseOwing = FALSE
  MaxOpen = 3
  MaxLine = 2
  MaxLoop = 2
INVARIANTS FirstCellsCounted
PROPERTIES EveryOamCellSent
CHECK_DEADLOCK FALSE
