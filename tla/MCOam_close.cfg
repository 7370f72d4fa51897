SPECIFICATION Spec
CONSTANTS
  MaxVc = 2
  Addresses = {"a", "b", "c"}
  CloseOwing = TRUE
  MaxOpen = 3
  MaxLine = 2
  MaxLoop = 2
PROPERTY CellOfActiveVc
CHECK_DEADLOCK FALSE
