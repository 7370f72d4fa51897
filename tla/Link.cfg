SPECIFICATION LiveSpec
CONSTANTS
  NumTimers = 3
  MaxLine = 4
  MaxNoise = 3
INVARIANT LinkAgrees
PROPERTY LinkComesUp
CHECK_DEADLOCK FALSE
