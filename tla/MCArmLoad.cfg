SPECIFICATION LiveSpec
CONSTANTS
  Files <- FirmwareFiles
  Pins = 2
  Faults = {"late", "signal", "memory", "dud"}
  MaxTries = 2
  MaxRefused = 2
  WordLen = 4
INVARIANTS SignalsReachWaiters
PROPERTIES StartsWhatWasLoaded LoadEnds
CHECK_DEADLOCK FALSE
