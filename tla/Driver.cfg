SPECIFICATION Spec
CONSTANTS
  Machines = {FALSE, TRUE}
  FailAt = {"remote", "chip", "bus", "dslio", "armio", "eeprom", "cal", "cm", "flink",
            "txchan", "rxchan"}
  MaxFails = 2
  MaxRuns = 3
INVARIANTS NoFault UnloadsCleanly
CHECK_DEADLOCK FALSE
