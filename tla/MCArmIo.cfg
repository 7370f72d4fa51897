SPECIFICATION LiveSpec
CONSTANTS
  Cmds = {"start", "load"}
  BootCmds = {"load"}
  Events = {"e1", "e2"}
  NoCmd = NoCmd
  Machines = {FALSE, TRUE}
  MaxCalls = 3
  MaxReports = 2
INVARIANTS TypeOK NextCommandDue EventsKept
PROPERTIES CommandsInOrder EveryCommandTaken
CHECK_DEADLOCK FALSE
