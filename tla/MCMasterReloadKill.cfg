CONSTANTS
  NWorkers = 2
  Count = 1
  Reloadable = {1, 2}
  MaxPid = 6
  MaxFaults = 0
  MaxUsr1 = 2
  MaxTimers = 3

SPECIFICATION MSpec

PROPERTIES
  KillsOnlyAsked

CHECK_DEADLOCK FALSE
