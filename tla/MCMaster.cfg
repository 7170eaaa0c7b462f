CONSTANTS
  NWorkers = 3
  Count = 1
  Reloadable = {1, 2}
  MaxPid = 10
  MaxFaults = 1
  MaxUsr1 = 1
  MaxTimers = 3

SPECIFICATION FairMaster

INVARIANTS
  NoStrayWorker
  RollingReload

PROPERTIES
  KillsOnRequest
  ReloadEnds
  ReloadReachesAll

CHECK_DEADLOCK FALSE
