CONSTANTS
  Tries = 2
  KillTime = 2
  MaxPid = 4
  MaxOpen = 2
  MaxDeaths = 1

SPECIFICATION FairCommand

INVARIANTS
  OneMaster
  SignalsHandled

PROPERTIES
  StopTrue
  DebugStopEnds

CHECK_DEADLOCK FALSE
