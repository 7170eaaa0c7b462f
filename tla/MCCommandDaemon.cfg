CONSTANTS
  Tries = 2
  KillTime = 2
  MaxPid = 4
  MaxOpen = 1
  MaxDeaths = 0

SPECIFICATION FairCommand

PROPERTY StopEnds

CHECK_DEADLOCK FALSE
