\* As MCTimerWheel.cfg, but with ticks of 1 ms, and less time between updates.
CONSTANTS
  TVR_SIZE = 2
  TVN_SIZE = 2
  Levels = 2
  Interval = 1
  Node = {n1, n2}
  MaxLag = 1
  MaxNum = 2

SPECIFICATION FairWheel

PROPERTY OwnTimersFire

CHECK_DEADLOCK FALSE
