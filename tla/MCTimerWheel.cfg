\* A first wheel of 2 slots and two outer wheels of 2: 8 ticks of 2 ms, which
\* wrap around.  Timers are set at every tick and to every delay.
CONSTANTS
  TVR_SIZE = 2
  TVN_SIZE = 2
  Levels = 2
  Interval = 2
  Node = {n1, n2}
  MaxLag = 3
  MaxNum = 2

SPECIFICATION FairWheel

INVARIANTS
  PendingCounted
  ClockExact

PROPERTIES
  FiresAtItsTick
  TimersFire

CHECK_DEADLOCK FALSE
