\* Three coroutines on a channel of one or of two places.  Either nobody passes a
\* timeout, or everybody may.
CONSTANTS
  MaxCid = 3
  KeySpace = 4
  MaxDefer = 0
  MaxTimers = 0
  MaxWoken = 0
  Capacities = {1, 2}
  Timeouts = {TRUE, FALSE}
  MaxCalls = 3
  MaxTimed = 2
  MaxWct = 2

SPECIFICATION ChFairSpec

INVARIANTS
  NoLostWakeup
  ItemsConserved
  TimerWakesItsCall

PROPERTIES
  InOrder
  PopsServed

CHECK_DEADLOCK FALSE
