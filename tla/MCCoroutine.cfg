\* Three coroutines and two keys: the third creation may find its key taken.
\* PHP code may resume one of them out of its sleeps, again and again.
CONSTANTS
  MaxCid = 3
  KeySpace = 2
  MaxDefer = 1
  MaxTimers = 2
  MaxWoken = 1

SPECIFICATION FairSpec

INVARIANTS
  NoCoroutineStranded
  StacksAligned
  RegistryExact
  SleepTimersExact

PROPERTIES
  CallbackOnceAtEnd
  IsCallStack
  EventLoopRuns

\* Once every cid is spent and every coroutine has ended nothing is left to do.
CHECK_DEADLOCK FALSE
