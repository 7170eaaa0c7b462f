CONSTANTS
  Timer = {s}
  NoTimer = none
  Coro = {c, d}
  Reloadable = {TRUE, FALSE}
  Transports = {"tcp", "udp"}
  MaxSignals = 1

SPECIFICATION FairWorker

INVARIANTS
  TimersExact
  AcceptsOnlyRunning
  ErrorOnlyUnreloadable

PROPERTIES
  ReloadEnds
  StopHeard
  CallbacksGoOn

CHECK_DEADLOCK FALSE
