\* Two threads of the one-time cell, with builds that abort and builds that
\* unwind; three CPUs and up to two updates with RCU; one timer descriptor and
\* one POSIX timer.
SPECIFICATION MCSpec
CONSTANTS
  Threads = {1, 2}
  Values = {"v1", "v2"}
  Uninit = "uninit"
  N = 3
  MaxNesting = 1
  MaxTarget = 2
  Settings <- MCSettings
  TimerFds = {f}
  PosixTimers = {p}
  Delays = {1, 2}
  Intervals = {0, 1}
  MaxTime = 2
INVARIANTS
  ReadsComplete SetTellsTruth
  NoUseAfterFree
  PendingIsQueued OneEntry ArmedWillFire ExpirationIsReal
PROPERTIES
  CompleteIsFinal CallsReturn
  SyncReturns CallbacksRun
  OneShotExpires
