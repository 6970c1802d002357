\* One timer descriptor and one POSIX timer.
SPECIFICATION Spec
CONSTANTS
  TimerFds = {f}
  PosixTimers = {p}
  Delays = {1, 2}
  Intervals = {0, 1}
  MaxTime = 2
INVARIANTS PeriodicStaysQueued
