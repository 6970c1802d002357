\* Two processes: does the one that waits get the mutex?
SPECIFICATION FairSpec
CONSTANTS
  Pids = {1, 2}
  Base <- MCBase
  Prios = {}
  Modes <- Cooperative
PROPERTIES LockReturns
CHECK_DEADLOCK FALSE
