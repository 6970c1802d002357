\* Two CPUs: the interrupt flag after a guard is dropped.
SPECIFICATION SpinSpec
CONSTANTS
  CPUs = {c1, c2}
INVARIANTS LockFlagRestored
CHECK_DEADLOCK FALSE
