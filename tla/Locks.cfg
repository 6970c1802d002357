\* Three threads; the mutex with and without the condition variable.  Two CPUs
\* and the three ways of using a spin lock.  Who finds a lock taken spins, which
\* changes nothing: the liveness properties say that nobody does so for ever.
SPECIFICATION MCSpec
CONSTANTS
  Threads = {c1, c2, c3}
  MaxHold = 1
  DepthRange = 4
  CPUs = {c1, c2}
INVARIANTS
  CountersExact NoSelfDeadlock IrqsaveFlagRestored
PROPERTIES
  ImplementsLock LockReturns
  ImplementsRwLock WritersGetIn
  ImplementsSpinLock SpinReturns
CHECK_DEADLOCK FALSE
