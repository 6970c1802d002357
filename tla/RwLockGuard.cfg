\* Three threads, write access released by dropping the guard.
SPECIFICATION SpecGuard
CONSTANTS
  Threads = {t1, t2, t3}
  MaxHold = 1
  DepthRange = 4
SYMMETRY Symmetry
INVARIANTS ReadersWriters
