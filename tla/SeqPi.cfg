\* The sequence lock: two threads, each free to read or to write a value of two
\* words; three writes.  The mutex: three processes, at most two of them
\* preempted at any moment.
SPECIFICATION MCSpec
CONSTANTS
  Threads = {t1, t2}
  Words = {w1, w2}
  Values = {v1, v2}
  MaxSeq = 6
  Pids = {1, 2, 3}
  Base <- MCBase
  Prios = {4}
  Modes <- MCModes
SYMMETRY Symmetry
INVARIANTS WritersExclude ReadIsCommitted HolderTracked EffectiveIsMax QueuedOnce
PROPERTIES VersionsAreImmutable ImplementsPiMutex
CHECK_DEADLOCK FALSE
