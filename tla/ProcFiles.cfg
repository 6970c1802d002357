\* Six process slots: the first user process, PIDs 4, 5 and 1, and PID 0.
SPECIFICATION MCSpec
CONSTANTS
  MAX_PROCESSES = 6
  a1 = a1
  a2 = a2
  a3 = a3
  Addr <- MCAddr
  FUTEX_HASH_BUCKETS = 2
  FUTEX_BUCKET_CAPACITY = 2
  hash_uaddr <- MCHash
  MaxCount = 1
  Threads = {t1, t2}
  VFS_MAX_FDS = 2
  DUP_LIMIT = 3
  MAX_OPEN_FILES = 3
  ID_SPAN = 4
  Inodes = {1, 2, 3}
  ICACHE_SIZE = 3
  hash_key <- MCHashKey
  Uses <- MCUses
  MaxSize = 1
  MaxIref = 1
SYMMETRY Symmetry
INVARIANTS TypeOK ReadyIsQueued TableWithinBitmap EntriesExact SlotsExact RefsCovered DeadlockNeedsWrite
PROPERTIES SwitchesToLive ZombieIsFinal OnlySchedulerSteps FillIsFound
CHECK_DEADLOCK FALSE
