\* schedule() returning None while a Ready process is queued.
SPECIFICATION FSpec
CONSTANTS
  MAX_PROCESSES = 6
  a1 = a1
  a2 = a2
  a3 = a3
  Addr <- MCAddr
  FUTEX_HASH_BUCKETS = 2
  FUTEX_BUCKET_CAPACITY = 2
  hash_uaddr <- MCHash
  MaxCount = 1
INVARIANT ScheduleFindsRunnable
CHECK_DEADLOCK FALSE
