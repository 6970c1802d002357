\* A waiter that leaves the state Blocked although nobody has woken it.
SPECIFICATION FSpec
CONSTANTS
  MAX_PROCESSES = 6
  a1 = a1
  a2 = a2
  a3 = a3
  Addr <- MCAddr
  FUTEX_HASH_BUCKETS = 2
  FUTEX_BUCKET_CAPACITY = 2
  hash_uaddr <- MCHash
  MaxCount = 1
PROPERTY SleepsUntilWoken
CHECK_DEADLOCK FALSE
