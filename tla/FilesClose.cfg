\* An entry of the open-file table that nobody refers to.
SPECIFICATION FilesSpec
CONSTANTS
  Threads = {t1, t2}
  VFS_MAX_FDS = 2
  DUP_LIMIT = 3
  MAX_OPEN_FILES = 3
  ID_SPAN = 4
  Inodes = {1, 2, 3}
  ICACHE_SIZE = 3
  hash_key <- MCHashKey
  Uses <- MCUses
  MaxSize = 1
  MaxIref = 2
SYMMETRY Symmetry
INVARIANT LastCloseDrops
CHECK_DEADLOCK FALSE
