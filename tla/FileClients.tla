---------------------------- MODULE FileClients ----------------------------
(***************************************************************************)
(* The threads that make file system calls, and the sizes of the tables.   *)
(***************************************************************************)
EXTENDS Integers, FiniteSets

CONSTANTS Threads,         \* one per CPU inside a call
          VFS_MAX_FDS,     \* slots of the descriptor table: 32
          DUP_LIMIT,       \* descriptor numbers dup and dup2 accept: 256
          MAX_OPEN_FILES,  \* entries of the open-file table: 256
          ID_SPAN,         \* numbers before the counter of open files wraps: 2^32
          Inodes,          \* files of the RAM file system, nodes 1 and up
          ICACHE_SIZE,     \* slots of the inode cache: 127
          hash_key,        \* the slot each inode hashes to
          Uses,            \* bounds: RAM files opened, descriptors watched, last next_id
          MaxSize,         \* bound: size of a file
          MaxIref          \* bound: reference count of an inode cache entry

Fd == 0 .. VFS_MAX_FDS - 1
Handle == 0 .. MAX_OPEN_FILES - 1
NoHandle == MAX_OPEN_FILES   \* u32::MAX, which is no index of the table either
NotRam == 0                  \* the inode of a file that is not in the RAM file system
Nobody == "nobody"           \* a free lock

IcacheSlot == 0 .. ICACHE_SIZE - 1

ASSUME FileClientsAssumption ==
  /\ VFS_MAX_FDS \in Nat \ {0} /\ DUP_LIMIT \in Nat
  /\ MAX_OPEN_FILES \in Nat \ {0} /\ ID_SPAN \in Nat /\ MAX_OPEN_FILES <= ID_SPAN
  /\ ICACHE_SIZE \in Nat \ {0} /\ hash_key \in [Inodes -> IcacheSlot]
  /\ NotRam \notin Inodes
  /\ Uses \subseteq [ram : SUBSET Inodes, watched : SUBSET Fd, opens : Nat]
  /\ MaxSize \in Nat /\ MaxIref \in Nat
  /\ IsFiniteSet(Threads) /\ Nobody \notin Threads
=============================================================================
