----------------------------- MODULE OpenFiles -----------------------------
(***************************************************************************)
(* Descriptors and open files (framework/fs/vfs/handle.rs, vfs.rs,         *)
(* open_file_table.rs): open, memfd_create, open_by_handle_at, close, dup, *)
(* dup2 and the calls that reach a file through a descriptor; the sizes of *)
(* RAM files, which stat takes from the inode cache; the wake-up of epoll  *)
(* that write and close send (fd_notify.rs, epoll.rs).                     *)
(*                                                                         *)
(* A step is what a thread does while it holds a lock, as far as the next  *)
(* lock it needs.  Three locks are held while another is waited for, and   *)
(* are therefore state: the descriptor table's (dup, dup2), the open-file  *)
(* table's (write, and fstat when the inode cache misses) and the one of   *)
(* the epoll instances (the wake-up and epoll_wait).  Offsets are left     *)
(* out: seek sets them to anything, so a plain write lands anywhere in the *)
(* file.                                                                   *)
(***************************************************************************)
EXTENDS InodeCache

VARIABLES
  used, handle,      \* the descriptor table: VfsFile::used, handle_id
  live, refcount,    \* the open-file table: entry present, its count
  inode, append,     \* the file an entry is open on; O_APPEND, of RAM files
  next_id,           \* OpenFileTable::next_id, counted on where it wraps
  interest,          \* descriptors watched by an epoll instance
  fd_lock, files_lock, epoll_lock,         \* holders
  at, hd, fd, memfd, node, appends, off,   \* per thread: position and registers
  kernel,            \* "up", or "panicked" by an index out of bounds
  use                \* the member of Uses at hand

fds   == <<used, handle>>
files == <<live, refcount, inode, append>>
disk  == <<size, icache, missed>>
locks == <<fd_lock, files_lock, epoll_lock>>
asked == <<node, appends>>
regs  == <<hd, fd, memfd, node, appends, off>>
rest  == <<kernel, use>>
file_vars == <<used, handle, live, refcount, inode, append, next_id, size, icache,
               missed, interest, fd_lock, files_lock, epoll_lock, at, hd, fd, memfd,
               node, appends, off, kernel, use>>

FilesInit ==
  /\ used = [f \in Fd |-> FALSE] /\ handle = [f \in Fd |-> NoHandle]
  /\ live = [h \in Handle |-> FALSE] /\ refcount = [h \in Handle |-> 0]
  /\ inode = [h \in Handle |-> NotRam] /\ append = [h \in Handle |-> FALSE]
  /\ next_id = 1
  /\ IcacheInit
  /\ interest = {}
  /\ fd_lock = Nobody /\ files_lock = Nobody /\ epoll_lock = Nobody
  /\ at = [t \in Threads |-> "user"] /\ hd = [t \in Threads |-> NoHandle]
  /\ fd = [t \in Threads |-> 0] /\ memfd = [t \in Threads |-> NoHandle]
  /\ node = [t \in Threads |-> NotRam] /\ appends = [t \in Threads |-> FALSE]
  /\ off = [t \in Threads |-> 0]
  /\ kernel = "up" /\ use \in Uses

---------------------------------------------------------------------------
(* stat and the size of a file: only RAM files have their inodes cached.   *)

\* The inode cache misses; the file is read and inserted in the next step.
StatMisses(t, i) ==
  /\ i \in Inodes /\ missed[t] = NotRam /\ ~Cached(i)
  /\ missed' = [missed EXCEPT ![t] = i]
  /\ UNCHANGED <<size, icache>>

\* inode.stat() returns and reports size n.
Stat(t, i, n) ==
  /\ \/ i \in Inodes /\ missed[t] = NotRam /\ StatHits(i, n)
     \/ i \in Inodes /\ missed[t] = i /\ StatFills(i, n)
     \/ i \notin Inodes /\ n = 0 /\ UNCHANGED icache
  /\ missed' = [missed EXCEPT ![t] = NotRam]
  /\ UNCHANGED size

\* The file gets size n.
SetFileSize(i, n) ==
  /\ IF i \in Inodes THEN SetSize(icache, i, n) ELSE UNCHANGED <<size, icache>>
  /\ UNCHANGED missed

---------------------------------------------------------------------------
(* The tables.                                                             *)

Move(t, label) == at' = [at EXCEPT ![t] = label]

\* The call returns to user code.
Return(t) ==
  /\ Move(t, "user")
  /\ hd' = [hd EXCEPT ![t] = NoHandle]
  /\ fd' = [fd EXCEPT ![t] = 0]
  /\ off' = [off EXCEPT ![t] = 0]

\* dec_ref: fetch_sub gives the count before it was lowered, and the entry is
\* emptied when that was 0.
DecRef(h) ==
  /\ live' = [live EXCEPT ![h] = @ /\ refcount[h] # 0]
  /\ refcount' = [refcount EXCEPT ![h] = IF live[h] THEN @ - 1 ELSE @]
  /\ UNCHANGED <<inode, append>>

\* OpenFileTable::alloc takes the next number, whether or not there is an entry
\* for it; after 2^32 of them the numbers start again, at 0.
TakeNumber == next_id < use.opens /\ next_id' = next_id + 1

handle_id == next_id % ID_SPAN

\* alloc puts a new open file in its entry, over the one that may be there.
Insert(t) ==
  /\ files_lock = Nobody
  /\ live' = [live EXCEPT ![hd[t]] = TRUE]
  /\ refcount' = [refcount EXCEPT ![hd[t]] = 1]
  /\ inode' = [inode EXCEPT ![hd[t]] = node[t]]
  /\ append' = [append EXCEPT ![hd[t]] = appends[t]]
  /\ node' = [node EXCEPT ![t] = NotRam]
  /\ appends' = [appends EXCEPT ![t] = FALSE]

\* The slot alloc_fd and dup choose.
FirstFree(f) == ~used[f] /\ \A g \in Fd : g < f => used[g]

---------------------------------------------------------------------------
(* vfs_open, open_by_handle_at and memfd_create.                           *)

\* Where a thread continues when its vfs_open has returned.
AfterOpen(t, succeeds) ==
  IF memfd[t] = NoHandle THEN "user" ELSE IF succeeds THEN "memfd_set" ELSE "memfd_undo"

\* fs_open finds RAM file i, in the directory cache or not, and empties it for
\* O_TRUNC.
OpenPath(t, i, a) ==
  /\ at[t] = "user" /\ i \in use.ram
  /\ \E c \in {icache, ref_inc(icache, i)} :
       /\ c = icache \/ Countable(i)
       /\ \/ icache' = c /\ UNCHANGED size
          \/ size[i] # 0 /\ SetSize(c, i, 0)
  /\ Move(t, "stat")
  /\ node' = [node EXCEPT ![t] = i]
  /\ appends' = [appends EXCEPT ![t] = a]
  /\ UNCHANGED <<fds, files, next_id, missed, interest, locks, hd, fd, memfd, off, rest>>

OpenMisses(t) ==
  /\ at[t] = "stat"
  /\ StatMisses(t, node[t])
  /\ UNCHANGED <<fds, files, next_id, interest, locks, at, regs, rest>>

\* stat reads the type of the file, one of fs_open's or one that is not in the
\* RAM file system; alloc takes a number.
Open(t) ==
  /\ at[t] \in {"user", "stat", "memfd_open"}
  /\ \E n \in 0 .. MaxSize : Stat(t, node[t], n)
  /\ TakeNumber
  /\ IF handle_id < MAX_OPEN_FILES
     THEN /\ Move(t, "insert")
          /\ hd' = [hd EXCEPT ![t] = handle_id]
          /\ UNCHANGED <<asked>>
     ELSE /\ Move(t, AfterOpen(t, FALSE))
          /\ node' = [node EXCEPT ![t] = NotRam]
          /\ appends' = [appends EXCEPT ![t] = FALSE]
          /\ UNCHANGED hd
  /\ UNCHANGED <<fds, files, interest, locks, fd, memfd, off, rest>>

OpenInsert(t) ==
  /\ at[t] = "insert"
  /\ Insert(t)
  /\ Move(t, "alloc_fd")
  /\ UNCHANGED <<fds, next_id, disk, interest, locks, hd, fd, memfd, off, rest>>

AllocFd(t, f) ==
  /\ at[t] = "alloc_fd" /\ fd_lock = Nobody
  /\ FirstFree(f)
  /\ used' = [used EXCEPT ![f] = TRUE]
  /\ fd' = [fd EXCEPT ![t] = f]
  /\ Move(t, "set_fd")
  /\ UNCHANGED <<handle, files, next_id, disk, interest, locks, hd, memfd, asked, off, rest>>

\* No free slot: vfs_open gives the open file back, open_by_handle_at forgets it.
AllocFdFails(t) ==
  /\ at[t] = "alloc_fd" /\ fd_lock = Nobody
  /\ \A f \in Fd : used[f]
  /\ \/ Move(t, "undo") /\ UNCHANGED regs
     \/ memfd[t] = NoHandle /\ Return(t) /\ UNCHANGED <<memfd, asked>>
  /\ UNCHANGED <<fds, files, next_id, disk, interest, locks, rest>>

OpenUndo(t) ==
  /\ at[t] = "undo" /\ files_lock = Nobody
  /\ DecRef(hd[t])
  /\ Move(t, AfterOpen(t, FALSE))
  /\ hd' = [hd EXCEPT ![t] = NoHandle]
  /\ UNCHANGED <<fds, next_id, disk, interest, locks, fd, memfd, asked, off, rest>>

SetFdHandle(t) ==
  /\ at[t] = "set_fd" /\ fd_lock = Nobody
  /\ handle' = [handle EXCEPT ![fd[t]] = hd[t]]
  /\ Move(t, AfterOpen(t, TRUE))
  /\ hd' = [hd EXCEPT ![t] = NoHandle]
  /\ fd' = [fd EXCEPT ![t] = IF memfd[t] = NoHandle THEN 0 ELSE @]
  /\ UNCHANGED <<used, files, next_id, disk, interest, locks, memfd, asked, off, rest>>

\* memfd_create makes an open file of its own, opens /dev/null for a descriptor
\* and replaces the handle of that descriptor.
MemfdCreate(t) ==
  /\ at[t] = "user"
  /\ TakeNumber
  /\ IF handle_id < MAX_OPEN_FILES
     THEN Move(t, "memfd_insert") /\ hd' = [hd EXCEPT ![t] = handle_id]
     ELSE UNCHANGED <<at, hd>>
  /\ UNCHANGED <<fds, files, disk, interest, locks, fd, memfd, asked, off, rest>>

MemfdInsert(t) ==
  /\ at[t] = "memfd_insert"
  /\ Insert(t)
  /\ Move(t, "memfd_open")
  /\ hd' = [hd EXCEPT ![t] = NoHandle]
  /\ memfd' = [memfd EXCEPT ![t] = hd[t]]
  /\ UNCHANGED <<fds, next_id, disk, interest, locks, fd, off, rest>>

MemfdSet(t) ==
  /\ at[t] = "memfd_set" /\ fd_lock = Nobody
  /\ handle' = [handle EXCEPT ![fd[t]] = memfd[t]]
  /\ memfd' = [memfd EXCEPT ![t] = NoHandle]
  /\ Return(t)
  /\ UNCHANGED <<used, files, next_id, disk, interest, locks, asked, rest>>

MemfdUndo(t) ==
  /\ at[t] = "memfd_undo" /\ files_lock = Nobody
  /\ DecRef(memfd[t])
  /\ memfd' = [memfd EXCEPT ![t] = NoHandle]
  /\ Return(t)
  /\ UNCHANGED <<fds, next_id, disk, interest, locks, asked, rest>>

---------------------------------------------------------------------------
(* vfs_close, vfs_dup and vfs_dup2.                                        *)

\* Faulty variant: the slot keeps its handle.
CloseLeavesHandle(t, f) ==
  /\ at[t] = "user" /\ fd_lock = Nobody
  /\ used[f]
  /\ used' = [used EXCEPT ![f] = FALSE]
  /\ hd' = [hd EXCEPT ![t] = handle[f]]
  /\ fd' = [fd EXCEPT ![t] = f]
  /\ Move(t, IF handle[f] = NoHandle THEN "notify" ELSE "dec")
  /\ UNCHANGED <<handle, files, next_id, disk, interest, locks, memfd, asked, off, rest>>

\* Faulty variant: the wake-up is sent before the descriptor table is unlocked.
CloseLocked(t, f) ==
  /\ at[t] = "user" /\ fd_lock = Nobody
  /\ used[f]
  /\ used' = [used EXCEPT ![f] = FALSE]
  /\ handle' = [handle EXCEPT ![f] = NoHandle]
  /\ fd_lock' = t
  /\ fd' = [fd EXCEPT ![t] = f]
  /\ Move(t, "notify")
  /\ UNCHANGED <<files, next_id, disk, interest, files_lock, epoll_lock, hd, memfd,
                 asked, off, rest>>

\* Claims the slot and clears it in one section; an unused slot is left alone.
Close(t, f) ==
  /\ at[t] = "user" /\ fd_lock = Nobody
  /\ used[f]
  /\ used' = [used EXCEPT ![f] = FALSE]
  /\ handle' = [handle EXCEPT ![f] = NoHandle]
  /\ hd' = [hd EXCEPT ![t] = handle[f]]
  /\ fd' = [fd EXCEPT ![t] = f]
  /\ Move(t, IF handle[f] = NoHandle THEN "notify" ELSE "dec")
  /\ UNCHANGED <<files, next_id, disk, interest, locks, memfd, asked, off, rest>>

CloseDecRef(t) ==
  /\ at[t] = "dec" /\ files_lock = Nobody
  /\ DecRef(hd[t])
  /\ Move(t, "notify")
  /\ hd' = [hd EXCEPT ![t] = NoHandle]
  /\ UNCHANGED <<fds, next_id, disk, interest, locks, fd, memfd, asked, off, rest>>

\* Slot g becomes a copy of slot f, whose open file gets its reference next,
\* with the descriptor table still locked.
Clone(t, h, g) ==
  /\ used' = [used EXCEPT ![g] = TRUE]
  /\ handle' = [handle EXCEPT ![g] = h]
  /\ IF h = NoHandle
     THEN Return(t) /\ fd_lock' = Nobody
     ELSE /\ Move(t, "inc") /\ fd_lock' = t
          /\ hd' = [hd EXCEPT ![t] = h]
          /\ fd' = [fd EXCEPT ![t] = g]
          /\ UNCHANGED off
  /\ UNCHANGED <<files_lock, epoll_lock, memfd, asked>>

Dup(t, f, g) ==
  /\ at[t] = "user" /\ fd_lock = Nobody
  /\ used[f] /\ FirstFree(g)
  /\ Clone(t, handle[f], g)
  /\ UNCHANGED <<files, next_id, disk, interest, rest>>

\* The open file of slot g is closed first, if it has one.
Dup2(t, f, g) ==
  /\ at[t] = "user" /\ fd_lock = Nobody
  /\ used[f] /\ f # g
  /\ IF used[g] /\ handle[g] # NoHandle
     THEN /\ Move(t, "dup2_close") /\ fd_lock' = t
          /\ hd' = [hd EXCEPT ![t] = handle[f]]
          /\ fd' = [fd EXCEPT ![t] = g]
          /\ UNCHANGED <<fds, files_lock, epoll_lock, memfd, asked, off>>
     ELSE Clone(t, handle[f], g)
  /\ UNCHANGED <<files, next_id, disk, interest, rest>>

Dup2Close(t) ==
  /\ at[t] = "dup2_close" /\ files_lock = Nobody
  /\ DecRef(handle[fd[t]])
  /\ Clone(t, hd[t], fd[t])
  /\ UNCHANGED <<next_id, disk, interest, rest>>

DupIncRef(t) ==
  /\ at[t] = "inc" /\ files_lock = Nobody
  /\ refcount' = [refcount EXCEPT ![hd[t]] = IF live[hd[t]] THEN @ + 1 ELSE @]
  /\ fd_lock' = Nobody
  /\ Return(t)
  /\ UNCHANGED <<fds, live, inode, append, next_id, disk, interest, files_lock,
                 epoll_lock, memfd, asked, rest>>

\* Both test a descriptor against 256 and index a table of 32 slots: an index
\* outside it ends the kernel, as does the search for a free slot in a full one.
DupPanics(t) ==
  /\ at[t] = "user" /\ fd_lock = Nobody
  /\ VFS_MAX_FDS < DUP_LIMIT
  /\ kernel' = "panicked" /\ UNCHANGED use
  /\ UNCHANGED <<fds, files, next_id, disk, interest, locks, at, regs>>

---------------------------------------------------------------------------
(* Calls through a descriptor: with_file runs them under the table's lock. *)

\* get_fd_handle: a slot that is unused or has no handle is an error.
Lookup(t, f) ==
  /\ at[t] = "user" /\ fd_lock = Nobody
  /\ used[f] /\ handle[f] # NoHandle
  /\ hd' = [hd EXCEPT ![t] = handle[f]]
  /\ fd' = [fd EXCEPT ![t] = f]
  /\ Move(t, "with_file")
  /\ UNCHANGED <<fds, files, next_id, disk, interest, locks, memfd, asked, off, rest>>

WithFile(t) == at[t] = "with_file" /\ files_lock = Nobody

\* read, seek and readdir change nothing kept here; neither does any call whose
\* entry is empty by now.
Access(t) ==
  /\ WithFile(t)
  /\ Return(t)
  /\ UNCHANGED <<fds, files, next_id, disk, interest, locks, memfd, asked, rest>>

\* stat misses in the inode cache, for fstat or for the offset of an append, and
\* goes on with the table locked.
FileMisses(t) ==
  /\ WithFile(t) /\ live[hd[t]]
  /\ StatMisses(t, inode[hd[t]])
  /\ files_lock' = t
  /\ \/ Move(t, "fstat")
     \/ append[hd[t]] /\ size[inode[hd[t]]] < MaxSize /\ Move(t, "append")
  /\ UNCHANGED <<fds, files, next_id, interest, fd_lock, epoll_lock, regs, rest>>

Fstat(t) ==
  /\ at[t] = "fstat" \/ (WithFile(t) /\ live[hd[t]])
  /\ \E n \in 0 .. MaxSize : Stat(t, inode[hd[t]], n)
  /\ files_lock' = Nobody
  /\ Return(t)
  /\ UNCHANGED <<fds, files, next_id, interest, fd_lock, epoll_lock, memfd, asked,
                 rest>>

\* Truncating a RAM file to the size it has returns before the invalidation.
Truncate(t, n) ==
  /\ WithFile(t) /\ live[hd[t]]
  /\ inode[hd[t]] \in Inodes => size[inode[hd[t]]] # n
  /\ SetFileSize(inode[hd[t]], n)
  /\ Return(t)
  /\ UNCHANGED <<fds, files, next_id, interest, locks, memfd, asked, rest>>

\* write fixes its offset: the size stat reports for O_APPEND, else anything.
Write(t, o) ==
  /\ at[t] = "append" \/ (WithFile(t) /\ live[hd[t]])
  /\ IF append[hd[t]] THEN Stat(t, inode[hd[t]], o) ELSE UNCHANGED disk
  /\ o < MaxSize
  /\ off' = [off EXCEPT ![t] = o]
  /\ files_lock' = t
  /\ Move(t, "write")
  /\ UNCHANGED <<fds, files, next_id, interest, fd_lock, epoll_lock, hd, fd, memfd,
                 asked, rest>>

\* The data is in: one unit, at the offset. Then the watchers of the descriptor
\* are told, from inside with_file.
WriteData(t) ==
  /\ at[t] = "write"
  /\ LET i == inode[hd[t]] IN
     SetFileSize(i, IF i \in Inodes /\ size[i] > off[t] THEN size[i] ELSE off[t] + 1)
  /\ Move(t, "notify")
  /\ UNCHANGED <<fds, files, next_id, interest, locks, regs, rest>>

\* The file system refuses the data, at once or when it finds no block for it.
WriteFails(t) ==
  /\ at[t] = "write"
  /\ LET i == inode[hd[t]] IN
     \/ UNCHANGED disk
     \/ i \in Inodes /\ SetFileSize(i, size[i])
  /\ files_lock' = Nobody
  /\ Return(t)
  /\ UNCHANGED <<fds, files, next_id, interest, fd_lock, epoll_lock, memfd, asked,
                 rest>>

---------------------------------------------------------------------------
(* epoll.                                                                  *)

\* The wake-up is over: a write leaves with_file, the others hold nothing else.
Finish(t) ==
  /\ files_lock' = IF files_lock = t THEN Nobody ELSE files_lock
  /\ Return(t)
  /\ UNCHANGED <<fds, files, next_id, disk, interest, fd_lock, memfd, asked, rest>>

\* notify_fd_close calls epoll_pwake, which looks for the descriptor's watchers.
Notify(t) ==
  /\ at[t] = "notify" /\ epoll_lock = Nobody
  /\ IF fd[t] \in interest
     THEN /\ epoll_lock' = t /\ Move(t, "check_ready")
          /\ UNCHANGED <<fds, files, next_id, disk, interest, fd_lock, files_lock,
                         regs, rest>>
     ELSE Finish(t) /\ UNCHANGED epoll_lock

\* epoll_wait goes through the watched descriptors with the instances locked.
EpollWait(t) ==
  /\ at[t] = "user" /\ epoll_lock = Nobody
  /\ interest # {}
  /\ epoll_lock' = t
  /\ Move(t, "check_ready")
  /\ UNCHANGED <<fds, files, next_id, disk, interest, fd_lock, files_lock, regs,
                 rest>>

\* check_fd_ready reads the descriptor table.
CheckFdReady(t) ==
  /\ at[t] = "check_ready" /\ fd_lock = Nobody
  /\ epoll_lock' = Nobody
  /\ Finish(t)

\* epoll_ctl adds or removes a descriptor.
EpollCtl(t, f) ==
  /\ at[t] = "user" /\ epoll_lock = Nobody /\ f \in use.watched
  /\ interest' = IF f \in interest THEN interest \ {f} ELSE interest \union {f}
  /\ UNCHANGED <<fds, files, next_id, disk, locks, at, regs, rest>>

---------------------------------------------------------------------------
FilesNext ==
  /\ kernel = "up"
  /\ \E t \in Threads :
       \/ \E i \in Inodes, a \in BOOLEAN : OpenPath(t, i, a)
       \/ OpenMisses(t) \/ Open(t)
       \/ OpenInsert(t) \/ AllocFdFails(t) \/ OpenUndo(t) \/ SetFdHandle(t)
       \/ MemfdCreate(t) \/ MemfdInsert(t) \/ MemfdSet(t) \/ MemfdUndo(t)
       \/ CloseDecRef(t) \/ Dup2Close(t) \/ DupIncRef(t) \/ DupPanics(t)
       \/ Access(t) \/ FileMisses(t) \/ Fstat(t) \/ WriteData(t) \/ WriteFails(t)
       \/ Notify(t) \/ EpollWait(t) \/ CheckFdReady(t)
       \/ \E f \in Fd : \/ AllocFd(t, f) \/ Close(t, f) \/ Lookup(t, f)
                        \/ EpollCtl(t, f)
                        \/ \E g \in Fd : Dup(t, f, g) \/ Dup2(t, f, g)
       \/ \E n \in 0 .. MaxSize : Truncate(t, n) \/ Write(t, n)

FilesSpec == FilesInit /\ [][FilesNext]_file_vars

---------------------------------------------------------------------------
(* Properties.                                                             *)

\* What holds a reference to an open file: a slot, except the one dup or dup2 has
\* just filled; a call between taking a handle out of its table and giving it up;
\* the handle memfd_create keeps.
Place == ({"fd"} \X Fd) \union ({"call", "memfd"} \X Threads)

Filling(f) == \E t \in Threads : at[t] = "inc" /\ fd[t] = f

Ref(x) ==
  IF x[1] = "fd" THEN IF Filling(x[2]) THEN NoHandle ELSE handle[x[2]]
  ELSE IF x[1] = "memfd" THEN memfd[x[2]]
  ELSE IF at[x[2]] \in {"alloc_fd", "set_fd", "undo", "dec"} THEN hd[x[2]]
  ELSE NoHandle

Holders(h) == {x \in Place : Ref(x) = h}

\* No open file is released under a holder: its entry is in the table and counts
\* at least as many references as there are slots and calls that hold it, however
\* open, close, dup, dup2 and memfd_create interleave.
Covered ==
  \A h \in Handle : Holders(h) # {} => live[h] /\ Cardinality(Holders(h)) <= refcount[h]

\* That is so as long as the counter of open files, which failing opens advance
\* as well, has not wrapped: from then on alloc writes over entries in use.
RefsCovered == next_id <= ID_SPAN => Covered

\* The lock the next step of a thread inside a call needs.
WaitsFor(t) ==
  IF at[t] = "notify" THEN epoll_lock
  ELSE IF at[t] \in {"alloc_fd", "set_fd", "memfd_set", "check_ready"} THEN fd_lock
  ELSE IF at[t] \in {"user", "stat", "memfd_open", "fstat", "append", "write"} THEN Nobody
  ELSE files_lock

\* Threads that wait for one another in a circle have a write among them, the one
\* call that sends the wake-up with a lock held: close sends it after its locks.
DeadlockNeedsWrite ==
  \A S \in (SUBSET Threads) \ {{}} :
    (\A t \in S : WaitsFor(t) \in S) => files_lock \in S

\* An append puts its data at or after the end of the file (handle.rs, "POSIX
\* atomic append").
AppendNeverOverwrites ==
  \A t \in Threads :
    at[t] = "write" /\ append[hd[t]] => off[t] >= size[inode[hd[t]]]

\* The close of the last reference empties the entry: dec_ref, "if it returns 1
\* this was the last reference" (types.rs).
LastCloseDrops == \A h \in Handle : live[h] => refcount[h] # 0
=============================================================================
