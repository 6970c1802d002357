# QueenX kernel: TLA+ models and proofs

TLA+ modules for the synchronisation primitives, the process scheduler with the
futex, the descriptors and open files and the timers of the QueenX kernel
(`src/src/kernel`), the TLC configurations that check them on small instances,
and TLAPS proofs for every value of the constants. Paths below
are relative to `src/src/kernel` unless they begin with `src/`.

To repeat the results, in this directory:

    tlc -workers 2 -config Locks.cfg MCLocks        # any run of PROJECT.json
    tlapm RwLockProofs.tla                          # any *Proofs module

## 1. The system

The kernel is split into `framework` (mechanism, may use `unsafe`) and
`services` (policy, safe Rust). The parts that carry concurrency:

| Part | State | Operations | What makes it hard |
|---|---|---|---|
| Sequence lock, `framework/sync/seqlock.rs` | counter, data | `read`, `is_valid`, `get_valid`, `write`, `try_write`, guard drop | readers copy while a writer writes |
| Read/write lock, `framework/sync/rwlock.rs`, guards in `services/sync/types.rs` | inner spin lock, reader count, writer flag, pending writers | four acquisitions, raw unlocks, guard drops | guard drops do not take the inner lock |
| Mutex and condition variable, `framework/sync/mutex.rs` | lock word, owner, depth, waiter count | `lock`, `try_lock`, guard drop, `wait`, `wait_timeout`, `signal`, `broadcast` | `wait` makes a second guard |
| Spin locks, `framework/sync/spinlock.rs`, `irq_spinlock.rs` | lock word, depth, interrupt flags | `lock`, `try_lock`, `lock_irqsave`, releases | interrupt handlers that take the same lock; several CPUs |
| One-time cell, `framework/sync/once_lock.rs` | state, value | `get_or_init`, `set`, `get` | racing initialisers, a closure that panics |
| RCU, `framework/sync/rcu.rs` | per-CPU nesting, grace-period state, callbacks | read sections, `synchronize_rcu`, `call_rcu`, quiescent state | overlapping grace periods, the timeout |
| Priority-inheritance mutex, `framework/sync/pi_mutex.rs` | four atomic words, waiter queue, registry of holders | `lock`, donation, `update_waiter_priority`, release and handover, process exit | stores of a release interleave with the next acquisition |
| Scheduler and process table, `framework/proc/scheduler.rs`, `process.rs`, `framework/syscall/wait4.rs` | process states, CFS tree, PID bitmap, lists of children | `schedule`, `block`, `unblock`, `exit`, `fork`, `wait4`, yield | entries that outlive their process, wake-ups from handlers |
| Futex, `framework/syscall/futex.rs` | hash table of waiters | wait, wake, requeue | an entry is removed by the waker, by requeue or by the waiter |
| Descriptors and open files, `framework/fs/vfs/handle.rs`, `vfs.rs`, `open_file_table.rs`; inode cache, `dcache.rs`; epoll's wake-up | descriptor table, open-file table with counts, cached sizes, three locks | `open`, `close`, `dup`, `dup2`, `write`, `memfd_create` and the calls through a descriptor | several lock sections per call; wake-ups under a lock |
| Timers, `framework/timer/hrtimer.rs`; `framework/syscall/timerfd.rs`, `framework/proc/posix_timer.rs` | one queue, two tables of timers | start, cancel, the interrupt; create, settime, read, close, delete, callbacks | a timer's fields are written without the queue's lock |
| IPC, signals, kernel threads, io_uring, barrier (undo log and recovery) | queues and wait lists | | not modelled: see section 7 |
| Memory, file systems, network, drivers, Credo, Wasm, boot | | | not modelled: see section 7 |

How they interact: `SpinLock` is inside `Mutex` and `RwLock`; `IrqSpinLock`
protects the process table and the run queues; the scheduler's context switch
reports RCU quiescent states; process exit releases priority-inheritance
mutexes; futex waits go through the scheduler's `block` and `unblock`; the
timer interrupt runs the callbacks of both timer tables; `write` and `close`
wake the watchers of a descriptor.

## 2. Modules

Every component has a module `X.tla` with its state, actions and properties.
The proofs are in modules of their own: `RwLockProofs`, `PiMutexProofs`,
`OpenFilesProofs`; `LockProofs` (mutex and spin locks), `CellProofs` (RCU, sequence
lock and one-time cell), `SchedulerProofs` (scheduler and futex), and `TimerSteps`
with `TimerProofs` (what each step of the timers preserves, and the theorems). The
constants of the clients
are in a module of their own where several modules share them (`LockClients`,
`PiClients`, `CellClients`, `RcuClients`, `FileClients`, `TimerClients`). An `MC` module
extends the components of a run; where one run checks several, a variable
`which`, chosen in the initial state, says whose behaviour this is. Components that
are extended together by a run or by a module of proofs carry a prefix where their
names would meet (`SeqInit`, `once_state`, `MutexRawLock`, `SpinRawLock`), so that a
theorem and a run speak of the very same definition. Definitions
marked "Faulty" are deliberately wrong forms of a definition that follows them.
No action uses
them: put in its place, each makes one property fail, which shows that the
property depends on that piece of code.

The memory is sequentially consistent in all modules: weak orderings are not
modelled. The kernel image is built with `panic = "abort"`.

**LockSpec** is the abstract lock: a client is granted it, shared or exclusive,
only when no other grant conflicts, and keeps it until it gives it back. `Mutex`
(without the condition variable), `RwLock` (with raw release), `IrqSpinLock` and
`PiMutex` (without exits) implement it. The refinement mappings, which give each
client's grant from its place in the code, stand beside the properties.

**SeqLock.** One step per access to the counter and per word of the data, so a
copy can be half old and half new. `committed` is a history variable: the data
in place at each even counter value. `read()` gives a guard; a copy is taken
word by word and validated by `is_valid()`, or validated first and copied after
(`get_valid()`).

**RwLock.** One step per atomic access. `NextRaw` is the client that releases
write access with `raw_write_unlock`; `NextGuard` drops write guards, whose
destructor also stores 0 into the inner spin lock.

**Mutex.** A section of the inner spin lock is one step: nothing else opens that
lock. `uses_cond`, chosen in the initial state, says whether clients use the
condition variable. `depth` is arithmetic modulo `DepthRange` (2^32 in the code).

**IrqSpinLock.** Each CPU has a thread and a handler; a handler starts when the
CPU's interrupt flag is on, takes the same lock and runs to its end before the
thread goes on. `use`, chosen in the initial state, is `lock_irqsave`,
`IrqSpinLock::lock`, or `IrqSpinLock` with `try_lock` as well.

**OnceLock.** The state machine of `call_once`, one step per access. `unwinds`
says whether a panic in the closure unwinds (host tests) or aborts (the kernel).

**Rcu.** CPUs with nested read sections, one protected pointer whose targets are
numbered, `synchronize_rcu` step by step over the CPUs (mark, wait, reset),
callbacks, the hook at a context switch. A setting, chosen in the initial state,
says who updates, whether waits may time out and whether `call_rcu` is used. In the
code a wait may always time out; the setting without timeouts is there because
`NoUseAfterFree` needs it.

**PiMutex.** One step per atomic store of `try_lock`, `recompute_and_notify` and
`do_unlock`; a section of the queue's lock is one step. A mode says whether
processes are preempted anywhere or switched only where the code yields, whether
they exit, and whether priorities change.

**Scheduler.** One CPU, SCHED_NORMAL processes. A system call's part up to and
including its call of `schedule()` is one step, because the kernel is not
preempted at process level; wake-ups come between any two steps. `vruntime` is 0
for everybody: only `Scheduler::tick` advances it and nothing calls that
function, so the CFS tree is a set of PIDs ordered by PID. `Free` is an empty
slot. `ExitHangs` is what `exit` does for a process that has ever forked: the
walk over its children is inside `with_process`, which holds the table lock, and
takes that lock again.

**Futex** extends `Scheduler`: one CPU, so a wait compares, registers and blocks
in one step, leaves the CPU in the scheduler's own step and removes its entry
when it is back. `OnlySchedulerSteps` says that, seen without the waiters, the
composition is the scheduler. A bucket has `FUTEX_BUCKET_CAPACITY` slots;
`hash_uaddr` is any function to buckets.

**InodeCache.** The hash table of `dcache.rs` slot by slot: probe sequences that end
at an empty slot or at an entry nearer to its own slot, displacement of such entries
on insertion, gaps that an invalidation leaves, reference counts. An inode may get a
second entry behind a gap. `insert` is the loop of the code, a recursive function of
the slots visited. `hash_key` is any function to slots. `unlink` is left out: it
invalidates as it ends the node, and the life of nodes is not modelled.

**OpenFiles** extends `InodeCache`. A step is what a call does while it holds a lock,
as far as the next lock it needs. The three locks that are held while another is waited for
are variables. Several threads are inside calls at once: `handle.rs:133-134`
takes its lock against two cores that close the same descriptor; one core is the
special case without overlap. Offsets are any (seek sets them); appending is
modelled for RAM files. `next_id` counts every open, failing ones included, and a
handle is its value modulo `ID_SPAN` (2^32 in the code). `use`, chosen in the initial
state, bounds which RAM files are opened, which descriptors are watched and how
often files are opened.

**HrTimer, TimerFd, PosixTimer, Timers.** The queue holds entries that point to
timers in the two tables. `hrtimer_start` is two steps, the stores before the
lock (`Announce`) and the section under it (`Enqueue`); the interrupt is the
scan (`RunQueues`), the callback in as many steps as it takes locks, and the
stores after it (`Finish`). The sequence numbers are fresh and compared only by
the call that drew them, so the caller's name stands for one. Calls and the timer
interrupt run on the boot CPU: the others halt after their start
(`smp_init.rs:281-320`) and have the timer masked. The locks of the queue and of the
tables are `IrqSpinLock`s, so a call that holds one and the interrupt exclude each
other (`AtRest`). `Advance` moves the clock between any two steps. The stable sort
after an insertion and after a run of the queues is `Arrange`, which gives every
entry the place that the number of entries before it in the order says.

## 3. Runs

| Run | Instance | Shows |
|---|---|---|
| `seq_pi` | sequence lock: 2 threads, 2 words, 2 values, 3 writes; priority-inheritance mutex: 2 preempted processes, or 3 cooperative ones that exit and change priority | `WritersExclude`, `ReadIsCommitted`, `VersionsAreImmutable`; `HolderTracked`, `EffectiveIsMax`, `QueuedOnce`, `ImplementsPiMutex` (refinement) |
| `locks` | mutex: 3 threads, with and without the condition variable; read/write lock: 3 threads, raw release; spin locks: 2 CPUs with handlers, three uses | `LockReturns` (liveness), `ImplementsLock` (refinement); `CountersExact`, `WritersGetIn` (liveness), `ImplementsRwLock` (refinement); `NoSelfDeadlock`, `IrqsaveFlagRestored`, `SpinReturns` (liveness), `ImplementsSpinLock` (refinement) |
| `rwlock_guard` | 3 threads, guard drops | **violated**: `ReadersWriters` |
| `irq_spinlock_flag` | 2 CPUs with handlers | **violated**: `LockFlagRestored` |
| `callbacks` | one-time cell: 2 threads, 2 values, both builds; RCU: 3 CPUs, targets 0 to 2, three settings; timers: one of each table; clock 0 to 2 | `ReadsComplete`, `SetTellsTruth`, `CompleteIsFinal`, `CallsReturn` (liveness); `NoUseAfterFree`, `SyncReturns`, `CallbacksRun` (liveness); `PendingIsQueued`, `OneEntry`, `ArmedWillFire`, `ExpirationIsReal`, `OneShotExpires` (liveness) |
| `timers_periodic` | one timer of each table | **violated**: `PeriodicStaysQueued` |
| `pi_mutex_handover` | 2 processes | **violated**: `LockReturns` |
| `processes_files` | scheduler and futex: table of 6; 3 futex words, 2 buckets of 2 slots; inode cache: 3 inodes, 3 slots, 2 threads; open files: 2 threads, 2 descriptors, 2 open files, numbers that wrap at 4, 1 RAM file | `TypeOK`, `ReadyIsQueued`, `TableWithinBitmap`, `SwitchesToLive`, `ZombieIsFinal`; `EntriesExact`, `OnlySchedulerSteps` (refinement); `SlotsExact`, `FillIsFound`; `RefsCovered`, `DeadlockNeedsWrite` |
| `scheduler_idle` | table of 6 | **violated**: `ScheduleFindsRunnable` |
| `futex_sleep` | table of 6; 3 futex words | **violated**: `SleepsUntilWoken` |
| `files_append` | open files as above, counts up to 2 | **violated**: `AppendNeverOverwrites` |
| `files_close` | the same | **violated**: `LastCloseDrops` |

Several properties carry a condition, because the code keeps the promise only
there. The comment of each property says so, and where the excluded case goes
wrong it is a hazard with a note in `PROJECT.json`: the condition variable's
second guard (`Mutex`), `try_lock` taking the lock before interrupts are off
(`IrqSpinLock`), an unwinding closure (`OnceLock`), the RCU timeout and
callbacks, process exit and preemption (`PiMutex`), a counter of open files that
has wrapped (`OpenFiles`), a full table (`InodeCache`).

**The eight violated properties.**

- `rwlock_guard`: the destructor of `RwLockWriteGuard` (`services/sync/types.rs:428`)
  clears the inner spin lock without holding it. A reader between its tests and
  its increment then shares the section with another thread, and a read guard
  and a write guard are alive together.
- `irq_spinlock_flag`: `depth` is one counter for all CPUs and is decremented
  after the unlock (`irq_spinlock.rs:256`). A release that overlaps another
  CPU's acquisition reads 2 and leaves interrupts off.
- `pi_mutex_handover`: a release with waiters sets `holder` and `locked` for the
  next process (`pi_mutex.rs:647-648`), which waits in `lock()` for `locked` to
  be clear and never looks at `holder`.
- `scheduler_idle`: `pick_cfs_task` looks at the leftmost entry only. When it
  belongs to an exited process it is put back under the same key
  (`scheduler.rs:457`), and `schedule()` returns `None` while Ready processes are
  queued behind it.
- `futex_sleep`: `futex_wait` blocks the caller and calls `schedule()`, which sets the
  process it leaves Ready and queues it, whatever its state (`scheduler.rs:676-678`).
  The waiter runs again and returns from `FUTEX_WAIT` with its entry in the bucket and
  no wake-up. It also means that a wake-up that is missed has no consequence.
- `files_append`: every `stat` that hits the inode cache takes a reference nobody
  gives back, and `icache_invalidate` removes an entry only at count 0. After two
  opens a write leaves the old size in the cache, and the next `O_APPEND` write
  starts there.
- `files_close`: the open-file table's `dec_ref` compares the value before the
  decrement with 0, so the close of the last reference leaves the entry in place.
- `timers_periodic`: a periodic timer expires once. The POSIX callback returns
  `Periodic`, but `HrTimer::interval_ns` is always 0 and `hrtimer.rs:434` makes the
  timer Inactive; the descriptor's callback starts the timer itself and returns
  `OneShot`, on which lines 415-418 make it Inactive again.

**Why the bounds are enough.** Two threads show every race of two accesses; three
are used where a third party matters (a writer between two readers, a thread
that takes the lock in somebody else's window, two updaters and a reader). Three
writes let a reader be overtaken by a whole write and a half. `MaxHold` is 1:
with 2 the recursive read and the recursive lock deadlock, which the hazards
record. `DepthRange` 4 lets the depth wrap. A table of six is the smallest in
which the PID scan wraps, PID 0 comes up, and two children exist beside the first
process. Three futex words in two buckets are the fewest with two words in one
bucket and one in another. Two descriptors and two open files let a descriptor
be closed, its number taken over and its file outlived by a second reference; five
opens with numbers that wrap at 4 go through the table, beyond it and around. Three
inodes of which two hash to one slot and the third to the next are the fewest with a
displacement, and three slots let a gap open before an entry;
`DUP_LIMIT` 3 is above `VFS_MAX_FDS` 2 as 256 is above 32. A clock that reads 0,
1 and 2, delays of 1 and 2 and intervals of 0 and 1 give timers that are due, not
due yet and overdue, in both orders. Where the bounds limit behaviour (writes, targets, calls of `lock`) the
proofs of section 5 remove them for the safety properties they cover.

Symmetry is used in `seq_pi`, `rwlock_guard` and the runs of `OpenFiles`,
none of which checks liveness. Deadlock checking is off where the system may
stop: `locks` and `irq_spinlock_flag` (a CPU stopped by `try_lock`; a thread that
spins changes nothing, and the liveness properties say that it does not do so for
ever), `PiMutex` (all calls made), `Scheduler` (powered off,
or hung in `exit`) and `OpenFiles` (the deadlock of section 6, or a panic).

## 4. Fairness

- A thread or CPU inside a call keeps being executed (`WF` on its steps). The
  locks spin or yield and never sleep, so this is the fairness of the CPU itself.
- A compare-exchange that finds the lock free again and again succeeds in the end
  (`SF` on the acquiring step). The spin loops of the code retry for ever and
  promise nothing stronger; without it a plain spin lock starves in any model.
- Clients give their guards back and read sections end. This is what the guards'
  types are for, and no lock works without it.
- Timer interrupts keep coming: one that is raised while interrupts are off is
  taken when they are on again (`SF` on `Tick`), and the handler goes on (`WF` on
  `Interrupt`).
- The boot CPU, which runs the processes, switches context outside read sections
  again and again (`SF` on `NoteQuiescentState(BootCpu)`): that is when its callbacks
  run. Nothing is assumed of the other CPUs, which halt and do not switch;
  `synchronize_rcu` returns all the same, because its wait times out.

Fairness of the runs that check liveness is stated in `MCLocks` and
`MCCallbacks`; conditions of components that never share a behaviour share a
formula there. `pi_mutex_handover` is violated under the fairness of
`PiMutex!FairSpec`. Nothing is assumed of the
scheduler, about which no liveness is claimed: with `tick` unconnected a process
with a large PID can wait for ever.

## 5. Proofs

All proofs are for arbitrary constants within the named assumptions of the
modules. Each has the same form: an inductive invariant, one lemma for the
initial states, one step per action, and a temporal step.

| Theorem | Statement | Inductive invariant: why the property alone is not enough |
|---|---|---|
| `CellProofs!ValidatedReadIsCommitted`, `WriterExclusion`, `PublishedVersionsStay` | `ReadIsCommitted`, `WritersExclude`, `VersionsAreImmutable` | the counter is odd exactly while a guard exists; at an even counter the data is the version it names; what a reader has copied belongs to the version it loaded as long as the counter has not moved |
| `RwLockProofs!ReadersWritersExclude`, `ExactCounters`, `RwLockImplementsLock` | `ReadersWriters`, `CountersExact`, `ImplementsRwLock` under `SpecRaw` | one thread in a section of the inner lock; what it has tested there still holds when it acts, although read guards are dropped outside |
| `LockProofs!MutualExclusion`, `MutexImplementsLock` | `Exclusion`, `ImplementsLock` without the condition variable | a locked mutex has depth one and exactly the owner's guard, so every release opens it |
| `LockProofs!HandlerNeverDeadlocks`, `FlagComesBack`, `SpinImplementsLock` | `NoSelfDeadlock`, `IrqsaveFlagRestored`, `ImplementsSpinLock` | one holder among all threads and handlers; while a handler runs, and while a thread is anywhere between `cli` and its release, interrupts are off on that CPU; the flag the thread chose is in the CPU, in the guard, or was on because the handler came |
| `CellProofs!ReadsAreComplete`, `SetIsTruthful`, `CompleteCellIsFinal` | `ReadsComplete`, `SetTellsTruth`, `CompleteIsFinal` | one winner exactly while `IN_PROGRESS`; a thread that has stopped waiting finds the cell complete |
| `CellProofs!GracePeriodProtects` | `NoUseAfterFree` | once marked, a report says that the CPU has let go of the old target, also when updaters overlap on the same word |
| `PiMutexProofs!MutualExclusion`, `PiMutexImplementsLock` | `OneInside`, `ImplementsPiMutex` without exits | one owner of the lock word from the exchange to the store that opens it; the other three words may be anything |
| `PiMutexProofs!OneEntryEach` | `QueuedOnce` | inductive with the types: registration appends only a process that is not queued, and the other operations drop entries or change their priority |
| `PiMutexProofs!ExitFindsHolder` | `HolderTracked` | at every step, not only at rest: the recorded holder is in the registry, or is about to enter itself, or is being entered by the process that hands the lock to it, or is in its exit (`RegistryInv`) |
| `PiMutexProofs!DonationIsExact` | `EffectiveIsMax` | for switches at yields only: one process is inside an operation, what it has computed still fits the words, and between operations the mutex is locked exactly when it has a holder, has no waiters when open, and has the higher of the holder's priority and the waiters' best, where a waiter that a handover has taken off the queue still counts (`CoopInv`) |
| `SchedulerProofs!ReadyNeverLost`, `PidsNeverShared`, `SwitchesOnlyToLive`, `ExitIsFinal` | `ReadyIsQueued`, `TableWithinBitmap`, `SwitchesToLive`, `ZombieIsFinal` | only the process on the CPU is Running or Blocked, no process being created is in the tree, the current process has not exited while the machine is up |
| `SchedulerProofs!FutexTableExact`, `FutexKeepsScheduler` | `EntriesExact`, `OnlySchedulerSteps` | the waiters of each bucket and their count, with the scheduler's invariant, which carries over because every futex step is a step of the scheduler |
| `SchedulerProofs!SchedulerTypes` | `TypeOK` | with the invariant above for the PIDs that `schedule()` hands out |
| `OpenFilesProofs!NoReleaseUnderHolder`, `DeadlocksGoThroughWrite` | `RefsCovered`, `DeadlockNeedsWrite` | references counted as a set of holders, slots and calls by where they are in the code; until the counter wraps, numbers below `next_id` are never given out again (`UnwrappedInv`); who holds each lock follows from the place in the code |
| `TimerProofs!NoEntryLost`, `NoDoubleEntry` | `PendingIsQueued`, `OneEntry` | the types, which tie each call and each stage of the interrupt to its table: a timer leaves the queue only in the step that changes its state, the scan makes a timer Running before it looks at the next entry (`QueueInv`), and a start that is under way is the last to have written the timer's number, so that it removes the entry it finds (`StartInv`) |
| `TimerProofs!ArmedTimersFire`, `ExpirationsAreReal` | `ArmedWillFire`, `ExpirationIsReal` | one call or interrupt at a time; what a start has written is unchanged until it has the lock; the queue without the timer being started is in order; how far a callback is, for each timer of the list it works off, in state, arming and count (`OneCpu`) |

The scheduler's invariant is stated for any states, tree and current process,
because `exit` calls `schedule()` in the middle of its changes; lemmas say what
`schedule()`, a wake-up, a stop and the first half of `exit` each do to it, and
the actions are composed from them. Two facts make it work: the state machine
refuses Zombie to Ready, and a process that is Blocked is always the current one,
because `schedule()` sets the process it leaves Ready.

The timers rest on what the queue's sort returns: the entries at the given
positions, each once, in the order of expiry and of arrival. `TimerSteps` states
that, and that a set of numbers has a least one, as `SequenceFacts` and takes it as
a hypothesis of its lemmas; `TimerProofs` proves it (`FactsHold`) by counting: the
place of an entry is one more than the number of entries before it, distinct
entries have distinct places, and n different places from 1 to n are all of them.
The least element is found among the numbers up to any member, which are finitely
many. No step of the argument is an induction over the queue.

**Only model-checked**: the liveness properties (`LockReturns`, `WritersGetIn`,
`SpinReturns`, `CallsReturn`, `SyncReturns`, `CallbacksRun`, `OneShotExpires`), which
are outside the prover's reach, and `SlotsExact` and `FillIsFound`: what the loop of
`insert` leaves in the table is an induction over the slots. Every other invariant,
action property and refinement of a passing run is proved; where a run's property is about one of several components,
the theorem is about the component's own specification. `Exclusion`,
`ReadersWriters` (under `SpecRaw`) and `OneInside` are proved as well and contained
in the refinements that the runs check. A type invariant is a property of the run
`processes_files`; in the other modules with proofs it is part of the inductive
invariant.

`tlapm` needs about nine minutes for `TimerSteps` and less for every other module.

## 6. What else the models show

Behaviour of the code that is in the models and is no property of a run:

- `block()` followed by `schedule()` keeps no process off the CPU, whoever calls it
  (`scheduler.rs:616-679`): the run `futex_sleep` shows it for the futex.
- `exit` never returns from its walk over the children once a process has forked
  (`scheduler.rs:856-876`), so reparenting is not reached.
- A fork that fails after the PID was allocated leaves its bit set. PIDs 0 and 1
  are not reserved in the bitmap, although `process.rs:526` says so; a fork that
  draws PID 0 fails and leaks it.
- A process whose state is Ready while it runs (the first process until it is
  switched) cannot become a zombie, and its `exit` may return to it.
- `wait4` leaves reaped PIDs in the parent's list and waits for a zombie only,
  although `wait4.rs:20` mentions Terminated.
- Among waiters of equal priority the priority-inheritance mutex picks the last
  (`pi_mutex.rs:602`), where its comment says FIFO.
- A recursive `lock()` of the mutex and a recursive read with a writer pending wait
  for ever (`mutex.rs:145`, `rwlock.rs:235`), although both files promise recursion;
  the runs keep `MaxHold` = 1.
- Only `Scheduler::tick` advances `vruntime` and nothing calls it, so a process with
  a larger PID can wait for ever.
- `FUTEX_WAKE` never finds its process Blocked, since `schedule()` has set it Ready.
  A requeued waiter stays in its old bucket, so a wake on the new address may miss
  it; it returns all the same. `futex.rs:9` says that `val` waiters are migrated,
  where the code wakes `val` and migrates `val2`.
- `write` sends epoll's wake-up from inside `with_file`, with the open-file table
  locked, although `epoll.rs:370` says the wake-up is called outside the locks. A
  wake-up needs the descriptor table, which `dup` holds while it waits for the
  open-file table: a deadlock that the model reaches.
- `dup` and `dup2` test a descriptor against 256 while the table has 32 slots
  (`handle.rs:710`, `721`): a number in between stops the kernel with an index out
  of bounds (`kernel`).
- After 2^32 opens, failing ones included, the handle numbers start again and `alloc`
  replaces entries that descriptors still refer to (`open_file_table.rs:38-44`). The
  run goes past the wrap; `RefsCovered` speaks of the time before.
- An inode can be in the inode cache twice: an insertion fills a gap before the entry
  it has. When the first is invalidated and its slot taken by another inode, the
  second, with an older size, is found again. A displaced entry that settles in an empty slot loses
  its reference count (`dcache.rs:475`). No promise about sizes survives that, beyond
  what `FillIsFound` says of the moment after an insertion.
- `hrtimer_cancel` does not wait for a callback that runs, although `hrtimer.rs:341`
  says so. On the boot CPU no call runs while a callback does. If a second CPU served
  calls, the stores after the callback (`hrtimer.rs:416-417`) would race them.
- `sys_timerfd_close` does not give the descriptor back to the allocator, and
  `posix_timer_release_pid`, which `posix_timer.rs:624` wants called on exit, has no
  caller.

## 7. Not modelled, and the plan

The `components` of `PROJECT.json` list every part with its reason. In the order
they are to be taken up:

1. **Pipes** (`services/ipc/pipe.rs`), reached through `sys_pipe`, `sendfile` and
   `splice`: no byte lost or duplicated, refinement of a bounded FIFO queue.
   Semaphores and message queues have no caller.
2. **Sleepers** (`sleep.rs`): `timer_sleep` has one PID for all sleepers and a timer
   on its own stack, whose entry stays in the queue after it returns.
3. **Signals, kernel threads** (`signal.rs`, `scheduler_ex.rs`): pending sets, the
   second run queue.
4. **Lock dependency checker** (`lockdep.rs`) as a graph algorithm; io_uring's rings.

Left out because nothing reaches them: barrier recovery (only the panic path and
`Scheduler::tick`, which nothing calls), `process_kill`, file locks (every call is
refused), mapped files (refused) and the page cache (never filled). The undo log
writes an entry back only when the field is unchanged since (`undo_log.rs:96`).

Left out for good: hardware-bound code (drivers, architecture, boot), on-disk
formats, the adapted TCP/IP stack, the Wasm interpreter and cryptography. They
are sequential or depend on devices that are not in the repository.
`Scheduler` has one CPU, so load balancing, which starts once a second CPU has
registered, is left out of it; so are the deadline and real-time classes, whose
queues nothing in the kernel fills.
