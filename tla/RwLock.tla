------------------------------- MODULE RwLock -------------------------------
(***************************************************************************)
(* The writer-preferring read/write lock of                                *)
(* src/kernel/framework/sync/rwlock.rs, with the guards and the inner spin *)
(* lock of src/kernel/services/sync/types.rs.                              *)
(*                                                                         *)
(* One step per atomic access, because the guards' destructors do not take *)
(* the inner spin lock and so interleave with the sections it protects.    *)
(* A thread's program counter names the access it performs next.           *)
(***************************************************************************)
EXTENDS LockClients

VARIABLES lock,            \* RwLockInner::lock.locked
          readers,         \* RwLockInner::readers
          writer,          \* RwLockInner::writer
          pending_writers, \* RwLockInner::pending_writers
          held,            \* read guards (counted acquisitions) of each thread
          op,              \* the call a thread is in
          pc               \* the access it performs next

vars == <<lock, readers, writer, pending_writers, held, op, pc>>

Init == /\ lock = 0
        /\ readers = 0
        /\ writer = 0
        /\ pending_writers = 0
        /\ held = [t \in Threads |-> 0]
        /\ op = [t \in Threads |-> "none"]
        /\ pc = [t \in Threads |-> "idle"]

Goto(t, label) == pc' = [pc EXCEPT ![t] = label]

\* A thread enters one of the four acquiring calls; write() announces itself
\* as a pending writer first, try_write() does not.
Call(t, call, label) ==
  /\ pc[t] = "idle"
  /\ op' = [op EXCEPT ![t] = call]
  /\ Goto(t, label)
  /\ UNCHANGED <<lock, readers, writer, pending_writers, held>>

\* A thread may ask for a second read guard while it holds one.
CallRead(t)     == held[t] < MaxHold /\ Call(t, "read", "r_lock")
CallTryRead(t)  == held[t] < MaxHold /\ Call(t, "try_read", "r_lock")
CallWrite(t)    == held[t] = 0 /\ Call(t, "write", "p_lock")
CallTryWrite(t) == held[t] = 0 /\ Call(t, "try_write", "w_lock")

(***************************************************************************)
(* The inner spin lock.                                                    *)
(***************************************************************************)

\* Where raw_lock() leads, and where raw_unlock() leads.
AfterLock == [r_lock |-> "r_writer", p_lock |-> "p_add", w_lock |-> "w_readers",
              ru_lock |-> "ru_sub", wu_lock |-> "wu_swap"]

AfterUnlock(t) ==
  [r_exit |-> "idle", p_exit |-> "w_lock", w_exit |-> "writing",
   ru_exit |-> "idle", wu_exit |-> "idle",
   r_fail |-> IF op[t] = "try_read" THEN "idle" ELSE "r_lock",
   w_fail |-> IF op[t] = "try_write" THEN "idle" ELSE "w_lock"]

\* SpinLockInner::raw_lock: spin until the compare-exchange succeeds.
RawLock(t) ==
  /\ pc[t] \in DOMAIN AfterLock
  /\ lock = 0
  /\ lock' = 1
  /\ Goto(t, AfterLock[pc[t]])
  /\ UNCHANGED <<readers, writer, pending_writers, held, op>>

\* SpinLockInner::raw_unlock; a failed blocking call yields and starts again.
RawUnlock(t) ==
  /\ pc[t] \in DOMAIN AfterUnlock(t)
  /\ lock' = 0
  /\ Goto(t, AfterUnlock(t)[pc[t]])
  /\ UNCHANGED <<readers, writer, pending_writers, held, op>>

(***************************************************************************)
(* raw_read_lock and raw_try_read.                                         *)
(***************************************************************************)

ReadLoadWriter(t) ==
  /\ pc[t] = "r_writer"
  /\ Goto(t, IF writer = 0 THEN "r_pending" ELSE "r_fail")
  /\ UNCHANGED <<lock, readers, writer, pending_writers, held, op>>

\* Faulty variant: readers do not give way to pending writers.
ReadIgnoresPending(t) ==
  /\ pc[t] = "r_pending"
  /\ Goto(t, "r_add")
  /\ UNCHANGED <<lock, readers, writer, pending_writers, held, op>>

ReadLoadPending(t) ==
  /\ pc[t] = "r_pending"
  /\ Goto(t, IF pending_writers = 0 THEN "r_add" ELSE "r_fail")
  /\ UNCHANGED <<lock, readers, writer, pending_writers, held, op>>

ReadAdd(t) ==
  /\ pc[t] = "r_add"
  /\ readers' = readers + 1
  /\ held' = [held EXCEPT ![t] = @ + 1]
  /\ Goto(t, "r_exit")
  /\ UNCHANGED <<lock, writer, pending_writers, op>>

(***************************************************************************)
(* raw_write_lock and raw_try_write.                                       *)
(***************************************************************************)

PendingAdd(t) ==
  /\ pc[t] = "p_add"
  /\ pending_writers' = pending_writers + 1
  /\ Goto(t, "p_exit")
  /\ UNCHANGED <<lock, readers, writer, held, op>>

WriteLoadReaders(t) ==
  /\ pc[t] = "w_readers"
  /\ Goto(t, IF readers = 0 THEN "w_writer" ELSE "w_fail")
  /\ UNCHANGED <<lock, readers, writer, pending_writers, held, op>>

\* Faulty variant: the writer flag is not tested.
WriteIgnoresWriter(t) ==
  /\ pc[t] = "w_writer"
  /\ Goto(t, IF op[t] = "write" THEN "w_unpend" ELSE "w_set")
  /\ UNCHANGED <<lock, readers, writer, pending_writers, held, op>>

WriteLoadWriter(t) ==
  /\ pc[t] = "w_writer"
  /\ Goto(t, IF writer # 0 THEN "w_fail"
             ELSE IF op[t] = "write" THEN "w_unpend" ELSE "w_set")
  /\ UNCHANGED <<lock, readers, writer, pending_writers, held, op>>

\* Faulty variant: the pending mark is left behind.
PendingKept(t) ==
  /\ pc[t] = "w_unpend"
  /\ Goto(t, "w_set")
  /\ UNCHANGED <<lock, readers, writer, pending_writers, held, op>>

PendingSub(t) ==
  /\ pc[t] = "w_unpend"
  /\ pending_writers' = pending_writers - 1
  /\ Goto(t, "w_set")
  /\ UNCHANGED <<lock, readers, writer, held, op>>

WriteSet(t) ==
  /\ pc[t] = "w_set"
  /\ writer' = 1
  /\ Goto(t, "w_exit")
  /\ UNCHANGED <<lock, readers, pending_writers, held, op>>

(***************************************************************************)
(* Releasing.                                                              *)
(***************************************************************************)

\* Drop for RwLockReadGuard: one fetch_sub, no inner lock.
DropReadGuard(t) ==
  /\ pc[t] = "idle"
  /\ held[t] > 0
  /\ readers' = readers - 1
  /\ held' = [held EXCEPT ![t] = @ - 1]
  /\ UNCHANGED <<lock, writer, pending_writers, op, pc>>

\* raw_read_unlock and raw_write_unlock go through the inner lock.
CallRawReadUnlock(t) ==
  /\ pc[t] = "idle"
  /\ held[t] > 0
  /\ Goto(t, "ru_lock")
  /\ UNCHANGED <<lock, readers, writer, pending_writers, held, op>>

RawReadUnlockSub(t) ==
  /\ pc[t] = "ru_sub"
  /\ readers' = readers - 1
  /\ held' = [held EXCEPT ![t] = @ - 1]
  /\ Goto(t, "ru_exit")
  /\ UNCHANGED <<lock, writer, pending_writers, op>>

CallRawWriteUnlock(t) ==
  /\ pc[t] = "writing"
  /\ Goto(t, "wu_lock")
  /\ UNCHANGED <<lock, readers, writer, pending_writers, held, op>>

RawWriteUnlockSwap(t) ==
  /\ pc[t] = "wu_swap"
  /\ writer' = 0
  /\ Goto(t, "wu_exit")
  /\ UNCHANGED <<lock, readers, pending_writers, held, op>>

\* Drop for RwLockWriteGuard: clear the writer flag, then store 0 into the
\* inner spin lock, which this thread does not hold.
DropWriteGuard(t) ==
  /\ pc[t] = "writing"
  /\ writer' = 0
  /\ Goto(t, "d_force")
  /\ UNCHANGED <<lock, readers, pending_writers, held, op>>

DropWriteGuardForce(t) ==
  /\ pc[t] = "d_force"
  /\ lock' = 0
  /\ Goto(t, "idle")
  /\ UNCHANGED <<readers, writer, pending_writers, held, op>>

Acquire(t) == \/ CallRead(t) \/ CallTryRead(t) \/ CallWrite(t) \/ CallTryWrite(t)
              \/ ReadLoadWriter(t) \/ ReadLoadPending(t) \/ ReadAdd(t)
              \/ PendingAdd(t) \/ WriteLoadReaders(t) \/ WriteLoadWriter(t)
              \/ PendingSub(t) \/ WriteSet(t)

ReleaseRead(t) == DropReadGuard(t) \/ CallRawReadUnlock(t) \/ RawReadUnlockSub(t)

ReleaseWriteRaw(t) == CallRawWriteUnlock(t) \/ RawWriteUnlockSwap(t)

ReleaseWriteGuard(t) == DropWriteGuard(t) \/ DropWriteGuardForce(t)

\* Write access released through raw_write_unlock.
StepRaw(t) == RawLock(t) \/ RawUnlock(t) \/ Acquire(t) \/ ReleaseRead(t) \/ ReleaseWriteRaw(t)

NextRaw == \E t \in Threads : StepRaw(t)

SpecRaw == Init /\ [][NextRaw]_vars

\* Write access released by dropping the guard that write() returns.
StepGuard(t) == StepRaw(t) \/ ReleaseWriteGuard(t)

NextGuard == \E t \in Threads : StepGuard(t)

SpecGuard == Init /\ [][NextGuard]_vars

\* A step of a call that is not a spin on the inner lock.
Inside(t) == pc[t] # "idle" /\ pc[t] \notin DOMAIN AfterLock /\ StepRaw(t)

(***************************************************************************)
(* Properties.                                                             *)
(***************************************************************************)

\* Threads inside a section of the inner spin lock.
SectionLabels == {"r_writer", "r_pending", "r_add", "r_exit", "r_fail", "p_add", "p_exit",
                  "w_readers", "w_writer", "w_unpend", "w_set", "w_exit", "w_fail",
                  "ru_sub", "ru_exit", "wu_swap", "wu_exit"}

Labels == {"idle", "writing", "d_force"} \cup SectionLabels \cup DOMAIN AfterLock

\* Every variable has its type.
TypeOK == /\ lock \in {0, 1}
          /\ readers \in Nat
          /\ writer \in {0, 1}
          /\ pending_writers \in Nat
          /\ held \in [Threads -> 0..MaxHold]
          /\ op \in [Threads -> {"none", "read", "try_read", "write", "try_write"}]
          /\ pc \in [Threads -> Labels]

\* The read guards alive, as <<thread, n>> for its n-th guard.
ReadGuards == {g \in Threads \X (1..MaxHold) : g[2] <= held[g[1]]}

\* Threads with write access: from the store into the writer flag to the
\* store that clears it.
WriteHolders == {t \in Threads : pc[t] \in {"w_exit", "writing", "wu_lock", "wu_swap"}}

\* rwlock.rs:136 "only one writer at a time", and read guards exclude a
\* writer: the SAFETY comments at rwlock.rs:93 and rwlock.rs:142 rest on it.
ReadersWriters == /\ \A t, u \in WriteHolders : t = u
                  /\ WriteHolders = {} \/ ReadGuards = {}

\* The grant of each thread.
Granted == [t \in Threads |-> IF t \in WriteHolders THEN "exclusive"
                              ELSE IF held[t] > 0 THEN "shared" ELSE "none"]

Abstract == INSTANCE LockSpec WITH Clients <- Threads, mode <- Granted

\* rwlock.rs:136: with write access released through raw_write_unlock, the
\* accesses to the four words, one at a time, add up to a read/write lock.
ImplementsRwLock == Abstract!Spec

\* The write() calls that have announced themselves and not got in yet.
Announced ==
  {t \in Threads :
     \/ pc[t] = "p_exit"
     \/ op[t] = "write" /\ pc[t] \in {"w_lock", "w_readers", "w_writer", "w_unpend", "w_fail"}}

\* The counters say what they count even though the guards' destructors do
\* not take the inner lock: `readers` the read guards alive, `pending_writers`
\* the announced writers.  A count too high blocks the lock for ever, one too
\* low lets a writer in beside a reader.
CountersExact == /\ readers = Cardinality(ReadGuards)
                 /\ pending_writers = Cardinality(Announced)

\* rwlock.rs:7 "writer preference: no writer starvation": once a write() has
\* announced itself, some writer gets in, however many readers come and go.
WritersGetIn == pending_writers > 0 ~> writer = 1
=============================================================================
