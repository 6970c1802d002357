------------------------------- MODULE Mutex -------------------------------
(***************************************************************************)
(* The spin-and-yield mutex and the condition variable of                  *)
(* src/kernel/framework/sync/mutex.rs, with the guard of                   *)
(* src/kernel/services/sync/types.rs.                                      *)
(*                                                                         *)
(* Every update of the mutex is made in a section of its inner spin lock,  *)
(* which nothing else opens, so one section is one step.  A test that      *)
(* finds the mutex taken changes nothing and is not a step.                *)
(***************************************************************************)
EXTENDS LockClients

VARIABLES locked,   \* MutexInner::locked
          owner,    \* MutexInner::owner
          depth,    \* MutexInner::depth
          guards,   \* MutexGuard values each thread has alive
          waiters,  \* CondVar::waiters
          mutex_pc, \* where a thread is
          uses_cond \* whether the clients use the condition variable: never changes

mutex_vars == <<locked, owner, depth, guards, waiters, mutex_pc, uses_cond>>

NoOwner == "none"

MutexInit == /\ locked = 0
             /\ owner = NoOwner
             /\ depth = 0
             /\ guards = [t \in Threads |-> 0]
             /\ waiters = 0
             /\ mutex_pc = [t \in Threads |-> "run"]
             /\ uses_cond \in BOOLEAN

MutexGoto(t, label) == mutex_pc' = [mutex_pc EXCEPT ![t] = label] /\ UNCHANGED uses_cond

GuardCreated(t) == guards' = [guards EXCEPT ![t] = @ + 1]

GuardDropped(t) == guards' = [guards EXCEPT ![t] = @ - 1]

\* acquire_lock_internal: the depth restarts at one whatever it was.
AcquireLockInternal(t) ==
  /\ locked' = 1
  /\ owner' = t
  /\ depth' = 1

\* Faulty variant: the last release keeps the lock word.
KeepLocked ==
  /\ depth' = (depth - 1) % DepthRange
  /\ UNCHANGED locked
  /\ owner' = IF depth <= 1 THEN NoOwner ELSE owner

\* raw_unlock, and the guard's destructor: neither looks at who is calling.
MutexRawUnlock ==
       /\ depth' = (depth - 1) % DepthRange
       /\ locked' = IF depth <= 1 THEN 0 ELSE locked
       /\ owner' = IF depth <= 1 THEN NoOwner ELSE owner

(***************************************************************************)
(* Mutex.                                                                  *)
(***************************************************************************)

Lock(t) ==
  /\ mutex_pc[t] = "run"
  /\ guards[t] < MaxHold
  /\ MutexGoto(t, "lock")
  /\ UNCHANGED <<locked, owner, depth, guards, waiters>>

\* Faulty variant: the lock word is not tested.
MutexRawLockUnchecked(t) ==
       /\ mutex_pc[t] = "lock"
       /\ AcquireLockInternal(t)
       /\ GuardCreated(t)
       /\ MutexGoto(t, "run")
       /\ UNCHANGED waiters

\* raw_lock: the pass of the fast path or of the loop that finds it free.
MutexRawLock(t) ==
       /\ mutex_pc[t] = "lock"
       /\ locked = 0
       /\ AcquireLockInternal(t)
       /\ GuardCreated(t)
       /\ MutexGoto(t, "run")
       /\ UNCHANGED waiters

MutexTryLock(t) ==
       /\ mutex_pc[t] = "run"
       /\ guards[t] < MaxHold
       /\ locked = 0
       /\ AcquireLockInternal(t)
       /\ GuardCreated(t)
       /\ UNCHANGED <<waiters, mutex_pc, uses_cond>>

DropGuard(t) ==
  /\ mutex_pc[t] = "run"
  /\ guards[t] > 0
  /\ MutexRawUnlock
  /\ GuardDropped(t)
  /\ UNCHANGED <<waiters, mutex_pc, uses_cond>>

(***************************************************************************)
(* CondVar.  wait and wait_timeout differ in how they pass the time        *)
(* between releasing the mutex and asking for it again; neither looks for  *)
(* a signal, so signal and broadcast, which only yield, have no action.    *)
(***************************************************************************)

Wait(t) ==
  /\ uses_cond
  /\ mutex_pc[t] = "run"
  /\ guards[t] > 0
  /\ waiters' = waiters + 1
  /\ MutexGoto(t, "wait_unlock")
  /\ UNCHANGED <<locked, owner, depth, guards>>

\* The caller's guard stays alive while the mutex is released under it.
WaitUnlock(t) ==
  /\ mutex_pc[t] = "wait_unlock"
  /\ MutexRawUnlock
  /\ MutexGoto(t, "wait_lock")
  /\ UNCHANGED <<guards, waiters>>

WaitLock(t) ==
  /\ mutex_pc[t] = "wait_lock"
  /\ locked = 0
  /\ AcquireLockInternal(t)
  /\ GuardCreated(t)
  /\ MutexGoto(t, "wait_drop")
  /\ UNCHANGED waiters

\* The guard that lock() returned is not bound to a name: it is dropped at
\* the end of the statement.
WaitDrop(t) ==
  /\ mutex_pc[t] = "wait_drop"
  /\ MutexRawUnlock
  /\ GuardDropped(t)
  /\ MutexGoto(t, "wait_return")
  /\ UNCHANGED waiters

WaitReturn(t) ==
  /\ mutex_pc[t] = "wait_return"
  /\ waiters' = waiters - 1
  /\ MutexGoto(t, "run")
  /\ UNCHANGED <<locked, owner, depth, guards>>

LockStep(t) == Lock(t) \/ MutexRawLock(t) \/ MutexTryLock(t) \/ DropGuard(t)

WaitStep(t) == Wait(t) \/ WaitUnlock(t) \/ WaitLock(t) \/ WaitDrop(t) \/ WaitReturn(t)

MutexNext == \E t \in Threads : LockStep(t) \/ WaitStep(t)

MutexSpec == MutexInit /\ [][MutexNext]_mutex_vars

(***************************************************************************)
(* Properties.                                                             *)
(***************************************************************************)

MutexLabels == {"run", "lock", "wait_unlock", "wait_lock", "wait_drop", "wait_return"}

\* Every variable has its type.
MutexTypeOK == /\ locked \in {0, 1}
               /\ owner \in Threads \cup {NoOwner}
               /\ depth \in 0..(DepthRange - 1)
               /\ guards \in [Threads -> Nat]
               /\ waiters \in Nat
               /\ mutex_pc \in [Threads -> MutexLabels]
               /\ uses_cond \in BOOLEAN

\* Threads that may touch the protected data through a guard.
Users == {t \in Threads : guards[t] > 0 /\ mutex_pc[t] \in {"run", "wait_unlock"}}

\* mutex.rs:52 "only one thread holds the lock at a time": the guards that
\* lock() and try_lock() hand out keep the data to one thread, as long as the
\* clients leave the condition variable alone: wait() frees the mutex under
\* the guard of its caller (WaitUnlock) and returns without it (WaitDrop).
Exclusion == ~uses_cond => \A t, u \in Users : t = u

\* The grant of each thread: a guard alive is the lock held, exclusively.
\* Clients of the condition variable are left out.
MutexGranted == [t \in Threads |-> IF ~uses_cond /\ guards[t] > 0 THEN "exclusive" ELSE "none"]

MutexAbstract == INSTANCE LockSpec WITH Clients <- Threads, mode <- MutexGranted

\* mutex.rs:52: the mutex implements the lock that its clients count on.
ImplementsLock == MutexAbstract!Spec

\* Whatever wait() does to the owner and the depth, no release is lost: a
\* thread that asks for the mutex gets it.
LockReturns == \A t \in Threads : mutex_pc[t] \in {"lock", "wait_lock"} ~> mutex_pc[t] = "run"
=============================================================================
