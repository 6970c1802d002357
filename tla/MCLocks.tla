------------------------------ MODULE MCLocks ------------------------------
(***************************************************************************)
(* The locks that threads wait for, the mutex, the read/write lock and the *)
(* interrupt-safe spin locks, on a small instance.  Each behaviour is one  *)
(* of the lock that `which` names.                                         *)
(***************************************************************************)
EXTENDS RwLock, Mutex, IrqSpinLock

VARIABLE which

all == <<which, vars, mutex_vars, spin_vars>>

MCInit == /\ which \in {"mutex", "rwlock", "spin"}
          /\ MutexInit /\ (which # "mutex" => ~uses_cond)
          /\ SpinInit /\ (which # "spin" => use = "lock")
          /\ Init

\* Only the lock that `which` names is used.
IsMutex == which = "mutex" /\ UNCHANGED <<which, vars, spin_vars>>
IsRwLock == which = "rwlock" /\ UNCHANGED <<which, mutex_vars, spin_vars>>
IsSpin == which = "spin" /\ UNCHANGED <<which, vars, mutex_vars>>

MCNext == \/ IsMutex /\ MutexNext
          \/ IsRwLock /\ NextRaw
          \/ IsSpin /\ SpinNext

\* A thread inside a call keeps being executed, as on a CPU of its own; one that
\* finds the lock free again and again ends up taking it, and a client does not
\* keep a guard for ever.  A CPU keeps executing the context that runs on it.  Nothing is
\* assumed about new calls.  A thread asks for one thing at a time, and a
\* behaviour is of one lock, so their conditions share a formula.
MCFairness ==
  \A t \in Threads :
    /\ SF_all(\/ IsMutex /\ (MutexRawLock(t) \/ WaitLock(t))
              \/ IsRwLock /\ RawLock(t)
              \/ t \in CPUs /\ IsSpin /\ SpinStep(Thread(t)))
    /\ SF_all(\/ IsMutex /\ DropGuard(t)
              \/ IsRwLock /\ DropReadGuard(t)
              \/ t \in CPUs /\ IsSpin /\ SpinStep(Isr(t)))
    /\ WF_all(\/ IsMutex /\ (WaitUnlock(t) \/ WaitDrop(t) \/ WaitReturn(t))
              \/ IsRwLock /\ Inside(t)
              \/ t \in CPUs /\ IsSpin /\ InterruptReturn(t))

MCSpec == MCInit /\ [][MCNext]_all /\ MCFairness
=============================================================================
