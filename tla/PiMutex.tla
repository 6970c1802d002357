------------------------------ MODULE PiMutex ------------------------------
(***************************************************************************)
(* The priority-inheritance mutex of src/kernel/framework/sync/pi_mutex.rs *)
(* with its waiter queue, its donation and the registry through which an   *)
(* exiting process gives its mutexes back.                                 *)
(*                                                                         *)
(* One mutex.  One step per atomic access, because only the waiter queue   *)
(* is behind a lock; a section of that lock is one step, except that a     *)
(* release without waiters stores its words inside it.                     *)
(***************************************************************************)
EXTENDS PiClients

PID_NONE == 0
Entry == [pid : Pids, base : Nat]

VARIABLES locked,      \* PiMutexInner::locked
          holder,      \* PiMutexInner::holder
          waiters,     \* PiMutexInner::waiters
          effective,   \* PiMutexInner::effective_priority
          holder_base, \* PiMutex::holder_base_priority
          held,        \* PI_MUTEX_HELD: entries per process
          starts,      \* calls of lock() made
          tmp,         \* locals of the call a process is in
          pc,          \* where it is
          ret,         \* where it goes on after do_unlock or recompute_and_notify
          mode         \* one of Modes: never changes

words == <<locked, holder, effective, holder_base>>
vars == <<words, waiters, held, starts, tmp, pc, ret, mode>>

NoTmp == [new |-> 0, next |-> [pid |-> PID_NONE, base |-> 0], left |-> 0]

Init == /\ locked = FALSE
        /\ holder = PID_NONE
        /\ waiters = <<>>
        /\ effective = 0
        /\ holder_base = 0
        /\ held = [p \in Pids |-> 0]
        /\ starts = [p \in Pids |-> 0]
        /\ tmp = [p \in Pids |-> NoTmp]
        /\ pc = [p \in Pids |-> "idle"]
        /\ ret = [p \in Pids |-> "idle"]
        /\ mode \in Modes

\* Where a process may lose the CPU without preemption: outside the mutex, at
\* the yield of lock()'s loop and after those of notify_donation and
\* notify_revoke.
YieldPoints == {"idle", "try", "cs", "exit", "dead", "ho_unlock"}

At(p, label) ==
  /\ pc[p] = label
  /\ mode.smp \/ \A q \in Pids : q # p => pc[q] \in YieldPoints

Jump(p, label) == pc' = [pc EXCEPT ![p] = label] /\ UNCHANGED mode
Goto(p, label) == Jump(p, label) /\ UNCHANGED ret
Call(p, label, back) == Jump(p, label) /\ ret' = [ret EXCEPT ![p] = back]

\* A release without waiters stores its words while it holds the queue's lock.
QueueFree == \A q \in Pids : pc[q] \notin {"rel_locked", "rel_holder", "rel_eff", "rel_base"}

(***************************************************************************)
(* recompute_and_notify.                                                   *)
(***************************************************************************)

SetMax(S) == IF S = {} THEN 0 ELSE CHOOSE m \in S : \A n \in S : n <= m

WaiterMax(ws) == SetMax({ws[i].base : i \in DOMAIN ws})

Return(p) == /\ tmp' = [tmp EXCEPT ![p] = [NoTmp EXCEPT !.left = tmp[p].left]]
             /\ Call(p, ret[p], "idle")

RcBase(p) ==
  /\ At(p, "rc_base")
  /\ tmp' = [tmp EXCEPT ![p].new = holder_base]
  /\ Goto(p, "rc_max")
  /\ UNCHANGED <<words, waiters, held, starts>>

RcMax(p) ==
  /\ At(p, "rc_max") /\ QueueFree
  /\ tmp' = [tmp EXCEPT ![p].new = SetMax({@, WaiterMax(waiters)})]
  /\ Goto(p, "rc_compare")
  /\ UNCHANGED <<words, waiters, held, starts>>

RcCompare(p) ==
  /\ At(p, "rc_compare")
  /\ IF tmp[p].new = effective THEN Return(p) ELSE Goto(p, "rc_store") /\ UNCHANGED tmp
  /\ UNCHANGED <<words, waiters, held, starts>>

\* The store; notify_donation or notify_revoke then changes the priority of
\* the holder, which the mutex does not read back, and yields.
RcStore(p) ==
  /\ At(p, "rc_store")
  /\ effective' = tmp[p].new
  /\ Return(p)
  /\ UNCHANGED <<locked, holder, holder_base, waiters, held, starts>>

(***************************************************************************)
(* lock and try_lock.                                                      *)
(***************************************************************************)

Lock(p) ==
  /\ At(p, "idle")
  /\ starts[p] < mode.starts[p]
  /\ starts' = [starts EXCEPT ![p] = @ + 1]
  /\ Goto(p, "try")
  /\ UNCHANGED <<words, waiters, held, tmp>>

\* Faulty variant: the lock word is stored, not exchanged.
TryLockUnchecked(p) ==
  /\ At(p, "try")
  /\ locked' = TRUE
  /\ Goto(p, "acq_holder")
  /\ UNCHANGED <<holder, effective, holder_base, waiters, held, starts, tmp>>

TryLock(p) ==
  /\ At(p, "try")
  /\ locked' = TRUE
  /\ Goto(p, IF locked THEN "register" ELSE "acq_holder")
  /\ UNCHANGED <<holder, effective, holder_base, waiters, held, starts, tmp>>

AcqHolder(p) ==
  /\ At(p, "acq_holder")
  /\ holder' = p
  /\ Goto(p, "acq_eff")
  /\ UNCHANGED <<locked, effective, holder_base, waiters, held, starts, tmp>>

AcqEffective(p) ==
  /\ At(p, "acq_eff")
  /\ effective' = Base[p]
  /\ Goto(p, "acq_base")
  /\ UNCHANGED <<locked, holder, holder_base, waiters, held, starts, tmp>>

AcqBase(p) ==
  /\ At(p, "acq_base")
  /\ holder_base' = Base[p]
  /\ Goto(p, "acq_track")
  /\ UNCHANGED <<locked, holder, effective, waiters, held, starts, tmp>>

\* track_hold: one more entry for the process.
TrackHold(pid) == held' = [held EXCEPT ![pid] = @ + 1]

AcqTrack(p) ==
  /\ At(p, "acq_track")
  /\ TrackHold(p)
  /\ Goto(p, "cs")
  /\ UNCHANGED <<words, waiters, starts, tmp>>

Queued(p) == \E i \in DOMAIN waiters : waiters[i].pid = p

\* Faulty variant: a process that is queued already is queued again.
RegisterTwice(p) ==
  /\ At(p, "register") /\ QueueFree
  /\ Len(waiters) < 4
  /\ waiters' = Append(waiters, [pid |-> p, base |-> Base[p]])
  /\ Call(p, "rc_base", "try")
  /\ UNCHANGED <<words, held, starts, tmp>>

\* register_waiter_and_donate.
Register(p) ==
  /\ At(p, "register") /\ QueueFree
  /\ IF Queued(p)
     THEN Goto(p, "try") /\ UNCHANGED waiters
     ELSE /\ waiters' = Append(waiters, [pid |-> p, base |-> Base[p]])
          /\ Call(p, "rc_base", "try")
  /\ UNCHANGED <<words, held, starts, tmp>>

Reprioritised(pid, new) ==
  [i \in DOMAIN waiters |->
     IF waiters[i].pid = pid THEN [waiters[i] EXCEPT !.base = new] ELSE waiters[i]]

\* Faulty variant: the queue changes and nothing is recomputed.
UpdateOnly(q, pid, new) ==
  /\ At(q, "idle") /\ QueueFree
  /\ mode.updates /\ waiters # Reprioritised(pid, new)
  /\ waiters' = Reprioritised(pid, new)
  /\ UNCHANGED <<words, held, starts, tmp, pc, ret, mode>>

\* update_waiter_priority called by process q: no match, no effect.
UpdateWaiterPriority(q, pid, new) ==
  /\ At(q, "idle") /\ QueueFree
  /\ mode.updates /\ waiters # Reprioritised(pid, new)
  /\ waiters' = Reprioritised(pid, new)
  /\ Goto(q, "rc_base")
  /\ UNCHANGED <<words, held, starts, tmp>>

(***************************************************************************)
(* Releasing: the guard's destructor, and the exit of a process.           *)
(***************************************************************************)

\* unlock_internal: a process that is not the recorded holder is ignored.
UnlockInternal(p) ==
  /\ At(p, "cs")
  /\ Goto(p, IF holder = p THEN "un_pick" ELSE "idle")
  /\ UNCHANGED <<words, waiters, held, starts, tmp>>

\* pi_mutex_process_exit takes the process's entries out of the registry ...
Exit(p) ==
  /\ mode.exits
  /\ At(p, "idle") \/ At(p, "cs")
  /\ tmp' = [tmp EXCEPT ![p].left = held[p]]
  /\ held' = [held EXCEPT ![p] = 0]
  /\ Goto(p, "exit")
  /\ UNCHANGED <<words, waiters, starts>>

\* ... and calls force_unlock_for_exit once for each.
ExitDispatch(p) ==
  /\ At(p, "exit")
  /\ IF tmp[p].left = 0
     THEN Goto(p, "dead") /\ UNCHANGED tmp
     ELSE /\ tmp' = [tmp EXCEPT ![p].left = @ - 1]
          /\ Goto(p, IF holder = p THEN "exit_locked" ELSE "exit")
  /\ UNCHANGED <<words, waiters, held, starts>>

ExitLocked(p) ==
  /\ At(p, "exit_locked")
  /\ IF locked THEN Call(p, "un_pick", "exit") ELSE Goto(p, "exit")
  /\ UNCHANGED <<words, waiters, held, starts, tmp>>

\* The last of the waiters of highest priority.
BestIndex(ws) ==
  CHOOSE i \in DOMAIN ws : \A j \in DOMAIN ws :
    ws[j].base <= ws[i].base /\ (j > i => ws[j].base < ws[i].base)

Without(ws, i) == SubSeq(ws, 1, i - 1) \o SubSeq(ws, i + 1, Len(ws))

\* do_unlock takes the next holder off the queue; notify_revoke yields.
UnPick(p) ==
  /\ At(p, "un_pick") /\ QueueFree
  /\ IF waiters = <<>>
     THEN Goto(p, "rel_locked") /\ UNCHANGED <<waiters, tmp>>
     ELSE LET i == BestIndex(waiters) IN
          /\ tmp' = [tmp EXCEPT ![p].next = waiters[i]]
          /\ waiters' = Without(waiters, i)
          /\ Goto(p, "ho_unlock")
  /\ UNCHANGED <<words, held, starts>>

\* Store into one word of the mutex and go on.
Store(p, from, l, h, e, b, to) ==
  /\ At(p, from)
  /\ locked' = l /\ holder' = h /\ effective' = e /\ holder_base' = b
  /\ Goto(p, to)
  /\ UNCHANGED <<waiters, held, starts, tmp>>

\* Nobody waits: the four words are cleared inside the queue's lock.
RelLocked(p) == Store(p, "rel_locked", FALSE, holder, effective, holder_base, "rel_holder")
RelHolder(p) == Store(p, "rel_holder", locked, PID_NONE, effective, holder_base, "rel_eff")
RelEffective(p) == Store(p, "rel_eff", locked, holder, 0, holder_base, "rel_base")
RelBase(p) ==
  /\ At(p, "rel_base")
  /\ holder_base' = 0
  /\ Return(p)
  /\ UNCHANGED <<locked, holder, effective, waiters, held, starts>>

\* Somebody waits: the words are cleared, and set again for the next holder.
HoUnlock(p) == Store(p, "ho_unlock", FALSE, holder, effective, holder_base, "ho_none")
HoNone(p) == Store(p, "ho_none", locked, PID_NONE, effective, holder_base, "ho_eff0")
HoEffZero(p) == Store(p, "ho_eff0", locked, holder, 0, holder_base, "ho_base0")
HoBaseZero(p) == Store(p, "ho_base0", locked, holder, effective, 0, "ho_next")
HoNext(p) == Store(p, "ho_next", locked, tmp[p].next.pid, effective, holder_base, "ho_lock")
HoLock(p) == Store(p, "ho_lock", TRUE, holder, effective, holder_base, "ho_eff")
HoEffective(p) ==
  Store(p, "ho_eff", locked, holder, tmp[p].next.base, holder_base, "ho_base")
HoBase(p) == Store(p, "ho_base", locked, holder, effective, tmp[p].next.base, "ho_track")

\* Faulty variant: the next holder is not entered in the registry.
HoUntracked(p) ==
  /\ At(p, "ho_track")
  /\ Goto(p, "rc_base")
  /\ UNCHANGED <<words, waiters, held, starts, tmp>>

HoTrack(p) ==
  /\ At(p, "ho_track")
  /\ TrackHold(tmp[p].next.pid)
  /\ Goto(p, "rc_base")
  /\ UNCHANGED <<words, waiters, starts, tmp>>

Recompute(p) == RcBase(p) \/ RcMax(p) \/ RcCompare(p) \/ RcStore(p)

Acquire(p) == \/ TryLock(p) \/ AcqHolder(p) \/ AcqEffective(p) \/ AcqBase(p) \/ AcqTrack(p)
              \/ Register(p)

Release(p) == \/ UnlockInternal(p) \/ ExitDispatch(p) \/ ExitLocked(p) \/ UnPick(p)
              \/ RelLocked(p) \/ RelHolder(p) \/ RelEffective(p) \/ RelBase(p)
              \/ HoUnlock(p) \/ HoNone(p) \/ HoEffZero(p) \/ HoBaseZero(p)
              \/ HoNext(p) \/ HoLock(p) \/ HoEffective(p) \/ HoBase(p) \/ HoTrack(p)

Step(p) == Recompute(p) \/ Acquire(p) \/ Release(p)

Next == \E p \in Pids :
          \/ Lock(p) \/ Exit(p) \/ Step(p)
          \/ \E q \in Pids, new \in Prios : UpdateWaiterPriority(p, q, new)

Spec == Init /\ [][Next]_vars

\* Fairness: a process inside a call gets its turn, and gets the lock if it
\* finds it free again and again; a client gives its guard back.
FairSpec == Spec /\ \A p \in Pids : SF_vars(Step(p)) /\ SF_vars(~locked /\ TryLock(p))

(***************************************************************************)
(* Properties.                                                             *)
(***************************************************************************)

\* pi_mutex.rs:364: the guard gives its process exclusive access to the
\* data, although a release opens the lock for a moment before it hands it
\* on.  With exits this fails: the recorded holder need not be the one
\* inside, and its exit then releases the lock under another process.
InSection == {"acq_holder", "acq_eff", "acq_base", "acq_track", "cs"}
OneInside ==
  ~mode.exits => \A p, q \in Pids : pc[p] \in InSection /\ pc[q] \in InSection => p = q

\* The grant of each process; a mutex whose clients exit is left out.
Granted == [p \in Pids |-> IF ~mode.exits /\ pc[p] \in InSection
                           THEN "exclusive" ELSE "none"]

Abstract == INSTANCE LockSpec WITH Clients <- Pids, mode <- Granted

\* pi_mutex.rs:364: the accesses to the words of the mutex, interleaved with
\* the handover, add up to a lock.
ImplementsPiMutex == Abstract!Spec

\* Nobody is inside an operation of the mutex.
Quiet == \A p \in Pids : pc[p] \in {"idle", "try", "cs", "dead"}

\* pi_mutex.rs:658: the recorded holder, whichever way it became the holder,
\* is in the registry that process exit goes by.
HolderTracked ==
  Quiet /\ holder # PID_NONE /\ pc[holder] # "dead" => held[holder] > 0

\* pi_mutex.rs:215: when processes are switched only where the code yields,
\* a locked mutex at rest has the priority of its holder or of the waiter
\* that outranks it, through handovers and changes of priority.
EffectiveIsMax ==
  ~mode.smp /\ Quiet /\ locked => effective = SetMax({holder_base, WaiterMax(waiters)})

\* pi_mutex.rs:416: lock() registers again on every round of its loop, and
\* still a process is queued at most once.
QueuedOnce ==
  \A i, j \in DOMAIN waiters : waiters[i].pid = waiters[j].pid => i = j

\* pi_mutex.rs:645-646: a process that waits for the mutex gets it.
LockReturns == \A p \in Pids : pc[p] = "try" ~> pc[p] = "cs"
=============================================================================
