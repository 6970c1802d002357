------------------------------- MODULE HrTimer -------------------------------
(***************************************************************************)
(* The high-resolution timers of src/kernel/framework/timer/hrtimer.rs:    *)
(* one queue of pointers to timers that live in the tables of their users, *)
(* and the timer interrupt that takes the due ones off it and runs their   *)
(* callbacks.                                                              *)
(*                                                                         *)
(* System calls and the timer interrupt run on the boot CPU: the others    *)
(* halt once they are started (smp_init.rs:281-320) and their timers are   *)
(* masked.  The locks of the queue and of the two tables are IrqSpinLocks, *)
(* so a call that holds one and the interrupt exclude each other.          *)
(*                                                                         *)
(* A timer's own interval_ns is 0 throughout: only hrtimer_start_periodic  *)
(* sets it, which nobody calls.                                            *)
(***************************************************************************)
EXTENDS TimerClients, Sequences, FiniteSets, Functions

Timers == TimerFds \cup PosixTimers
Tables == {"timerfd", "posix"}

VARIABLES now,        \* hrtimer_clock_read
          queue,      \* HRTIMER_QUEUE: the timers its entries point to
          expiry,     \* HrTimer::expiry_ns
          state,      \* HrTimer::state
          queue_seq,  \* HrTimer::queue_seq: who wrote it last, see Announce
          expired,    \* the interrupt: callbacks still to run
          isr,        \* the interrupt: where it is, and its local variables
          call        \* the system call that holds the lock of each table

timer_vars == <<expiry, state, queue_seq>>
hr_vars == <<now, queue, timer_vars, expired, isr, call>>

NoCall == [pc |-> "none"]
IsrIdle == [pc |-> "idle"]

HrInit == /\ now = 0
          /\ queue = <<>>
          /\ expiry = [t \in Timers |-> 0]
          /\ state = [t \in Timers |-> "Inactive"]
          /\ queue_seq = [t \in Timers |-> "none"]
          /\ expired = <<>>
          /\ isr = IsrIdle
          /\ call = [k \in Tables |-> NoCall]

\* The entries of q at the positions in I, by key; entries with the same key keep
\* their order.
Place(I, key, i) == Cardinality({j \in I : key[j] < key[i] \/ (key[j] = key[i] /\ j <= i)})
Arrange(q, I, key) ==
  [k \in 1 .. Cardinality(I) |-> q[CHOOSE i \in I : Place(I, key, i) = k]]

\* Vec::retain, and with a slice::sort_by_key of what is left, which is stable.
Retain(q, I) == Arrange(q, I, [i \in I |-> i])
RetainSorted(q, I) == Arrange(q, I, [i \in I |-> expiry[q[i]]])

\* Neither a call nor the interrupt holds a lock.
AtRest == isr = IsrIdle /\ \A k \in Tables : call[k] = NoCall

Advance == /\ now < MaxTime
           /\ now' = now + 1
           /\ UNCHANGED <<queue, timer_vars, expired, isr, call>>

(***************************************************************************)
(* HrTimer::init, hrtimer_cancel and hrtimer_start.                        *)
(***************************************************************************)

\* HrTimer::init.
ResetTimer(t) == /\ expiry' = [expiry EXCEPT ![t] = 0]
                 /\ state' = [state EXCEPT ![t] = "Inactive"]
                 /\ queue_seq' = [queue_seq EXCEPT ![t] = "none"]

\* hrtimer_cancel: an entry of the queue stays where it is, and a callback that
\* runs is not waited for.
Cancel(t) == /\ state' = [state EXCEPT ![t] = "Inactive"]
             /\ queue_seq' = [queue_seq EXCEPT ![t] = "none"]
             /\ UNCHANGED expiry

\* hrtimer_start before the lock.  The sequence numbers are fresh and only
\* compared with the one the same call drew, so the caller's name stands for
\* the number.
Announce(t, e, by) == /\ expiry' = [expiry EXCEPT ![t] = e]
                      /\ queue_seq' = [queue_seq EXCEPT ![t] = by]
                      /\ state' = [state EXCEPT ![t] = "Pending"]

\* Before the first entry that expires later.
InsertByExpiry(q, t, e) ==
  LET later == {i \in DOMAIN q : expiry[q[i]] > e}
      pos == IF later = {} THEN Len(q) + 1 ELSE CHOOSE i \in later : \A j \in later : i <= j
  IN SubSeq(q, 1, pos - 1) \o <<t>> \o SubSeq(q, pos, Len(q))

Without(q, t) == Retain(q, {i \in DOMAIN q : q[i] # t})

\* Faulty: the entry the timer has stays.
EnqueueAgain(t, e, by) == queue' = InsertByExpiry(queue, t, e)

\* Faulty: at the end of the queue.
EnqueueLast(t, e, by) ==
  queue' = Append(Without(queue, t), t)

\* hrtimer_start under the lock: the timer's entries go, unless another call
\* has drawn a number since, and one for time e comes in.
Enqueue(t, e, by) ==
  queue' = InsertByExpiry(IF queue_seq[t] = by THEN Without(queue, t) ELSE queue, t, e)

\* hrtimer_start inside a system call that holds the lock of table k.
CallAnnounce(k) ==
  /\ call[k].pc = "announce"
  /\ Announce(call[k].t, call[k].e, k)
  /\ call' = [call EXCEPT ![k].pc = "enqueue"]
  /\ UNCHANGED <<now, queue, expired, isr>>

(***************************************************************************)
(* hrtimer_run_queues, in the timer interrupt.                             *)
(***************************************************************************)

Due(t) == state[t] = "Pending" /\ expiry[t] <= now

\* The positions before the first entry that is not cancelled and not due yet.
Scanned == {i \in DOMAIN queue :
              \A j \in 1 .. i : state[queue[j]] = "Inactive" \/ expiry[queue[j]] <= now}

\* A timer that is taken becomes Running: a second entry of it is not taken.
Taken == Retain(queue, {i \in Scanned : Due(queue[i]) /\ \A j \in 1 .. i - 1 : queue[j] # queue[i]})

\* Faulty: the entry that ends the scan is dropped as well.
RunQueuesDropping ==
  /\ AtRest
  /\ expired' = Taken
  /\ state' = [t \in Timers |-> IF t \in Range(Taken) THEN "Running" ELSE state[t]]
  /\ queue' = SubSeq(queue, Cardinality(Scanned) + 2, Len(queue))
  /\ isr' = IF Taken = <<>> THEN IsrIdle ELSE [pc |-> "callback"]
  /\ UNCHANGED <<now, expiry, queue_seq, call>>

\* hrtimer_run_queues up to the release of the lock.
RunQueues ==
  /\ AtRest
  /\ expired' = Taken
  /\ state' = [t \in Timers |-> IF t \in Range(Taken) THEN "Running" ELSE state[t]]
  /\ queue' = RetainSorted(queue, {i \in DOMAIN queue : state'[queue[i]] = "Pending"})
  /\ isr' = IF Taken = <<>> THEN IsrIdle ELSE [pc |-> "callback"]
  /\ UNCHANGED <<now, expiry, queue_seq, call>>

Current == Head(expired)

\* After a callback: OneShot, or Periodic with an interval_ns of 0.
Finish ==
  /\ isr.pc = "finish"
  /\ state' = [state EXCEPT ![Current] = "Inactive"]
  /\ queue_seq' = IF isr.restart = "OneShot" THEN [queue_seq EXCEPT ![Current] = "none"]
                  ELSE queue_seq
  /\ expired' = Tail(expired)
  /\ isr' = IF Tail(expired) = <<>> THEN IsrIdle ELSE [pc |-> "callback"]
  /\ UNCHANGED <<now, queue, expiry, call>>
=============================================================================
