------------------------------- MODULE Timers -------------------------------
(***************************************************************************)
(* The timer queue with its two kinds of users, timer descriptors and      *)
(* POSIX timers.                                                           *)
(***************************************************************************)
EXTENDS TimerFd, PosixTimer

vars == <<hr_vars, tfd, ptm>>

Init == HrInit /\ TfdInit /\ PtmInit

\* The timer interrupt: hrtimer_run_queues with the callbacks it runs.
Interrupt == \/ Finish /\ UNCHANGED <<tfd, ptm>>
             \/ TfdCallback /\ UNCHANGED ptm
             \/ PtmCallback /\ UNCHANGED tfd

Tick == RunQueues /\ UNCHANGED <<tfd, ptm>>

\* A system call that has started goes on to its end.
InCall == \/ \E k \in Tables : CallAnnounce(k) /\ UNCHANGED <<tfd, ptm>>
          \/ TfdEnqueue /\ UNCHANGED ptm
          \/ PtmEnqueue /\ UNCHANGED tfd

Syscall == (TfdSyscall /\ UNCHANGED ptm) \/ (PtmSyscall /\ UNCHANGED tfd)

Next == Interrupt \/ Tick \/ InCall \/ Syscall \/ (Advance /\ UNCHANGED <<tfd, ptm>>)

\* Timer interrupts keep coming: one that is raised while interrupts are off
\* is taken once they are on again.  A handler and a call that have started
\* go on.
Fairness == SF_vars(Tick) /\ WF_vars(Interrupt) /\ WF_vars(InCall)

Spec == Init /\ [][Next]_vars /\ Fairness

Slot(t) == IF t \in TimerFds THEN tfd[t] ELSE ptm[t]

\* A timer in state Pending is in the queue, unless the hrtimer_start that set
\* the state is still on its way to the lock: no entry is lost when the scan
\* drops the ones it has taken and the cancelled ones, and sorts the rest
\* (hrtimer.rs:274-403).
PendingIsQueued ==
  \A t \in Timers :
    state[t] = "Pending" =>
      \/ t \in Range(queue)
      \/ \E k \in Tables : call[k] # NoCall /\ call[k].t = t /\ call[k].pc = "enqueue"
      \/ isr.pc = "enqueue" /\ Current = t

\* A timer has one entry in the queue and one in the interrupt's list at most:
\* a start finds the entry that a cancel, a close or the end of a callback has
\* left behind and replaces it (hrtimer.rs:263 and :286-296).
OneEntry == IsInjective(queue) /\ IsInjective(expired)

\* A one-shot timer that its table says is armed is going to fire: it is
\* pending, in a queue where no timer that is still pending stands behind one
\* that expires later (timerfd.rs:259-294, posix_timer.rs:450-478,
\* hrtimer.rs:298-310).
ArmedWillFire ==
  AtRest =>
    /\ \A t \in Timers : Slot(t).armed /\ Slot(t).interval = 0 => state[t] = "Pending"
    /\ \A i, j \in DOMAIN queue :
         i < j /\ state[queue[i]] = "Pending" /\ state[queue[j]] = "Pending"
           => expiry[queue[i]] <= expiry[queue[j]]

\* An expiration that a table reports belongs to the present setting of the
\* timer, whose time has come: none is left over from a setting that was
\* replaced (timerfd.rs:259-294, posix_timer.rs:450-478).
ExpirationIsReal ==
  \A t \in Timers : Slot(t).count > 0 /\ Slot(t).interval = 0 =>
    Slot(t).count = 1 /\ expiry[t] <= now

Overdue(t) == Slot(t).armed /\ Slot(t).interval = 0 /\ expiry[t] <= now

\* A one-shot timer whose time has come is disarmed: its callback runs, unless
\* the user replaces the setting or takes it back (hrtimer.rs:360-418).
OneShotExpires == \A t \in Timers : Due(t) /\ Overdue(t) ~> ~Overdue(t)

\* A periodic timer that its table says is armed is in the queue for its next
\* period whenever the interrupt is over (timerfd.rs:449 and :494).
PeriodicStaysQueued ==
  AtRest => \A t \in Timers : Slot(t).armed /\ Slot(t).interval > 0 => state[t] = "Pending"
=============================================================================
