------------------------------- MODULE TimerFd -------------------------------
(***************************************************************************)
(* The timer descriptors of src/kernel/framework/syscall/timerfd.rs.  The  *)
(* descriptor of a slot is valid while the slot is used; sys_timerfd_close *)
(* does not give it back to the allocator, so a slot is used once.         *)
(***************************************************************************)
EXTENDS HrTimer

VARIABLE tfd  \* the slots of TFD_TABLE

TfdInit == tfd = [t \in TimerFds |-> [used |-> "never", armed |-> FALSE, interval |-> 0, count |-> 0]]

TfdUnlocked == call["timerfd"] = NoCall

sys_timerfd_create(t) ==
  /\ AtRest
  /\ tfd[t].used = "never"
  /\ tfd' = [tfd EXCEPT ![t] = [used |-> "yes", armed |-> FALSE, interval |-> 0, count |-> 0]]
  /\ ResetTimer(t)
  /\ UNCHANGED <<now, queue, expired, isr, call>>

\* Faulty: the expirations of the old setting are still counted.
SettimeKeepingCount(t, value, interval, abstime) ==
  /\ AtRest
  /\ tfd[t].used = "yes"
  /\ tfd' = [tfd EXCEPT ![t].armed = FALSE, ![t].interval = interval]
  /\ ResetTimer(t)
  /\ call' = [call EXCEPT !["timerfd"] =
                [pc |-> "announce", t |-> t, e |-> IF abstime THEN value ELSE now + value]]
  /\ UNCHANGED <<now, queue, expired, isr>>

\* sys_timerfd_settime with a value: up to the call of hrtimer_start.
sys_timerfd_settime(t, value, interval, abstime) ==
  /\ AtRest
  /\ tfd[t].used = "yes"
  /\ tfd' = [tfd EXCEPT ![t].armed = FALSE, ![t].interval = interval, ![t].count = 0]
  /\ ResetTimer(t)
  /\ call' = [call EXCEPT !["timerfd"] =
                [pc |-> "announce", t |-> t, e |-> IF abstime THEN value ELSE now + value]]
  /\ UNCHANGED <<now, queue, expired, isr>>

TfdEnqueue ==
  LET c == call["timerfd"] IN
  /\ c.pc = "enqueue"
  /\ Enqueue(c.t, c.e, "timerfd")
  /\ tfd' = [tfd EXCEPT ![c.t].armed = TRUE]
  /\ call' = [call EXCEPT !["timerfd"] = NoCall]
  /\ UNCHANGED <<now, timer_vars, expired, isr>>

\* The end of an armed slot's timer in settime and close.
TfdCancel(t) == IF tfd[t].armed THEN Cancel(t) ELSE UNCHANGED timer_vars

\* sys_timerfd_settime with a value of 0.
TfdDisarm(t) ==
  /\ AtRest
  /\ tfd[t].used = "yes"
  /\ TfdCancel(t)
  /\ tfd' = [tfd EXCEPT ![t].armed = FALSE, ![t].interval = 0, ![t].count = 0]
  /\ UNCHANGED <<now, queue, expired, isr, call>>

sys_timerfd_close(t) ==
  /\ AtRest
  /\ tfd[t].used = "yes"
  /\ TfdCancel(t)
  /\ tfd' = [tfd EXCEPT ![t] = [used |-> "closed", armed |-> FALSE, interval |-> 0, count |-> 0]]
  /\ UNCHANGED <<now, queue, expired, isr, call>>

sys_timerfd_read(t) ==
  /\ AtRest
  /\ tfd[t].used = "yes"
  /\ tfd[t].count > 0
  /\ tfd' = [tfd EXCEPT ![t].count = 0]
  /\ UNCHANGED <<now, queue, timer_vars, expired, isr, call>>

(***************************************************************************)
(* timerfd_callback: it reads the slot without the lock, counts under it,  *)
(* and then starts the timer again or takes the lock again to disarm.      *)
(***************************************************************************)

\* The descriptor and the interval, as one read.
CallbackReads ==
  /\ isr.pc = "callback"
  /\ Current \in TimerFds
  /\ isr' = [pc |-> "count", valid |-> tfd[Current].used = "yes", interval |-> tfd[Current].interval]
  /\ UNCHANGED <<now, queue, timer_vars, expired, call, tfd>>

\* The clock and the time that passed are read after the count.
NextExpiry == LET next == expiry[Current] + isr.interval
              IN IF next <= now THEN now + isr.interval ELSE next

CallbackCounts ==
  /\ isr.pc = "count"
  /\ TfdUnlocked
  /\ IF isr.valid
     THEN /\ tfd' = [tfd EXCEPT ![Current].count = @ + 1]
          /\ isr' = IF isr.interval > 0 THEN [isr EXCEPT !.pc = "restart"]
                    ELSE [isr EXCEPT !.pc = "disarm"]
     ELSE isr' = [pc |-> "finish", restart |-> "OneShot"] /\ UNCHANGED tfd
  /\ UNCHANGED <<now, queue, timer_vars, expired, call>>

CallbackRestarts ==
  /\ isr.pc = "restart"
  /\ Announce(Current, NextExpiry, "isr")
  /\ isr' = [pc |-> "enqueue", e |-> NextExpiry]
  /\ UNCHANGED <<now, queue, expired, call, tfd>>

CallbackEnqueues ==
  /\ isr.pc = "enqueue"
  /\ Enqueue(Current, isr.e, "isr")
  /\ isr' = [pc |-> "finish", restart |-> "OneShot"]
  /\ UNCHANGED <<now, timer_vars, expired, call, tfd>>

\* Faulty: a one-shot timer is left armed.
CallbackLeavesArmed ==
  /\ isr.pc = "disarm"
  /\ TfdUnlocked
  /\ isr' = [pc |-> "finish", restart |-> "OneShot"]
  /\ UNCHANGED <<now, queue, timer_vars, expired, call, tfd>>

CallbackDisarms ==
  /\ isr.pc = "disarm"
  /\ TfdUnlocked
  /\ tfd' = [tfd EXCEPT ![Current].armed = FALSE]
  /\ isr' = [pc |-> "finish", restart |-> "OneShot"]
  /\ UNCHANGED <<now, queue, timer_vars, expired, call>>

TfdCallback == CallbackReads \/ CallbackCounts \/ CallbackRestarts \/ CallbackEnqueues
               \/ CallbackDisarms

TfdSyscall ==
  \E t \in TimerFds :
    \/ sys_timerfd_create(t) \/ TfdDisarm(t) \/ sys_timerfd_close(t) \/ sys_timerfd_read(t)
    \/ \E value \in Delays, interval \in Intervals, abstime \in BOOLEAN :
         sys_timerfd_settime(t, value, interval, abstime)
=============================================================================
