----------------------------- MODULE PosixTimer -----------------------------
(***************************************************************************)
(* The POSIX timers of src/kernel/framework/proc/posix_timer.rs, on the    *)
(* same queue as the timer descriptors.  Their callback takes no lock, and *)
(* a slot that is deleted may be created again.                            *)
(***************************************************************************)
EXTENDS HrTimer

VARIABLE ptm  \* the slots of TIMER_MANAGER

Unused == [used |-> FALSE, armed |-> FALSE, interval |-> 0, count |-> 0]

PtmInit == ptm = [t \in PosixTimers |-> Unused]

sys_timer_create(t) ==
  /\ AtRest
  /\ ~ptm[t].used
  /\ ptm' = [ptm EXCEPT ![t] = [Unused EXCEPT !.used = TRUE]]
  /\ ResetTimer(t)
  /\ UNCHANGED <<now, queue, expired, isr, call>>

\* The end of an armed slot's timer in settime and delete.
PtmCancel(t) == IF ptm[t].armed THEN Cancel(t) ELSE UNCHANGED timer_vars

\* sys_timer_settime with a value: up to the call of hrtimer_start.
sys_timer_settime(t, value, interval, abstime) ==
  /\ AtRest
  /\ ptm[t].used
  /\ PtmCancel(t)
  /\ ptm' = [ptm EXCEPT ![t] = [used |-> TRUE, armed |-> TRUE, interval |-> interval, count |-> 0]]
  /\ call' = [call EXCEPT !["posix"] =
                [pc |-> "announce", t |-> t, e |-> IF abstime THEN value ELSE now + value]]
  /\ UNCHANGED <<now, queue, expired, isr>>

PtmEnqueue ==
  LET c == call["posix"] IN
  /\ c.pc = "enqueue"
  /\ Enqueue(c.t, c.e, "posix")
  /\ call' = [call EXCEPT !["posix"] = NoCall]
  /\ UNCHANGED <<now, timer_vars, expired, isr, ptm>>

\* sys_timer_settime with a value of 0.
PtmDisarm(t) ==
  /\ AtRest
  /\ ptm[t].used
  /\ PtmCancel(t)
  /\ ptm' = [ptm EXCEPT ![t] = [Unused EXCEPT !.used = TRUE]]
  /\ UNCHANGED <<now, queue, expired, isr, call>>

sys_timer_delete(t) ==
  /\ AtRest
  /\ ptm[t].used
  /\ PtmCancel(t)
  /\ ptm' = [ptm EXCEPT ![t] = Unused]
  /\ UNCHANGED <<now, queue, expired, isr, call>>

\* posix_timer_callback: with an interval, forward does nothing since the
\* timer's own interval is 0.
PtmCallbackReads ==
  /\ isr.pc = "callback"
  /\ Current \in PosixTimers
  /\ isr' = IF ptm[Current].interval > 0 THEN [pc |-> "finish", restart |-> "Periodic"]
            ELSE [pc |-> "notify"]
  /\ UNCHANGED <<now, queue, timer_vars, expired, call, ptm>>

\* Without one the expiration is counted, and then the slot is disarmed and
\* the signal sent.
PtmCallbackCounts ==
  /\ isr.pc = "notify"
  /\ ptm' = [ptm EXCEPT ![Current].count = @ + 1]
  /\ isr' = [pc |-> "signal"]
  /\ UNCHANGED <<now, queue, timer_vars, expired, call>>

PtmCallbackDisarms ==
  /\ isr.pc = "signal"
  /\ ptm' = [ptm EXCEPT ![Current].armed = FALSE]
  /\ isr' = [pc |-> "finish", restart |-> "OneShot"]
  /\ UNCHANGED <<now, queue, timer_vars, expired, call>>

PtmCallback == PtmCallbackReads \/ PtmCallbackCounts \/ PtmCallbackDisarms

PtmSyscall ==
  \E t \in PosixTimers :
    \/ sys_timer_create(t) \/ PtmDisarm(t) \/ sys_timer_delete(t)
    \/ \E value \in Delays, interval \in Intervals, abstime \in BOOLEAN :
         sys_timer_settime(t, value, interval, abstime)
=============================================================================
