---------------------------- MODULE MCCallbacks ----------------------------
(***************************************************************************)
(* The components that run a callback of their user, the one-time cell,    *)
(* read-copy-update and the timers, on small instances.  Each behaviour is *)
(* one of the component that `which` names.                                *)
(***************************************************************************)
EXTENDS OnceLock, Rcu, Timers

VARIABLE which

all == <<which, once_vars, rcu_vars, vars>>

\* Overlapping updates that do not time out, and ones that may; one updater that
\* uses call_rcu.
MCSettings ==
  {[updaters |-> {1, 2}, timeouts |-> FALSE, call_rcu |-> FALSE],
   [updaters |-> {1, 2}, timeouts |-> TRUE, call_rcu |-> FALSE],
   [updaters |-> {1}, timeouts |-> TRUE, call_rcu |-> TRUE]}

MCInit == /\ which \in {"once", "rcu", "timers"}
          /\ OnceInit /\ (which # "once" => unwinds)
          /\ RcuInit /\ (which # "rcu" => setting.call_rcu)
          /\ Init

\* Only the component that `which` names is used.
IsOnce == which = "once" /\ UNCHANGED <<which, rcu_vars, vars>>
IsRcu == which = "rcu" /\ UNCHANGED <<which, once_vars, vars>>
IsTimers == which = "timers" /\ UNCHANGED <<which, once_vars, rcu_vars>>

MCNext == \/ IsOnce /\ OnceNext
          \/ IsRcu /\ RcuNext
          \/ IsTimers /\ Next

\* A thread inside a call, and every CPU, keeps executing, and read sections
\* end.  Only the boot CPU, which runs the processes, is sure to switch context
\* outside a read section again and again.  Timer interrupts keep coming: one
\* that is raised while interrupts are off is taken once they are on again.  A
\* timer call that has started goes on, and so does the handler.  A behaviour is
\* of one component, so conditions of different ones share a formula.
MCFairness ==
  /\ \A c \in CPUs :
       /\ WF_all(\/ IsRcu /\ (Sync(c) \/ Note(c))
                 \/ c \in Threads /\ IsOnce /\ OnceStep(c))
       /\ WF_all(\/ IsRcu /\ ReadUnlock(c)
                 \/ c = 1 /\ IsTimers /\ InCall
                 \/ c = 2 /\ IsTimers /\ Interrupt)
  /\ SF_all((IsRcu /\ NoteQuiescentState(BootCpu)) \/ (IsTimers /\ Tick))

MCSpec == MCInit /\ [][MCNext]_all /\ MCFairness
=============================================================================
