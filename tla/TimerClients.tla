---------------------------- MODULE TimerClients ----------------------------
(***************************************************************************)
(* The timers, and the settings their users ask for.                       *)
(***************************************************************************)
EXTENDS Integers

CONSTANTS TimerFds,     \* the slots of TFD_TABLE
          PosixTimers,  \* the slots of TIMER_MANAGER
          Delays,       \* it_value of the calls that set a timer
          Intervals,    \* it_interval, with 0 for a one-shot timer
          MaxTime       \* bound: the last reading of the clock

\* Times are u64 in the code.
ASSUME TimerAssumption ==
  /\ TimerFds \cap PosixTimers = {}
  /\ Delays \subseteq Nat /\ Intervals \subseteq Nat /\ MaxTime \in Nat
=============================================================================
