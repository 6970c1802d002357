----------------------------- MODULE PiClients -----------------------------
(***************************************************************************)
(* The processes that share a priority-inheritance mutex, and the ways in  *)
(* which they may use it.                                                  *)
(***************************************************************************)
EXTENDS Naturals, Sequences

CONSTANTS Pids,
          Base,     \* the base priority each process locks with
          Prios,    \* priorities that update_waiter_priority may set
          Modes     \* the modes considered

\* smp: other processes run at any moment; otherwise they run only where the
\* code yields.  exits: processes may exit.  updates: waiters' priorities may
\* change.  starts: bound on the calls of lock() of each process.
Mode == [smp : BOOLEAN, exits : BOOLEAN, updates : BOOLEAN, starts : [Pids -> Nat]]

ASSUME ConstantsAssumption == /\ 0 \notin Pids
                              /\ Base \in [Pids -> Nat \ {0}]
                              /\ Prios \subseteq Nat \ {0}
                              /\ Modes \subseteq Mode
=============================================================================
