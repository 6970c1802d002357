----------------------------- MODULE MCPiMutex -----------------------------
(* The priority-inheritance mutex alone: see PiMutexHandover.cfg. *)
EXTENDS PiMutex

MCBase == [p \in Pids |-> p]

\* Processes that are switched where the code yields, each locking once.
Cooperative ==
  {[smp |-> FALSE, exits |-> FALSE, updates |-> FALSE, starts |-> [p \in Pids |-> 1]]}
=============================================================================
