----------------------------- MODULE RcuClients -----------------------------
(***************************************************************************)
(* The CPUs that share an RCU-protected pointer, and how they use it.      *)
(***************************************************************************)
EXTENDS Naturals, FiniteSets

CONSTANTS N,          \* number of CPUs
          MaxNesting, \* bound: depth of nested read sections
          MaxTarget,  \* bound: last target of the pointer
          Settings    \* the settings considered

CPUs == 1..N

\* The CPU that runs the processes; the others are started and then halt.
BootCpu == 1

\* A setting: the CPUs that update the pointer, whether SYNC_TIMEOUT_SPINS may
\* run out, and whether updaters reclaim through call_rcu as well.
Setting == [updaters : SUBSET CPUs, timeouts : BOOLEAN, call_rcu : BOOLEAN]

ASSUME ConstantsAssumption ==
  /\ N \in Nat \ {0} /\ MaxNesting \in Nat /\ MaxTarget \in Nat
  /\ Settings \subseteq Setting
=============================================================================
