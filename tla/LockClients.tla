---------------------------- MODULE LockClients ----------------------------
(***************************************************************************)
(* The clients of the mutex and of the read/write lock.                    *)
(***************************************************************************)
EXTENDS Integers, FiniteSets

CONSTANTS Threads,
          MaxHold,    \* bound: guards one thread may ask for at once
          DepthRange  \* 2^32 in the code: the depth of a mutex is a u32

ASSUME ConstantsAssumption == /\ IsFiniteSet(Threads)
                              /\ MaxHold \in Nat
                              /\ DepthRange \in Nat /\ DepthRange > 2
=============================================================================
