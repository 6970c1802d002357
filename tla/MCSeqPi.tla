------------------------------ MODULE MCSeqPi ------------------------------
(***************************************************************************)
(* The sequence lock and the priority-inheritance mutex on small instances *)
(* for their safety properties.  Each behaviour is one of the lock that    *)
(* `which` names.                                                          *)
(***************************************************************************)
EXTENDS SeqLock, PiMutex, TLC

VARIABLE which

all == <<which, seq_vars, vars>>

MCBase == [p \in Pids |-> p]

Each(n) == [p \in Pids |-> n]

\* Two processes preempted at any moment, each locking twice; and three that
\* are switched where the code yields, exit and change their priority.
MCModes ==
  {[smp |-> TRUE, exits |-> FALSE, updates |-> FALSE, starts |-> [Each(2) EXCEPT ![3] = 0]],
   [smp |-> FALSE, exits |-> TRUE, updates |-> TRUE, starts |-> Each(2)]}

MCInit == /\ which \in {"seq", "pi"}
          /\ SeqInit /\ (which # "seq" => \A v, w \in Words : data[v] = data[w])
          /\ Init /\ (which # "pi" => mode.smp)

\* Only the lock that `which` names is used.
IsSeq == which = "seq" /\ UNCHANGED <<which, vars>>
IsPi == which = "pi" /\ UNCHANGED <<which, seq_vars>>

MCNext == \/ IsSeq /\ SeqNext
          \/ IsPi /\ Next

MCSpec == MCInit /\ [][MCNext]_all

\* Threads are interchangeable, and so are words and values.
Symmetry == Permutations(Threads) \cup Permutations(Words) \cup Permutations(Values)
=============================================================================
