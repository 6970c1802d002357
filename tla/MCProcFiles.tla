---------------------------- MODULE MCProcFiles ----------------------------
(***************************************************************************)
(* The scheduler with the futex calls, the inode cache and the descriptors *)
(* on small instances for their safety properties.  Each behaviour is one  *)
(* of the part that `which` names.                                         *)
(***************************************************************************)
EXTENDS Futex, OpenFiles, TLC

VARIABLE which

all == <<which, fvars, file_vars>>

\* Three futex words of which two share a bucket.
CONSTANTS a1, a2, a3
MCAddr == {a1, a2, a3}
MCHash == (a1 :> 0) @@ (a2 :> 0) @@ (a3 :> 1)

\* Three inodes of which two hash to the same slot and the third to the next.
MCHashKey == (1 :> 0) @@ (2 :> 0) @@ (3 :> 1)

\* Files outside the RAM file system opened until the numbers have wrapped; and a
\* RAM file opened once.
MCUses == {[ram |-> {}, watched |-> {0}, opens |-> 5],
           [ram |-> {1}, watched |-> {0}, opens |-> 2]}

MCInit == /\ which \in {"processes", "icache", "files"}
          /\ FInit
          /\ FilesInit /\ (which # "files" => use.ram = {})

\* Only the part that `which` names is used.
IsProcesses == which = "processes" /\ UNCHANGED <<which, file_vars>>
IsIcache == /\ which = "icache"
            /\ UNCHANGED <<which, fvars, fds, files, next_id, interest, locks, at, regs, rest>>
IsFiles == which = "files" /\ UNCHANGED <<which, fvars>>

MCNext == \/ IsProcesses /\ FNext
          \/ IsIcache /\ IcacheNext
          \/ IsFiles /\ FilesNext

MCSpec == MCInit /\ [][MCNext]_all

\* Threads are interchangeable, and so are the words that share a bucket.
Symmetry == Permutations(Threads) \cup Permutations({a1, a2})
=============================================================================
