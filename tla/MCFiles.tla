------------------------------ MODULE MCFiles ------------------------------
(***************************************************************************)
(* The instance of OpenFiles that TLC checks.                              *)
(***************************************************************************)
EXTENDS OpenFiles, TLC

\* Three inodes of which two collide, and the third hashes to the next slot.
MCHashKey == (1 :> 0) @@ (2 :> 0) @@ (3 :> 1)

MCUses == {[ram |-> {}, watched |-> {0}, opens |-> 5],
           [ram |-> {1}, watched |-> {0}, opens |-> 2]}

Symmetry == Permutations(Threads)
=============================================================================
