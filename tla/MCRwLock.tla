------------------------------ MODULE MCRwLock ------------------------------
(* The read/write lock on small instances: see the RwLock*.cfg files. *)
EXTENDS RwLock, TLC

Symmetry == Permutations(Threads)
=============================================================================
