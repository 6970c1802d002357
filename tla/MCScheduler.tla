---------------------------- MODULE MCScheduler ----------------------------
(* The scheduler and the futex calls with a small process table, and three *)
(* futex words of which two share a bucket: see the Scheduler*.cfg files.  *)
EXTENDS Futex, TLC

CONSTANTS a1, a2, a3
MCAddr == {a1, a2, a3}
MCHash == (a1 :> 0) @@ (a2 :> 0) @@ (a3 :> 1)
=============================================================================
