------------------------------ MODULE LockSpec ------------------------------
(***************************************************************************)
(* What a lock promises its clients, whatever its algorithm: the abstract  *)
(* specification that the spin locks, the mutexes and the read/write lock  *)
(* implement.                                                              *)
(*                                                                         *)
(* A client is granted the lock, shared or exclusive, only when no other   *)
(* client's grant conflicts, and keeps its grant until it gives it back.   *)
(***************************************************************************)
CONSTANT Clients

VARIABLE mode  \* the grant each client has

Grants == {"none", "shared", "exclusive"}

Conflict(m, n) == "none" \notin {m, n} /\ "exclusive" \in {m, n}

Compatible(c, m) == \A d \in Clients \ {c} : ~Conflict(m, mode[d])

Init == mode = [c \in Clients |-> "none"]

Acquire(c, m) ==
  /\ mode[c] = "none"
  /\ Compatible(c, m)
  /\ mode' = [mode EXCEPT ![c] = m]

Release(c) ==
  /\ mode[c] # "none"
  /\ mode' = [mode EXCEPT ![c] = "none"]

Grant(c) == \E m \in {"shared", "exclusive"} : Acquire(c, m)

Next == \E c \in Clients : Grant(c) \/ Release(c)

Spec == Init /\ [][Next]_mode
=============================================================================
