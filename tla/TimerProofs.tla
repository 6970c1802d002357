---------------------------- MODULE TimerProofs -----------------------------
(***************************************************************************)
(* The invariants of the timer queue (Timers), from the steps TimerSteps   *)
(* proves: first what they need of sequences, by counting places, and then *)
(* the theorems.                                                           *)
(***************************************************************************)
EXTENDS TimerSteps, FiniteSetTheorems

USE Zenon

\* Places are counted from 1, without gaps: of two positions the one that comes
\* first has fewer in front of it.
LEMMA PlacesFit ==
  ASSUME NEW I \in SUBSET Nat, IsFiniteSet(I), NEW key \in [I -> Int]
  PROVE  /\ \A i \in I : Place(I, key, i) \in 1 .. Cardinality(I)
         /\ \A i, j \in I :
              (key[i] < key[j] \/ (key[i] = key[j] /\ i < j)) => Place(I, key, i) < Place(I, key, j)
         /\ \A k \in 1 .. Cardinality(I) : \E i \in I : Place(I, key, i) = k
<1> DEFINE Front(i) == {j \in I : key[j] < key[i] \/ (key[j] = key[i] /\ j <= i)}
           n == Cardinality(I)
<1>1. \A i \in I : IsFiniteSet(Front(i)) /\ Cardinality(Front(i)) <= n /\ Cardinality(Front(i)) \in Nat
  BY FS_Subset, FS_CardinalityType
<1>2. n \in Nat
  BY FS_CardinalityType
<1>3. \A i \in I : Cardinality(Front(i)) # 0
  <2> SUFFICES ASSUME NEW i \in I PROVE Cardinality(Front(i)) # 0
    OBVIOUS
  <2>1. i \in Front(i)
    BY SMT
  <2> QED
    BY <1>1, <2>1, FS_EmptySet
<1>4. \A i \in I : Place(I, key, i) = Cardinality(Front(i))
  BY DEF Place
<1>5. ASSUME NEW i \in I, NEW j \in I, key[i] < key[j] \/ (key[i] = key[j] /\ i < j)
      PROVE  Place(I, key, i) < Place(I, key, j)
  <2>1. Front(i) \in SUBSET Front(j)
    <3> SUFFICES ASSUME NEW x \in Front(i) PROVE x \in Front(j)
      OBVIOUS
    <3>1. x \in I /\ (key[x] < key[i] \/ (key[x] = key[i] /\ x <= i))
      OBVIOUS
    <3>2. key[x] \in Int /\ key[i] \in Int /\ key[j] \in Int /\ x \in Nat /\ i \in Nat /\ j \in Nat
      BY <3>1
    <3>3. key[x] < key[j] \/ (key[x] = key[j] /\ x <= j)
      BY <1>5, <3>1, <3>2, SMT
    <3> QED
      BY <3>1, <3>3
  <2>2. j \in Front(j) /\ j \notin Front(i)
    BY <1>5, SMT
  <2> HIDE DEF Front
  <2>3. /\ Cardinality(Front(i)) <= Cardinality(Front(j))
        /\ Cardinality(Front(i)) # Cardinality(Front(j))
    BY <1>1, <2>1, <2>2, FS_Subset
  <2> QED
    BY <1>1, <1>4, <2>3, SMT
<1> HIDE DEF Front, n
<1>6. \A i \in I : Place(I, key, i) \in 1 .. n
  BY <1>1, <1>2, <1>3, <1>4, SMT
<1> DEFINE place == [i \in I |-> Place(I, key, i)]
<1>7. place \in Injection(I, 1 .. n)
  <2>1. place \in [I -> 1 .. n]
    BY <1>6
  <2>2. ASSUME NEW i \in I, NEW j \in I, i # j PROVE place[i] # place[j]
    <3>1. \/ key[i] < key[j] \/ (key[i] = key[j] /\ i < j)
          \/ key[j] < key[i] \/ (key[j] = key[i] /\ j < i)
      BY <2>2, SMT
    <3>2. Place(I, key, i) < Place(I, key, j) \/ Place(I, key, j) < Place(I, key, i)
      BY <1>5, <3>1
    <3> QED
      BY <1>2, <1>6, <3>2, SMT
  <2> QED
    BY <2>1, <2>2 DEF Injection, IsInjective
<1>8. IsFiniteSet(1 .. n) /\ Cardinality(1 .. n) = n
  BY <1>2, FS_Interval, SMT
<1>9. place \in Surjection(I, 1 .. n)
  BY <1>7, <1>8, FS_Injection DEF n
<1>10. \A k \in 1 .. n : \E i \in I : Place(I, key, i) = k
  BY <1>9 DEF Surjection
<1> QED
  BY <1>5, <1>6, <1>10 DEF n

LEMMA PlacesArrange ==
  ASSUME NEW S, NEW q \in Seq(S), NEW I \in SUBSET DOMAIN q, NEW key \in [I -> Int]
  PROVE  Arrange(q, I, key) \in Seq(S) /\ Arranged(Arrange(q, I, key), q, I, key)
<1> DEFINE n == Cardinality(I)
           At(k) == CHOOSE i \in I : Place(I, key, i) = k
           p == [k \in 1 .. n |-> At(k)]
           r == Arrange(q, I, key)
<1>1. I \in SUBSET Nat /\ IsFiniteSet(I)
  <2>1. DOMAIN q = 1 .. Len(q) /\ Len(q) \in Nat
    BY SMT
  <2>2. IsFiniteSet(1 .. Len(q))
    BY <2>1, FS_Interval, SMT
  <2>3. IsFiniteSet(I)
    BY <2>1, <2>2, FS_Subset
  <2>4. 1 .. Len(q) \subseteq Nat
    BY <2>1, SMT
  <2> QED
    BY <2>1, <2>3, <2>4
<1>2. n \in Nat
  BY <1>1, FS_CardinalityType
<1>3. \A k \in 1 .. n : p[k] \in I /\ Place(I, key, p[k]) = k
  BY <1>1, PlacesFit
<1>4. r = [k \in 1 .. n |-> q[At(k)]] /\ p = [k \in 1 .. n |-> At(k)]
  BY DEF Arrange
<1> HIDE DEF At, p, n, r
<1>5. \A k \in 1 .. n : r[k] = q[p[k]]
  BY <1>4
<1>6. \A k \in 1 .. n : q[p[k]] \in S
  BY <1>3, SMT
<1>7. r \in Seq(S) /\ Len(r) = n /\ DOMAIN r = 1 .. n
  <2>1. r \in [1 .. n -> S]
    BY <1>4, <1>6, <1>5
  <2> QED
    BY <1>2, <2>1, SMT
<1>8. ASSUME NEW i \in I PROVE \E k \in 1 .. n : p[k] = i
  <2> DEFINE k == Place(I, key, i)
  <2>1. k \in 1 .. n
    BY <1>1, PlacesFit DEF n
  <2>2. p[k] \in I /\ Place(I, key, p[k]) = k
    BY <1>3, <2>1
  <2>3. p[k] = i
    <3> SUFFICES ASSUME p[k] # i PROVE FALSE
      OBVIOUS
    <3>1. \/ key[i] < key[p[k]] \/ (key[i] = key[p[k]] /\ i < p[k])
          \/ key[p[k]] < key[i] \/ (key[p[k]] = key[i] /\ p[k] < i)
      BY <1>1, <2>2, SMT
    <3>2. Place(I, key, i) < Place(I, key, p[k]) \/ Place(I, key, p[k]) < Place(I, key, i)
      BY <1>1, <2>2, <3>1, PlacesFit
    <3> QED
      BY <1>2, <2>1, <2>2, <3>2, SMT
  <2> QED
    BY <2>1, <2>3
<1>9. ASSUME NEW j \in 1 .. n, NEW k \in 1 .. n, j < k
      PROVE  key[p[j]] < key[p[k]] \/ (key[p[j]] = key[p[k]] /\ p[j] < p[k])
  <2> SUFFICES ASSUME ~(key[p[j]] < key[p[k]] \/ (key[p[j]] = key[p[k]] /\ p[j] < p[k])) PROVE FALSE
    OBVIOUS
  <2>1. /\ p[j] \in I /\ Place(I, key, p[j]) = j
        /\ p[k] \in I /\ Place(I, key, p[k]) = k
    BY <1>3
  <2>2. p[j] # p[k]
    BY <1>2, <1>9, <2>1, SMT
  <2>3. key[p[k]] < key[p[j]] \/ (key[p[k]] = key[p[j]] /\ p[k] < p[j])
    BY <1>1, <2>1, <2>2, SMT
  <2>4. Place(I, key, p[k]) < Place(I, key, p[j])
    BY <1>1, <2>1, <2>3, PlacesFit
  <2> QED
    BY <1>2, <1>9, <2>1, <2>4, SMT
<1>10. p \in [1 .. n -> I]
  BY <1>3, <1>4
<1>11. Arranges(p, I, key, n)
  BY <1>8, <1>9, <1>10 DEF Arranges
<1> QED
  BY <1>7, <1>11, <1>5 DEF r, Arranged

LEMMA LeastNumber ==
  ASSUME NEW T, T \subseteq Nat, T # {}
  PROVE  \E x \in T : \A y \in T : x <= y
<1> DEFINE R == OpToRel(<, Nat)
<1>1. \A x, y \in Nat : x < y => <<x, y>> \in R
  BY SMT DEF OpToRel
<1>2. IsWellFoundedOn(R, Nat)
  BY NatLessThanWellFounded
<1> HIDE DEF R
<1>3. \E x \in T : \A y \in T : ~(<<y, x>> \in R)
  BY <1>2, WFMin
<1>4. \E x \in T : \A y \in T : ~(y < x)
  BY <1>1, <1>3
<1> QED
  BY <1>4, SMT

LEMMA FactsHold == SequenceFacts
BY PlacesArrange, LeastNumber DEF SequenceFacts

-----------------------------------------------------------------------------
(* The theorems.                                                           *)

LEMMA QueueInvariant == Spec => []QueueInv
<1>1. ASSUME Init PROVE QueueInv
  <2>1. TimerType
    BY <1>1, InitTypes
  <2>2. PendingIsQueued
    BY <1>1 DEF Init, HrInit, PendingIsQueued
  <2>3. RunOnce
    <3>1. DOMAIN <<>> = {}
      BY SMT
    <3> QED
      BY <1>1, <3>1 DEF Init, HrInit, RunOnce
  <2> QED
    BY <2>1, <2>2, <2>3 DEF QueueInv
<1>2. ASSUME QueueInv, [Next]_vars PROVE QueueInv'
  BY <1>2, FactsHold, NextTypes, NextQueue, NextRunOnce DEF QueueInv
<1> QED
  BY <1>1, <1>2, PTL DEF Spec

\* For any timers a timer in state Pending is in the queue, or the hrtimer_start
\* that made it pending is on its way to the lock: hrtimer_run_queues loses no
\* entry when it drops and sorts.
THEOREM NoEntryLost == Spec => []PendingIsQueued
<1>1. QueueInv => PendingIsQueued
  BY DEF QueueInv
<1> QED
  BY <1>1, QueueInvariant, PTL

LEMMA TimerInvariant == Spec => []TimerInv
<1>1. ASSUME Init, QueueInv PROVE QueueOnce /\ OneCpu
  <2>1. DOMAIN <<>> = {}
    BY SMT
  <2>2. QueueOnce
    BY <1>1, <2>1 DEF Init, HrInit, QueueOnce
  <2> QED
    BY <1>1, <2>2, InitOneCpu DEF QueueInv
<1>2. ASSUME QueueInv, QueueInv', QueueOnce, OneCpu, [Next]_vars PROVE QueueOnce' /\ OneCpu'
  <2>1. OneCpu'
    BY <1>2, FactsHold, NextOneCpu DEF QueueInv
  <2>2. QueueOnce'
    BY <1>2, FactsHold, NextQueueOnce DEF QueueInv, OneCpu
  <2> QED
    BY <2>1, <2>2
<1>3. QueueInv /\ QueueOnce /\ OneCpu => TimerInv
  BY DEF TimerInv
<1> QED
  BY <1>1, <1>2, <1>3, QueueInvariant, PTL DEF Spec

\* For any timers the queue and the list that hrtimer_run_queues works off name
\* no timer twice: hrtimer_start always replaces the entry of a timer that is
\* in the queue, whether it is called to set the timer or by its callback.
THEOREM NoDoubleEntry == Spec => []OneEntry
<1>1. TimerInv => OneEntry
  BY DEF TimerInv, QueueInv, RunOnce, QueueOnce, OneEntry, IsInjective
<1> QED
  BY <1>1, TimerInvariant, PTL

\* When no call and no interrupt is under way, every one-shot timer that
\* sys_timerfd_settime or sys_timer_settime armed is pending, and
\* hrtimer_run_queues finds the pending timers in the order of their expiry.
THEOREM ArmedTimersFire == Spec => []ArmedWillFire
<1>1. ASSUME TimerInv PROVE ArmedWillFire
  <2> SUFFICES ASSUME AtRest
               PROVE  /\ \A t \in Timers : Slot(t).armed /\ Slot(t).interval = 0 => state[t] = "Pending"
                      /\ \A i, j \in DOMAIN queue :
                           i < j /\ state[queue[i]] = "Pending" /\ state[queue[j]] = "Pending"
                             => expiry[queue[i]] <= expiry[queue[j]]
    BY DEF ArmedWillFire
  <2>1. OneCpu /\ TimerType
    BY <1>1 DEF TimerInv, QueueInv
  <2>2. Range(expired) = {} /\ Settled = Timers /\ \A k \in Tables : call[k].pc = "none"
    BY <2>1, RestFacts
  <2>3. ASSUME NEW t \in Timers, Slot(t).armed, Slot(t).interval = 0 PROVE state[t] = "Pending"
    <3>1. ArmedAt(t)
      BY <2>1 DEF OneCpu, ArmedInv
    <3> QED
      BY <2>2, <2>3, <3>1 DEF ArmedAt, OneShot
  <2>4. queue \in Seq(Timers)
    BY <2>1 DEF TimerType, QueueType
  <2>5. \A i \in DOMAIN queue : queue[i] \in Timers
    BY <2>4, SMT
  <2>6. InOrder(queue, Timers)
    BY <2>1, <2>2 DEF OneCpu
  <2> QED
    BY <2>3, <2>5, <2>6 DEF InOrder
<1> QED
  BY <1>1, TimerInvariant, PTL

\* The expiration that sys_timerfd_read or the signal reports for a
\* one-shot timer is a single one, of the setting in force, whose time has come.
THEOREM ExpirationsAreReal == Spec => []ExpirationIsReal
<1>1. ASSUME TimerInv PROVE ExpirationIsReal
  <2> SUFFICES ASSUME NEW t \in Timers, Slot(t).count > 0, Slot(t).interval = 0
               PROVE  Slot(t).count = 1 /\ expiry[t] <= now
    BY DEF ExpirationIsReal
  <2>1. CountAt(t)
    BY <1>1 DEF TimerInv, OneCpu, CountInv
  <2>2. ~(0 > 0)
    BY SMT
  <2> QED
    BY <2>1, <2>2 DEF CountAt, OneShot
<1> QED
  BY <1>1, TimerInvariant, PTL
=============================================================================
