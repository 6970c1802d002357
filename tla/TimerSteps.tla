----------------------------- MODULE TimerSteps -----------------------------
(***************************************************************************)
(* What each step of the timer queue and its two tables (Timers) keeps.    *)
(*                                                                         *)
(* QueueInv: a pending timer has its entry or is about to get it, and the  *)
(* interrupt's list names no timer twice.  QueueOnce: the queue does not   *)
(* either.  OneCpu, since calls and the interrupt exclude each other: what *)
(* an armed one-shot timer waits for, and what its expiration count stands *)
(* for.  All follow one timer through the steps of a call and of the       *)
(* interrupt, so the type invariant records where each of them is and      *)
(* which timer it works on.                                                *)
(*                                                                         *)
(* The two facts about sequences and numbers that need counting are named  *)
(* in SequenceFacts; TimerProofs proves them and draws the conclusions.    *)
(***************************************************************************)
EXTENDS Timers, TLAPS

USE Zenon

-----------------------------------------------------------------------------
(* The invariants.                                                         *)

States == {"Inactive", "Pending", "Running"}

Calls == [pc : {"announce", "enqueue"}, t : Timers, e : Nat]

\* The local variables of the interrupt, by where it is.
IsrStates ==
  [pc : {"idle", "callback", "notify", "signal"}]
    \cup [pc : {"count", "restart", "disarm"}, valid : BOOLEAN, interval : Nat]
    \cup [pc : {"enqueue"}, e : Nat]
    \cup [pc : {"finish"}, restart : {"OneShot", "Periodic"}]

TfdSlots == [used : {"never", "yes", "closed"}, armed : BOOLEAN, interval : Nat, count : Nat]
PtmSlots == [used : BOOLEAN, armed : BOOLEAN, interval : Nat, count : Nat]

QueueType == /\ now \in Nat
             /\ queue \in Seq(Timers) /\ expired \in Seq(Timers)

FieldType == /\ expiry \in [Timers -> Nat] /\ state \in [Timers -> States]
             /\ queue_seq \in [Timers -> Tables \cup {"none", "isr"}]

\* The interrupt has a timer to work on, of the table whose callback it is in.
IsrType == /\ isr \in IsrStates
           /\ isr.pc = "idle" <=> expired = <<>>
           /\ isr.pc \in {"count", "restart", "disarm", "enqueue"} => Current \in TimerFds
           /\ isr.pc \in {"notify", "signal"} => Current \in PosixTimers

CallType == /\ call \in [Tables -> {NoCall} \cup Calls]
            /\ call["timerfd"] # NoCall => call["timerfd"].t \in TimerFds
            /\ call["posix"] # NoCall => call["posix"].t \in PosixTimers

SlotType == tfd \in [TimerFds -> TfdSlots] /\ ptm \in [PosixTimers -> PtmSlots]

TimerType == QueueType /\ FieldType /\ IsrType /\ CallType /\ SlotType

\* The interrupt's list, and the queue, have no timer twice.
RunOnce == \A i, j \in DOMAIN expired : expired[i] = expired[j] => i = j
QueueOnce == \A i, j \in DOMAIN queue : queue[i] = queue[j] => i = j

QueueInv == TimerType /\ PendingIsQueued /\ RunOnce

\* At most one of the interrupt and the calls is under way.
OneAtATime ==
  /\ isr.pc # "idle" => \A k \in Tables : call[k] = NoCall
  /\ \A k, l \in Tables : call[k] # NoCall /\ call[l] # NoCall => k = l

\* Between its two parts hrtimer_start has changed the timer and not the queue.
Starting(t) == \/ \E k \in Tables : call[k].pc = "enqueue" /\ call[k].t = t
               \/ isr.pc = "enqueue" /\ Current = t

\* What a start has written, nobody changes before it has the lock.
StartInv ==
  /\ \A k \in Tables : call[k].pc = "enqueue" =>
       /\ queue_seq[call[k].t] = k /\ expiry[call[k].t] = call[k].e
       /\ state[call[k].t] = "Pending"
  /\ isr.pc = "enqueue" => queue_seq[Current] = "isr" /\ expiry[Current] = isr.e

\* No entry stands behind one that expires later, cancelled or not, if it is pending.
InOrder(q, S) ==
  \A i, j \in DOMAIN q : i < j /\ q[i] \in S /\ q[j] \in S /\ state[q[j]] = "Pending"
    => expiry[q[i]] <= expiry[q[j]]

Settled == {t \in Timers : ~Starting(t)}

\* The callback works with what the slot says.
CallbackInv ==
  /\ isr.pc \in {"count", "restart", "disarm"} =>
       /\ isr.valid <=> tfd[Current].used = "yes"
       /\ isr.interval = tfd[Current].interval
  /\ isr.pc \in {"restart", "enqueue"} => tfd[Current].interval > 0
  /\ isr.pc \in {"notify", "signal"} => ptm[Current].interval = 0

OneShot(t) == Slot(t).interval = 0

\* An armed one-shot timer is pending, is about to be made pending by the call
\* that arms it, or is on the interrupt's list until its callback disarms it.
ArmedAt(t) ==
  Slot(t).armed /\ OneShot(t) =>
    \/ state[t] = "Pending"
    \/ \E k \in Tables : call[k].pc = "announce" /\ call[k].t = t
    \/ t \in Range(expired)

ArmedInv ==
  /\ \A t \in TimerFds : tfd[t].used # "yes" => ~tfd[t].armed
  /\ \A t \in Timers : ArmedAt(t)
  /\ call["timerfd"] # NoCall => tfd[call["timerfd"].t].used = "yes"
  /\ isr.pc = "finish" => ~(Slot(Current).armed /\ OneShot(Current))

\* The interrupt has counted the expiration of its current timer.
Counted == isr.pc \notin {"idle", "callback", "count", "notify"}

\* A one-shot timer has been counted once, when its time had come, and not before
\* its callback.
CountAt(t) ==
  OneShot(t) =>
    /\ Slot(t).count \in {0, 1}
    /\ Slot(t).count = 1 => expiry[t] <= now
    /\ state[t] = "Pending" => Slot(t).count = 0
    /\ \A k \in Tables : call[k] # NoCall /\ call[k].t = t => Slot(t).count = 0
    /\ t \in Range(expired) => /\ state[t] = "Running" /\ expiry[t] <= now
                               /\ t # Current \/ ~Counted => Slot(t).count = 0

CountInv == \A t \in Timers : CountAt(t)

OneCpu == /\ OneAtATime /\ StartInv /\ InOrder(queue, Settled)
          /\ CallbackInv /\ ArmedInv /\ CountInv

TimerInv == QueueInv /\ QueueOnce /\ OneCpu

-----------------------------------------------------------------------------
(* What Arrange does to a sequence.                                        *)

\* The position p[k] of q goes to place k: all of I, each once, by key.
Arranges(p, I, key, n) ==
  /\ p \in [1 .. n -> I]
  /\ \A i \in I : \E k \in 1 .. n : p[k] = i
  /\ \A j, k \in 1 .. n : j < k =>
       key[p[j]] < key[p[k]] \/ (key[p[j]] = key[p[k]] /\ p[j] < p[k])

\* r holds the entries of q at the positions in I, by key.
Arranged(r, q, I, key) ==
  \E p : /\ Arranges(p, I, key, Len(r))
        /\ \A k \in DOMAIN r : r[k] = q[p[k]]

\* What is assumed of sequences and of sets of numbers here, and proved in
\* TimerProofs.
SequenceFacts ==
  /\ \A S : \A q \in Seq(S) : \A I \in SUBSET DOMAIN q : \A key \in [I -> Int] :
       Arrange(q, I, key) \in Seq(S) /\ Arranged(Arrange(q, I, key), q, I, key)
  /\ \A T \in SUBSET Nat : T # {} => \E x \in T : \A y \in T : x <= y

LEMMA ArrangeFacts ==
  ASSUME SequenceFacts,
         NEW S, NEW q \in Seq(S), NEW I \in SUBSET DOMAIN q, NEW key \in [I -> Int]
  PROVE  Arrange(q, I, key) \in Seq(S) /\ Arranged(Arrange(q, I, key), q, I, key)
BY DEF SequenceFacts

LEMMA LeastElement ==
  ASSUME SequenceFacts, NEW T, T \subseteq Nat, T # {}
  PROVE  \E x \in T : \A y \in T : x <= y
BY DEF SequenceFacts

-----------------------------------------------------------------------------
(* What the operations of the queue do.                                    *)

\* r holds the entries of q at the positions in I, and by key.
Ordered(r, q, I, key) ==
  /\ Range(r) = {q[i] : i \in I}
  /\ \A j, k \in DOMAIN r : j < k =>
       \E a, b \in I : /\ key[a] < key[b] \/ (key[a] = key[b] /\ a < b)
                       /\ r[j] = q[a] /\ r[k] = q[b]

LEMMA ArrangedFacts ==
  ASSUME NEW S, NEW q, NEW I, NEW key, NEW r \in Seq(S), Arranged(r, q, I, key)
  PROVE  Ordered(r, q, I, key)
<1>1. PICK p : /\ Arranges(p, I, key, Len(r))
               /\ \A k \in DOMAIN r : r[k] = q[p[k]]
  BY DEF Arranged
<1>2. DOMAIN r = 1 .. Len(r)
  BY SMT
<1>3. /\ p \in [DOMAIN r -> I]
      /\ \A i \in I : \E k \in DOMAIN r : p[k] = i
      /\ \A j, k \in DOMAIN r : j < k =>
           key[p[j]] < key[p[k]] \/ (key[p[j]] = key[p[k]] /\ p[j] < p[k])
  BY <1>1, <1>2 DEF Arranges
<1>4. ASSUME NEW x \in Range(r) PROVE x \in {q[i] : i \in I}
  <2>1. PICK k \in DOMAIN r : x = r[k]
    BY DEF Range
  <2>2. p[k] \in I /\ x = q[p[k]]
    BY <1>1, <1>3, <2>1
  <2> QED
    BY <2>2
<1>5. ASSUME NEW i \in I PROVE q[i] \in Range(r)
  <2>1. PICK k \in DOMAIN r : p[k] = i
    BY <1>3
  <2>2. r[k] = q[i]
    BY <1>1, <2>1
  <2> QED
    BY <2>2 DEF Range
<1>6. ASSUME NEW j \in DOMAIN r, NEW k \in DOMAIN r, j < k
      PROVE  \E a, b \in I : /\ key[a] < key[b] \/ (key[a] = key[b] /\ a < b)
                             /\ r[j] = q[a] /\ r[k] = q[b]
  <2>1. p[j] \in I /\ p[k] \in I
    BY <1>3
  <2> QED
    BY <1>1, <1>3, <1>6, <2>1
<1> QED
  BY <1>4, <1>5, <1>6 DEF Ordered

\* The entries of r are those of q at the positions in I, in their order.
Retained(r, q, I) ==
  /\ Range(r) = {q[i] : i \in I}
  /\ \A j, k \in DOMAIN r : j < k => \E a, b \in I : a < b /\ r[j] = q[a] /\ r[k] = q[b]

LEMMA RetainFacts ==
  ASSUME SequenceFacts, NEW S, NEW q \in Seq(S), NEW I \in SUBSET DOMAIN q
  PROVE  Retain(q, I) \in Seq(S) /\ Retained(Retain(q, I), q, I)
<1> DEFINE key == [i \in I |-> i]
           r == Retain(q, I)
<1>1. I \in SUBSET Int
  BY SMT
<1>2. key \in [I -> Int] /\ \A i \in I : key[i] = i
  BY <1>1
<1>3. r = Arrange(q, I, key)
  BY DEF Retain
<1> HIDE DEF r, key
<1>4. r \in Seq(S) /\ Ordered(r, q, I, key)
  BY <1>2, <1>3, ArrangeFacts, ArrangedFacts
<1>5. Range(r) = {q[i] : i \in I}
  BY <1>4 DEF Ordered
<1>6. ASSUME NEW j \in DOMAIN r, NEW k \in DOMAIN r, j < k
      PROVE  \E a, b \in I : a < b /\ r[j] = q[a] /\ r[k] = q[b]
  <2>1. PICK a \in I, b \in I : /\ key[a] < key[b] \/ (key[a] = key[b] /\ a < b)
                                /\ r[j] = q[a] /\ r[k] = q[b]
    BY <1>4, <1>6 DEF Ordered
  <2> QED
    BY <1>2, <2>1
<1> QED
  BY <1>4, <1>5, <1>6 DEF r, Retained

\* And by expiry.
Sorted(r, q, I) ==
  /\ Range(r) = {q[i] : i \in I}
  /\ \A j, k \in DOMAIN r : j < k => expiry[r[j]] <= expiry[r[k]]

LEMMA RetainSortedFacts ==
  ASSUME SequenceFacts, NEW q \in Seq(Timers), NEW I \in SUBSET DOMAIN q, expiry \in [Timers -> Nat]
  PROVE  RetainSorted(q, I) \in Seq(Timers) /\ Sorted(RetainSorted(q, I), q, I)
<1> DEFINE key == [i \in I |-> expiry[q[i]]]
           r == RetainSorted(q, I)
<1>1. \A i \in I : q[i] \in Timers
  BY SMT
<1>2. \A i \in I : key[i] \in Nat /\ key[i] \in Int /\ key[i] = expiry[q[i]]
  BY <1>1, SMT
<1>3. key \in [I -> Int]
  BY <1>2
<1>4. r = Arrange(q, I, key)
  BY DEF RetainSorted
<1> HIDE DEF r, key
<1>5. r \in Seq(Timers) /\ Ordered(r, q, I, key)
  BY <1>3, <1>4, ArrangeFacts, ArrangedFacts
<1>6. Range(r) = {q[i] : i \in I}
  BY <1>5 DEF Ordered
<1>7. ASSUME NEW j \in DOMAIN r, NEW k \in DOMAIN r, j < k
      PROVE  expiry[r[j]] <= expiry[r[k]]
  <2>1. PICK a \in I, b \in I : /\ key[a] < key[b] \/ (key[a] = key[b] /\ a < b)
                                /\ r[j] = q[a] /\ r[k] = q[b]
    BY <1>5, <1>7 DEF Ordered
  <2>2. key[a] \in Nat /\ key[b] \in Nat /\ expiry[r[j]] = key[a] /\ expiry[r[k]] = key[b]
    BY <1>2, <2>1
  <2> QED
    BY <2>1, <2>2, SMT
<1> QED
  BY <1>5, <1>6, <1>7 DEF r, Sorted

LEMMA WithoutFacts ==
  ASSUME SequenceFacts, NEW q \in Seq(Timers), NEW t
  PROVE  /\ Without(q, t) \in Seq(Timers)
         /\ Range(Without(q, t)) = Range(q) \ {t}
         /\ Retained(Without(q, t), q, {i \in DOMAIN q : q[i] # t})
<1> DEFINE I == {i \in DOMAIN q : q[i] # t}
           r == Without(q, t)
<1>1. I \in SUBSET DOMAIN q /\ r = Retain(q, I)
  BY DEF Without
<1>2. {q[i] : i \in I} = Range(q) \ {t}
  BY DEF Range
<1> HIDE DEF I, r
<1>3. r \in Seq(Timers) /\ Retained(r, q, I)
  BY <1>1, RetainFacts
<1>4. Range(r) = Range(q) \ {t}
  BY <1>2, <1>3 DEF Retained
<1> QED
  BY <1>3, <1>4 DEF r, I

\* The entries taken are pending and due, and of different timers.
LEMMA TakenFacts ==
  ASSUME SequenceFacts, queue \in Seq(Timers)
  PROVE  /\ Taken \in Seq(Timers)
         /\ \A t \in Range(Taken) : t \in Timers /\ Due(t)
         /\ \A j, k \in DOMAIN Taken : Taken[j] = Taken[k] => j = k
<1> DEFINE I == {i \in Scanned : Due(queue[i]) /\ \A j \in 1 .. i - 1 : queue[j] # queue[i]}
           r == Taken
<1>1. I \in SUBSET DOMAIN queue /\ r = Retain(queue, I)
  BY DEF Taken, Scanned
<1>2. \A i \in I : Due(queue[i])
  OBVIOUS
<1>3. ASSUME NEW a \in I, NEW b \in I, a < b PROVE queue[a] # queue[b]
  <2>1. a \in Nat /\ b \in Nat /\ a > 0
    BY <1>1, SMT
  <2>2. a \in 1 .. b - 1
    BY <1>3, <2>1, SMT
  <2> QED
    BY <2>2
<1> HIDE DEF I, r
<1>4. r \in Seq(Timers) /\ Retained(r, queue, I)
  BY <1>1, RetainFacts
<1>5. \A t \in Range(r) : t \in Timers /\ Due(t)
  <2>1. \A i \in DOMAIN r : r[i] \in Timers
    BY <1>4, SMT
  <2> QED
    BY <1>2, <1>4, <2>1 DEF Retained, Range
<1>6. \A j, k \in DOMAIN r : j < k => r[j] # r[k]
  <2> SUFFICES ASSUME NEW j \in DOMAIN r, NEW k \in DOMAIN r, j < k PROVE r[j] # r[k]
    OBVIOUS
  <2>1. PICK a \in I, b \in I : a < b /\ r[j] = queue[a] /\ r[k] = queue[b]
    BY <1>4 DEF Retained
  <2> QED
    BY <1>3, <2>1
<1>7. \A j, k \in DOMAIN r : j # k => j < k \/ k < j
  <2>1. DOMAIN r \in SUBSET Nat
    BY <1>4, SMT
  <2> QED
    BY <2>1, SMT
<1>8. \A j, k \in DOMAIN r : r[j] = r[k] => j = k
  BY <1>6, <1>7
<1> QED
  BY <1>4, <1>5, <1>8 DEF r

\* r is q with t put in before the first entry that expires after e.
InsertedAt(r, q, t, e, pos) ==
  /\ Len(r) = Len(q) + 1 /\ r[pos] = t
  /\ \A i \in 1 .. pos - 1 : r[i] = q[i] /\ expiry[q[i]] <= e
  /\ \A i \in pos + 1 .. Len(q) + 1 : r[i] = q[i - 1]
  /\ pos <= Len(q) => expiry[q[pos]] > e

LEMMA ConcatFacts ==
  ASSUME NEW S, NEW a \in Seq(S), NEW b \in Seq(S)
  PROVE  /\ a \o b \in Seq(S) /\ Len(a \o b) = Len(a) + Len(b)
         /\ \A i \in 1 .. Len(a) + Len(b) : (a \o b)[i] = IF i <= Len(a) THEN a[i] ELSE b[i - Len(a)]
BY SMT

LEMMA InsertFacts ==
  ASSUME SequenceFacts, NEW q \in Seq(Timers), NEW t \in Timers, NEW e \in Nat,
         expiry \in [Timers -> Nat]
  PROVE  /\ InsertByExpiry(q, t, e) \in Seq(Timers)
         /\ \E pos \in 1 .. Len(q) + 1 : InsertedAt(InsertByExpiry(q, t, e), q, t, e, pos)
         /\ Range(InsertByExpiry(q, t, e)) = Range(q) \cup {t}
<1> DEFINE later == {i \in DOMAIN q : expiry[q[i]] > e}
           first == CHOOSE i \in later : \A j \in later : i <= j
           pos == IF later = {} THEN Len(q) + 1 ELSE first
           r == InsertByExpiry(q, t, e)
<1>1. r = SubSeq(q, 1, pos - 1) \o <<t>> \o SubSeq(q, pos, Len(q))
  BY DEF InsertByExpiry
<1>2. /\ DOMAIN q = 1 .. Len(q) /\ Len(q) \in Nat
      /\ \A i \in DOMAIN q : q[i] \in Timers /\ expiry[q[i]] \in Nat
  BY SMT
<1>3. /\ pos \in 1 .. Len(q) + 1 /\ later \in SUBSET DOMAIN q
      /\ \A i \in later : pos <= i
      /\ pos <= Len(q) => pos \in later
  <2>1. CASE later = {}
    <3>1. pos = Len(q) + 1
      BY <2>1
    <3> QED
      BY <1>2, <2>1, <3>1, SMT
  <2>2. CASE later # {}
    <3>1. later \subseteq Nat
      BY <1>2, SMT
    <3> HIDE DEF later
    <3>2. first \in later /\ \A j \in later : first <= j
      BY <2>2, <3>1, LeastElement
    <3>3. pos = first
      BY <2>2
    <3>4. first \in DOMAIN q /\ later \in SUBSET DOMAIN q
      BY <3>2 DEF later
    <3> HIDE DEF first, pos
    <3>5. pos \in 1 .. Len(q) + 1
      BY <1>2, <3>3, <3>4, SMT
    <3> QED
      BY <3>2, <3>3, <3>4, <3>5
  <2> QED
    BY <2>1, <2>2
<1>4. \A i \in DOMAIN q : i \in later <=> expiry[q[i]] > e
  OBVIOUS
<1> HIDE DEF later, first, pos, r
<1>0. DOMAIN q = 1 .. Len(q) /\ Len(q) \in Nat /\ pos \in Nat /\ 1 <= pos /\ pos <= Len(q) + 1
  <2>1. pos \in 1 .. Len(q) + 1 /\ DOMAIN q = 1 .. Len(q) /\ Len(q) \in Nat
    BY <1>2, <1>3
  <2> QED
    BY <2>1, SMT
<1>5. /\ r \in Seq(Timers) /\ Len(r) = Len(q) + 1 /\ r[pos] = t
      /\ \A i \in 1 .. pos - 1 : r[i] = q[i]
      /\ \A i \in pos + 1 .. Len(q) + 1 : r[i] = q[i - 1]
  <2> DEFINE a == SubSeq(q, 1, pos - 1)
             m == <<t>>
             b == SubSeq(q, pos, Len(q))
  <2>1. pos \in 1 .. Len(q) + 1
    BY <1>3
  <2>2. a \in Seq(Timers) /\ Len(a) = pos - 1 /\ \A i \in 1 .. pos - 1 : a[i] = q[i]
    BY <1>2, <2>1, SMT
  <2>3. b \in Seq(Timers) /\ Len(b) = Len(q) - pos + 1
        /\ \A i \in 1 .. Len(q) - pos + 1 : b[i] = q[pos + i - 1]
    BY <1>2, <2>1, SMT
  <2>4. m \in Seq(Timers) /\ Len(m) = 1 /\ m[1] = t
    BY SMT
  <2>5. r = (a \o m) \o b
    BY <1>1
  <2> HIDE DEF a, b, m
  <2>6. (a \o m) \in Seq(Timers) /\ Len(a \o m) = pos /\ (a \o m)[pos] = t
        /\ \A i \in 1 .. pos - 1 : (a \o m)[i] = q[i]
    <3>1. a \o m \in Seq(Timers) /\ Len(a \o m) = Len(a) + Len(m)
          /\ \A i \in 1 .. Len(a) + Len(m) : (a \o m)[i] = IF i <= Len(a) THEN a[i] ELSE m[i - Len(a)]
      BY <2>2, <2>4, ConcatFacts
    <3>2. Len(a \o m) = pos
      BY <2>1, <2>2, <2>4, <3>1, SMT
    <3>3. (a \o m)[pos] = t
      <4>1. pos \in 1 .. Len(a) + Len(m) /\ ~(pos <= Len(a)) /\ pos - Len(a) = 1
        BY <2>1, <2>2, <2>4, SMT
      <4> QED
        BY <2>4, <3>1, <4>1
    <3>4. ASSUME NEW i \in 1 .. pos - 1 PROVE (a \o m)[i] = q[i]
      <4>1. i \in 1 .. Len(a) + Len(m) /\ i <= Len(a)
        BY <2>1, <2>2, <2>4, SMT
      <4> QED
        BY <2>2, <3>1, <4>1
    <3> QED
      BY <3>1, <3>2, <3>3, <3>4
  <2> DEFINE c == a \o m
  <2> HIDE DEF c
  <2>7. c \in Seq(Timers) /\ Len(c) = pos /\ c[pos] = t
        /\ \A i \in 1 .. pos - 1 : c[i] = q[i]
    BY <2>6 DEF c
  <2>8. r = c \o b
    BY <2>5 DEF c
  <2>9. /\ r \in Seq(Timers) /\ Len(r) = Len(q) + 1 /\ r[pos] = t
        /\ \A i \in 1 .. pos - 1 : r[i] = q[i]
    <3>1. /\ r \in Seq(Timers) /\ Len(r) = Len(c) + Len(b)
          /\ \A k \in 1 .. Len(c) + Len(b) : r[k] = IF k <= Len(c) THEN c[k] ELSE b[k - Len(c)]
      BY <2>3, <2>7, <2>8, ConcatFacts
    <3>2. Len(c) + Len(b) = Len(q) + 1
      <4>1. Len(c) = pos /\ Len(b) = Len(q) - pos + 1
        BY <2>3, <2>7
      <4> QED
        BY <1>0, <4>1, SMT
    <3>3. r[pos] = t
      <4>1. pos \in 1 .. Len(c) + Len(b) /\ pos <= Len(c)
        BY <1>0, <2>7, <3>2, SMT
      <4> QED
        BY <2>7, <3>1, <4>1
    <3>4. ASSUME NEW i \in 1 .. pos - 1 PROVE r[i] = q[i]
      <4>1. i \in 1 .. Len(c) + Len(b) /\ i <= Len(c)
        BY <1>0, <2>7, <3>2, SMT
      <4> QED
        BY <2>7, <3>1, <4>1
    <3> QED
      BY <3>1, <3>2, <3>3, <3>4
  <2>10. ASSUME NEW i \in pos + 1 .. Len(q) + 1 PROVE r[i] = q[i - 1]
    <3>1. i - pos \in 1 .. Len(q) - pos + 1 /\ pos + (i - pos) - 1 = i - 1
      BY <1>0, SMT
    <3>2. r[i] = b[i - pos]
      <4>1. \A k \in 1 .. Len(c) + Len(b) : (c \o b)[k] = IF k <= Len(c) THEN c[k] ELSE b[k - Len(c)]
        BY <2>3, <2>7, ConcatFacts
      <4>2. Len(c) = pos /\ Len(c) + Len(b) = Len(q) + 1
        <5>1. Len(c) = pos /\ Len(b) = Len(q) - pos + 1
          BY <2>3, <2>7
        <5> QED
          BY <1>0, <5>1, SMT
      <4>3. i \in 1 .. Len(c) + Len(b) /\ ~(i <= Len(c))
        BY <1>0, <4>2, SMT
      <4> QED
        BY <2>8, <4>1, <4>2, <4>3
    <3>3. b[i - pos] = q[pos + (i - pos) - 1]
      BY <2>3, <3>1
    <3> QED
      BY <3>1, <3>2, <3>3
  <2> QED
    BY <2>9, <2>10
<1>6. ASSUME NEW i \in 1 .. pos - 1 PROVE i \in DOMAIN q /\ i \notin later
  <2>1. i \in DOMAIN q /\ ~(pos <= i)
    BY <1>0, SMT
  <2> QED
    BY <1>3, <2>1
<1>7. ASSUME NEW i \in 1 .. pos - 1 PROVE expiry[q[i]] <= e
  <2>1. i \in DOMAIN q /\ ~(expiry[q[i]] > e)
    BY <1>4, <1>6
  <2>2. expiry[q[i]] \in Nat
    BY <1>2, <2>1
  <2> QED
    BY <2>1, <2>2, SMT
<1>8. pos <= Len(q) => expiry[q[pos]] > e
  <2> SUFFICES ASSUME pos <= Len(q) PROVE expiry[q[pos]] > e
    OBVIOUS
  <2>1. pos \in later
    BY <1>3
  <2>2. pos \in DOMAIN q
    BY <1>3, <2>1
  <2> QED
    BY <1>4, <2>1, <2>2
<1>9. InsertedAt(r, q, t, e, pos)
  BY <1>5, <1>7, <1>8 DEF InsertedAt
<1>10. Range(r) = Range(q) \cup {t}
  <2>1. DOMAIN r = 1 .. Len(q) + 1
    BY <1>5, SMT
  <2>2. ASSUME NEW i \in DOMAIN r PROVE r[i] \in Range(q) \cup {t}
    <3>1. i \in 1 .. pos - 1 \/ i = pos \/ i \in pos + 1 .. Len(q) + 1
      BY <1>0, <2>1, SMT
    <3>2. i \in pos + 1 .. Len(q) + 1 => i - 1 \in DOMAIN q
      BY <1>0, SMT
    <3> QED
      BY <1>5, <1>6, <3>1, <3>2 DEF Range
  <2>3. ASSUME NEW i \in DOMAIN q PROVE \E j \in DOMAIN r : r[j] = q[i]
    <3>1. CASE i \in 1 .. pos - 1
      <4>1. i \in DOMAIN r
        BY <1>0, <2>1, <3>1, SMT
      <4> QED
        BY <1>5, <3>1, <4>1
    <3>2. CASE i \notin 1 .. pos - 1
      <4>1. i + 1 \in pos + 1 .. Len(q) + 1 /\ i + 1 \in DOMAIN r /\ (i + 1) - 1 = i
        BY <1>0, <2>1, <3>2, SMT
      <4>2. r[i + 1] = q[(i + 1) - 1]
        BY <1>5, <4>1
      <4> QED
        BY <4>1, <4>2
    <3> QED
      BY <3>1, <3>2
  <2>4. pos \in DOMAIN r
    BY <1>3, <2>1
  <2>5. r[pos] = t
    BY <1>5
  <2>6. Range(r) \in SUBSET (Range(q) \cup {t})
    BY <2>2 DEF Range
  <2>7. t \in Range(r)
    BY <2>4, <2>5 DEF Range
  <2>8. Range(q) \in SUBSET Range(r)
    BY <2>3 DEF Range
  <2> QED
    BY <2>6, <2>7, <2>8
<1> QED
  BY <1>3, <1>5, <1>9, <1>10 DEF r

\* hrtimer_start under the lock loses no entry and adds its own.
LEMMA EnqueueFacts ==
  ASSUME SequenceFacts, queue \in Seq(Timers), expiry \in [Timers -> Nat],
         NEW t \in Timers, NEW e \in Nat, NEW by, Enqueue(t, e, by)
  PROVE  queue' \in Seq(Timers) /\ Range(queue') = Range(queue) \cup {t}
<1> DEFINE q == IF queue_seq[t] = by THEN Without(queue, t) ELSE queue
<1>1. queue' = InsertByExpiry(q, t, e)
  BY DEF Enqueue
<1>2. /\ Without(queue, t) \in Seq(Timers)
      /\ Range(Without(queue, t)) = Range(queue) \ {t}
  BY WithoutFacts
<1>3. q \in Seq(Timers) /\ Range(q) \cup {t} = Range(queue) \cup {t}
  BY <1>2
<1> HIDE DEF q
<1> QED
  BY <1>1, <1>3, InsertFacts

\* Entries that come from different positions of a queue without duplicates are
\* different.
LEMMA ApartFacts ==
  ASSUME NEW q, NEW I \in SUBSET DOMAIN q, NEW r \in Seq(Timers), IsInjective(q),
         \A j, k \in DOMAIN r : j < k => \E a, b \in I : a # b /\ r[j] = q[a] /\ r[k] = q[b]
  PROVE  IsInjective(r)
<1>1. ASSUME NEW j \in DOMAIN r, NEW k \in DOMAIN r, j < k PROVE r[j] # r[k]
  <2>1. PICK a \in I, b \in I : a # b /\ r[j] = q[a] /\ r[k] = q[b]
    BY <1>1
  <2>2. q[a] # q[b]
    BY <2>1 DEF IsInjective
  <2> QED
    BY <2>1, <2>2
<1>2. \A j, k \in DOMAIN r : j < k \/ k < j \/ j = k
  <2>1. DOMAIN r \in SUBSET Nat
    BY SMT
  <2> QED
    BY <2>1, SMT
<1> QED
  BY <1>1, <1>2 DEF IsInjective

LEMMA RetainSortedApart ==
  ASSUME SequenceFacts, NEW q \in Seq(Timers), NEW I \in SUBSET DOMAIN q,
         expiry \in [Timers -> Nat], IsInjective(q)
  PROVE  IsInjective(RetainSorted(q, I))
<1> DEFINE key == [i \in I |-> expiry[q[i]]]
           r == RetainSorted(q, I)
<1>1. \A i \in I : q[i] \in Timers /\ i \in Nat
  BY SMT
<1>2. \A i \in I : expiry[q[i]] \in Nat /\ expiry[q[i]] \in Int
  BY <1>1, SMT
<1>3. key \in [I -> Int]
  BY <1>2
<1>4. r = Arrange(q, I, key)
  BY DEF RetainSorted
<1> HIDE DEF r, key
<1>5. r \in Seq(Timers) /\ Ordered(r, q, I, key)
  BY <1>3, <1>4, ArrangeFacts, ArrangedFacts
<1>6. \A a, b \in I : key[a] < key[b] \/ (key[a] = key[b] /\ a < b) => a # b
  BY <1>1, <1>3, SMT
<1>7. ASSUME NEW j \in DOMAIN r, NEW k \in DOMAIN r, j < k
      PROVE  \E a, b \in I : a # b /\ r[j] = q[a] /\ r[k] = q[b]
  <2>1. PICK a \in I, b \in I : /\ key[a] < key[b] \/ (key[a] = key[b] /\ a < b)
                               /\ r[j] = q[a] /\ r[k] = q[b]
    BY <1>5, <1>7 DEF Ordered
  <2> QED
    BY <1>6, <2>1
<1> QED
  BY <1>5, <1>7, ApartFacts DEF r

\* One more entry, of a timer that has none.
LEMMA InsertApart ==
  ASSUME NEW q \in Seq(Timers), NEW r \in Seq(Timers), NEW t, NEW e, NEW pos \in 1 .. Len(q) + 1,
         InsertedAt(r, q, t, e, pos), IsInjective(q), t \notin Range(q)
  PROVE  IsInjective(r)
<1> DEFINE from(i) == IF i < pos THEN i ELSE i - 1
<1>1. ASSUME NEW i \in DOMAIN r, i # pos PROVE from(i) \in DOMAIN q /\ r[i] = q[from(i)] /\ i \in Nat
  <2>1. /\ DOMAIN r = 1 .. Len(q) + 1 /\ DOMAIN q = 1 .. Len(q) /\ Len(q) \in Nat /\ pos \in Nat
        /\ \A x \in 1 .. pos - 1 : r[x] = q[x]
        /\ \A x \in pos + 1 .. Len(q) + 1 : r[x] = q[x - 1]
    BY SMT DEF InsertedAt
  <2>2. CASE i < pos
    <3>1. i \in 1 .. pos - 1 /\ i \in DOMAIN q /\ i \in Nat
      BY <1>1, <2>1, <2>2, SMT
    <3> QED
      BY <2>1, <2>2, <3>1
  <2>3. CASE ~(i < pos)
    <3>1. i \in pos + 1 .. Len(q) + 1 /\ i - 1 \in DOMAIN q /\ i \in Nat
      BY <1>1, <2>1, <2>3, SMT
    <3> QED
      BY <2>1, <2>3, <3>1
  <2> QED
    BY <2>2, <2>3
<1>2. ASSUME NEW i \in DOMAIN r, i # pos PROVE r[i] # t
  <2>1. from(i) \in DOMAIN q /\ r[i] = q[from(i)]
    BY <1>1, <1>2
  <2> HIDE DEF from
  <2>2. q[from(i)] \in Range(q)
    BY <2>1 DEF Range
  <2> QED
    BY <2>1, <2>2
<1>3. r[pos] = t
  BY DEF InsertedAt
<1>4. ASSUME NEW i \in DOMAIN r, NEW j \in DOMAIN r, i # pos, j # pos, r[i] = r[j] PROVE i = j
  <2>1. /\ from(i) \in DOMAIN q /\ r[i] = q[from(i)] /\ i \in Nat
        /\ from(j) \in DOMAIN q /\ r[j] = q[from(j)] /\ j \in Nat
    BY <1>1, <1>4
  <2>2. from(i) = from(j)
    <3> HIDE DEF from
    <3> QED
      BY <1>4, <2>1 DEF IsInjective
  <2> QED
    BY <1>4, <2>1, <2>2, SMT
<1> QED
  BY <1>2, <1>3, <1>4 DEF IsInjective

\* hrtimer_start under the lock replaces the entry that its timer has.
LEMMA EnqueueApart ==
  ASSUME SequenceFacts, queue \in Seq(Timers), expiry \in [Timers -> Nat],
         NEW t \in Timers, NEW e \in Nat, NEW by, Enqueue(t, e, by), queue_seq[t] = by, QueueOnce
  PROVE  QueueOnce'
<1> DEFINE q == Without(queue, t)
           I == {i \in DOMAIN queue : queue[i] # t}
<1>1. queue' = InsertByExpiry(q, t, e)
  BY DEF Enqueue
<1>2. q \in Seq(Timers) /\ t \notin Range(q) /\ Retained(q, queue, I)
  BY WithoutFacts
<1>3. I \in SUBSET DOMAIN queue /\ \A a, b \in I : a < b => a # b
  <2>1. DOMAIN queue \in SUBSET Nat
    BY SMT
  <2> QED
    BY <2>1, SMT
<1> HIDE DEF q, I
<1>4. IsInjective(q)
  <2>1. ASSUME NEW j \in DOMAIN q, NEW k \in DOMAIN q, j < k
        PROVE  \E a, b \in I : a # b /\ q[j] = queue[a] /\ q[k] = queue[b]
    <3>1. PICK a \in I, b \in I : a < b /\ q[j] = queue[a] /\ q[k] = queue[b]
      BY <1>2, <2>1 DEF Retained
    <3> QED
      BY <1>3, <3>1
  <2>2. IsInjective(queue)
    BY DEF QueueOnce, IsInjective
  <2> QED
    BY <1>2, <1>3, <2>1, <2>2, ApartFacts
<1>5. /\ queue' \in Seq(Timers)
      /\ \E pos \in 1 .. Len(q) + 1 : InsertedAt(queue', q, t, e, pos)
  BY <1>1, <1>2, InsertFacts
<1>6. IsInjective(queue')
  BY <1>2, <1>4, <1>5, InsertApart
<1> QED
  BY <1>6 DEF QueueOnce, IsInjective

-----------------------------------------------------------------------------
(* Types.                                                                  *)

LEMMA FieldSteps ==
  ASSUME FieldType, NEW t \in Timers
  PROVE  /\ ResetTimer(t) => FieldType'
         /\ Cancel(t) => FieldType'
         /\ \A e \in Nat, by \in Tables \cup {"isr"} : Announce(t, e, by) => FieldType'
<1>1. 0 \in Nat
  BY SMT
<1>2. ASSUME ResetTimer(t) PROVE FieldType'
  BY <1>1, <1>2 DEF FieldType, ResetTimer, States
<1>3. ASSUME Cancel(t) PROVE FieldType'
  BY <1>3 DEF FieldType, Cancel, States
<1>4. ASSUME NEW e \in Nat, NEW by \in Tables \cup {"isr"}, Announce(t, e, by) PROVE FieldType'
  BY <1>4 DEF FieldType, Announce, States
<1> QED
  BY <1>2, <1>3, <1>4

\* The interrupt's local variables, by where it is.
LEMMA IsrFields ==
  ASSUME isr \in IsrStates
  PROVE  /\ isr.pc \in {"count", "restart", "disarm"} =>
              isr \in [pc : {"count", "restart", "disarm"}, valid : BOOLEAN, interval : Nat]
         /\ isr.pc = "enqueue" => isr \in [pc : {"enqueue"}, e : Nat]
         /\ isr.pc = "finish" => isr \in [pc : {"finish"}, restart : {"OneShot", "Periodic"}]
         /\ isr.pc = "idle" <=> isr = IsrIdle
<1>1. isr = IsrIdle => isr.pc = "idle"
  BY SMT DEF IsrIdle
<1>2. CASE isr \in [pc : {"idle", "callback", "notify", "signal"}]
  <2>1. isr.pc \in {"idle", "callback", "notify", "signal"} /\ isr = [pc |-> isr.pc]
    BY <1>2
  <2>2. isr.pc = "idle" => isr = IsrIdle
    BY <2>1 DEF IsrIdle
  <2> QED
    BY <1>1, <2>1, <2>2
<1>3. CASE isr \in [pc : {"count", "restart", "disarm"}, valid : BOOLEAN, interval : Nat]
  <2>1. isr.pc \in {"count", "restart", "disarm"}
    BY <1>3
  <2> QED
    BY <1>1, <1>3, <2>1
<1>4. CASE isr \in [pc : {"enqueue"}, e : Nat]
  <2>1. isr.pc = "enqueue"
    BY <1>4
  <2> QED
    BY <1>1, <1>4, <2>1
<1>5. CASE isr \in [pc : {"finish"}, restart : {"OneShot", "Periodic"}]
  <2>1. isr.pc = "finish"
    BY <1>5
  <2> QED
    BY <1>1, <1>5, <2>1
<1> QED
  BY <1>2, <1>3, <1>4, <1>5 DEF IsrStates

LEMMA IsrMoves ==
  /\ IsrIdle \in IsrStates /\ [pc |-> "callback"] \in IsrStates
  /\ [pc |-> "notify"] \in IsrStates /\ [pc |-> "signal"] \in IsrStates
  /\ \A r \in {"OneShot", "Periodic"} : [pc |-> "finish", restart |-> r] \in IsrStates
  /\ \A e \in Nat : [pc |-> "enqueue", e |-> e] \in IsrStates
  /\ \A v \in BOOLEAN, n \in Nat : [pc |-> "count", valid |-> v, interval |-> n] \in IsrStates
BY DEF IsrStates, IsrIdle

\* The interrupt works on a timer while it has one.
LEMMA CurrentTyped ==
  ASSUME QueueType, IsrType, isr.pc # "idle"
  PROVE  /\ expired # <<>> /\ Current \in Timers /\ Current \in Range(expired)
         /\ Tail(expired) \in Seq(Timers)
         /\ Current = expired[1] /\ 1 \in DOMAIN expired
<1>1. expired \in Seq(Timers) /\ expired # <<>>
  BY DEF QueueType, IsrType
<1>2. /\ Current = expired[1] /\ 1 \in DOMAIN expired /\ Current \in Timers
      /\ Tail(expired) \in Seq(Timers)
  BY <1>1, SMT DEF Current
<1> QED
  BY <1>1, <1>2 DEF Range

LEMMA CallFields ==
  ASSUME CallType, NEW k \in Tables, call[k] # NoCall
  PROVE  /\ call[k] \in Calls /\ call[k].t \in Timers /\ call[k].e \in Nat
         /\ call[k].pc \in {"announce", "enqueue"}
BY DEF CallType, Calls

LEMMA CallStarts ==
  ASSUME CallType, NEW k \in Tables, NEW t, NEW e \in Nat,
         k = "timerfd" => t \in TimerFds, k = "posix" => t \in PosixTimers,
         call' = [call EXCEPT ![k] = [pc |-> "announce", t |-> t, e |-> e]]
  PROVE  CallType'
<1>1. t \in Timers
  BY DEF Tables, Timers
<1>2. [pc |-> "announce", t |-> t, e |-> e] \in Calls
  BY <1>1 DEF Calls
<1>3. call' \in [Tables -> {NoCall} \cup Calls]
  BY <1>2 DEF CallType
<1>4. \A l \in Tables : l # k => call'[l] = call[l]
  BY DEF CallType
<1>5. call'[k].t = t
  BY DEF CallType
<1>6. "timerfd" \in Tables /\ "posix" \in Tables
  BY DEF Tables
<1> QED
  BY <1>3, <1>4, <1>5, <1>6 DEF CallType

LEMMA CallMoves ==
  ASSUME CallType, NEW k \in Tables, call[k] # NoCall,
         \/ call' = [call EXCEPT ![k].pc = "enqueue"]
         \/ call' = [call EXCEPT ![k] = NoCall]
  PROVE  CallType'
<1>1. call[k] \in Calls
  BY CallFields
<1>2. "timerfd" \in Tables /\ "posix" \in Tables
  BY DEF Tables
<1>3. CASE call' = [call EXCEPT ![k] = NoCall]
  BY <1>2, <1>3 DEF CallType
<1>4. CASE call' = [call EXCEPT ![k].pc = "enqueue"]
  <2>1. [call[k] EXCEPT !.pc = "enqueue"] \in Calls
    BY <1>1 DEF Calls
  <2>2. [call[k] EXCEPT !.pc = "enqueue"].t = call[k].t
    BY <1>1 DEF Calls
  <2>3. call' \in [Tables -> {NoCall} \cup Calls]
    BY <1>4, <2>1 DEF CallType
  <2>4. call'[k].t = call[k].t /\ \A l \in Tables : l # k => call'[l] = call[l]
    BY <1>4, <2>2 DEF CallType
  <2> QED
    BY <1>2, <2>3, <2>4 DEF CallType
<1> QED
  BY <1>3, <1>4

\* One slot changes, to a record of its type.
LEMMA TfdStep ==
  ASSUME SlotType, NEW t \in TimerFds, NEW s \in TfdSlots,
         tfd' = [tfd EXCEPT ![t] = s], UNCHANGED ptm
  PROVE  /\ SlotType' /\ t \in Timers /\ Slot(t)' = s
         /\ \A u \in Timers : u # t => Slot(u)' = Slot(u)
<1>1. tfd' \in [TimerFds -> TfdSlots] /\ tfd'[t] = s /\ \A u \in TimerFds : u # t => tfd'[u] = tfd[u]
  BY DEF SlotType
<1> QED
  BY <1>1 DEF SlotType, Timers, Slot

LEMMA PtmStep ==
  ASSUME SlotType, NEW t \in PosixTimers, NEW s \in PtmSlots,
         ptm' = [ptm EXCEPT ![t] = s], UNCHANGED tfd
  PROVE  /\ SlotType' /\ t \in Timers /\ Slot(t)' = s
         /\ \A u \in Timers : u # t => Slot(u)' = Slot(u)
<1>1. ptm' \in [PosixTimers -> PtmSlots] /\ ptm'[t] = s /\ \A u \in PosixTimers : u # t => ptm'[u] = ptm[u]
  BY DEF SlotType
<1>2. t \notin TimerFds
  BY TimerAssumption
<1> QED
  BY <1>1, <1>2 DEF SlotType, Timers, Slot

LEMMA SlotFields ==
  ASSUME SlotType, NEW t \in Timers
  PROVE  /\ Slot(t).armed \in BOOLEAN /\ Slot(t).interval \in Nat /\ Slot(t).count \in Nat
         /\ t \in TimerFds => Slot(t) = tfd[t] /\ tfd[t] \in TfdSlots
         /\ t \in PosixTimers => Slot(t) = ptm[t] /\ ptm[t] \in PtmSlots
<1>1. CASE t \in TimerFds
  <2>1. t \notin PosixTimers
    BY <1>1, TimerAssumption
  <2> QED
    BY <1>1, <2>1 DEF SlotType, TfdSlots, Slot
<1>2. CASE t \notin TimerFds
  <2>1. t \in PosixTimers
    BY <1>2 DEF Timers
  <2> QED
    BY <1>2, <2>1 DEF SlotType, PtmSlots, Slot
<1> QED
  BY <1>1, <1>2

\* The steps that write parts of a slot.
LEMMA SlotWrites ==
  ASSUME SlotType, NEW t \in TimerFds, NEW n \in Nat, NEW b \in BOOLEAN
  PROVE  /\ [tfd EXCEPT ![t].count = n] = [tfd EXCEPT ![t] = [tfd[t] EXCEPT !.count = n]]
         /\ [tfd EXCEPT ![t].armed = b] = [tfd EXCEPT ![t] = [tfd[t] EXCEPT !.armed = b]]
         /\ [tfd EXCEPT ![t].armed = b, ![t].interval = n, ![t].count = 0] =
              [tfd EXCEPT ![t] = [used |-> tfd[t].used, armed |-> b, interval |-> n, count |-> 0]]
         /\ [tfd[t] EXCEPT !.count = n] \in TfdSlots
         /\ [tfd[t] EXCEPT !.armed = b] \in TfdSlots
         /\ [used |-> tfd[t].used, armed |-> b, interval |-> n, count |-> 0] \in TfdSlots
<1>0. 0 \in Nat
  BY SMT
<1>1. [tfd EXCEPT ![t].count = n] = [tfd EXCEPT ![t] = [tfd[t] EXCEPT !.count = n]]
  BY DEF SlotType
<1>2. [tfd EXCEPT ![t].armed = b] = [tfd EXCEPT ![t] = [tfd[t] EXCEPT !.armed = b]]
  BY DEF SlotType
<1>3. [tfd EXCEPT ![t].armed = b, ![t].interval = n, ![t].count = 0] =
              [tfd EXCEPT ![t] = [used |-> tfd[t].used, armed |-> b, interval |-> n, count |-> 0]]
  <2> DEFINE a == [tfd EXCEPT ![t].armed = b]
             c == [a EXCEPT ![t].interval = n]
             d == [c EXCEPT ![t].count = 0]
             s == [used |-> tfd[t].used, armed |-> b, interval |-> n, count |-> 0]
  <2>1. tfd[t] \in TfdSlots /\ tfd = [u \in TimerFds |-> tfd[u]]
    BY DEF SlotType
  <2>2. a = [u \in TimerFds |-> IF u = t THEN [tfd[t] EXCEPT !.armed = b] ELSE tfd[u]]
    BY <2>1
  <2>3. c = [u \in TimerFds |-> IF u = t THEN [a[t] EXCEPT !.interval = n] ELSE tfd[u]]
    BY <2>2
  <2>4. d = [u \in TimerFds |-> IF u = t THEN [c[t] EXCEPT !.count = 0] ELSE tfd[u]]
    BY <2>3
  <2>5. a[t] = [used |-> tfd[t].used, armed |-> b, interval |-> tfd[t].interval, count |-> tfd[t].count]
    BY <2>1, <2>2 DEF TfdSlots
  <2>6. c[t] = [used |-> tfd[t].used, armed |-> b, interval |-> n, count |-> tfd[t].count]
    BY <2>3, <2>5
  <2>7. d[t] = s
    BY <2>4, <2>6
  <2>8. [tfd EXCEPT ![t] = s] = [u \in TimerFds |-> IF u = t THEN s ELSE tfd[u]]
    BY <2>1
  <2> HIDE DEF a, c, s
  <2>9. d = [tfd EXCEPT ![t] = s]
    BY <2>4, <2>7, <2>8
  <2> QED
    BY <2>9 DEF a, c, s
<1>4. tfd[t] \in TfdSlots
  BY DEF SlotType
<1>5. [tfd[t] EXCEPT !.count = n] \in TfdSlots
  BY <1>4 DEF TfdSlots
<1>6. [tfd[t] EXCEPT !.armed = b] \in TfdSlots
  BY <1>4 DEF TfdSlots
<1>7. [used |-> tfd[t].used, armed |-> b, interval |-> n, count |-> 0] \in TfdSlots
  BY <1>0, <1>4 DEF TfdSlots
<1> QED
  BY <1>1, <1>2, <1>3, <1>5, <1>6, <1>7

LEMMA PtmWrites ==
  ASSUME SlotType, NEW t \in PosixTimers, NEW n \in Nat, NEW b \in BOOLEAN, NEW c \in BOOLEAN
  PROVE  /\ [ptm EXCEPT ![t].count = n] = [ptm EXCEPT ![t] = [ptm[t] EXCEPT !.count = n]]
         /\ [ptm EXCEPT ![t].armed = b] = [ptm EXCEPT ![t] = [ptm[t] EXCEPT !.armed = b]]
         /\ [ptm[t] EXCEPT !.count = n] \in PtmSlots
         /\ [ptm[t] EXCEPT !.armed = b] \in PtmSlots
         /\ [used |-> c, armed |-> b, interval |-> n, count |-> 0] \in PtmSlots
<1>0. 0 \in Nat
  BY SMT
<1>1. [ptm EXCEPT ![t].count = n] = [ptm EXCEPT ![t] = [ptm[t] EXCEPT !.count = n]]
  BY DEF SlotType
<1>2. [ptm EXCEPT ![t].armed = b] = [ptm EXCEPT ![t] = [ptm[t] EXCEPT !.armed = b]]
  BY DEF SlotType
<1>3. ptm[t] \in PtmSlots
  BY DEF SlotType
<1>4. [ptm[t] EXCEPT !.count = n] \in PtmSlots
  BY <1>3 DEF PtmSlots
<1>5. [ptm[t] EXCEPT !.armed = b] \in PtmSlots
  BY <1>3 DEF PtmSlots
<1>6. [used |-> c, armed |-> b, interval |-> n, count |-> 0] \in PtmSlots
  BY <1>0 DEF PtmSlots
<1> QED
  BY <1>1, <1>2, <1>4, <1>5, <1>6

\* What a system call may do to the fields of a timer before hrtimer_start.
FieldsTouched(t) ==
  /\ \A u \in Timers : u # t => /\ expiry'[u] = expiry[u] /\ state'[u] = state[u]
                                /\ queue_seq'[u] = queue_seq[u]
  /\ \/ expiry'[t] = expiry[t] /\ state'[t] = state[t]
     \/ expiry'[t] <= expiry[t] /\ state'[t] = "Inactive"

LEMMA FieldTouch ==
  ASSUME FieldType, NEW t \in Timers, ResetTimer(t) \/ Cancel(t) \/ UNCHANGED timer_vars
  PROVE  FieldType' /\ FieldsTouched(t)
<1>1. FieldType'
  <2>1. CASE UNCHANGED timer_vars
    BY <2>1 DEF FieldType, timer_vars
  <2> QED
    BY <2>1, FieldSteps
<1>2. \A u \in Timers : u # t => /\ expiry'[u] = expiry[u] /\ state'[u] = state[u]
                                 /\ queue_seq'[u] = queue_seq[u]
  BY DEF FieldType, ResetTimer, Cancel, timer_vars
<1>3. expiry[t] \in Nat
  BY DEF FieldType
<1>4. 0 <= expiry[t] /\ expiry[t] <= expiry[t]
  BY <1>3, SMT
<1>5. \/ expiry'[t] = expiry[t] /\ state'[t] = state[t]
      \/ expiry'[t] <= expiry[t] /\ state'[t] = "Inactive"
  BY <1>4 DEF FieldType, ResetTimer, Cancel, timer_vars
<1> QED
  BY <1>1, <1>2, <1>5 DEF FieldsTouched

\* A system call on timer t that does not go on to hrtimer_start: an armed slot
\* stays armed only where nothing but the count changes.
Ends(t) == /\ UNCHANGED call
           /\ Slot(t)'.armed => /\ Slot(t).armed /\ Slot(t)'.interval = Slot(t).interval
                                /\ state'[t] = state[t]

\* And one that does.
Begins(t) ==
  \E k \in Tables, e \in Nat :
    /\ call[k] = NoCall
    /\ call' = [call EXCEPT ![k] = [pc |-> "announce", t |-> t, e |-> e]]
    /\ k = "timerfd" => t \in TimerFds /\ tfd'[t].used = "yes"
    /\ k = "posix" => t \in PosixTimers

Called(t) ==
  /\ AtRest /\ UNCHANGED <<now, queue, expired, isr>>
  /\ FieldType' /\ FieldsTouched(t)
  /\ SlotType' /\ \A u \in Timers : u # t => Slot(u)' = Slot(u)
  /\ Slot(t)'.count = 0
  /\ t \in TimerFds => tfd'[t].used = "yes" \/ ~tfd'[t].armed
  /\ Ends(t) \/ Begins(t)

\* sys_timerfd_settime and sys_timer_settime draw an expiry.
LEMMA SetTime ==
  ASSUME QueueType, NEW value \in Delays, NEW abstime \in BOOLEAN
  PROVE  (IF abstime THEN value ELSE now + value) \in Nat
<1>1. value \in Nat /\ now \in Nat
  BY TimerAssumption DEF QueueType
<1> QED
  BY <1>1, SMT

LEMMA TfdEnds ==
  ASSUME FieldType, SlotType, NEW t \in TimerFds,
         TfdDisarm(t) \/ sys_timerfd_close(t) \/ sys_timerfd_create(t) \/ sys_timerfd_read(t),
         UNCHANGED ptm
  PROVE  t \in Timers /\ Called(t)
<1>1. t \in Timers /\ 0 \in Nat /\ tfd[t] \in TfdSlots /\ Slot(t) = tfd[t]
  BY SMT DEF Timers, SlotType, Slot
<1>2. AtRest /\ UNCHANGED <<now, queue, expired, isr, call>>
  BY DEF TfdDisarm, sys_timerfd_close, sys_timerfd_create, sys_timerfd_read
<1>3. FieldType' /\ FieldsTouched(t)
  BY <1>1, FieldTouch DEF TfdDisarm, sys_timerfd_close, sys_timerfd_create, sys_timerfd_read, TfdCancel
<1>4. CASE sys_timerfd_read(t)
  <2> DEFINE s == [tfd[t] EXCEPT !.count = 0]
  <2>1. tfd' = [tfd EXCEPT ![t] = s] /\ s \in TfdSlots
    BY <1>1, <1>4, SlotWrites DEF sys_timerfd_read
  <2>2. s.count = 0 /\ s.armed = tfd[t].armed /\ s.interval = tfd[t].interval /\ s.used = "yes"
    BY <1>1, <1>4 DEF TfdSlots, sys_timerfd_read
  <2> HIDE DEF s
  <2>3. SlotType' /\ Slot(t)' = s /\ \A u \in Timers : u # t => Slot(u)' = Slot(u)
    BY <2>1, TfdStep
  <2>4. tfd'[t] = s
    BY <2>1 DEF SlotType
  <2>5. state'[t] = state[t]
    BY <1>4 DEF sys_timerfd_read, timer_vars
  <2>6. Ends(t)
    BY <1>1, <1>2, <2>2, <2>3, <2>5 DEF Ends
  <2> QED
    BY <1>1, <1>2, <1>3, <2>2, <2>3, <2>4, <2>6 DEF Called
<1>5. CASE TfdDisarm(t) \/ sys_timerfd_close(t) \/ sys_timerfd_create(t)
  <2>1. PICK s \in TfdSlots : tfd' = [tfd EXCEPT ![t] = s] /\ ~s.armed /\ s.count = 0
    <3>1. CASE TfdDisarm(t)
      <4> DEFINE s == [used |-> tfd[t].used, armed |-> FALSE, interval |-> 0, count |-> 0]
      <4>1. tfd' = [tfd EXCEPT ![t] = s] /\ s \in TfdSlots
        BY <1>1, <3>1, SlotWrites DEF TfdDisarm
      <4>2. ~s.armed /\ s.count = 0
        OBVIOUS
      <4> HIDE DEF s
      <4> QED
        BY <4>1, <4>2
    <3>2. CASE sys_timerfd_close(t)
      <4> DEFINE s == [used |-> "closed", armed |-> FALSE, interval |-> 0, count |-> 0]
      <4>1. tfd' = [tfd EXCEPT ![t] = s] /\ s \in TfdSlots
        BY <1>1, <3>2 DEF sys_timerfd_close, TfdSlots
      <4>2. ~s.armed /\ s.count = 0
        OBVIOUS
      <4> HIDE DEF s
      <4> QED
        BY <4>1, <4>2
    <3>3. CASE sys_timerfd_create(t)
      <4> DEFINE s == [used |-> "yes", armed |-> FALSE, interval |-> 0, count |-> 0]
      <4>1. tfd' = [tfd EXCEPT ![t] = s] /\ s \in TfdSlots
        BY <1>1, <3>3 DEF sys_timerfd_create, TfdSlots
      <4>2. ~s.armed /\ s.count = 0
        OBVIOUS
      <4> HIDE DEF s
      <4> QED
        BY <4>1, <4>2
    <3> QED
      BY <1>5, <3>1, <3>2, <3>3
  <2>2. SlotType' /\ Slot(t)' = s /\ \A u \in Timers : u # t => Slot(u)' = Slot(u)
    BY <2>1, TfdStep
  <2>3. tfd'[t] = s
    BY <2>1 DEF SlotType
  <2>4. Ends(t)
    BY <1>2, <2>1, <2>2 DEF Ends
  <2> QED
    BY <1>1, <1>2, <1>3, <2>1, <2>2, <2>3, <2>4 DEF Called
<1> QED
  BY <1>4, <1>5

LEMMA TfdBegins ==
  ASSUME QueueType, FieldType, SlotType, NEW t \in TimerFds,
         NEW value \in Delays, NEW interval \in Intervals, NEW abstime \in BOOLEAN,
         sys_timerfd_settime(t, value, interval, abstime), UNCHANGED ptm
  PROVE  t \in Timers /\ Called(t)
<1> DEFINE e == IF abstime THEN value ELSE now + value
           s == [used |-> tfd[t].used, armed |-> FALSE, interval |-> interval, count |-> 0]
<1>1. t \in Timers /\ interval \in Nat /\ e \in Nat
  BY SetTime, TimerAssumption DEF Timers
<1>2. AtRest /\ UNCHANGED <<now, queue, expired, isr>>
  BY DEF sys_timerfd_settime
<1>3. FieldType' /\ FieldsTouched(t)
  BY <1>1, FieldTouch DEF sys_timerfd_settime
<1>4. tfd' = [tfd EXCEPT ![t] = s] /\ s \in TfdSlots
  BY <1>1, SlotWrites DEF sys_timerfd_settime
<1>5. s.count = 0 /\ s.used = "yes"
  BY DEF sys_timerfd_settime
<1>6. /\ call["timerfd"] = NoCall
      /\ call' = [call EXCEPT !["timerfd"] = [pc |-> "announce", t |-> t, e |-> e]]
  BY DEF sys_timerfd_settime, AtRest, Tables
<1> HIDE DEF e, s
<1>7. SlotType' /\ Slot(t)' = s /\ \A u \in Timers : u # t => Slot(u)' = Slot(u)
  BY <1>4, TfdStep
<1>8. tfd'[t].used = "yes"
  BY <1>4, <1>5 DEF SlotType
<1>9. Begins(t)
  <2>1. "timerfd" \in Tables /\ "timerfd" # "posix"
    BY DEF Tables
  <2> QED
    BY <1>1, <1>6, <1>8, <2>1 DEF Begins
<1> QED
  BY <1>1, <1>2, <1>3, <1>5, <1>7, <1>8, <1>9 DEF Called

LEMMA PtmEnds ==
  ASSUME FieldType, SlotType, NEW t \in PosixTimers,
         PtmDisarm(t) \/ sys_timer_delete(t) \/ sys_timer_create(t), UNCHANGED tfd
  PROVE  t \in Timers /\ Called(t)
<1>1. t \in Timers /\ 0 \in Nat /\ t \notin TimerFds
  BY TimerAssumption, SMT DEF Timers
<1>2. AtRest /\ UNCHANGED <<now, queue, expired, isr, call>>
  BY DEF PtmDisarm, sys_timer_delete, sys_timer_create
<1>3. FieldType' /\ FieldsTouched(t)
  BY <1>1, FieldTouch DEF PtmDisarm, sys_timer_delete, sys_timer_create, PtmCancel
<1>4. PICK s \in PtmSlots : ptm' = [ptm EXCEPT ![t] = s] /\ ~s.armed /\ s.count = 0
  <2> DEFINE on == [Unused EXCEPT !.used = TRUE]
  <2>1. Unused \in PtmSlots /\ ~Unused.armed /\ Unused.count = 0
    BY <1>1 DEF PtmSlots, Unused
  <2>2. on \in PtmSlots /\ on.armed = Unused.armed /\ on.count = Unused.count
    BY <2>1 DEF PtmSlots
  <2> HIDE DEF on
  <2>3. ptm' = [ptm EXCEPT ![t] = on] \/ ptm' = [ptm EXCEPT ![t] = Unused]
    BY DEF PtmDisarm, sys_timer_delete, sys_timer_create, on
  <2> QED
    BY <2>1, <2>2, <2>3
<1>5. SlotType' /\ Slot(t)' = s /\ \A u \in Timers : u # t => Slot(u)' = Slot(u)
  BY <1>4, PtmStep
<1>6. Ends(t)
  BY <1>2, <1>4, <1>5 DEF Ends
<1> QED
  BY <1>1, <1>2, <1>3, <1>4, <1>5, <1>6 DEF Called

LEMMA PtmBegins ==
  ASSUME QueueType, FieldType, SlotType, NEW t \in PosixTimers,
         NEW value \in Delays, NEW interval \in Intervals, NEW abstime \in BOOLEAN,
         sys_timer_settime(t, value, interval, abstime), UNCHANGED tfd
  PROVE  t \in Timers /\ Called(t)
<1> DEFINE e == IF abstime THEN value ELSE now + value
           s == [used |-> TRUE, armed |-> TRUE, interval |-> interval, count |-> 0]
<1>1. t \in Timers /\ interval \in Nat /\ e \in Nat /\ t \notin TimerFds
  BY SetTime, TimerAssumption DEF Timers
<1>2. AtRest /\ UNCHANGED <<now, queue, expired, isr>>
  BY DEF sys_timer_settime
<1>3. FieldType' /\ FieldsTouched(t)
  BY <1>1, FieldTouch DEF sys_timer_settime, PtmCancel
<1>4. ptm' = [ptm EXCEPT ![t] = s] /\ s \in PtmSlots
  BY <1>1, PtmWrites DEF sys_timer_settime
<1>5. s.count = 0
  OBVIOUS
<1>6. /\ call["posix"] = NoCall
      /\ call' = [call EXCEPT !["posix"] = [pc |-> "announce", t |-> t, e |-> e]]
  BY DEF sys_timer_settime, AtRest, Tables
<1> HIDE DEF e, s
<1>7. SlotType' /\ Slot(t)' = s /\ \A u \in Timers : u # t => Slot(u)' = Slot(u)
  BY <1>4, PtmStep
<1>8. Begins(t)
  <2>1. "posix" \in Tables /\ "timerfd" # "posix"
    BY DEF Tables
  <2> QED
    BY <1>1, <1>6, <2>1 DEF Begins
<1> QED
  BY <1>1, <1>2, <1>3, <1>5, <1>7, <1>8 DEF Called

\* Every system call up to hrtimer_start works on one timer.
LEMMA SyscallTouches ==
  ASSUME QueueType, FieldType, SlotType, Syscall
  PROVE  \E t \in Timers : Called(t)
<1>1. CASE TfdSyscall /\ UNCHANGED ptm
  <2>1. PICK t \in TimerFds :
          \/ sys_timerfd_create(t) \/ TfdDisarm(t) \/ sys_timerfd_close(t) \/ sys_timerfd_read(t)
          \/ \E value \in Delays, interval \in Intervals, abstime \in BOOLEAN :
               sys_timerfd_settime(t, value, interval, abstime)
    BY <1>1 DEF TfdSyscall
  <2>2. t \in Timers /\ Called(t)
    BY <1>1, <2>1, TfdEnds, TfdBegins
  <2> QED
    BY <2>2
<1>2. CASE PtmSyscall /\ UNCHANGED tfd
  <2>1. PICK t \in PosixTimers :
          \/ sys_timer_create(t) \/ PtmDisarm(t) \/ sys_timer_delete(t)
          \/ \E value \in Delays, interval \in Intervals, abstime \in BOOLEAN :
               sys_timer_settime(t, value, interval, abstime)
    BY <1>2 DEF PtmSyscall
  <2>2. t \in Timers /\ Called(t)
    BY <1>2, <2>1, PtmEnds, PtmBegins
  <2> QED
    BY <2>2
<1> QED
  BY <1>1, <1>2 DEF Syscall

-----------------------------------------------------------------------------
(* Every action keeps the types.                                           *)

LEMMA IsrStays ==
  ASSUME IsrType, UNCHANGED <<isr, expired>>
  PROVE  IsrType' /\ Current' = Current
BY DEF IsrType, Current

LEMMA IsrStep ==
  ASSUME IsrType, isr.pc # "idle", UNCHANGED expired,
         isr' \in IsrStates, isr'.pc # "idle",
         isr'.pc \in {"count", "restart", "disarm", "enqueue"} => Current \in TimerFds,
         isr'.pc \in {"notify", "signal"} => Current \in PosixTimers
  PROVE  IsrType' /\ Current' = Current
<1>1. Current' = Current
  BY DEF Current
<1>2. expired' # <<>>
  BY DEF IsrType
<1> QED
  BY <1>1, <1>2 DEF IsrType

LEMMA CalledTypes ==
  ASSUME TimerType, NEW t \in Timers, Called(t)
  PROVE  TimerType'
<1>1. QueueType'
  BY DEF TimerType, QueueType, Called
<1>2. IsrType'
  BY IsrStays DEF TimerType, Called
<1>3. CallType'
  <2>1. CASE Ends(t)
    BY <2>1 DEF TimerType, CallType, Ends
  <2>2. CASE Begins(t)
    <3>1. PICK k \in Tables, e \in Nat :
            /\ call' = [call EXCEPT ![k] = [pc |-> "announce", t |-> t, e |-> e]]
            /\ k = "timerfd" => t \in TimerFds
            /\ k = "posix" => t \in PosixTimers
      BY <2>2 DEF Begins
    <3> QED
      BY <3>1, CallStarts DEF TimerType
  <2> QED
    BY <2>1, <2>2 DEF Called
<1> QED
  BY <1>1, <1>2, <1>3 DEF TimerType, Called

LEMMA AdvanceTypes ==
  ASSUME TimerType, Advance, UNCHANGED <<tfd, ptm>>
  PROVE  TimerType'
<1>1. now' \in Nat
  BY SMT DEF TimerType, QueueType, Advance
<1>2. QueueType'
  BY <1>1 DEF TimerType, QueueType, Advance
<1>3. FieldType' /\ CallType' /\ SlotType'
  BY DEF TimerType, FieldType, CallType, SlotType, Advance, timer_vars
<1>4. IsrType'
  BY IsrStays DEF TimerType, Advance
<1> QED
  BY <1>2, <1>3, <1>4 DEF TimerType

LEMMA BusyCall ==
  ASSUME NEW k \in Tables, call[k].pc = "announce" \/ call[k].pc = "enqueue"
  PROVE  call[k] # NoCall
<1>1. NoCall.pc = "none"
  BY SMT DEF NoCall
<1> QED
  BY <1>1

LEMMA AnnounceTypes ==
  ASSUME TimerType, NEW k \in Tables, CallAnnounce(k), UNCHANGED <<tfd, ptm>>
  PROVE  TimerType'
<1>1. call[k] # NoCall
  BY BusyCall DEF CallAnnounce
<1>2. call[k].t \in Timers /\ call[k].e \in Nat
  BY <1>1, CallFields DEF TimerType
<1>3. FieldType'
  BY <1>2, FieldSteps DEF TimerType, CallAnnounce
<1>4. CallType'
  BY <1>1, CallMoves DEF TimerType, CallAnnounce
<1>5. IsrType'
  BY IsrStays DEF TimerType, CallAnnounce
<1>6. QueueType' /\ SlotType'
  BY DEF TimerType, QueueType, SlotType, CallAnnounce
<1> QED
  BY <1>3, <1>4, <1>5, <1>6 DEF TimerType

\* hrtimer_start under the lock, called from the system call of table k.
CallEnqueues(k) ==
  /\ k \in Tables /\ call[k].pc = "enqueue"
  /\ Enqueue(call[k].t, call[k].e, k)
  /\ call' = [call EXCEPT ![k] = NoCall]
  /\ UNCHANGED <<now, timer_vars, expired, isr>>
  /\ \/ UNCHANGED <<tfd, ptm>>
     \/ k = "timerfd" /\ tfd' = [tfd EXCEPT ![call[k].t].armed = TRUE] /\ UNCHANGED ptm

LEMMA EnqueueSteps ==
  ASSUME (TfdEnqueue /\ UNCHANGED ptm) \/ (PtmEnqueue /\ UNCHANGED tfd)
  PROVE  \E k \in Tables : CallEnqueues(k)
<1>1. "timerfd" \in Tables /\ "posix" \in Tables
  BY DEF Tables
<1>2. TfdEnqueue /\ UNCHANGED ptm => CallEnqueues("timerfd")
  BY <1>1 DEF TfdEnqueue, CallEnqueues
<1>3. PtmEnqueue /\ UNCHANGED tfd => CallEnqueues("posix")
  BY <1>1 DEF PtmEnqueue, CallEnqueues
<1> QED
  BY <1>1, <1>2, <1>3

LEMMA EnqueueTypes ==
  ASSUME SequenceFacts, TimerType, NEW k \in Tables, CallEnqueues(k)
  PROVE  TimerType' /\ Range(queue') = Range(queue) \cup {call[k].t} /\ call[k] # NoCall
<1>1. call[k] # NoCall
  BY BusyCall DEF CallEnqueues
<1>2. call[k].t \in Timers /\ call[k].e \in Nat
  BY <1>1, CallFields DEF TimerType
<1>3. queue' \in Seq(Timers) /\ Range(queue') = Range(queue) \cup {call[k].t}
  BY <1>2, EnqueueFacts DEF TimerType, QueueType, FieldType, CallEnqueues
<1>4. QueueType' /\ FieldType'
  BY <1>3 DEF TimerType, QueueType, FieldType, CallEnqueues, timer_vars
<1>5. CallType'
  BY <1>1, CallMoves DEF TimerType, CallEnqueues
<1>6. IsrType'
  BY IsrStays DEF TimerType, CallEnqueues
<1>7. SlotType'
  <2>1. CASE UNCHANGED <<tfd, ptm>>
    BY <2>1 DEF TimerType, SlotType
  <2>2. CASE k = "timerfd" /\ tfd' = [tfd EXCEPT ![call[k].t].armed = TRUE] /\ UNCHANGED ptm
    <3>1. call[k].t \in TimerFds
      BY <1>1, <2>2 DEF TimerType, CallType
    <3>2. 0 \in Nat
      BY SMT
    <3>3. tfd' = [tfd EXCEPT ![call[k].t] = [tfd[call[k].t] EXCEPT !.armed = TRUE]]
          /\ [tfd[call[k].t] EXCEPT !.armed = TRUE] \in TfdSlots
      BY <2>2, <3>1, <3>2, SlotWrites DEF TimerType
    <3> QED
      BY <2>2, <3>1, <3>3, TfdStep DEF TimerType
  <2> QED
    BY <2>1, <2>2 DEF CallEnqueues
<1> QED
  BY <1>1, <1>3, <1>4, <1>5, <1>6, <1>7 DEF TimerType

LEMMA RunTypes ==
  ASSUME SequenceFacts, TimerType, RunQueues, UNCHANGED <<tfd, ptm>>
  PROVE  /\ TimerType'
         /\ Sorted(queue', queue, {i \in DOMAIN queue : state'[queue[i]] = "Pending"})
<1> DEFINE I == {i \in DOMAIN queue : state'[queue[i]] = "Pending"}
<1>1. queue \in Seq(Timers) /\ expiry \in [Timers -> Nat] /\ state \in [Timers -> States]
  BY DEF TimerType, QueueType, FieldType
<1>2. queue' = RetainSorted(queue, I) /\ I \in SUBSET DOMAIN queue
  BY DEF RunQueues
<1> HIDE DEF I
<1>3. queue' \in Seq(Timers) /\ Sorted(queue', queue, I)
  BY <1>1, <1>2, RetainSortedFacts
<1>4. expired' = Taken /\ Taken \in Seq(Timers)
  BY <1>1, TakenFacts DEF RunQueues
<1>5. QueueType'
  BY <1>3, <1>4 DEF TimerType, QueueType, RunQueues
<1>6. FieldType'
  BY <1>1 DEF TimerType, FieldType, RunQueues, States
<1>7. CallType' /\ SlotType'
  BY DEF TimerType, CallType, SlotType, RunQueues
<1>8. IsrType'
  <2>1. IsrIdle.pc = "idle" /\ [pc |-> "callback"].pc = "callback"
    BY SMT DEF IsrIdle
  <2>2. IsrIdle \in IsrStates /\ [pc |-> "callback"] \in IsrStates
    BY IsrMoves
  <2>3. CASE Taken = <<>>
    <3>1. expired' = <<>> /\ isr' = IsrIdle
      BY <1>4, <2>3 DEF RunQueues
    <3> QED
      BY <2>1, <2>2, <3>1 DEF IsrType
  <2>4. CASE Taken # <<>>
    <3>1. expired' # <<>> /\ isr' = [pc |-> "callback"]
      BY <1>4, <2>4 DEF RunQueues
    <3> QED
      BY <2>1, <2>2, <3>1 DEF IsrType
  <2> QED
    BY <2>3, <2>4
<1> QED
  BY <1>3, <1>5, <1>6, <1>7, <1>8 DEF TimerType, I

LEMMA FinishTypes ==
  ASSUME TimerType, Finish, UNCHANGED <<tfd, ptm>>
  PROVE  TimerType'
<1>1. isr.pc # "idle"
  BY DEF Finish
<1>2. Current \in Timers /\ Tail(expired) \in Seq(Timers)
  BY <1>1, CurrentTyped DEF TimerType
<1>3. QueueType'
  BY <1>2 DEF TimerType, QueueType, Finish
<1>4. FieldType'
  BY <1>2 DEF TimerType, FieldType, Finish, States
<1>5. CallType' /\ SlotType'
  BY DEF TimerType, CallType, SlotType, Finish
<1>6. IsrType'
  <2>1. IsrIdle.pc = "idle" /\ [pc |-> "callback"].pc = "callback"
    BY SMT DEF IsrIdle
  <2>2. IsrIdle \in IsrStates /\ [pc |-> "callback"] \in IsrStates
    BY IsrMoves
  <2>3. CASE Tail(expired) = <<>>
    <3>1. expired' = <<>> /\ isr' = IsrIdle
      BY <2>3 DEF Finish
    <3> QED
      BY <2>1, <2>2, <3>1 DEF IsrType
  <2>4. CASE Tail(expired) # <<>>
    <3>1. expired' # <<>> /\ isr' = [pc |-> "callback"]
      BY <2>4 DEF Finish
    <3> QED
      BY <2>1, <2>2, <3>1 DEF IsrType
  <2> QED
    BY <2>3, <2>4
<1> QED
  BY <1>3, <1>4, <1>5, <1>6 DEF TimerType

\* The steps of a callback leave the list of the interrupt and the calls alone.
LEMMA CallbackFrame ==
  ASSUME TimerType, (TfdCallback /\ UNCHANGED ptm) \/ (PtmCallback /\ UNCHANGED tfd)
  PROVE  /\ UNCHANGED <<now, expired, call>> /\ CallType'
         /\ isr.pc # "idle" /\ Current \in Timers /\ Current' = Current
         /\ ~CallbackEnqueues => UNCHANGED queue
         /\ ~CallbackRestarts => UNCHANGED timer_vars
<1>1. /\ UNCHANGED <<now, expired, call>> /\ isr.pc # "idle"
      /\ ~CallbackEnqueues => UNCHANGED queue
      /\ ~CallbackRestarts => UNCHANGED timer_vars
  BY DEF TfdCallback, PtmCallback, CallbackReads, CallbackCounts, CallbackRestarts, CallbackEnqueues,
         CallbackDisarms, PtmCallbackReads, PtmCallbackCounts, PtmCallbackDisarms
<1>2. Current \in Timers
  BY <1>1, CurrentTyped DEF TimerType
<1>3. Current' = Current /\ CallType'
  BY <1>1 DEF Current, TimerType, CallType
<1> QED
  BY <1>1, <1>2, <1>3

LEMMA ReadsTypes ==
  ASSUME TimerType, CallbackReads, UNCHANGED ptm
  PROVE  TimerType'
<1>1. /\ UNCHANGED <<now, expired, call>> /\ CallType' /\ isr.pc # "idle"
      /\ UNCHANGED <<queue, timer_vars, tfd, ptm>>
  BY CallbackFrame DEF TfdCallback, CallbackReads
<1>2. Current \in TimerFds /\ Current \in Timers
  BY DEF CallbackReads, Timers
<1>3. tfd[Current].interval \in Nat
  BY <1>2 DEF TimerType, SlotType, TfdSlots
<1>4. (tfd[Current].used = "yes") \in BOOLEAN
  OBVIOUS
<1>5. isr' \in IsrStates
  BY <1>3, <1>4, IsrMoves DEF CallbackReads
<1>6. isr'.pc = "count"
  BY DEF CallbackReads
<1>7. IsrType'
  BY <1>1, <1>2, <1>5, <1>6, IsrStep DEF TimerType
<1>8. QueueType' /\ FieldType' /\ SlotType'
  BY <1>1 DEF TimerType, QueueType, FieldType, SlotType, timer_vars
<1> QED
  BY <1>1, <1>7, <1>8 DEF TimerType

\* The end of a callback.
LEMMA ToFinish ==
  ASSUME TimerType, isr.pc # "idle", UNCHANGED expired,
         NEW r \in {"OneShot", "Periodic"}, isr' = [pc |-> "finish", restart |-> r]
  PROVE  IsrType' /\ isr'.pc = "finish"
<1>1. isr' \in IsrStates
  BY IsrMoves
<1>2. isr'.pc = "finish"
  OBVIOUS
<1>3. IsrType'
  BY <1>1, <1>2, IsrStep DEF TimerType
<1> QED
  BY <1>2, <1>3

LEMMA CountsTypes ==
  ASSUME TimerType, CallbackCounts, UNCHANGED ptm
  PROVE  /\ TimerType'
         /\ \A u \in Timers : u # Current => Slot(u)' = Slot(u)
         /\ isr.valid => /\ Slot(Current)'.count = Slot(Current).count + 1
                         /\ Slot(Current)'.armed = Slot(Current).armed
                         /\ Slot(Current)'.interval = Slot(Current).interval
                         /\ Slot(Current)'.used = Slot(Current).used
                         /\ isr'.valid = isr.valid /\ isr'.interval = isr.interval
                         /\ isr'.pc = (IF isr.interval > 0 THEN "restart" ELSE "disarm")
         /\ ~isr.valid => UNCHANGED tfd /\ isr'.pc = "finish"
<1>1. /\ UNCHANGED <<now, expired, call>> /\ CallType' /\ isr.pc # "idle"
      /\ UNCHANGED <<queue, timer_vars>>
  <2>1. UNCHANGED <<queue, timer_vars>>
    BY DEF CallbackCounts
  <2> QED
    BY <2>1, CallbackFrame DEF TfdCallback
<1>2. Current \in TimerFds /\ Current \in Timers /\ isr.pc = "count"
  BY DEF CallbackCounts, TimerType, IsrType, Timers
<1>3. QueueType' /\ FieldType'
  BY <1>1 DEF TimerType, QueueType, FieldType, timer_vars
<1>4. isr \in [pc : {"count", "restart", "disarm"}, valid : BOOLEAN, interval : Nat]
  BY <1>2, IsrFields DEF TimerType, IsrType
<1>5. Slot(Current) = tfd[Current] /\ tfd[Current] \in TfdSlots /\ tfd[Current].count \in Nat
  BY <1>2 DEF Slot, TimerType, SlotType, TfdSlots
<1>6. CASE isr.valid
  <2> DEFINE n == tfd[Current].count + 1
             s == [tfd[Current] EXCEPT !.count = n]
             pc == IF isr.interval > 0 THEN "restart" ELSE "disarm"
  <2>1. n \in Nat
    BY <1>5, SMT
  <2>2. tfd' = [tfd EXCEPT ![Current].count = n] /\ isr' = [isr EXCEPT !.pc = pc]
    BY <1>6 DEF CallbackCounts
  <2> HIDE DEF n
  <2>3. tfd' = [tfd EXCEPT ![Current] = s] /\ s \in TfdSlots
    BY <1>2, <2>1, <2>2, SlotWrites DEF TimerType
  <2>4. s.count = n /\ s.armed = tfd[Current].armed /\ s.interval = tfd[Current].interval
        /\ s.used = tfd[Current].used
    BY <1>5 DEF TfdSlots
  <2> HIDE DEF s
  <2>5. SlotType' /\ Slot(Current)' = s /\ \A u \in Timers : u # Current => Slot(u)' = Slot(u)
    <3>1. /\ SlotType' /\ tfd'[Current] = s
          /\ \A u \in Timers : u # Current => Slot(u)' = Slot(u)
      BY <1>2, <2>3, TfdStep DEF TimerType, SlotType
    <3>2. Slot(Current)' = tfd'[Current]
      BY <1>1, <1>2 DEF Slot, Current
    <3> QED
      BY <3>1, <3>2
  <2>6. pc \in {"restart", "disarm"}
    OBVIOUS
  <2> HIDE DEF pc
  <2>7. /\ isr' \in [pc : {"count", "restart", "disarm"}, valid : BOOLEAN, interval : Nat]
        /\ isr'.pc = pc /\ isr'.valid = isr.valid /\ isr'.interval = isr.interval
    BY <1>4, <2>2, <2>6
  <2>8. isr' \in IsrStates
    BY <2>7 DEF IsrStates
  <2>9. IsrType'
    BY <1>1, <1>2, <2>6, <2>7, <2>8, IsrStep DEF TimerType
  <2> QED
    BY <1>1, <1>3, <1>5, <1>6, <2>4, <2>5, <2>7, <2>9 DEF TimerType, pc, n
<1>7. CASE ~isr.valid
  <2>1. UNCHANGED tfd /\ isr' = [pc |-> "finish", restart |-> "OneShot"]
    BY <1>7 DEF CallbackCounts
  <2>2. IsrType' /\ isr'.pc = "finish"
    BY <1>1, <2>1, ToFinish
  <2>3. SlotType' /\ \A u \in Timers : Slot(u)' = Slot(u)
    BY <2>1 DEF TimerType, SlotType, Slot
  <2> QED
    BY <1>1, <1>3, <1>7, <2>1, <2>2, <2>3 DEF TimerType
<1> QED
  BY <1>6, <1>7

LEMMA RestartTypes ==
  ASSUME TimerType, CallbackRestarts, UNCHANGED ptm
  PROVE  TimerType' /\ isr' = [pc |-> "enqueue", e |-> NextExpiry] /\ NextExpiry \in Nat
<1>1. /\ UNCHANGED <<now, expired, call>> /\ CallType' /\ isr.pc # "idle"
      /\ UNCHANGED <<queue, tfd, ptm>> /\ Current \in Timers
  BY CallbackFrame DEF TfdCallback, CallbackRestarts
<1>2. Current \in TimerFds /\ isr.pc = "restart"
  BY DEF CallbackRestarts, TimerType, IsrType
<1>3. isr \in [pc : {"count", "restart", "disarm"}, valid : BOOLEAN, interval : Nat]
  BY <1>2, IsrFields DEF TimerType, IsrType
<1>4. isr.interval \in Nat /\ expiry[Current] \in Nat /\ now \in Nat
  BY <1>1, <1>3 DEF TimerType, QueueType, FieldType
<1>5. NextExpiry \in Nat
  BY <1>4, SMT DEF NextExpiry
<1>6. isr' = [pc |-> "enqueue", e |-> NextExpiry] /\ Announce(Current, NextExpiry, "isr")
  BY DEF CallbackRestarts
<1>7. isr' \in IsrStates
  BY <1>5, <1>6, IsrMoves
<1>8. isr'.pc = "enqueue"
  BY <1>6
<1>9. IsrType'
  BY <1>1, <1>2, <1>7, <1>8, IsrStep DEF TimerType
<1>10. FieldType'
  BY <1>1, <1>5, <1>6, FieldSteps DEF TimerType
<1>11. QueueType' /\ SlotType'
  BY <1>1 DEF TimerType, QueueType, SlotType
<1> QED
  BY <1>1, <1>5, <1>6, <1>9, <1>10, <1>11 DEF TimerType

LEMMA RequeueTypes ==
  ASSUME SequenceFacts, TimerType, CallbackEnqueues, UNCHANGED ptm
  PROVE  /\ TimerType' /\ isr'.pc = "finish"
         /\ Range(queue') = Range(queue) \cup {Current}
<1>1. /\ UNCHANGED <<now, expired, call>> /\ CallType' /\ isr.pc # "idle"
      /\ UNCHANGED <<timer_vars, tfd, ptm>> /\ Current \in Timers
  BY CallbackFrame DEF TfdCallback, CallbackEnqueues
<1>2. isr.pc = "enqueue"
  BY DEF CallbackEnqueues
<1>3. isr \in [pc : {"enqueue"}, e : Nat]
  BY <1>2, IsrFields DEF TimerType, IsrType
<1>4. isr.e \in Nat
  BY <1>3
<1>5. queue' \in Seq(Timers) /\ Range(queue') = Range(queue) \cup {Current}
  BY <1>1, <1>4, EnqueueFacts DEF CallbackEnqueues, TimerType, QueueType, FieldType
<1>6. IsrType' /\ isr'.pc = "finish"
  BY <1>1, ToFinish DEF CallbackEnqueues
<1>7. QueueType' /\ FieldType' /\ SlotType'
  BY <1>1, <1>5 DEF TimerType, QueueType, FieldType, SlotType, timer_vars
<1> QED
  BY <1>1, <1>5, <1>6, <1>7 DEF TimerType

\* The slot of the current timer is disarmed, and the callback is over.
Disarms == \/ CallbackDisarms /\ UNCHANGED ptm
           \/ PtmCallbackDisarms /\ UNCHANGED tfd

LEMMA DisarmTypes ==
  ASSUME TimerType, Disarms
  PROVE  /\ TimerType' /\ isr'.pc = "finish" /\ Current \in Timers
         /\ UNCHANGED <<now, queue, timer_vars, expired, call>>
         /\ \A u \in Timers : u # Current => Slot(u)' = Slot(u)
         /\ ~Slot(Current)'.armed
         /\ Slot(Current)'.count = Slot(Current).count
         /\ Slot(Current)'.interval = Slot(Current).interval
         /\ \A u \in TimerFds : tfd'[u].used = tfd[u].used
<1>1. /\ UNCHANGED <<now, expired, call>> /\ CallType' /\ isr.pc # "idle"
      /\ UNCHANGED <<queue, timer_vars>> /\ Current \in Timers /\ Current' = Current
  <2>1. UNCHANGED <<queue, timer_vars>>
    BY DEF Disarms, CallbackDisarms, PtmCallbackDisarms
  <2> QED
    BY <2>1, CallbackFrame DEF Disarms, TfdCallback, PtmCallback
<1>2. QueueType' /\ FieldType'
  BY <1>1 DEF TimerType, QueueType, FieldType, timer_vars
<1>3. IsrType' /\ isr'.pc = "finish"
  BY <1>1, ToFinish DEF Disarms, CallbackDisarms, PtmCallbackDisarms
<1>4. 0 \in Nat
  BY SMT
<1>5. CASE CallbackDisarms /\ UNCHANGED ptm
  <2> DEFINE s == [tfd[Current] EXCEPT !.armed = FALSE]
  <2>1. Current \in TimerFds
    BY <1>5 DEF CallbackDisarms, TimerType, IsrType
  <2>2. tfd' = [tfd EXCEPT ![Current] = s] /\ s \in TfdSlots
    BY <1>4, <1>5, <2>1, SlotWrites DEF CallbackDisarms, TimerType
  <2>3. Slot(Current) = tfd[Current] /\ tfd[Current] \in TfdSlots
    BY <2>1 DEF Slot, TimerType, SlotType
  <2>4. /\ s.count = tfd[Current].count /\ ~s.armed /\ s.interval = tfd[Current].interval
        /\ s.used = tfd[Current].used
    BY <2>3 DEF TfdSlots
  <2> HIDE DEF s
  <2>5. /\ SlotType' /\ tfd'[Current] = s
        /\ \A u \in Timers : u # Current => Slot(u)' = Slot(u)
        /\ \A u \in TimerFds : u # Current => tfd'[u] = tfd[u]
    BY <1>5, <2>1, <2>2, TfdStep DEF TimerType, SlotType
  <2>6. Slot(Current)' = s
    BY <1>1, <2>1, <2>5 DEF Slot, Current
  <2> QED
    BY <1>1, <1>2, <1>3, <2>3, <2>4, <2>5, <2>6 DEF TimerType
<1>6. CASE PtmCallbackDisarms /\ UNCHANGED tfd
  <2> DEFINE s == [ptm[Current] EXCEPT !.armed = FALSE]
  <2>1. Current \in PosixTimers
    BY <1>6 DEF PtmCallbackDisarms, TimerType, IsrType
  <2>2. ptm' = [ptm EXCEPT ![Current] = s] /\ s \in PtmSlots
    BY <1>4, <1>6, <2>1, PtmWrites DEF PtmCallbackDisarms, TimerType
  <2>3. Slot(Current) = ptm[Current] /\ ptm[Current] \in PtmSlots /\ Current \notin TimerFds
    BY <2>1, TimerAssumption DEF Slot, TimerType, SlotType
  <2>4. s.count = ptm[Current].count /\ ~s.armed /\ s.interval = ptm[Current].interval
    BY <2>3 DEF PtmSlots
  <2> HIDE DEF s
  <2>5. /\ SlotType' /\ ptm'[Current] = s
        /\ \A u \in Timers : u # Current => Slot(u)' = Slot(u)
    BY <1>6, <2>1, <2>2, PtmStep DEF TimerType, SlotType
  <2>6. Slot(Current)' = s
    BY <1>1, <2>3, <2>5 DEF Slot, Current
  <2> QED
    BY <1>1, <1>2, <1>3, <1>6, <2>3, <2>4, <2>5, <2>6 DEF TimerType
<1> QED
  BY <1>5, <1>6 DEF Disarms

LEMMA PtmReadsTypes ==
  ASSUME TimerType, PtmCallbackReads, UNCHANGED tfd
  PROVE  TimerType' /\ isr'.pc = (IF ptm[Current].interval > 0 THEN "finish" ELSE "notify")
<1>1. /\ UNCHANGED <<now, expired, call>> /\ CallType' /\ isr.pc # "idle"
      /\ UNCHANGED <<queue, timer_vars, tfd, ptm>>
  BY CallbackFrame DEF PtmCallback, PtmCallbackReads
<1>2. Current \in PosixTimers
  BY DEF PtmCallbackReads
<1>3. QueueType' /\ FieldType' /\ SlotType'
  BY <1>1 DEF TimerType, QueueType, FieldType, SlotType, timer_vars
<1>4. CASE ptm[Current].interval > 0
  <2>1. isr' = [pc |-> "finish", restart |-> "Periodic"]
    BY <1>4 DEF PtmCallbackReads
  <2>2. IsrType' /\ isr'.pc = "finish"
    BY <1>1, <2>1, ToFinish
  <2> QED
    BY <1>1, <1>3, <1>4, <2>2 DEF TimerType
<1>5. CASE ~(ptm[Current].interval > 0)
  <2>1. isr' = [pc |-> "notify"]
    BY <1>5 DEF PtmCallbackReads
  <2>2. isr' \in IsrStates /\ isr'.pc = "notify"
    BY <2>1, IsrMoves
  <2>3. IsrType'
    BY <1>1, <1>2, <2>2, IsrStep DEF TimerType
  <2> QED
    BY <1>1, <1>3, <1>5, <2>2, <2>3 DEF TimerType
<1> QED
  BY <1>4, <1>5

LEMMA PtmCountsTypes ==
  ASSUME TimerType, PtmCallbackCounts, UNCHANGED tfd
  PROVE  /\ TimerType' /\ isr'.pc = "signal"
         /\ \A u \in Timers : u # Current => Slot(u)' = Slot(u)
         /\ Slot(Current)'.count = Slot(Current).count + 1
         /\ Slot(Current)'.armed = Slot(Current).armed
         /\ Slot(Current)'.interval = Slot(Current).interval
<1>1. /\ UNCHANGED <<now, expired, call>> /\ CallType' /\ isr.pc # "idle"
      /\ UNCHANGED <<queue, timer_vars>> /\ Current' = Current
  BY CallbackFrame DEF PtmCallback, PtmCallbackCounts
<1>2. Current \in PosixTimers
  BY DEF PtmCallbackCounts, TimerType, IsrType
<1>3. QueueType' /\ FieldType'
  BY <1>1 DEF TimerType, QueueType, FieldType, timer_vars
<1>4. isr' \in IsrStates /\ isr'.pc = "signal"
  BY IsrMoves DEF PtmCallbackCounts
<1>5. IsrType'
  BY <1>1, <1>2, <1>4, IsrStep DEF TimerType
<1>6. /\ Slot(Current) = ptm[Current] /\ ptm[Current] \in PtmSlots /\ Current \notin TimerFds
      /\ ptm[Current].count \in Nat
  BY <1>2, TimerAssumption DEF Slot, TimerType, SlotType, PtmSlots
<1> DEFINE n == ptm[Current].count + 1
           s == [ptm[Current] EXCEPT !.count = n]
<1>7. n \in Nat
  BY <1>6, SMT
<1>8. ptm' = [ptm EXCEPT ![Current].count = n]
  BY DEF PtmCallbackCounts
<1> HIDE DEF n
<1>9. ptm' = [ptm EXCEPT ![Current] = s] /\ s \in PtmSlots
  BY <1>2, <1>7, <1>8, PtmWrites DEF TimerType
<1>10. s.count = n /\ s.armed = ptm[Current].armed /\ s.interval = ptm[Current].interval
  BY <1>6 DEF PtmSlots
<1> HIDE DEF s
<1>11. /\ SlotType' /\ ptm'[Current] = s
       /\ \A u \in Timers : u # Current => Slot(u)' = Slot(u)
  BY <1>2, <1>9, PtmStep DEF TimerType, SlotType
<1>12. Slot(Current)' = s
  BY <1>1, <1>6, <1>11 DEF Slot, Current
<1> QED
  BY <1>1, <1>3, <1>4, <1>5, <1>6, <1>10, <1>11, <1>12 DEF TimerType, n

LEMMA NextTypes ==
  ASSUME SequenceFacts, TimerType, [Next]_vars
  PROVE  TimerType'
<1>1. CASE Syscall
  <2>1. PICK t \in Timers : Called(t)
    BY <1>1, SyscallTouches DEF TimerType
  <2> QED
    BY <2>1, CalledTypes
<1>2. CASE Tick
  BY <1>2, RunTypes DEF Tick
<1>3. CASE InCall
  <2>1. CASE \E k \in Tables : CallAnnounce(k) /\ UNCHANGED <<tfd, ptm>>
    BY <2>1, AnnounceTypes
  <2>2. CASE (TfdEnqueue /\ UNCHANGED ptm) \/ (PtmEnqueue /\ UNCHANGED tfd)
    <3>1. PICK k \in Tables : CallEnqueues(k)
      BY <2>2, EnqueueSteps
    <3> QED
      BY <3>1, EnqueueTypes
  <2> QED
    BY <1>3, <2>1, <2>2 DEF InCall
<1>4. CASE Interrupt
  BY <1>4, FinishTypes, ReadsTypes, CountsTypes, RestartTypes, RequeueTypes, DisarmTypes,
     PtmReadsTypes, PtmCountsTypes DEF Interrupt, TfdCallback, PtmCallback, Disarms
<1>5. CASE Advance /\ UNCHANGED <<tfd, ptm>>
  BY <1>5, AdvanceTypes
<1>6. CASE UNCHANGED vars
  BY <1>6 DEF vars, hr_vars, timer_vars, TimerType, QueueType, FieldType, IsrType, CallType,
              SlotType, Current
<1> QED
  BY <1>1, <1>2, <1>3, <1>4, <1>5, <1>6 DEF Next

LEMMA InitTypes ==
  ASSUME Init
  PROVE  TimerType
<1>1. 0 \in Nat /\ <<>> \in Seq(Timers)
  BY SMT
<1>2. QueueType /\ FieldType
  BY <1>1 DEF Init, HrInit, QueueType, FieldType, States
<1>3. IsrIdle \in IsrStates /\ IsrIdle.pc = "idle"
  BY IsrMoves DEF IsrIdle
<1>4. IsrType
  BY <1>3 DEF Init, HrInit, IsrType
<1>5. CallType
  BY DEF Init, HrInit, CallType, Tables
<1>6. SlotType
  BY <1>1 DEF Init, TfdInit, PtmInit, SlotType, TfdSlots, PtmSlots, Unused
<1> QED
  BY <1>2, <1>4, <1>5, <1>6 DEF TimerType

-----------------------------------------------------------------------------
(* The queue.                                                              *)

\* No callback runs twice: the list of the interrupt is made of different timers
\* and only gets shorter.
LEMMA NextRunOnce ==
  ASSUME SequenceFacts, TimerType, RunOnce, [Next]_vars
  PROVE  RunOnce'
<1>1. CASE UNCHANGED expired
  BY <1>1 DEF RunOnce
<1>2. CASE RunQueues
  <2>1. expired' = Taken
    BY <1>2 DEF RunQueues
  <2>2. \A j, k \in DOMAIN Taken : Taken[j] = Taken[k] => j = k
    BY TakenFacts DEF TimerType, QueueType
  <2> QED
    BY <2>1, <2>2 DEF RunOnce
<1>3. CASE Finish
  <2>1. expired \in Seq(Timers) /\ expired # <<>>
    <3>1. isr.pc # "idle"
      BY <1>3 DEF Finish
    <3> QED
      BY <3>1, CurrentTyped DEF TimerType, QueueType
  <2>2. expired' = Tail(expired)
    BY <1>3 DEF Finish
  <2>3. ASSUME NEW i \in DOMAIN expired'
        PROVE  i \in Nat /\ i + 1 \in DOMAIN expired /\ expired'[i] = expired[i + 1]
    BY <2>1, <2>2, SMT
  <2>4. ASSUME NEW i \in DOMAIN expired', NEW j \in DOMAIN expired', expired'[i] = expired'[j]
        PROVE  i = j
    <3>1. i + 1 = j + 1
      BY <2>3, <2>4 DEF RunOnce
    <3>2. i \in Nat /\ j \in Nat
      BY <2>3
    <3> QED
      BY <3>1, <3>2, SMT
  <2> QED
    BY <2>4 DEF RunOnce
<1>4. CASE Syscall
  <2>1. PICK t \in Timers : Called(t)
    BY <1>4, SyscallTouches DEF TimerType
  <2> QED
    BY <1>1, <2>1 DEF Called
<1>5. CASE TfdCallback \/ PtmCallback
  BY <1>1, <1>5 DEF TfdCallback, PtmCallback, CallbackReads, CallbackCounts, CallbackRestarts,
     CallbackEnqueues, CallbackDisarms, PtmCallbackReads, PtmCallbackCounts, PtmCallbackDisarms
<1>6. CASE InCall
  BY <1>1, <1>6 DEF InCall, CallAnnounce, TfdEnqueue, PtmEnqueue
<1>7. CASE Advance
  BY <1>1, <1>7 DEF Advance
<1>8. CASE UNCHANGED vars
  BY <1>1, <1>8 DEF vars, hr_vars
<1> QED
  BY <1>2, <1>3, <1>4, <1>5, <1>6, <1>7, <1>8 DEF Next, Interrupt, Tick

\* Where the entry of a pending timer is.
Held(t) == \/ t \in Range(queue)
           \/ \E k \in Tables : call[k] # NoCall /\ call[k].t = t /\ call[k].pc = "enqueue"
           \/ isr.pc = "enqueue" /\ Current = t

LEMMA HeldFacts ==
  /\ PendingIsQueued <=> \A t \in Timers : state[t] = "Pending" => Held(t)
  /\ PendingIsQueued' <=> \A t \in Timers : state'[t] = "Pending" => Held(t)'
BY DEF PendingIsQueued, Held

LEMMA CalledQueue ==
  ASSUME TimerType, PendingIsQueued, NEW t \in Timers, Called(t)
  PROVE  PendingIsQueued'
<1> SUFFICES ASSUME NEW u \in Timers, state'[u] = "Pending" PROVE Held(u)'
  BY HeldFacts
<1>1. state[u] = "Pending"
  BY DEF Called, FieldsTouched
<1>2. Held(u)
  BY <1>1, HeldFacts
<1>3. UNCHANGED <<queue, expired, isr>>
  BY DEF Called
<1>4. CASE \E k \in Tables : call[k] # NoCall /\ call[k].t = u /\ call[k].pc = "enqueue"
  <2>1. PICK k \in Tables : call[k] # NoCall /\ call[k].t = u /\ call[k].pc = "enqueue"
    BY <1>4
  <2>2. call'[k] = call[k]
    BY <2>1 DEF Called, Ends, Begins, TimerType, CallType
  <2> QED
    BY <2>1, <2>2 DEF Held
<1> QED
  BY <1>2, <1>3, <1>4 DEF Held, Current

LEMMA AnnounceQueue ==
  ASSUME TimerType, PendingIsQueued, NEW k \in Tables, CallAnnounce(k)
  PROVE  PendingIsQueued'
<1> SUFFICES ASSUME NEW u \in Timers, state'[u] = "Pending" PROVE Held(u)'
  BY HeldFacts
<1>1. call[k] # NoCall
  BY BusyCall DEF CallAnnounce
<1>2. call[k] \in Calls /\ call[k].pc = "announce"
  BY <1>1, CallFields DEF TimerType, CallAnnounce
<1>3. UNCHANGED <<queue, expired, isr>>
  BY DEF CallAnnounce
<1>4. /\ call'[k].t = call[k].t /\ call'[k].pc = "enqueue"
      /\ \A l \in Tables : l # k => call'[l] = call[l]
  BY <1>2 DEF CallAnnounce, TimerType, CallType, Calls
<1>5. call'[k] # NoCall
  <2>1. NoCall.pc = "none"
    BY SMT DEF NoCall
  <2> QED
    BY <1>4, <2>1
<1>6. CASE u = call[k].t
  BY <1>4, <1>5, <1>6 DEF Held
<1>7. CASE u # call[k].t
  <2>1. state[u] = "Pending"
    BY <1>7 DEF CallAnnounce, Announce, TimerType, FieldType
  <2>2. Held(u)
    BY <2>1, HeldFacts
  <2>3. CASE \E l \in Tables : call[l] # NoCall /\ call[l].t = u /\ call[l].pc = "enqueue"
    <3>1. PICK l \in Tables : call[l] # NoCall /\ call[l].t = u /\ call[l].pc = "enqueue"
      BY <2>3
    <3>2. call'[l] = call[l]
      BY <1>4, <1>7, <3>1
    <3> QED
      BY <3>1, <3>2 DEF Held
  <2> QED
    BY <1>3, <2>2, <2>3 DEF Held, Current
<1> QED
  BY <1>6, <1>7

LEMMA EnqueueQueue ==
  ASSUME SequenceFacts, TimerType, PendingIsQueued, NEW k \in Tables, CallEnqueues(k)
  PROVE  PendingIsQueued'
<1> SUFFICES ASSUME NEW u \in Timers, state'[u] = "Pending" PROVE Held(u)'
  BY HeldFacts
<1>1. Range(queue') = Range(queue) \cup {call[k].t}
  BY EnqueueTypes
<1>2. state[u] = "Pending" /\ UNCHANGED <<expired, isr>>
  BY DEF CallEnqueues, timer_vars
<1>3. Held(u)
  BY <1>2, HeldFacts
<1>4. CASE \E l \in Tables : call[l] # NoCall /\ call[l].t = u /\ call[l].pc = "enqueue"
  <2>1. PICK l \in Tables : call[l] # NoCall /\ call[l].t = u /\ call[l].pc = "enqueue"
    BY <1>4
  <2>2. CASE l = k
    BY <1>1, <2>1, <2>2 DEF Held
  <2>3. CASE l # k
    <3>1. call'[l] = call[l]
      BY <2>3 DEF CallEnqueues, TimerType, CallType
    <3> QED
      BY <2>1, <3>1 DEF Held
  <2> QED
    BY <2>2, <2>3
<1> QED
  BY <1>1, <1>2, <1>3, <1>4 DEF Held, Current

LEMMA RunQueue ==
  ASSUME SequenceFacts, TimerType, PendingIsQueued, RunQueues, UNCHANGED <<tfd, ptm>>
  PROVE  PendingIsQueued'
<1> SUFFICES ASSUME NEW u \in Timers, state'[u] = "Pending" PROVE Held(u)'
  BY HeldFacts
<1>1. state[u] = "Pending"
  BY DEF RunQueues
<1>2. Held(u) /\ UNCHANGED call
  BY <1>1, HeldFacts DEF RunQueues
<1>3. isr.pc # "enqueue"
  <2>1. IsrIdle.pc = "idle"
    BY SMT DEF IsrIdle
  <2> QED
    BY <2>1 DEF RunQueues, AtRest
<1>4. CASE u \in Range(queue)
  <2>1. PICK i \in DOMAIN queue : queue[i] = u
    BY <1>4 DEF Range
  <2>2. Range(queue') = {queue[j] : j \in {j \in DOMAIN queue : state'[queue[j]] = "Pending"}}
    BY RunTypes DEF Sorted
  <2>3. u \in Range(queue')
    BY <2>1, <2>2
  <2> QED
    BY <2>3 DEF Held
<1> QED
  BY <1>2, <1>3, <1>4 DEF Held

LEMMA CallbackQueue ==
  ASSUME SequenceFacts, TimerType, PendingIsQueued,
         (TfdCallback /\ UNCHANGED ptm) \/ (PtmCallback /\ UNCHANGED tfd)
  PROVE  PendingIsQueued'
<1> SUFFICES ASSUME NEW u \in Timers, state'[u] = "Pending" PROVE Held(u)'
  BY HeldFacts
<1>1. UNCHANGED <<expired, call>> /\ Current' = Current /\ Current \in Timers
  BY CallbackFrame
<1>2. CASE CallbackRestarts
  <2>1. isr'.pc = "enqueue" /\ isr.pc = "restart" /\ UNCHANGED queue
    BY <1>2 DEF CallbackRestarts
  <2>2. CASE u = Current
    BY <1>1, <2>1, <2>2 DEF Held
  <2>3. CASE u # Current
    <3>1. state[u] = "Pending"
      BY <1>2, <2>3 DEF CallbackRestarts, Announce, TimerType, FieldType
    <3>2. Held(u)
      BY <3>1, HeldFacts
    <3> QED
      BY <1>1, <2>1, <3>2 DEF Held
  <2> QED
    BY <2>2, <2>3
<1>3. CASE CallbackEnqueues
  <2>1. Range(queue') = Range(queue) \cup {Current}
    <3>1. UNCHANGED ptm
      BY <1>3 DEF PtmCallback, PtmCallbackReads, PtmCallbackCounts, PtmCallbackDisarms, CallbackEnqueues
    <3> QED
      BY <1>3, <3>1, RequeueTypes
  <2>2. Held(u)
    <3>1. state[u] = "Pending"
      BY <1>3 DEF CallbackEnqueues, timer_vars
    <3> QED
      BY <3>1, HeldFacts
  <2> QED
    BY <1>1, <2>1, <2>2 DEF Held
<1>4. CASE ~CallbackRestarts /\ ~CallbackEnqueues
  <2>1. UNCHANGED <<queue, timer_vars>>
    BY <1>4, CallbackFrame
  <2>2. isr.pc # "enqueue"
    BY <1>4 DEF TfdCallback, PtmCallback, CallbackReads, CallbackCounts,
       CallbackDisarms, PtmCallbackReads, PtmCallbackCounts, PtmCallbackDisarms
  <2>3. Held(u)
    BY <2>1, HeldFacts DEF timer_vars
  <2> QED
    BY <1>1, <2>1, <2>2, <2>3 DEF Held
<1> QED
  BY <1>2, <1>3, <1>4

LEMMA FinishQueue ==
  ASSUME TimerType, PendingIsQueued, Finish
  PROVE  PendingIsQueued'
<1> SUFFICES ASSUME NEW u \in Timers, state'[u] = "Pending" PROVE Held(u)'
  BY HeldFacts
<1>1. isr.pc = "finish" /\ UNCHANGED <<queue, call>>
  BY DEF Finish
<1>2. state[u] = "Pending"
  BY DEF Finish, TimerType, FieldType
<1>3. Held(u)
  BY <1>2, HeldFacts
<1> QED
  BY <1>1, <1>3 DEF Held

LEMMA NextQueue ==
  ASSUME SequenceFacts, TimerType, PendingIsQueued, [Next]_vars
  PROVE  PendingIsQueued'
<1>1. CASE Syscall
  <2>1. PICK t \in Timers : Called(t)
    BY <1>1, SyscallTouches DEF TimerType
  <2> QED
    BY <2>1, CalledQueue
<1>2. CASE Tick
  BY <1>2, RunQueue DEF Tick
<1>3. CASE InCall
  <2>1. CASE \E k \in Tables : CallAnnounce(k) /\ UNCHANGED <<tfd, ptm>>
    BY <2>1, AnnounceQueue
  <2>2. CASE (TfdEnqueue /\ UNCHANGED ptm) \/ (PtmEnqueue /\ UNCHANGED tfd)
    <3>1. PICK k \in Tables : CallEnqueues(k)
      BY <2>2, EnqueueSteps
    <3> QED
      BY <3>1, EnqueueQueue
  <2> QED
    BY <1>3, <2>1, <2>2 DEF InCall
<1>4. CASE Interrupt
  BY <1>4, FinishQueue, CallbackQueue DEF Interrupt
<1>5. CASE Advance
  BY <1>5 DEF Advance, PendingIsQueued, Current, timer_vars
<1>6. CASE UNCHANGED vars
  BY <1>6 DEF vars, hr_vars, timer_vars, PendingIsQueued, Current
<1> QED
  BY <1>1, <1>2, <1>3, <1>4, <1>5, <1>6 DEF Next

-----------------------------------------------------------------------------
(* One CPU: facts about the invariants.                                    *)

LEMMA NothingPc == NoCall.pc = "none" /\ IsrIdle.pc = "idle"
BY SMT DEF NoCall, IsrIdle

\* While nothing is under way.
LEMMA RestFacts ==
  ASSUME TimerType, AtRest
  PROVE  /\ isr.pc = "idle" /\ expired = <<>> /\ Range(expired) = {}
         /\ \A k \in Tables : call[k] = NoCall /\ call[k].pc = "none"
         /\ Settled = Timers
<1>1. isr.pc = "idle" /\ expired = <<>>
  BY NothingPc DEF AtRest, TimerType, IsrType
<1>2. Range(expired) = {}
  <2>1. DOMAIN <<>> = {}
    BY SMT
  <2> QED
    BY <1>1, <2>1 DEF Range
<1>3. \A k \in Tables : call[k] = NoCall /\ call[k].pc = "none"
  BY NothingPc DEF AtRest
<1>4. Settled = Timers
  BY <1>1, <1>3 DEF Settled, Starting
<1> QED
  BY <1>1, <1>2, <1>3, <1>4

\* While the interrupt is under way.
LEMMA BusyFacts ==
  ASSUME OneAtATime, isr.pc # "idle"
  PROVE  /\ \A k \in Tables : call[k] = NoCall /\ call[k].pc = "none"
         /\ \A t : Starting(t) <=> isr.pc = "enqueue" /\ Current = t
<1>1. \A k \in Tables : call[k] = NoCall /\ call[k].pc = "none"
  BY NothingPc DEF OneAtATime
<1> QED
  BY <1>1 DEF Starting

\* The order is kept when only cancelled entries change, and timers that are
\* being started.
LEMMA InOrderKept ==
  ASSUME queue \in Seq(Timers), expiry \in [Timers -> Nat], expiry' \in [Timers -> Nat],
         InOrder(queue, Settled), UNCHANGED queue,
         \A u \in Timers : u \in Settled' =>
           /\ u \in Settled /\ expiry'[u] <= expiry[u]
           /\ state'[u] = "Pending" => state[u] = "Pending" /\ expiry'[u] = expiry[u]
  PROVE  InOrder(queue, Settled)'
<1> SUFFICES ASSUME NEW i \in DOMAIN queue, NEW j \in DOMAIN queue, i < j,
                    queue[i] \in Settled', queue[j] \in Settled', state'[queue[j]] = "Pending"
             PROVE  expiry'[queue[i]] <= expiry'[queue[j]]
  BY DEF InOrder
<1>1. queue[i] \in Timers /\ queue[j] \in Timers
  BY SMT
<1>2. /\ queue[i] \in Settled /\ expiry'[queue[i]] <= expiry[queue[i]]
      /\ queue[j] \in Settled /\ state[queue[j]] = "Pending" /\ expiry'[queue[j]] = expiry[queue[j]]
  BY <1>1
<1>3. expiry[queue[i]] <= expiry[queue[j]]
  BY <1>2 DEF InOrder
<1>4. expiry[queue[i]] \in Nat /\ expiry'[queue[i]] \in Nat /\ expiry[queue[j]] \in Nat
  BY <1>1
<1> QED
  BY <1>2, <1>3, <1>4, SMT

\* The order after the timers that are being started have found their places.
LEMMA EnqueueInOrder ==
  ASSUME SequenceFacts, queue \in Seq(Timers), expiry \in [Timers -> Nat], NEW S, InOrder(queue, S),
         NEW t \in Timers, NEW by, Timers \ {t} \subseteq S,
         queue_seq[t] = by, Enqueue(t, expiry[t], by)
  PROVE  InOrder(queue', Timers)
<1> DEFINE q == Without(queue, t)
           e == expiry[t]
           r == InsertByExpiry(q, t, e)
<1>1. queue' = r
  BY DEF Enqueue
<1>2. q \in Seq(Timers) /\ Retained(q, queue, {i \in DOMAIN queue : queue[i] # t})
  BY WithoutFacts
<1>3. e \in Nat
  OBVIOUS
<1> HIDE DEF q, e
<1>4. ASSUME NEW i \in DOMAIN q, NEW j \in DOMAIN q, i < j, state[q[j]] = "Pending"
      PROVE  expiry[q[i]] <= expiry[q[j]]
  <2>1. PICK a \in {x \in DOMAIN queue : queue[x] # t}, b \in {x \in DOMAIN queue : queue[x] # t} :
          a < b /\ q[i] = queue[a] /\ q[j] = queue[b]
    BY <1>2, <1>4 DEF Retained
  <2>2. queue[a] \in Timers /\ queue[b] \in Timers
    BY SMT
  <2>3. queue[a] \in S /\ queue[b] \in S
    BY <2>2
  <2> QED
    BY <1>4, <2>1, <2>3 DEF InOrder
<1>5. r \in Seq(Timers) /\ \E pos \in 1 .. Len(q) + 1 : InsertedAt(r, q, t, e, pos)
  BY <1>2, <1>3, InsertFacts
<1> HIDE DEF r
<1>6. PICK pos \in 1 .. Len(q) + 1 : InsertedAt(r, q, t, e, pos)
  BY <1>5
<1>7. /\ Len(r) = Len(q) + 1 /\ r[pos] = t
      /\ \A i \in 1 .. pos - 1 : r[i] = q[i] /\ expiry[q[i]] <= e
      /\ \A i \in pos + 1 .. Len(q) + 1 : r[i] = q[i - 1]
      /\ pos <= Len(q) => expiry[q[pos]] > e
  BY <1>6 DEF InsertedAt
<1>8. /\ DOMAIN r = 1 .. Len(q) + 1 /\ DOMAIN q = 1 .. Len(q) /\ Len(q) \in Nat
      /\ \A i \in DOMAIN q : q[i] \in Timers /\ expiry[q[i]] \in Nat
  BY <1>2, <1>5, <1>7, SMT
<1> SUFFICES ASSUME NEW i \in DOMAIN r, NEW j \in DOMAIN r, i < j, state[r[j]] = "Pending"
             PROVE  expiry[r[i]] <= expiry[r[j]]
  BY <1>1 DEF InOrder
<1>9. CASE j < pos
  <2>1. i \in 1 .. pos - 1 /\ j \in 1 .. pos - 1 /\ i \in DOMAIN q /\ j \in DOMAIN q
    BY <1>8, <1>9, SMT
  <2> QED
    BY <1>4, <1>7, <2>1
<1>10. CASE j = pos
  <2>1. i \in 1 .. pos - 1
    BY <1>8, <1>10, SMT
  <2> QED
    BY <1>7, <1>10, <2>1 DEF e
<1>11. CASE pos < j
  <2>1. j \in pos + 1 .. Len(q) + 1 /\ j - 1 \in DOMAIN q
    BY <1>8, <1>11, SMT
  <2>2. r[j] = q[j - 1]
    BY <1>7, <2>1
  <2>3. CASE i < pos
    <3>1. i \in 1 .. pos - 1 /\ i \in DOMAIN q /\ i < j - 1
      BY <1>8, <2>1, <2>3, SMT
    <3> QED
      BY <1>4, <1>7, <2>1, <2>2, <3>1
  <2>4. CASE i = pos
    <3>1. pos <= Len(q) /\ pos \in DOMAIN q
      BY <1>8, <2>1, SMT
    <3>2. expiry[q[pos]] > e /\ expiry[q[pos]] \in Nat /\ expiry[q[j - 1]] \in Nat
      BY <1>7, <1>8, <2>1, <3>1
    <3>3. pos = j - 1 \/ pos < j - 1
      BY <1>8, <2>1, SMT
    <3>4. expiry[q[pos]] <= expiry[q[j - 1]]
      <4>1. CASE pos = j - 1
        BY <3>2, <4>1, SMT
      <4>2. CASE pos < j - 1
        BY <1>4, <2>1, <2>2, <3>1, <4>2
      <4> QED
        BY <3>3, <4>1, <4>2
    <3>5. e <= expiry[q[j - 1]]
      BY <1>3, <3>2, <3>4, SMT
    <3>6. expiry[r[i]] = e
      BY <1>7, <2>4 DEF e
    <3> QED
      BY <2>2, <3>5, <3>6
  <2>5. CASE pos < i
    <3>1. i \in pos + 1 .. Len(q) + 1 /\ i - 1 \in DOMAIN q /\ i - 1 < j - 1
      BY <1>8, <2>1, <2>5, SMT
    <3>2. r[i] = q[i - 1]
      BY <1>7, <3>1
    <3> QED
      BY <1>4, <2>1, <2>2, <3>1, <3>2
  <2>6. i < pos \/ i = pos \/ pos < i
    BY <1>8, SMT
  <2> QED
    BY <2>3, <2>4, <2>5, <2>6
<1>12. j < pos \/ j = pos \/ pos < j
  BY <1>8, SMT
<1> QED
  BY <1>9, <1>10, <1>11, <1>12

\* A timer that a step leaves alone.
LEMMA CountKept ==
  ASSUME NEW u, CountAt(u), Slot(u)' = Slot(u), expiry'[u] = expiry[u], state'[u] = state[u],
         UNCHANGED now,
         \A k \in Tables : call'[k] # NoCall /\ call'[k].t = u => call[k] # NoCall /\ call[k].t = u,
         u \in Range(expired') => /\ u \in Range(expired)
                                  /\ (u # Current' \/ ~Counted') => (u # Current \/ ~Counted)
  PROVE  CountAt(u)'
<1>1. OneShot(u)' <=> OneShot(u)
  BY DEF OneShot
<1> QED
  BY <1>1 DEF CountAt

-----------------------------------------------------------------------------
(* One CPU: the system calls.                                              *)

LEMMA SameUse ==
  ASSUME SlotType, SlotType', NEW u \in TimerFds, Slot(u)' = Slot(u)
  PROVE  tfd'[u] = tfd[u]
BY DEF Slot

LEMMA CallBegun ==
  ASSUME CallType, NEW t, Begins(t), \A k \in Tables : call[k] = NoCall
  PROVE  \E k \in Tables :
           /\ call'[k].pc = "announce" /\ call'[k].t = t
           /\ \A l \in Tables : l # k => call'[l] = NoCall
           /\ k = "timerfd" => tfd'[t].used = "yes"
<1>1. PICK k \in Tables, e \in Nat :
        /\ call' = [call EXCEPT ![k] = [pc |-> "announce", t |-> t, e |-> e]]
        /\ k = "timerfd" => tfd'[t].used = "yes"
  BY DEF Begins
<1>2. call'[k] = [pc |-> "announce", t |-> t, e |-> e] /\ \A l \in Tables : l # k => call'[l] = call[l]
  BY <1>1 DEF CallType
<1>3. call'[k].pc = "announce" /\ call'[k].t = t
  BY <1>2, SMT
<1> QED
  BY <1>1, <1>2, <1>3

\* A system call up to hrtimer_start finds nothing under way.
LEMMA CalledOneCpu ==
  ASSUME TimerType, OneCpu, NEW t \in Timers, Called(t)
  PROVE  OneCpu'
<1>1. AtRest
  BY DEF Called
<1>2. /\ isr.pc = "idle" /\ Range(expired) = {} /\ Settled = Timers
      /\ \A k \in Tables : call[k] = NoCall /\ call[k].pc = "none"
  BY <1>1, RestFacts
<1>3. UNCHANGED <<now, queue, expired, isr>> /\ FieldsTouched(t)
  BY DEF Called
<1>4. \/ Ends(t) /\ \A k \in Tables : call'[k] = NoCall
      \/ \E k \in Tables : /\ call'[k].pc = "announce" /\ call'[k].t = t
                           /\ \A l \in Tables : l # k => call'[l] = NoCall
                           /\ k = "timerfd" => tfd'[t].used = "yes"
  <2>1. CASE Ends(t)
    BY <1>2, <2>1 DEF Ends
  <2>2. CASE Begins(t)
    BY <1>2, <2>2, CallBegun DEF TimerType
  <2> QED
    BY <2>1, <2>2 DEF Called
<1>5. \A k, l \in Tables : call'[k] # NoCall /\ call'[l] # NoCall => k = l
  BY <1>4
<1>6. OneAtATime'
  BY <1>2, <1>3, <1>5 DEF OneAtATime
<1>7. StartInv' /\ CallbackInv'
  BY <1>2, <1>3, <1>4, NothingPc DEF StartInv, CallbackInv
<1>8. InOrder(queue, Settled)'
  <2>1. queue \in Seq(Timers) /\ expiry \in [Timers -> Nat] /\ expiry' \in [Timers -> Nat]
    BY DEF TimerType, QueueType, FieldType, Called
  <2>2. ASSUME NEW u \in Timers
        PROVE  /\ u \in Settled /\ expiry'[u] <= expiry[u]
               /\ state'[u] = "Pending" => state[u] = "Pending" /\ expiry'[u] = expiry[u]
    <3>1. expiry[u] <= expiry[u]
      BY <2>1, SMT
    <3> QED
      BY <1>2, <1>3, <3>1 DEF FieldsTouched
  <2>3. InOrder(queue, Settled)
    BY DEF OneCpu
  <2> QED
    BY <1>3, <2>1, <2>2, <2>3, InOrderKept
<1>9. ArmedInv'
  <2>1. ASSUME NEW u \in TimerFds PROVE tfd'[u].used # "yes" => ~tfd'[u].armed
    <3>1. CASE u = t
      BY <3>1 DEF Called
    <3>2. CASE u # t
      <4>1. u \in Timers
        BY DEF Timers
      <4>2. tfd'[u] = tfd[u]
        BY <3>2, <4>1, SameUse DEF Called, TimerType
      <4> QED
        BY <4>2 DEF OneCpu, ArmedInv
    <3> QED
      BY <3>1, <3>2
  <2>2. ASSUME NEW u \in Timers PROVE ArmedAt(u)'
    <3>1. ArmedAt(u)
      BY DEF OneCpu, ArmedInv
    <3>2. Slot(u).armed /\ OneShot(u) => state[u] = "Pending"
      BY <1>2, <3>1 DEF ArmedAt
    <3>3. CASE u # t
      BY <1>3, <3>2, <3>3 DEF Called, FieldsTouched, ArmedAt, OneShot
    <3>4. CASE u = t /\ Ends(t)
      BY <3>2, <3>4 DEF Ends, ArmedAt, OneShot
    <3>5. CASE u = t /\ \E k \in Tables : call'[k].pc = "announce" /\ call'[k].t = t
      BY <3>5 DEF ArmedAt
    <3> QED
      BY <1>4, <3>3, <3>4, <3>5
  <2>3. call'["timerfd"] # NoCall => tfd'[call'["timerfd"].t].used = "yes"
    <3>1. "timerfd" \in Tables
      BY DEF Tables
    <3> QED
      BY <1>4, <3>1
  <2>4. isr'.pc # "finish"
    BY <1>2, <1>3
  <2> QED
    BY <2>1, <2>2, <2>3, <2>4 DEF ArmedInv
<1>10. CountInv'
  <2> SUFFICES ASSUME NEW u \in Timers PROVE CountAt(u)'
    BY DEF CountInv
  <2>1. CASE u # t
    <3>1. CountAt(u)
      BY DEF OneCpu, CountInv
    <3>2. Slot(u)' = Slot(u) /\ expiry'[u] = expiry[u] /\ state'[u] = state[u]
      BY <1>3, <2>1 DEF Called, FieldsTouched
    <3>3. \A k \in Tables : ~(call'[k] # NoCall /\ call'[k].t = u)
      BY <1>4, <2>1
    <3>4. u \notin Range(expired')
      BY <1>2, <1>3
    <3> QED
      BY <1>3, <3>1, <3>2, <3>3, <3>4, CountKept
  <2>2. CASE u = t
    <3>1. Slot(u)'.count = 0
      BY <2>2 DEF Called
    <3>2. 0 # 1
      BY SMT
    <3>3. u \notin Range(expired')
      BY <1>2, <1>3
    <3> QED
      BY <3>1, <3>2, <3>3 DEF CountAt
  <2> QED
    BY <2>1, <2>2
<1> QED
  BY <1>6, <1>7, <1>8, <1>9, <1>10 DEF OneCpu

\* While a system call is under way, it is the only thing that is.
LEMMA InCallFacts ==
  ASSUME TimerType, OneCpu, NEW k \in Tables, call[k] # NoCall
  PROVE  /\ isr.pc = "idle" /\ Range(expired) = {}
         /\ \A l \in Tables : l # k => call[l] = NoCall /\ call[l].pc = "none"
         /\ call[k].t \in Timers /\ CountAt(call[k].t)
         /\ OneShot(call[k].t) => Slot(call[k].t).count = 0
<1>1. isr.pc = "idle" /\ \A l \in Tables : l # k => call[l] = NoCall /\ call[l].pc = "none"
  BY NothingPc DEF OneCpu, OneAtATime
<1>2. Range(expired) = {}
  <2>1. DOMAIN <<>> = {}
    BY SMT
  <2> QED
    BY <1>1, <2>1 DEF Range, TimerType, IsrType
<1>3. call[k].t \in Timers
  BY CallFields DEF TimerType
<1>4. CountAt(call[k].t)
  BY <1>3 DEF OneCpu, CountInv
<1> QED
  BY <1>1, <1>2, <1>3, <1>4 DEF CountAt

\* hrtimer_start before the lock: the timer is pending now, and its old entries
\* are the only ones that may be out of place.
LEMMA AnnounceOneCpu ==
  ASSUME TimerType, TimerType', OneCpu, NEW k \in Tables, CallAnnounce(k), UNCHANGED <<tfd, ptm>>
  PROVE  OneCpu'
<1>1. call[k] # NoCall
  BY BusyCall DEF CallAnnounce
<1>0. PICK t \in Timers : t = call[k].t
  BY <1>1, CallFields DEF TimerType
<1>2. /\ isr.pc = "idle" /\ Range(expired) = {}
      /\ \A l \in Tables : l # k => call[l] = NoCall /\ call[l].pc = "none"
      /\ CountAt(t)
      /\ OneShot(t) => Slot(t).count = 0
  BY <1>0, <1>1, InCallFacts
<1>3. call[k] \in Calls /\ call[k].pc = "announce"
  BY <1>1, CallFields DEF TimerType, CallAnnounce
<1>4. /\ call'[k].pc = "enqueue" /\ call'[k].t = t /\ call'[k].e = call[k].e
      /\ \A l \in Tables : l # k => call'[l] = call[l]
  BY <1>0, <1>3 DEF CallAnnounce, TimerType, CallType, Calls
<1>5. /\ queue_seq'[t] = k /\ expiry'[t] = call[k].e /\ state'[t] = "Pending"
      /\ \A u \in Timers : u # t => expiry'[u] = expiry[u] /\ state'[u] = state[u]
  <2>1. Announce(t, call[k].e, k)
    BY <1>0 DEF CallAnnounce
  <2> QED
    BY <2>1 DEF Announce, TimerType, FieldType
<1>6. UNCHANGED <<now, queue, expired, isr>> /\ \A u \in Timers : Slot(u)' = Slot(u)
  BY DEF CallAnnounce, Slot
<1>7. OneAtATime'
  BY <1>2, <1>4, <1>6 DEF OneAtATime
<1>8. StartInv' /\ CallbackInv'
  BY <1>2, <1>4, <1>5, <1>6 DEF StartInv, CallbackInv
<1>9. InOrder(queue, Settled)'
  <2>1. queue \in Seq(Timers) /\ expiry \in [Timers -> Nat] /\ expiry' \in [Timers -> Nat]
    BY DEF TimerType, QueueType, FieldType
  <2>2. ASSUME NEW u \in Timers, u \in Settled'
        PROVE  /\ u \in Settled /\ expiry'[u] <= expiry[u]
               /\ state'[u] = "Pending" => state[u] = "Pending" /\ expiry'[u] = expiry[u]
    <3>1. u # t
      BY <1>4, <2>2 DEF Settled, Starting
    <3>2. u \in Settled
      BY <1>2, <1>3 DEF Settled, Starting
    <3>3. expiry[u] <= expiry[u]
      BY <2>1, SMT
    <3> QED
      BY <1>5, <3>1, <3>2, <3>3
  <2>3. InOrder(queue, Settled)
    BY DEF OneCpu
  <2> QED
    BY <1>6, <2>1, <2>2, <2>3, InOrderKept
<1>10. ArmedInv'
  <2>1. ASSUME NEW u \in Timers PROVE ArmedAt(u)'
    <3>1. CASE u = t
      BY <1>5, <3>1 DEF ArmedAt
    <3>2. CASE u # t
      <4>1. ArmedAt(u)
        BY DEF OneCpu, ArmedInv
      <4>2. \A l \in Tables : ~(call[l].pc = "announce" /\ call[l].t = u)
        BY <1>0, <1>2, <3>2
      <4> QED
        BY <1>2, <1>5, <1>6, <3>2, <4>1, <4>2 DEF ArmedAt, OneShot
    <3> QED
      BY <3>1, <3>2
  <2>2. call'["timerfd"] # NoCall => tfd'[call'["timerfd"].t].used = "yes"
    <3>1. "timerfd" \in Tables
      BY DEF Tables
    <3>2. call'["timerfd"] # NoCall => call["timerfd"] # NoCall /\ call'["timerfd"].t = call["timerfd"].t
      BY <1>0, <1>1, <1>4, <3>1
    <3> QED
      BY <3>2 DEF OneCpu, ArmedInv
  <2>3. isr'.pc # "finish"
    BY <1>2, <1>6
  <2>4. \A u \in TimerFds : tfd'[u].used # "yes" => ~tfd'[u].armed
    BY DEF OneCpu, ArmedInv
  <2> QED
    BY <2>1, <2>2, <2>3, <2>4 DEF ArmedInv
<1>11. CountInv'
  <2> SUFFICES ASSUME NEW u \in Timers PROVE CountAt(u)'
    BY DEF CountInv
  <2>1. u \notin Range(expired')
    BY <1>2, <1>6
  <2>2. CASE u = t
    <3>1. OneShot(u)' => Slot(u)'.count = 0
      BY <1>2, <1>6, <2>2 DEF OneShot
    <3>2. 0 # 1
      BY SMT
    <3> QED
      BY <2>1, <3>1, <3>2 DEF CountAt
  <2>3. CASE u # t
    <3>1. CountAt(u)
      BY DEF OneCpu, CountInv
    <3>2. \A l \in Tables : ~(call'[l] # NoCall /\ call'[l].t = u)
      BY <1>2, <1>4, <2>3
    <3> QED
      BY <1>5, <1>6, <2>1, <2>3, <3>1, <3>2, CountKept
  <2> QED
    BY <2>2, <2>3
<1> QED
  BY <1>7, <1>8, <1>9, <1>10, <1>11 DEF OneCpu

\* hrtimer_start under the lock: the entry goes where its expiry puts it.
LEMMA EnqueueOneCpu ==
  ASSUME SequenceFacts, TimerType, TimerType', OneCpu, NEW k \in Tables, CallEnqueues(k)
  PROVE  OneCpu'
<1>1. call[k] # NoCall /\ call[k].pc = "enqueue"
  BY BusyCall DEF CallEnqueues
<1>0. PICK t \in Timers : t = call[k].t
  BY <1>1, CallFields DEF TimerType
<1>2. /\ isr.pc = "idle" /\ Range(expired) = {}
      /\ \A l \in Tables : l # k => call[l] = NoCall /\ call[l].pc = "none"
      /\ CountAt(t)
      /\ OneShot(t) => Slot(t).count = 0
  BY <1>0, <1>1, InCallFacts
<1>3. queue_seq[t] = k /\ expiry[t] = call[k].e /\ state[t] = "Pending"
  BY <1>0, <1>1 DEF OneCpu, StartInv
<1>4. \A l \in Tables : call'[l] = NoCall /\ call'[l].pc = "none"
  BY <1>2, NothingPc DEF CallEnqueues, TimerType, CallType
<1>5. UNCHANGED <<now, expired, isr>> /\ UNCHANGED <<expiry, state, queue_seq>>
  BY DEF CallEnqueues, timer_vars
<1>6. /\ \A u \in Timers : u # t => Slot(u)' = Slot(u)
      /\ Slot(t)'.count = Slot(t).count /\ Slot(t)'.interval = Slot(t).interval
      /\ \A u \in TimerFds : tfd'[u].used = tfd[u].used
      /\ \A u \in TimerFds : tfd'[u].armed => tfd[u].armed \/ (u = t /\ k = "timerfd")
  <2>1. CASE UNCHANGED <<tfd, ptm>>
    BY <2>1 DEF Slot
  <2>2. CASE k = "timerfd" /\ tfd' = [tfd EXCEPT ![t].armed = TRUE] /\ UNCHANGED ptm
    <3> DEFINE s == [tfd[t] EXCEPT !.armed = TRUE]
    <3>1. t \in TimerFds
      BY <1>0, <1>1, <2>2 DEF TimerType, CallType
    <3>2. tfd[t] \in TfdSlots
      BY <3>1 DEF TimerType, SlotType
    <3>3. tfd' = [tfd EXCEPT ![t] = s]
      BY <2>2, <3>1 DEF TimerType, SlotType
    <3>4. s.count = tfd[t].count /\ s.interval = tfd[t].interval /\ s.used = tfd[t].used
      BY <3>2 DEF TfdSlots
    <3> HIDE DEF s
    <3>5. tfd'[t] = s /\ \A u \in TimerFds : u # t => tfd'[u] = tfd[u]
      BY <3>1, <3>3 DEF TimerType, SlotType
    <3>6. Slot(t)' = s /\ Slot(t) = tfd[t]
      BY <3>1, <3>5 DEF Slot
    <3>7. \A u \in Timers : u # t => Slot(u)' = Slot(u)
      BY <2>2, <3>5 DEF Slot
    <3> QED
      BY <2>2, <3>4, <3>5, <3>6, <3>7
  <2> QED
    BY <1>0, <2>1, <2>2 DEF CallEnqueues
<1>7. OneAtATime' /\ StartInv' /\ CallbackInv'
  BY <1>2, <1>4, <1>5 DEF OneAtATime, StartInv, CallbackInv
<1>8. InOrder(queue, Settled)'
  <2>1. queue \in Seq(Timers) /\ expiry \in [Timers -> Nat] /\ InOrder(queue, Settled)
    BY DEF TimerType, QueueType, FieldType, OneCpu
  <2>2. Timers \ {t} \subseteq Settled
    BY <1>0, <1>2 DEF Settled, Starting
  <2>3. Enqueue(t, expiry[t], k)
    BY <1>0, <1>3 DEF CallEnqueues
  <2>4. InOrder(queue', Timers)
    BY <1>3, <2>1, <2>2, <2>3, EnqueueInOrder
  <2>5. Settled' \subseteq Timers
    BY DEF Settled
  <2> QED
    BY <1>5, <2>4, <2>5 DEF InOrder
<1>9. ArmedInv'
  <2>1. ASSUME NEW u \in Timers PROVE ArmedAt(u)'
    <3>1. CASE u = t
      BY <1>3, <1>5, <3>1 DEF ArmedAt
    <3>2. CASE u # t
      <4>1. ArmedAt(u)
        BY DEF OneCpu, ArmedInv
      <4>2. \A l \in Tables : ~(call[l].pc = "announce" /\ call[l].t = u)
        BY <1>1, <1>2
      <4> QED
        BY <1>2, <1>5, <1>6, <3>2, <4>1, <4>2 DEF ArmedAt, OneShot
    <3> QED
      BY <3>1, <3>2
  <2>2. call'["timerfd"] = NoCall
    BY <1>4 DEF Tables
  <2>3. isr'.pc # "finish"
    BY <1>2, <1>5
  <2>4. k = "timerfd" => tfd[t].used = "yes"
    BY <1>0, <1>1 DEF OneCpu, ArmedInv
  <2>5. \A u \in TimerFds : tfd'[u].used # "yes" => ~tfd'[u].armed
    BY <1>6, <2>4 DEF OneCpu, ArmedInv
  <2> QED
    BY <2>1, <2>2, <2>3, <2>5 DEF ArmedInv
<1>10. CountInv'
  <2> SUFFICES ASSUME NEW u \in Timers PROVE CountAt(u)'
    BY DEF CountInv
  <2>1. u \notin Range(expired')
    BY <1>2, <1>5
  <2>2. \A l \in Tables : ~(call'[l] # NoCall /\ call'[l].t = u)
    BY <1>4
  <2>3. CASE u = t
    <3>1. OneShot(u)' => Slot(u)'.count = 0
      BY <1>2, <1>6, <2>3 DEF OneShot
    <3>2. 0 # 1
      BY SMT
    <3> QED
      BY <2>1, <3>1, <3>2 DEF CountAt
  <2>4. CASE u # t
    <3>1. CountAt(u)
      BY DEF OneCpu, CountInv
    <3> QED
      BY <1>5, <1>6, <2>1, <2>2, <2>4, <3>1, CountKept
  <2> QED
    BY <2>3, <2>4
<1> QED
  BY <1>7, <1>8, <1>9, <1>10 DEF OneCpu

-----------------------------------------------------------------------------
(* One CPU: the interrupt.                                                 *)

\* hrtimer_run_queues takes timers that are due, so not counted yet, and leaves
\* the others sorted.
LEMMA RunOneCpu ==
  ASSUME SequenceFacts, TimerType, TimerType', OneCpu, RunQueues, UNCHANGED <<tfd, ptm>>
  PROVE  OneCpu'
<1>1. AtRest
  BY DEF RunQueues
<1>2. /\ isr.pc = "idle" /\ Range(expired) = {} /\ Settled = Timers
      /\ \A k \in Tables : call[k] = NoCall /\ call[k].pc = "none"
  BY <1>1, RestFacts
<1>3. UNCHANGED <<now, expiry, queue_seq, call>> /\ \A u \in Timers : Slot(u)' = Slot(u)
  BY DEF RunQueues, Slot
<1>4. /\ expired' = Taken
      /\ \A u \in Timers : state'[u] = IF u \in Range(Taken) THEN "Running" ELSE state[u]
  BY DEF RunQueues
<1>5. \A u \in Range(Taken) : Due(u)
  BY TakenFacts DEF TimerType, QueueType
<1>6. isr'.pc = "idle" \/ isr'.pc = "callback"
  <2>1. [pc |-> "callback"].pc = "callback"
    BY SMT
  <2> QED
    BY <2>1, NothingPc DEF RunQueues
<1>7. OneAtATime' /\ StartInv' /\ CallbackInv'
  BY <1>2, <1>3, <1>6 DEF OneAtATime, StartInv, CallbackInv
<1>8. InOrder(queue, Settled)'
  <2>1. \A i, j \in DOMAIN queue' : i < j => expiry[queue'[i]] <= expiry[queue'[j]]
    BY RunTypes DEF Sorted
  <2> QED
    BY <1>3, <2>1 DEF InOrder
<1>9. ArmedInv'
  <2>1. ASSUME NEW u \in Timers PROVE ArmedAt(u)'
    <3>1. ArmedAt(u)
      BY DEF OneCpu, ArmedInv
    <3>2. Slot(u).armed /\ OneShot(u) => state[u] = "Pending"
      BY <1>2, <3>1 DEF ArmedAt
    <3> QED
      BY <1>3, <1>4, <3>2 DEF ArmedAt, OneShot
  <2>2. call'["timerfd"] = NoCall
    BY <1>2, <1>3 DEF Tables
  <2>3. isr'.pc # "finish"
    BY <1>6
  <2>4. \A u \in TimerFds : tfd'[u].used # "yes" => ~tfd'[u].armed
    BY DEF OneCpu, ArmedInv
  <2> QED
    BY <2>1, <2>2, <2>3, <2>4 DEF ArmedInv
<1>10. CountInv'
  <2> SUFFICES ASSUME NEW u \in Timers PROVE CountAt(u)'
    BY DEF CountInv
  <2>1. CountAt(u)
    BY DEF OneCpu, CountInv
  <2>2. \A k \in Tables : ~(call'[k] # NoCall /\ call'[k].t = u)
    BY <1>2, <1>3
  <2>3. CASE u \in Range(Taken)
    <3>1. state[u] = "Pending" /\ expiry[u] <= now
      BY <1>5, <2>3 DEF Due
    <3>2. state'[u] = "Running"
      BY <1>4, <2>3
    <3>3. OneShot(u)' => Slot(u)'.count = 0
      BY <1>3, <2>1, <3>1 DEF CountAt, OneShot
    <3>4. 0 # 1
      BY SMT
    <3> QED
      BY <1>3, <2>2, <3>1, <3>2, <3>3, <3>4 DEF CountAt
  <2>4. CASE u \notin Range(Taken)
    <3>1. state'[u] = state[u] /\ u \notin Range(expired')
      BY <1>4, <2>4
    <3> QED
      BY <1>3, <2>1, <2>2, <3>1, CountKept
  <2> QED
    BY <2>3, <2>4
<1> QED
  BY <1>7, <1>8, <1>9, <1>10 DEF OneCpu

\* What the steps of a callback share: no call is under way.
LEMMA CallbackBusy ==
  ASSUME TimerType, OneCpu, isr.pc # "idle"
  PROVE  /\ \A k \in Tables : call[k] = NoCall /\ call[k].pc = "none"
         /\ Current \in Timers /\ Current \in Range(expired)
         /\ ArmedAt(Current) /\ CountAt(Current)
         /\ OneShot(Current) => state[Current] = "Running" /\ expiry[Current] <= now
         /\ OneShot(Current) /\ ~Counted => Slot(Current).count = 0
         /\ Settled = {t \in Timers : ~(isr.pc = "enqueue" /\ Current = t)}
<1>1. \A k \in Tables : call[k] = NoCall /\ call[k].pc = "none"
  BY BusyFacts DEF OneCpu
<1>2. Current \in Timers /\ Current \in Range(expired)
  BY CurrentTyped DEF TimerType
<1>3. ArmedAt(Current) /\ CountAt(Current)
  BY <1>2 DEF OneCpu, ArmedInv, CountInv
<1>4. \A t : Starting(t) <=> isr.pc = "enqueue" /\ Current = t
  BY BusyFacts DEF OneCpu
<1>5. Settled = {t \in Timers : ~(isr.pc = "enqueue" /\ Current = t)}
  BY <1>4 DEF Settled
<1> QED
  BY <1>1, <1>2, <1>3, <1>5 DEF CountAt

\* A step of a callback outside hrtimer_start keeps the first three parts.
LEMMA CallbackKeeps ==
  ASSUME TimerType, OneCpu, isr.pc # "idle", isr.pc # "enqueue",
         isr'.pc # "enqueue",
         UNCHANGED <<now, queue, timer_vars, expired, call>>
  PROVE  OneAtATime' /\ StartInv' /\ InOrder(queue, Settled)'
<1>1. \A k \in Tables : call[k] = NoCall /\ call[k].pc = "none"
  BY CallbackBusy
<1>2. OneAtATime' /\ StartInv'
  BY <1>1 DEF OneAtATime, StartInv
<1>3. Settled = Timers
  BY CallbackBusy
<1>4. Settled' \subseteq Timers
  BY DEF Settled
<1>5. InOrder(queue, Timers)
  BY <1>3 DEF OneCpu
<1>6. InOrder(queue, Settled)'
  BY <1>4, <1>5 DEF InOrder, timer_vars
<1> QED
  BY <1>2, <1>6

\* The timers other than the current one do not notice a callback.
LEMMA OthersKept ==
  ASSUME TimerType, OneCpu, isr.pc # "idle", UNCHANGED <<now, expired, call>>,
         NEW u \in Timers, u # Current, Slot(u)' = Slot(u),
         expiry'[u] = expiry[u], state'[u] = state[u]
  PROVE  ArmedAt(u)' /\ CountAt(u)'
<1>1. ArmedAt(u) /\ CountAt(u)
  BY DEF OneCpu, ArmedInv, CountInv
<1>2. ArmedAt(u)'
  BY <1>1 DEF ArmedAt, OneShot
<1>3. CountAt(u)'
  BY <1>1, CountKept
<1> QED
  BY <1>2, <1>3

\* A step of a callback: what is left to show of each.
LEMMA CallbackOneCpu ==
  ASSUME TimerType, OneCpu, isr.pc # "idle", UNCHANGED <<now, expired, call>>,
         NEW c \in Timers, c = Current,
         \A u \in Timers : u # c => Slot(u)' = Slot(u) /\ expiry'[u] = expiry[u] /\ state'[u] = state[u],
         OneShot(c)' => /\ Slot(c)'.count \in {0, 1} /\ (~Counted' => Slot(c)'.count = 0)
                        /\ state'[c] = "Running" /\ expiry'[c] <= now,
         \A u \in TimerFds : tfd'[u].used # "yes" => ~tfd'[u].armed,
         isr'.pc = "finish" => ~(Slot(c)'.armed /\ OneShot(c)'),
         CallbackInv', OneAtATime', StartInv', InOrder(queue, Settled)'
  PROVE  OneCpu'
<1>1. /\ \A k \in Tables : call[k] = NoCall /\ call[k].pc = "none"
      /\ c \in Range(expired)
  BY CallbackBusy
<1>2. c = Current'
  BY DEF Current
<1>3. ArmedAt(c)'
  BY <1>1 DEF ArmedAt
<1>4. CountAt(c)'
  BY <1>1, <1>2 DEF CountAt
<1>5. \A u \in Timers : ArmedAt(u)' /\ CountAt(u)'
  <2> SUFFICES ASSUME NEW u \in Timers, u # c PROVE ArmedAt(u)' /\ CountAt(u)'
    BY <1>3, <1>4
  <2> QED
    BY OthersKept
<1>6. call'["timerfd"] = NoCall
  BY <1>1 DEF Tables
<1>7. isr'.pc = "finish" => ~(Slot(Current)'.armed /\ OneShot(Current)')
  BY <1>2
<1>8. ArmedInv'
  BY <1>5, <1>6, <1>7 DEF ArmedInv
<1>9. CountInv'
  BY <1>5 DEF CountInv
<1> QED
  BY <1>8, <1>9 DEF OneCpu

\* What is known of the current timer before a step.
LEMMA CurrentCount ==
  ASSUME TimerType, OneCpu, isr.pc # "idle", NEW c \in Timers, c = Current, OneShot(c)
  PROVE  /\ Slot(c).count \in {0, 1} /\ (~Counted => Slot(c).count = 0)
         /\ state[c] = "Running" /\ expiry[c] <= now
BY CallbackBusy DEF CountAt

LEMMA ReadsOneCpu ==
  ASSUME TimerType, OneCpu, CallbackReads, UNCHANGED ptm
  PROVE  OneCpu'
<1>1. isr.pc = "callback" /\ isr.pc # "idle" /\ isr.pc # "enqueue" /\ Current \in TimerFds
  BY DEF CallbackReads
<1>2. UNCHANGED <<now, queue, timer_vars, expired, call, tfd, ptm>>
  BY DEF CallbackReads
<1>3. PICK c \in Timers : c = Current
  BY <1>1 DEF Timers
<1>4. isr'.pc = "count" /\ isr'.valid = (tfd[c].used = "yes") /\ isr'.interval = tfd[c].interval
  BY <1>3 DEF CallbackReads
<1>5. Current' = c
  BY <1>2, <1>3 DEF Current
<1>6. CallbackInv'
  BY <1>2, <1>4, <1>5 DEF CallbackInv
<1>7. OneAtATime' /\ StartInv' /\ InOrder(queue, Settled)'
  BY <1>1, <1>2, <1>4, CallbackKeeps
<1>8. \A u \in Timers : Slot(u)' = Slot(u) /\ expiry'[u] = expiry[u] /\ state'[u] = state[u]
  BY <1>2 DEF Slot, timer_vars
<1>9. OneShot(c)' => /\ Slot(c)'.count \in {0, 1} /\ (~Counted' => Slot(c)'.count = 0)
                     /\ state'[c] = "Running" /\ expiry'[c] <= now
  <2>1. ~Counted
    BY <1>1 DEF Counted
  <2> QED
    BY <1>1, <1>3, <1>8, <2>1, CurrentCount DEF OneShot
<1>10. \A u \in TimerFds : tfd'[u].used # "yes" => ~tfd'[u].armed
  BY <1>2 DEF OneCpu, ArmedInv
<1> QED
  BY <1>1, <1>2, <1>3, <1>4, <1>6, <1>7, <1>8, <1>9, <1>10, CallbackOneCpu

LEMMA PtmReadsOneCpu ==
  ASSUME TimerType, OneCpu, PtmCallbackReads, UNCHANGED tfd
  PROVE  OneCpu'
<1>1. isr.pc = "callback" /\ isr.pc # "idle" /\ isr.pc # "enqueue" /\ Current \in PosixTimers
  BY DEF PtmCallbackReads
<1>2. UNCHANGED <<now, queue, timer_vars, expired, call, tfd, ptm>>
  BY DEF PtmCallbackReads
<1>3. PICK c \in Timers : c = Current
  BY <1>1 DEF Timers
<1>4. isr'.pc = (IF ptm[c].interval > 0 THEN "finish" ELSE "notify")
  BY <1>3, PtmReadsTypes
<1>5. Current' = c
  BY <1>2, <1>3 DEF Current
<1>6. Slot(c) = ptm[c] /\ ptm[c].interval \in Nat
  BY <1>1, <1>3, TimerAssumption DEF Slot, TimerType, SlotType, PtmSlots
<1>7. ptm[c].interval > 0 <=> ptm[c].interval # 0
  BY <1>6, SMT
<1>8. CallbackInv'
  BY <1>2, <1>4, <1>5, <1>7 DEF CallbackInv
<1>9. OneAtATime' /\ StartInv' /\ InOrder(queue, Settled)'
  <2>1. isr'.pc # "enqueue"
    BY <1>4
  <2> QED
    BY <1>1, <1>2, <2>1, CallbackKeeps
<1>10. \A u \in Timers : Slot(u)' = Slot(u) /\ expiry'[u] = expiry[u] /\ state'[u] = state[u]
  BY <1>2 DEF Slot, timer_vars
<1>11. OneShot(c)' => /\ Slot(c)'.count \in {0, 1} /\ (~Counted' => Slot(c)'.count = 0)
                      /\ state'[c] = "Running" /\ expiry'[c] <= now
  <2>1. ~Counted
    BY <1>1 DEF Counted
  <2> QED
    BY <1>1, <1>3, <1>10, <2>1, CurrentCount DEF OneShot
<1>12. isr'.pc = "finish" => ~(Slot(c)'.armed /\ OneShot(c)')
  BY <1>4, <1>6, <1>7, <1>10 DEF OneShot
<1>13. \A u \in TimerFds : tfd'[u].used # "yes" => ~tfd'[u].armed
  BY <1>2 DEF OneCpu, ArmedInv
<1> QED
  BY <1>1, <1>2, <1>3, <1>8, <1>9, <1>10, <1>11, <1>12, <1>13, CallbackOneCpu

LEMMA DisarmsOneCpu ==
  ASSUME TimerType, OneCpu, Disarms
  PROVE  OneCpu'
<1>1. isr.pc # "idle" /\ isr.pc # "enqueue" /\ Counted
  BY DEF Disarms, CallbackDisarms, PtmCallbackDisarms, Counted
<1>2. /\ UNCHANGED <<now, queue, timer_vars, expired, call>> /\ isr'.pc = "finish"
      /\ \A u \in TimerFds : tfd'[u].used = tfd[u].used
  BY DisarmTypes
<1>3. PICK c \in Timers : c = Current /\ Current' = c
  <2>1. Current' = Current
    BY <1>2 DEF Current
  <2> QED
    BY <2>1, DisarmTypes
<1>4. /\ \A u \in Timers : u # c => Slot(u)' = Slot(u)
      /\ ~Slot(c)'.armed /\ Slot(c)'.count = Slot(c).count /\ Slot(c)'.interval = Slot(c).interval
  BY <1>3, DisarmTypes
<1>5. CallbackInv'
  BY <1>2 DEF CallbackInv
<1>6. OneAtATime' /\ StartInv' /\ InOrder(queue, Settled)'
  BY <1>1, <1>2, CallbackKeeps
<1>7. \A u \in Timers : expiry'[u] = expiry[u] /\ state'[u] = state[u]
  BY <1>2 DEF timer_vars
<1>8. OneShot(c)' => /\ Slot(c)'.count \in {0, 1} /\ (~Counted' => Slot(c)'.count = 0)
                     /\ state'[c] = "Running" /\ expiry'[c] <= now
  <2>1. Counted'
    BY <1>2 DEF Counted
  <2> QED
    BY <1>1, <1>3, <1>4, <1>7, <2>1, CurrentCount DEF OneShot
<1>9. ASSUME NEW u \in TimerFds PROVE tfd'[u].used # "yes" => ~tfd'[u].armed
  <2>1. u \in Timers
    BY DEF Timers
  <2>2. Slot(u) = tfd[u] /\ Slot(u)' = tfd'[u]
    BY DEF Slot
  <2> QED
    BY <1>2, <1>4, <2>1, <2>2 DEF OneCpu, ArmedInv
<1> QED
  BY <1>1, <1>2, <1>3, <1>4, <1>5, <1>6, <1>7, <1>8, <1>9, CallbackOneCpu

\* One more expiration of a one-shot timer that had none.
LEMMA FirstCount ==
  ASSUME NEW n, n = 0
  PROVE  n + 1 \in {0, 1}
BY SMT

LEMMA CountsOneCpu ==
  ASSUME TimerType, OneCpu, CallbackCounts, UNCHANGED ptm
  PROVE  OneCpu'
<1>1. isr.pc = "count" /\ isr.pc # "idle" /\ isr.pc # "enqueue" /\ ~Counted
  BY DEF CallbackCounts, Counted
<1>2. UNCHANGED <<now, queue, timer_vars, expired, call>>
  BY DEF CallbackCounts
<1>3. Current \in TimerFds
  BY <1>1 DEF TimerType, IsrType
<1>4. PICK c \in Timers : c = Current /\ Current' = c
  BY <1>2, <1>3 DEF Current, Timers
<1>5. (isr.valid <=> tfd[c].used = "yes") /\ isr.interval = tfd[c].interval
  BY <1>1, <1>4 DEF OneCpu, CallbackInv
<1>6. \A u \in TimerFds : Slot(u) = tfd[u] /\ Slot(u)' = tfd'[u]
  BY DEF Slot
<1>7. \A u \in Timers : u # c => Slot(u)' = Slot(u)
  BY <1>4, CountsTypes
<1>8. \A u \in Timers : expiry'[u] = expiry[u] /\ state'[u] = state[u]
  BY <1>2 DEF timer_vars
<1>9. ASSUME NEW u \in TimerFds, u # c PROVE tfd'[u].used # "yes" => ~tfd'[u].armed
  <2>1. u \in Timers
    BY DEF Timers
  <2> QED
    BY <1>6, <1>7, <1>9, <2>1 DEF OneCpu, ArmedInv
<1>10. CASE isr.valid
  <2>1. /\ Slot(c)'.count = Slot(c).count + 1 /\ Slot(c)'.armed = Slot(c).armed
        /\ Slot(c)'.interval = Slot(c).interval /\ Slot(c)'.used = Slot(c).used
        /\ isr'.valid = isr.valid /\ isr'.interval = isr.interval
        /\ isr'.pc = (IF isr.interval > 0 THEN "restart" ELSE "disarm")
    <3>1. Slot(Current)' = Slot(c)'
      BY <1>4
    <3> QED
      BY <1>4, <1>10, <3>1, CountsTypes
  <2>2. tfd'[c].used = tfd[c].used /\ tfd'[c].interval = tfd[c].interval
    BY <1>3, <1>4, <1>6, <2>1
  <2>3. isr'.pc \in {"restart", "disarm"} /\ (isr'.pc = "restart" => tfd[c].interval > 0)
    BY <1>5, <2>1
  <2>4. CallbackInv'
    BY <1>4, <1>5, <2>1, <2>2, <2>3 DEF CallbackInv
  <2>5. OneAtATime' /\ StartInv' /\ InOrder(queue, Settled)'
    <3>1. isr'.pc # "enqueue"
      BY <2>3
    <3> QED
      BY <1>1, <1>2, <3>1, CallbackKeeps
  <2>6. OneShot(c)' => /\ Slot(c)'.count \in {0, 1} /\ (~Counted' => Slot(c)'.count = 0)
                       /\ state'[c] = "Running" /\ expiry'[c] <= now
    <3> SUFFICES ASSUME OneShot(c)'
                 PROVE  /\ Slot(c)'.count \in {0, 1} /\ (~Counted' => Slot(c)'.count = 0)
                        /\ state'[c] = "Running" /\ expiry'[c] <= now
      OBVIOUS
    <3>1. OneShot(c)
      BY <2>1 DEF OneShot
    <3>2. Slot(c).count = 0 /\ state[c] = "Running" /\ expiry[c] <= now
      BY <1>1, <1>4, <3>1, CurrentCount
    <3>3. Slot(c)'.count \in {0, 1}
      BY <2>1, <3>2, FirstCount
    <3>4. Counted'
      BY <2>3 DEF Counted
    <3> QED
      BY <1>8, <3>2, <3>3, <3>4
  <2>7. tfd'[c].used = "yes"
    BY <1>5, <1>10, <2>2
  <2>8. isr'.pc # "finish"
    BY <2>3
  <2>9. \A u \in TimerFds : tfd'[u].used # "yes" => ~tfd'[u].armed
    BY <1>9, <2>7
  <2> QED
    BY <1>1, <1>2, <1>4, <1>7, <1>8, <2>4, <2>5, <2>6, <2>8, <2>9, CallbackOneCpu
<1>11. CASE ~isr.valid
  <2>1. UNCHANGED tfd /\ isr'.pc = "finish"
    BY <1>11, CountsTypes
  <2>2. CallbackInv'
    BY <2>1 DEF CallbackInv
  <2>3. OneAtATime' /\ StartInv' /\ InOrder(queue, Settled)'
    BY <1>1, <1>2, <2>1, CallbackKeeps
  <2>4. Slot(c)' = Slot(c) /\ Slot(c) = tfd[c]
    BY <1>3, <1>4, <1>6, <2>1
  <2>5. OneShot(c)' => /\ Slot(c)'.count \in {0, 1} /\ (~Counted' => Slot(c)'.count = 0)
                       /\ state'[c] = "Running" /\ expiry'[c] <= now
    BY <1>1, <1>4, <1>8, <2>4, CurrentCount DEF OneShot
  <2>6. ~Slot(c)'.armed
    BY <1>3, <1>4, <1>5, <1>11, <2>4 DEF OneCpu, ArmedInv
  <2>7. \A u \in TimerFds : tfd'[u].used # "yes" => ~tfd'[u].armed
    BY <2>1 DEF OneCpu, ArmedInv
  <2> QED
    BY <1>1, <1>2, <1>4, <1>7, <1>8, <2>2, <2>3, <2>5, <2>6, <2>7, CallbackOneCpu
<1> QED
  BY <1>10, <1>11

LEMMA PtmCountsOneCpu ==
  ASSUME TimerType, OneCpu, PtmCallbackCounts, UNCHANGED tfd
  PROVE  OneCpu'
<1>1. isr.pc = "notify" /\ isr.pc # "idle" /\ isr.pc # "enqueue" /\ ~Counted
  BY DEF PtmCallbackCounts, Counted
<1>2. UNCHANGED <<now, queue, timer_vars, expired, call, tfd>>
  BY DEF PtmCallbackCounts
<1>3. Current \in PosixTimers
  BY <1>1 DEF TimerType, IsrType
<1>4. PICK c \in Timers : c = Current /\ Current' = c
  BY <1>2, <1>3 DEF Current, Timers
<1>5. /\ isr'.pc = "signal" /\ \A u \in Timers : u # c => Slot(u)' = Slot(u)
  BY <1>4, PtmCountsTypes
<1>6. /\ Slot(c)'.count = Slot(c).count + 1 /\ Slot(c)'.armed = Slot(c).armed
      /\ Slot(c)'.interval = Slot(c).interval
  <2>1. Slot(Current)' = Slot(c)'
    BY <1>4
  <2> QED
    BY <1>4, <2>1, PtmCountsTypes
<1>7. Slot(c) = ptm[c] /\ Slot(c)' = ptm'[c] /\ ptm[c].interval = 0
  <2>1. c \notin TimerFds
    BY <1>3, <1>4, TimerAssumption
  <2> QED
    BY <1>1, <1>4, <2>1 DEF Slot, OneCpu, CallbackInv
<1>8. CallbackInv'
  BY <1>4, <1>5, <1>6, <1>7 DEF CallbackInv
<1>9. OneAtATime' /\ StartInv' /\ InOrder(queue, Settled)'
  BY <1>1, <1>2, <1>5, CallbackKeeps
<1>10. \A u \in Timers : expiry'[u] = expiry[u] /\ state'[u] = state[u]
  BY <1>2 DEF timer_vars
<1>11. /\ Slot(c)'.count \in {0, 1} /\ (~Counted' => Slot(c)'.count = 0)
       /\ state'[c] = "Running" /\ expiry'[c] <= now
  <2>1. OneShot(c)
    BY <1>7 DEF OneShot
  <2>2. Slot(c).count = 0 /\ state[c] = "Running" /\ expiry[c] <= now
    BY <1>1, <1>4, <2>1, CurrentCount
  <2>3. Slot(c)'.count \in {0, 1}
    BY <1>6, <2>2, FirstCount
  <2>4. Counted'
    BY <1>5 DEF Counted
  <2> QED
    BY <1>10, <2>2, <2>3, <2>4
<1>12. \A u \in TimerFds : tfd'[u].used # "yes" => ~tfd'[u].armed
  BY <1>2 DEF OneCpu, ArmedInv
<1>13. isr'.pc # "finish"
  BY <1>5
<1> QED
  BY <1>1, <1>2, <1>4, <1>5, <1>8, <1>9, <1>10, <1>11, <1>12, <1>13, CallbackOneCpu

\* The callback of a periodic timer starts it again.
LEMMA RestartOneCpu ==
  ASSUME TimerType, TimerType', OneCpu, CallbackRestarts, UNCHANGED ptm
  PROVE  OneCpu'
<1>1. isr.pc = "restart" /\ isr.pc # "idle" /\ isr.pc # "enqueue"
  BY DEF CallbackRestarts
<1>2. UNCHANGED <<now, queue, expired, call, tfd, ptm>>
  BY DEF CallbackRestarts
<1>3. Current \in TimerFds
  BY <1>1 DEF TimerType, IsrType
<1>4. PICK c \in Timers : c = Current /\ Current' = c
  BY <1>2, <1>3 DEF Current, Timers
<1>5. isr'.pc = "enqueue" /\ isr'.e = NextExpiry
  <2>1. isr' = [pc |-> "enqueue", e |-> NextExpiry]
    BY DEF CallbackRestarts
  <2> QED
    BY <2>1, SMT
<1>6. /\ queue_seq'[c] = "isr" /\ expiry'[c] = NextExpiry
      /\ \A u \in Timers : u # c => expiry'[u] = expiry[u] /\ state'[u] = state[u]
  <2>1. Announce(c, NextExpiry, "isr")
    BY <1>4 DEF CallbackRestarts
  <2> HIDE DEF NextExpiry
  <2> QED
    BY <2>1 DEF Announce, TimerType, FieldType
<1>7. \A u \in Timers : Slot(u)' = Slot(u)
  BY <1>2 DEF Slot
<1>8. tfd[c].interval > 0 /\ ~OneShot(c)
  <2>1. tfd[c].interval > 0 /\ Slot(c) = tfd[c]
    BY <1>1, <1>3, <1>4 DEF OneCpu, CallbackInv, Slot
  <2>2. ~(0 > 0)
    BY SMT
  <2> QED
    BY <2>1, <2>2 DEF OneShot
<1>9. \A k \in Tables : call[k] = NoCall /\ call[k].pc = "none"
  BY <1>1, CallbackBusy
<1>10. OneAtATime' /\ StartInv'
  BY <1>2, <1>4, <1>5, <1>6, <1>9 DEF OneAtATime, StartInv
<1>11. CallbackInv'
  BY <1>2, <1>4, <1>5, <1>8 DEF CallbackInv
<1>12. InOrder(queue, Settled)'
  <2>1. queue \in Seq(Timers) /\ expiry \in [Timers -> Nat] /\ expiry' \in [Timers -> Nat]
    BY DEF TimerType, QueueType, FieldType
  <2>2. ASSUME NEW u \in Timers, u \in Settled'
        PROVE  /\ u \in Settled /\ expiry'[u] <= expiry[u]
               /\ state'[u] = "Pending" => state[u] = "Pending" /\ expiry'[u] = expiry[u]
    <3>1. u # c
      BY <1>4, <1>5, <2>2 DEF Settled, Starting
    <3>2. u \in Settled
      BY <1>1, CallbackBusy
    <3>3. expiry[u] <= expiry[u]
      BY <2>1, SMT
    <3> QED
      BY <1>6, <3>1, <3>2, <3>3
  <2>3. InOrder(queue, Settled)
    BY DEF OneCpu
  <2> QED
    BY <1>2, <2>1, <2>2, <2>3, InOrderKept
<1>13. ~OneShot(c)'
  BY <1>7, <1>8 DEF OneShot
<1>14. \A u \in TimerFds : tfd'[u].used # "yes" => ~tfd'[u].armed
  BY <1>2 DEF OneCpu, ArmedInv
<1> QED
  BY <1>1, <1>2, <1>4, <1>6, <1>7, <1>10, <1>11, <1>12, <1>13, <1>14, CallbackOneCpu

LEMMA RequeueOneCpu ==
  ASSUME SequenceFacts, TimerType, OneCpu, CallbackEnqueues, UNCHANGED ptm
  PROVE  OneCpu'
<1>1. isr.pc = "enqueue" /\ isr.pc # "idle"
  BY DEF CallbackEnqueues
<1>2. UNCHANGED <<now, expired, call, tfd, ptm>> /\ UNCHANGED <<expiry, state, queue_seq>>
  BY DEF CallbackEnqueues, timer_vars
<1>3. Current \in TimerFds
  BY <1>1 DEF TimerType, IsrType
<1>4. PICK c \in Timers : c = Current /\ Current' = c
  BY <1>2, <1>3 DEF Current, Timers
<1>5. isr'.pc = "finish"
  BY RequeueTypes
<1>6. \A u \in Timers : Slot(u)' = Slot(u) /\ expiry'[u] = expiry[u] /\ state'[u] = state[u]
  BY <1>2 DEF Slot
<1>7. ~OneShot(c)
  <2>1. tfd[c].interval > 0 /\ Slot(c) = tfd[c]
    BY <1>1, <1>3, <1>4 DEF OneCpu, CallbackInv, Slot
  <2>2. ~(0 > 0)
    BY SMT
  <2> QED
    BY <2>1, <2>2 DEF OneShot
<1>8. \A k \in Tables : call[k] = NoCall /\ call[k].pc = "none"
  BY <1>1, CallbackBusy
<1>9. OneAtATime' /\ StartInv' /\ CallbackInv'
  BY <1>2, <1>5, <1>8 DEF OneAtATime, StartInv, CallbackInv
<1>10. InOrder(queue, Settled)'
  <2>1. queue \in Seq(Timers) /\ expiry \in [Timers -> Nat] /\ InOrder(queue, Settled)
    BY DEF TimerType, QueueType, FieldType, OneCpu
  <2>2. Timers \ {c} \subseteq Settled
    BY <1>1, <1>4, CallbackBusy
  <2>3. queue_seq[c] = "isr" /\ expiry[c] = isr.e
    BY <1>1, <1>4 DEF OneCpu, StartInv
  <2>4. Enqueue(c, expiry[c], "isr")
    BY <1>4, <2>3 DEF CallbackEnqueues
  <2>5. InOrder(queue', Timers)
    BY <2>1, <2>2, <2>3, <2>4, EnqueueInOrder
  <2>6. Settled' \subseteq Timers
    BY DEF Settled
  <2> QED
    BY <1>2, <2>5, <2>6 DEF InOrder
<1>11. ~OneShot(c)'
  BY <1>6, <1>7 DEF OneShot
<1>12. \A u \in TimerFds : tfd'[u].used # "yes" => ~tfd'[u].armed
  BY <1>2 DEF OneCpu, ArmedInv
<1> QED
  BY <1>1, <1>2, <1>4, <1>6, <1>9, <1>10, <1>11, <1>12, CallbackOneCpu

\* After a callback the interrupt goes on to the next timer of its list, which
\* is another one.
LEMMA FinishOneCpu ==
  ASSUME TimerType, RunOnce, OneCpu, Finish, UNCHANGED <<tfd, ptm>>
  PROVE  OneCpu'
<1>1. isr.pc = "finish" /\ isr.pc # "idle" /\ isr.pc # "enqueue"
  BY DEF Finish
<1>2. UNCHANGED <<now, queue, expiry, call, tfd, ptm>> /\ expired' = Tail(expired)
  BY DEF Finish
<1>3. Current \in Timers /\ Current = expired[1] /\ expired \in Seq(Timers) /\ expired # <<>>
  BY <1>1, CurrentTyped DEF TimerType, QueueType
<1>4. PICK c \in Timers : c = Current
  BY <1>3
<1>5. isr'.pc = "idle" \/ isr'.pc = "callback"
  <2>1. [pc |-> "callback"].pc = "callback"
    BY SMT
  <2> QED
    BY <2>1, NothingPc DEF Finish
<1>6. state'[c] = "Inactive" /\ \A u \in Timers : u # c => state'[u] = state[u]
  BY <1>4 DEF Finish, TimerType, FieldType
<1>7. \A u \in Timers : Slot(u)' = Slot(u)
  BY <1>2 DEF Slot
<1>8. /\ \A u \in Range(expired') : u \in Range(expired) /\ u # c
      /\ \A u \in Range(expired) : u # c => u \in Range(expired')
  <2>1. ASSUME NEW i \in DOMAIN expired'
        PROVE  i + 1 \in DOMAIN expired /\ expired'[i] = expired[i + 1] /\ i + 1 # 1 /\ 1 \in DOMAIN expired
    BY <1>2, <1>3, SMT
  <2>2. ASSUME NEW i \in DOMAIN expired, i # 1
        PROVE  i - 1 \in DOMAIN expired' /\ expired'[i - 1] = expired[i]
    BY <1>2, <1>3, <2>2, SMT
  <2>3. ASSUME NEW u \in Range(expired') PROVE u \in Range(expired) /\ u # c
    <3>1. PICK i \in DOMAIN expired' : u = expired'[i]
      BY DEF Range
    <3>2. i + 1 \in DOMAIN expired /\ u = expired[i + 1] /\ i + 1 # 1 /\ 1 \in DOMAIN expired
      BY <2>1, <3>1
    <3>3. u # expired[1]
      BY <3>2 DEF RunOnce
    <3> QED
      BY <1>3, <1>4, <3>2, <3>3 DEF Range
  <2>4. ASSUME NEW u \in Range(expired), u # c PROVE u \in Range(expired')
    <3>1. PICK i \in DOMAIN expired : u = expired[i]
      BY DEF Range
    <3>2. i # 1
      BY <1>3, <1>4, <2>4, <3>1
    <3>3. i - 1 \in DOMAIN expired' /\ expired'[i - 1] = u
      BY <2>2, <3>1, <3>2
    <3> QED
      BY <3>3 DEF Range
  <2> QED
    BY <2>3, <2>4
<1>9. \A k \in Tables : call[k] = NoCall /\ call[k].pc = "none"
  BY <1>1, CallbackBusy
<1>10. OneAtATime' /\ StartInv' /\ CallbackInv'
  BY <1>2, <1>5, <1>9 DEF OneAtATime, StartInv, CallbackInv
<1>11. InOrder(queue, Settled)'
  <2>1. Settled = Timers /\ Settled' \subseteq Timers
    BY <1>1, CallbackBusy DEF Settled
  <2>2. queue \in Seq(Timers)
    BY DEF TimerType, QueueType
  <2>3. \A i \in DOMAIN queue : queue[i] \in Timers
    BY <2>2, SMT
  <2>4. \A u \in Timers : state'[u] = "Pending" => state[u] = "Pending"
    BY <1>6
  <2>5. InOrder(queue, Timers)
    BY <2>1 DEF OneCpu
  <2> QED
    BY <1>2, <2>1, <2>3, <2>4, <2>5 DEF InOrder
<1>12. ArmedInv'
  <2>1. ASSUME NEW u \in Timers PROVE ArmedAt(u)'
    <3>1. ArmedAt(u)
      BY DEF OneCpu, ArmedInv
    <3>2. Slot(u).armed /\ OneShot(u) => u # c
      BY <1>1, <1>4 DEF OneCpu, ArmedInv
    <3> QED
      BY <1>2, <1>6, <1>7, <1>8, <3>1, <3>2 DEF ArmedAt, OneShot
  <2>2. call'["timerfd"] = NoCall
    BY <1>2, <1>9 DEF Tables
  <2>3. isr'.pc # "finish"
    BY <1>5
  <2>4. \A u \in TimerFds : tfd'[u].used # "yes" => ~tfd'[u].armed
    BY <1>2 DEF OneCpu, ArmedInv
  <2> QED
    BY <2>1, <2>2, <2>3, <2>4 DEF ArmedInv
<1>13. CountInv'
  <2> SUFFICES ASSUME NEW u \in Timers PROVE CountAt(u)'
    BY DEF CountInv
  <2>1. CountAt(u)
    BY DEF OneCpu, CountInv
  <2>2. \A k \in Tables : ~(call'[k] # NoCall /\ call'[k].t = u)
    BY <1>2, <1>9
  <2>3. OneShot(u)' <=> OneShot(u)
    BY <1>7 DEF OneShot
  <2>4. CASE u = c
    <3>1. u \notin Range(expired')
      BY <1>8, <2>4
    <3>2. state'[u] # "Pending"
      BY <1>6, <2>4
    <3> QED
      BY <1>2, <1>7, <2>1, <2>2, <2>3, <3>1, <3>2 DEF CountAt
  <2>5. CASE u # c
    <3>1. u \in Range(expired') => u \in Range(expired) /\ u # Current
      BY <1>4, <1>8
    <3> QED
      BY <1>2, <1>6, <1>7, <2>1, <2>2, <2>5, <3>1, CountKept
  <2> QED
    BY <2>4, <2>5
<1> QED
  BY <1>10, <1>11, <1>12, <1>13 DEF OneCpu

LEMMA AdvanceOneCpu ==
  ASSUME TimerType, OneCpu, Advance, UNCHANGED <<tfd, ptm>>
  PROVE  OneCpu'
<1>1. UNCHANGED <<queue, expiry, state, queue_seq, expired, isr, call, tfd, ptm>>
  BY DEF Advance, timer_vars
<1>2. Current' = Current /\ Settled' = Settled
  BY <1>1 DEF Current, Settled, Starting
<1>3. \A u \in Timers : Slot(u)' = Slot(u)
  BY <1>1 DEF Slot
<1>4. \A u \in Timers : expiry[u] <= now => expiry[u] <= now'
  <2>1. now \in Nat /\ now' = now + 1 /\ \A u \in Timers : expiry[u] \in Nat
    BY DEF Advance, TimerType, QueueType, FieldType
  <2> QED
    BY <2>1, SMT
<1>5. OneAtATime' /\ StartInv' /\ InOrder(queue, Settled)' /\ CallbackInv'
  BY <1>1, <1>2 DEF OneCpu, OneAtATime, StartInv, InOrder, CallbackInv
<1>6. ArmedInv'
  <2>1. \A u \in Timers : ArmedAt(u)'
    BY <1>1, <1>3 DEF OneCpu, ArmedInv, ArmedAt, OneShot
  <2>2. Slot(Current)' = Slot(Current)
    BY <1>1, <1>2 DEF Slot
  <2> QED
    BY <1>1, <1>2, <2>1, <2>2 DEF OneCpu, ArmedInv, OneShot
<1>7. CountInv'
  <2> SUFFICES ASSUME NEW u \in Timers PROVE CountAt(u)'
    BY DEF CountInv
  <2>1. CountAt(u)
    BY DEF OneCpu, CountInv
  <2>2. (OneShot(u)' <=> OneShot(u)) /\ (Counted' <=> Counted)
    BY <1>1, <1>3 DEF OneShot, Counted
  <2> QED
    BY <1>1, <1>2, <1>3, <1>4, <2>1, <2>2 DEF CountAt
<1> QED
  BY <1>5, <1>6, <1>7 DEF OneCpu

LEMMA NextOneCpu ==
  ASSUME SequenceFacts, TimerType, TimerType', RunOnce, OneCpu, [Next]_vars
  PROVE  OneCpu'
<1>1. CASE Syscall
  <2>1. PICK t \in Timers : Called(t)
    BY <1>1, SyscallTouches DEF TimerType
  <2> QED
    BY <2>1, CalledOneCpu
<1>2. CASE Tick
  BY <1>2, RunOneCpu DEF Tick
<1>3. CASE InCall
  <2>1. CASE \E k \in Tables : CallAnnounce(k) /\ UNCHANGED <<tfd, ptm>>
    BY <2>1, AnnounceOneCpu
  <2>2. CASE (TfdEnqueue /\ UNCHANGED ptm) \/ (PtmEnqueue /\ UNCHANGED tfd)
    <3>1. PICK k \in Tables : CallEnqueues(k)
      BY <2>2, EnqueueSteps
    <3> QED
      BY <3>1, EnqueueOneCpu
  <2> QED
    BY <1>3, <2>1, <2>2 DEF InCall
<1>4. CASE Interrupt
  BY <1>4, FinishOneCpu, ReadsOneCpu, CountsOneCpu, RestartOneCpu, RequeueOneCpu, DisarmsOneCpu,
     PtmReadsOneCpu, PtmCountsOneCpu DEF Interrupt, TfdCallback, PtmCallback, Disarms
<1>5. CASE Advance /\ UNCHANGED <<tfd, ptm>>
  BY <1>5, AdvanceOneCpu
<1>6. CASE UNCHANGED vars
  <2>1. /\ UNCHANGED <<now, queue, expiry, state, queue_seq, expired, isr, call, tfd, ptm>>
        /\ Current' = Current
    BY <1>6 DEF vars, hr_vars, timer_vars, Current
  <2>2. Settled' = Settled /\ (Counted' <=> Counted)
    BY <2>1 DEF Settled, Starting, Counted
  <2>3. OneAtATime' /\ StartInv' /\ InOrder(queue, Settled)' /\ CallbackInv'
    BY <2>1, <2>2 DEF OneCpu, OneAtATime, StartInv, InOrder, CallbackInv
  <2>4. Slot(Current)' = Slot(Current) /\ \A u \in Timers : Slot(u)' = Slot(u)
    BY <2>1 DEF Slot
  <2>5. ArmedInv'
    BY <2>1, <2>4 DEF OneCpu, ArmedInv, ArmedAt, OneShot
  <2>6. CountInv'
    BY <2>1, <2>2, <2>4 DEF OneCpu, CountInv, CountAt, OneShot
  <2> QED
    BY <2>3, <2>5, <2>6 DEF OneCpu
<1> QED
  BY <1>1, <1>2, <1>3, <1>4, <1>5, <1>6 DEF Next

\* The queue has no timer twice: a start, of a call or of a callback, is the last
\* to have written the timer's number and finds the entry it has.
LEMMA NextQueueOnce ==
  ASSUME SequenceFacts, TimerType, StartInv, QueueOnce, [Next]_vars
  PROVE  QueueOnce'
<1>1. CASE UNCHANGED queue
  BY <1>1 DEF QueueOnce
<1>2. /\ queue \in Seq(Timers) /\ expiry \in [Timers -> Nat]
  BY DEF TimerType, QueueType, FieldType
<1>3. CASE RunQueues
  <2> DEFINE I == {i \in DOMAIN queue : state'[queue[i]] = "Pending"}
  <2>1. queue' = RetainSorted(queue, I) /\ I \in SUBSET DOMAIN queue
    BY <1>3 DEF RunQueues
  <2>2. IsInjective(queue)
    BY DEF QueueOnce, IsInjective
  <2> HIDE DEF I
  <2>3. IsInjective(queue')
    BY <1>2, <2>1, <2>2, RetainSortedApart
  <2> QED
    BY <2>3 DEF QueueOnce, IsInjective
<1>4. ASSUME NEW k \in Tables, CallEnqueues(k) PROVE QueueOnce'
  <2>1. call[k] # NoCall /\ call[k].pc = "enqueue"
    BY <1>4, BusyCall DEF CallEnqueues
  <2>2. call[k].t \in Timers /\ call[k].e \in Nat /\ queue_seq[call[k].t] = k
    BY <2>1, CallFields DEF TimerType, StartInv
  <2> QED
    BY <1>2, <1>4, <2>2, EnqueueApart DEF CallEnqueues
<1>5. CASE CallbackEnqueues
  <2>1. isr.pc = "enqueue" /\ isr.pc # "idle"
    BY <1>5 DEF CallbackEnqueues
  <2>2. isr \in [pc : {"enqueue"}, e : Nat] /\ Current \in Timers /\ queue_seq[Current] = "isr"
    BY <2>1, IsrFields, CurrentTyped DEF TimerType, IsrType, StartInv
  <2>3. isr.e \in Nat
    BY <2>2
  <2> QED
    BY <1>2, <1>5, <2>2, <2>3, EnqueueApart DEF CallbackEnqueues
<1>6. CASE Syscall
  <2>1. PICK t \in Timers : Called(t)
    BY <1>6, SyscallTouches DEF TimerType
  <2> QED
    BY <1>1, <2>1 DEF Called
<1>7. CASE Interrupt
  BY <1>1, <1>5, <1>7 DEF Interrupt, Finish, TfdCallback, PtmCallback, CallbackReads, CallbackCounts,
     CallbackRestarts, CallbackDisarms, PtmCallbackReads, PtmCallbackCounts, PtmCallbackDisarms
<1>8. CASE InCall
  BY <1>1, <1>4, <1>8, EnqueueSteps DEF InCall, CallAnnounce
<1>9. CASE Advance
  BY <1>1, <1>9 DEF Advance
<1>10. CASE UNCHANGED vars
  BY <1>1, <1>10 DEF vars, hr_vars
<1> QED
  BY <1>3, <1>6, <1>7, <1>8, <1>9, <1>10 DEF Next, Tick

LEMMA InitOneCpu ==
  ASSUME Init, TimerType
  PROVE  OneCpu
<1>1. isr.pc = "idle" /\ queue = <<>> /\ expired = <<>> /\ \A k \in Tables : call[k] = NoCall /\ NoCall.pc = "none"
  BY NothingPc DEF Init, HrInit
<1>2. DOMAIN queue = {} /\ Range(expired) = {}
  <2>1. DOMAIN <<>> = {}
    BY SMT
  <2> QED
    BY <1>1, <2>1 DEF Range
<1>3. \A t \in Timers : ~Slot(t).armed /\ Slot(t).count = 0 /\ state[t] = "Inactive"
  BY DEF Init, HrInit, TfdInit, PtmInit, Unused, Slot, Timers
<1>4. \A t \in TimerFds : ~tfd[t].armed
  BY DEF Init, TfdInit
<1>5. OneAtATime /\ StartInv /\ InOrder(queue, Settled) /\ CallbackInv
  BY <1>1, <1>2 DEF OneAtATime, StartInv, InOrder, CallbackInv
<1>6. ArmedInv
  BY <1>1, <1>3, <1>4 DEF ArmedInv, ArmedAt, Tables
<1>7. CountInv
  <2>1. 0 # 1
    BY SMT
  <2> QED
    BY <1>1, <1>2, <1>3, <2>1 DEF CountInv, CountAt
<1> QED
  BY <1>5, <1>6, <1>7 DEF OneCpu
=============================================================================
