--------------------------- MODULE PiMutexProofs ---------------------------
(***************************************************************************)
(* The priority-inheritance mutex for any set of processes, any priorities *)
(* and any of its modes: one process inside and the refinement of the lock *)
(* (without exits), one queue entry per process, the registry of holders,  *)
(* and the effective priority (without preemption).                        *)
(***************************************************************************)
EXTENDS PiMutex, SequenceTheorems, WellFoundedInduction, TLAPS

\* The leaves are first-order facts about functions and sets; the ones that need
\* arithmetic, sequences or records cite SMT.
USE Zenon

\* Every place in the code.
Labels ==
  YieldPoints \cup InSection \cup
  {"register", "rc_base", "rc_max", "rc_compare", "rc_store", "exit_locked", "un_pick",
   "rel_locked", "rel_holder", "rel_eff", "rel_base", "ho_none", "ho_eff0", "ho_base0",
   "ho_next", "ho_lock", "ho_eff", "ho_base", "ho_track"}

\* Where a process owns the lock word: from the successful exchange of
\* try_lock to the store that opens the lock.
Owning == InSection \cup {"un_pick", "rel_locked", "ho_unlock"}

\* There is one owner at most, and the lock word is set while there is one:
\* only the owner opens it.  The words holder and effective say nothing of
\* the kind; late stores of a release overwrite those of the next owner.
OwnerInv ==
  /\ \A p, q \in Pids : pc[p] \in Owning /\ pc[q] \in Owning => p = q
  /\ \A p \in Pids : pc[p] \in Owning => locked = TRUE

\* Without exits do_unlock is reached from the guard's destructor only.
NoExit == \A p \in Pids : pc[p] \notin {"exit", "exit_locked"}

PiInv == /\ pc \in [Pids -> Labels]
         /\ ret \in [Pids -> {"idle", "try"}]
         /\ OwnerInv
         /\ NoExit

IndInv == ~mode.exits => PiInv

LEMMA InitInv == Init => IndInv
BY DEF Init, IndInv, PiInv, OwnerInv, NoExit, Owning, InSection, Labels, YieldPoints

\* A step that leaves the lock word alone, or sets it, and does not make its
\* process an owner.
LEMMA OthersKeepOwner ==
  ASSUME PiInv, NEW p \in Pids, NEW l \in Labels,
         pc' = [pc EXCEPT ![p] = l], ret' \in [Pids -> {"idle", "try"}], NoExit',
         locked' = locked \/ locked' = TRUE,
         l \in Owning => pc[p] \in Owning
  PROVE  PiInv'
BY DEF PiInv, OwnerInv

\* recompute_and_notify touches neither the lock word nor who owns it.
LEMMA RecomputeInv ==
  ASSUME PiInv, ~mode.exits, NEW p \in Pids, Recompute(p)
  PROVE  PiInv'
<1> USE DEF PiInv, NoExit, Goto, Jump, Call, Return, At, Owning, InSection, Labels, YieldPoints
<1>1. CASE RcBase(p)
  BY <1>1, OthersKeepOwner DEF RcBase, words
<1>2. CASE RcMax(p)
  BY <1>2, OthersKeepOwner DEF RcMax, words
<1>3. CASE RcCompare(p)
  BY <1>3, OthersKeepOwner, SMT DEF RcCompare, words
<1>4. CASE RcStore(p)
  BY <1>4, OthersKeepOwner DEF RcStore
<1> QED
  BY <1>1, <1>2, <1>3, <1>4 DEF Recompute

\* try_lock makes an owner only where it finds the lock word clear, and so no
\* other owner.
LEMMA AcquireInv ==
  ASSUME PiInv, ~mode.exits, NEW p \in Pids, Acquire(p)
  PROVE  PiInv'
<1> USE DEF PiInv, NoExit, Goto, Jump, Call, At, Owning, InSection, Labels, YieldPoints
<1>1. CASE TryLock(p)
  <2>1. CASE locked
    BY <1>1, <2>1, OthersKeepOwner DEF TryLock
  <2>2. CASE ~locked
    BY <1>1, <2>2, SMT DEF TryLock, OwnerInv
  <2> QED
    BY <2>1, <2>2
<1>2. CASE AcqHolder(p) \/ AcqEffective(p) \/ AcqBase(p)
  <2>1. PICK l \in {"acq_eff", "acq_base", "acq_track"} : pc' = [pc EXCEPT ![p] = l]
    BY <1>2 DEF AcqHolder, AcqEffective, AcqBase
  <2>2. pc[p] \in Owning /\ ret' = ret /\ locked' = locked
    BY <1>2 DEF AcqHolder, AcqEffective, AcqBase
  <2> QED
    BY <2>1, <2>2, OthersKeepOwner
<1>3. CASE AcqTrack(p)
  BY <1>3, OthersKeepOwner DEF AcqTrack, words
<1>4. CASE Register(p)
  BY <1>4, OthersKeepOwner, SMT DEF Register, words
<1> QED
  BY <1>1, <1>2, <1>3, <1>4 DEF Acquire

\* The stores that open the lock are the owner's own; all later stores of a
\* release, the handover's locked.store(true) included, keep it closed.
LEMMA ReleaseInv ==
  ASSUME PiInv, ~mode.exits, NEW p \in Pids, Release(p)
  PROVE  PiInv'
<1> USE DEF PiInv, NoExit, Goto, Jump, Call, Return, At, Owning, InSection, Labels, YieldPoints
<1>1. CASE UnlockInternal(p)
  BY <1>1, OthersKeepOwner DEF UnlockInternal, words
<1>2. CASE ExitDispatch(p) \/ ExitLocked(p)
  BY <1>2 DEF ExitDispatch, ExitLocked
<1>3. CASE UnPick(p)
  BY <1>3, OthersKeepOwner, SMT DEF UnPick, words
<1>4. CASE RelLocked(p) \/ HoUnlock(p)
  <2>1. pc[p] \in Owning /\ \E l \in {"rel_holder", "ho_none"} : pc' = [pc EXCEPT ![p] = l]
    BY <1>4 DEF RelLocked, HoUnlock, Store
  <2>2. \A q \in Pids : pc'[q] \notin Owning
    BY <2>1 DEF OwnerInv
  <2> QED
    BY <1>4, <2>1, <2>2, SMT DEF RelLocked, HoUnlock, Store, OwnerInv
<1>5. CASE RelHolder(p) \/ RelEffective(p) \/ HoNone(p) \/ HoEffZero(p) \/ HoBaseZero(p)
  <2>1. PICK l \in {"rel_eff", "rel_base", "ho_eff0", "ho_base0", "ho_next"} :
          pc' = [pc EXCEPT ![p] = l]
    BY <1>5 DEF RelHolder, RelEffective, HoNone, HoEffZero, HoBaseZero, Store
  <2>2. ret' = ret /\ locked' = locked
    BY <1>5 DEF RelHolder, RelEffective, HoNone, HoEffZero, HoBaseZero, Store
  <2> QED
    BY <2>1, <2>2, OthersKeepOwner
<1>6. CASE HoNext(p) \/ HoLock(p) \/ HoEffective(p) \/ HoBase(p)
  <2>1. PICK l \in {"ho_lock", "ho_eff", "ho_base", "ho_track"} : pc' = [pc EXCEPT ![p] = l]
    BY <1>6 DEF HoNext, HoLock, HoEffective, HoBase, Store
  <2>2. ret' = ret /\ (locked' = locked \/ locked' = TRUE)
    BY <1>6 DEF HoNext, HoLock, HoEffective, HoBase, Store
  <2> QED
    BY <2>1, <2>2, OthersKeepOwner
<1>7. CASE RelBase(p)
  BY <1>7, OthersKeepOwner DEF RelBase
<1>8. CASE HoTrack(p)
  BY <1>8, OthersKeepOwner DEF HoTrack, words
<1> QED
  BY <1>1, <1>2, <1>3, <1>4, <1>5, <1>6, <1>7, <1>8 DEF Release

LEMMA ModeStays == [Next]_vars => mode' = mode
<1> USE DEF Goto, Jump, Call, Return
<1>1. ASSUME NEW p \in Pids, Lock(p) \/ Exit(p) \/ Recompute(p) PROVE mode' = mode
  BY <1>1 DEF Lock, Exit, Recompute, RcBase, RcMax, RcCompare, RcStore
<1>2. ASSUME NEW p \in Pids, Acquire(p) PROVE mode' = mode
  BY <1>2 DEF Acquire, TryLock, AcqHolder, AcqEffective, AcqBase, AcqTrack, Register
<1>3. ASSUME NEW p \in Pids, Release(p) PROVE mode' = mode
  BY <1>3 DEF Release, UnlockInternal, ExitDispatch, ExitLocked, UnPick, Store,
     RelLocked, RelHolder, RelEffective, RelBase, HoUnlock, HoNone, HoEffZero, HoBaseZero,
     HoNext, HoLock, HoEffective, HoBase, HoTrack
<1>4. ASSUME NEW p \in Pids, NEW q \in Pids, NEW new \in Prios, UpdateWaiterPriority(p, q, new)
      PROVE mode' = mode
  BY <1>4 DEF UpdateWaiterPriority
<1> QED
  BY <1>1, <1>2, <1>3, <1>4 DEF Next, Step, vars

LEMMA NextInv == IndInv /\ [Next]_vars => IndInv'
<1> SUFFICES ASSUME IndInv, [Next]_vars, ~mode.exits' PROVE PiInv'
  BY DEF IndInv
<1>0. PiInv /\ ~mode.exits
  BY ModeStays DEF IndInv
<1>1. ASSUME NEW p \in Pids, Lock(p) PROVE PiInv'
  BY <1>0, <1>1, OthersKeepOwner
     DEF Lock, At, Goto, Jump, words, PiInv, NoExit, Owning, InSection, Labels, YieldPoints
<1>2. ASSUME NEW p \in Pids, Exit(p) PROVE FALSE
  BY <1>0, <1>2 DEF Exit
<1>3. ASSUME NEW p \in Pids, Step(p) PROVE PiInv'
  BY <1>0, <1>3, RecomputeInv, AcquireInv, ReleaseInv DEF Step
<1>4. ASSUME NEW p \in Pids, NEW q \in Pids, NEW new \in Prios, UpdateWaiterPriority(p, q, new)
      PROVE PiInv'
  BY <1>0, <1>4, OthersKeepOwner
     DEF UpdateWaiterPriority, At, Goto, Jump, words, PiInv, NoExit, Owning, InSection,
         Labels, YieldPoints
<1>5. CASE UNCHANGED vars
  BY <1>0, <1>5 DEF vars, words, PiInv, OwnerInv, NoExit
<1> QED
  BY <1>1, <1>2, <1>3, <1>4, <1>5 DEF Next

\* pi_mutex.rs:364: one process at a time is inside, although do_unlock opens
\* the lock for a moment before it hands it on and although holder may name a
\* process that is not inside.
THEOREM MutualExclusion == Spec => []OneInside
<1>1. IndInv => OneInside
  BY DEF IndInv, PiInv, OwnerInv, OneInside, Owning
<1> QED
  BY <1>1, InitInv, NextInv, PTL DEF Spec

\* A step moves one process.
LEMMA OneMoves ==
  ASSUME PiInv, Next
  PROVE  \E p \in Pids : \A q \in Pids : q # p => pc'[q] = pc[q]
<1> USE DEF PiInv, Jump, Goto, Call, Return
<1>1. PICK p \in Pids :
        \/ Lock(p) \/ Exit(p) \/ Recompute(p) \/ Acquire(p) \/ Release(p)
        \/ \E q \in Pids, new \in Prios : UpdateWaiterPriority(p, q, new)
  BY DEF Next, Step
<1>2. CASE Lock(p) \/ Exit(p) \/ \E q \in Pids, new \in Prios : UpdateWaiterPriority(p, q, new)
  BY <1>2 DEF Lock, Exit, UpdateWaiterPriority
<1>3. CASE Recompute(p)
  BY <1>3 DEF Recompute, RcBase, RcMax, RcCompare, RcStore
<1>4. CASE Acquire(p)
  BY <1>4 DEF Acquire, TryLock, AcqHolder, AcqEffective, AcqBase, AcqTrack, Register
<1>5. CASE Release(p)
  BY <1>5 DEF Release, UnlockInternal, ExitDispatch, ExitLocked, UnPick, Store,
     RelLocked, RelHolder, RelEffective, RelBase, HoUnlock, HoNone, HoEffZero, HoBaseZero,
     HoNext, HoLock, HoEffective, HoBase, HoTrack
<1> QED
  BY <1>1, <1>2, <1>3, <1>4, <1>5

LEMMA StepImplements == IndInv /\ OneInside' /\ [Next]_vars => [Abstract!Next]_Granted
<1> SUFFICES ASSUME IndInv, OneInside', [Next]_vars, Granted' # Granted PROVE Abstract!Next
  OBVIOUS
<1>1. mode' = mode
  BY ModeStays
<1>2. ~mode.exits /\ Next
  BY <1>1 DEF Granted, vars
<1>3. PICK p \in Pids : \A q \in Pids : q # p => pc'[q] = pc[q]
  BY <1>2, OneMoves DEF IndInv
<1>4. Granted' = [Granted EXCEPT ![p] = Granted'[p]] /\ Granted'[p] # Granted[p]
  BY <1>1, <1>3 DEF Granted
<1>5. CASE Granted[p] = "exclusive"
  BY <1>4, <1>5 DEF Granted, Abstract!Next, Abstract!Release
<1>6. CASE Granted[p] = "none"
  <2>1. Granted'[p] = "exclusive" /\ pc'[p] \in InSection
    BY <1>4, <1>6 DEF Granted
  <2>2. \A q \in Pids : q # p => Granted[q] = "none"
    BY <1>1, <1>2, <1>3, <2>1 DEF OneInside, Granted
  <2>3. Abstract!Acquire(p, "exclusive")
    BY <1>4, <1>6, <2>1, <2>2 DEF Abstract!Acquire, Abstract!Compatible, Abstract!Conflict
  <2> QED
    BY <2>3 DEF Abstract!Next, Abstract!Grant
<1> QED
  BY <1>5, <1>6 DEF Granted

\* Without exits the priority-inheritance mutex implements the abstract lock,
\* whatever a handover does to its words (pi_mutex.rs:364).
THEOREM PiMutexImplementsLock == Spec => ImplementsPiMutex
<1>1. Init => Abstract!Init
  BY DEF Init, Abstract!Init, Granted, InSection
<1> QED
  BY <1>1, InitInv, NextInv, MutualExclusion, StepImplements, PTL
     DEF Spec, ImplementsPiMutex, Abstract!Spec

-----------------------------------------------------------------------------
(***************************************************************************)
(* The waiter queue as a sequence: its maximum, and what is left when an   *)
(* entry is taken out.                                                     *)
(***************************************************************************)

LEMMA LeastElement ==
  ASSUME NEW T, T \subseteq Nat, T # {}
  PROVE  \E x \in T : \A y \in T : x <= y
<1> DEFINE R == OpToRel(<, Nat)
<1>1. \A x, y \in Nat : x < y => <<x, y>> \in R
  BY SMT DEF OpToRel
<1>2. IsWellFoundedOn(R, Nat)
  BY NatLessThanWellFounded
<1> HIDE DEF R
<1>3. \E x \in T : \A y \in T : ~(<<y, x>> \in R)
  BY <1>2, WFMin
<1>4. \E x \in T : \A y \in T : ~(y < x)
  BY <1>1, <1>3
<1> QED
  BY <1>4, SMT

\* do_unlock finds a next holder in every queue that is not empty: by
\* induction on the part of the queue that its loop has seen.
LEMMA BestExists ==
  ASSUME NEW ws \in Seq(Entry), ws # <<>>
  PROVE  /\ BestIndex(ws) \in DOMAIN ws
         /\ \A j \in DOMAIN ws : ws[j].base <= ws[BestIndex(ws)].base
<1> DEFINE b == [i \in 1..Len(ws) |-> ws[i].base]
           Best(n, i) == \A j \in 1..n : b[j] <= b[i] /\ (j > i => b[j] < b[i])
           Bad == {n \in 1..Len(ws) : ~ \E i \in 1..n : Best(n, i)}
<1>1. DOMAIN ws = 1..Len(ws) /\ Len(ws) \in Nat \ {0} /\ b \in [1..Len(ws) -> Nat]
  <2>1. DOMAIN ws = 1..Len(ws) /\ Len(ws) \in Nat /\ \A i \in 1..Len(ws) : ws[i] \in Entry
    BY LenProperties, ElementOfSeq
  <2>2. \A e \in Entry : e.base \in Nat
    BY DEF Entry
  <2>3. Len(ws) # 0
    BY EmptySeq, SMT
  <2>4. b \in [1..Len(ws) -> Nat]
    BY <2>1, <2>2
  <2> QED
    BY <2>1, <2>3, <2>4
<1> HIDE DEF b
<1>2. Bad = {}
  <2> SUFFICES ASSUME Bad # {} PROVE FALSE
    OBVIOUS
  <2>1. Bad \subseteq Nat
    BY SMT
  <2>2. PICK n \in Bad : \A m \in Bad : n <= m
    BY <2>1, LeastElement
  <2>3. n \in 1..Len(ws) /\ \A i \in 1..n : ~Best(n, i)
    OBVIOUS
  <2>4. n # 1
    <3>1. n = 1 => Best(n, 1) /\ 1 \in 1..n
      BY <1>1, <2>3, SMT
    <3> QED
      BY <2>3, <3>1
  <2>5. n - 1 \in 1..Len(ws) /\ ~(n <= n - 1)
    BY <1>1, <2>3, <2>4, SMT
  <2>6. PICK i \in 1..(n - 1) : Best(n - 1, i)
    BY <2>2, <2>5
  <2>7. (Best(n, n) /\ n \in 1..n) \/ (Best(n, i) /\ i \in 1..n)
    <3>0. n \in 1..Len(ws) /\ n # 1
      BY <2>3, <2>4
    <3>1. n \in 1..n /\ i \in 1..n /\ i \in 1..Len(ws) /\ n > i
      BY <1>1, <3>0, SMT
    <3>2. \A j \in 1..n : j \in 1..Len(ws) /\ (j \in 1..(n - 1) \/ j = n) /\ ~(j > n)
      BY <1>1, <3>0, SMT
    <3>3. b[n] \in Nat /\ b[i] \in Nat /\ \A j \in 1..n : b[j] \in Nat
      BY <1>1, <3>0, <3>1, <3>2
    <3>4. \A j \in 1..(n - 1) : b[j] <= b[i] /\ (j > i => b[j] < b[i])
      BY <2>6
    <3> HIDE DEF Best
    <3>5. CASE b[n] >= b[i]
      <4>1. \A j \in 1..n : b[j] <= b[n] /\ (j > n => b[j] < b[n])
        BY <3>2, <3>3, <3>4, <3>5, SMT
      <4> QED
        BY <3>1, <4>1 DEF Best
    <3>6. CASE ~(b[n] >= b[i])
      <4>1. \A j \in 1..n : b[j] <= b[i] /\ (j > i => b[j] < b[i])
        BY <3>2, <3>3, <3>4, <3>6, SMT
      <4> QED
        BY <3>1, <4>1 DEF Best
    <3> QED
      BY <3>5, <3>6
  <2> QED
    BY <2>3, <2>7
<1>3. Len(ws) \in 1..Len(ws)
  BY <1>1, SMT
<1>4. \E i \in 1..Len(ws) : Best(Len(ws), i)
  BY <1>2, <1>3
<1>5. \E i \in DOMAIN ws : \A j \in DOMAIN ws :
        ws[j].base <= ws[i].base /\ (j > i => ws[j].base < ws[i].base)
  BY <1>1, <1>4 DEF b
<1> QED
  BY <1>5 DEF BestIndex

LEMMA SetMaxOfPair ==
  ASSUME NEW m \in Nat, NEW n \in Nat
  PROVE  SetMax({m, n}) \in {m, n} /\ (n = 0 => SetMax({m, n}) = m)
<1>1. \E k \in {m, n} : \A j \in {m, n} : j <= k
  BY SMT
<1>2. /\ SetMax({m, n}) \in {m, n}
      /\ \A j \in {m, n} : j <= SetMax({m, n})
  BY <1>1 DEF SetMax
<1> QED
  BY <1>2, SMT

LEMMA WaiterMaxInNat ==
  ASSUME NEW ws \in Seq(Entry)
  PROVE  WaiterMax(ws) \in Nat /\ (ws = <<>> => WaiterMax(ws) = 0)
<1> DEFINE S == {ws[i].base : i \in DOMAIN ws}
<1>1. CASE ws = <<>>
  <2>1. DOMAIN ws = {}
    BY <1>1, SMT
  <2> QED
    BY <2>1, SMT DEF WaiterMax, SetMax
<1>2. CASE ws # <<>>
  <2>1. \A i \in DOMAIN ws : ws[i].base \in Nat
    <3>1. \A i \in DOMAIN ws : ws[i] \in Entry
      BY LenProperties, ElementOfSeq
    <3>2. \A e \in Entry : e.base \in Nat
      BY DEF Entry
    <3> QED
      BY <3>1, <3>2
  <2>2. \E m \in S : \A n \in S : n <= m
    BY <1>2, BestExists
  <2>3. S # {} /\ WaiterMax(ws) \in S
    BY <2>2 DEF WaiterMax, SetMax
  <2> QED
    BY <1>2, <2>1, <2>3
<1> QED
  BY <1>1, <1>2

LEMMA WithoutFacts ==
  ASSUME NEW ws \in Seq(Entry), NEW i \in DOMAIN ws
  PROVE  /\ Without(ws, i) \in Seq(Entry)
         /\ DOMAIN Without(ws, i) = 1..(Len(ws) - 1)
         /\ \A j \in 1..(Len(ws) - 1) : Without(ws, i)[j] = ws[IF j < i THEN j ELSE j + 1]
<1>1. i \in 1..Len(ws) /\ Len(ws) \in Nat
  BY SMT
<1> DEFINE s == SubSeq(ws, 1, i - 1)
           t == SubSeq(ws, i + 1, Len(ws))
<1>2. \A k \in 1..Len(ws) : ws[k] \in Entry
  BY SMT
<1>3. s \in Seq(Entry) /\ Len(s) = i - 1 /\ \A k \in 1..(i - 1) : s[k] = ws[k]
  BY <1>1, <1>2, SMT
<1>4. t \in Seq(Entry) /\ Len(t) = Len(ws) - i /\ \A k \in 1..(Len(ws) - i) : t[k] = ws[i + k]
  BY <1>1, <1>2, SMT
<1>5. Without(ws, i) = s \o t
  BY DEF Without
<1> HIDE DEF s, t
<1>6. /\ s \o t \in Seq(Entry)
      /\ Len(s \o t) = Len(s) + Len(t)
      /\ \A j \in 1..(Len(s) + Len(t)) : (s \o t)[j] = IF j <= Len(s) THEN s[j] ELSE t[j - Len(s)]
  BY <1>3, <1>4, ConcatProperties
<1>7. DOMAIN (s \o t) = 1..Len(s \o t)
  BY <1>6, LenProperties
<1>8. Len(s) + Len(t) = Len(ws) - 1
  BY <1>1, <1>3, <1>4, SMT
<1>9. ASSUME NEW j \in 1..(Len(ws) - 1) PROVE (s \o t)[j] = ws[IF j < i THEN j ELSE j + 1]
  <2>1. j \in 1..(Len(s) + Len(t)) /\ (j <= Len(s) <=> j < i)
    BY <1>1, <1>3, <1>8, SMT
  <2>2. CASE j < i
    <3>1. j \in 1..(i - 1)
      BY <1>1, <2>2, SMT
    <3> QED
      BY <1>3, <1>6, <2>1, <2>2, <3>1
  <2>3. CASE ~(j < i)
    <3>1. j - (i - 1) \in 1..(Len(ws) - i) /\ i + (j - (i - 1)) = j + 1
      BY <1>1, <2>3, SMT
    <3>2. (s \o t)[j] = t[j - Len(s)]
      BY <1>6, <2>1, <2>3
    <3>3. t[j - (i - 1)] = ws[i + (j - (i - 1))]
      BY <1>4, <3>1
    <3> QED
      BY <1>3, <2>3, <3>1, <3>2, <3>3
  <2> QED
    BY <2>2, <2>3
<1> QED
  BY <1>5, <1>6, <1>7, <1>8, <1>9

-----------------------------------------------------------------------------
(***************************************************************************)
(* Types, in every mode: preemption, exits and updates included.           *)
(***************************************************************************)

Owner == Pids \cup {PID_NONE}
Waiter == [pid : Owner, base : Nat]
Local == [new : Nat, next : Waiter, left : Nat]

TypeInv ==
  /\ pc \in [Pids -> Labels]
  /\ ret \in [Pids -> {"idle", "try", "exit"}]
  /\ tmp \in [Pids -> Local]
  /\ held \in [Pids -> Nat]
  /\ waiters \in Seq(Entry)
  /\ holder \in Owner
  /\ effective \in Nat
  /\ holder_base \in Nat

LEMMA LocalUpdates ==
  ASSUME NEW t \in Local
  PROVE  /\ \A n \in Nat : [t EXCEPT !.new = n] \in Local /\ [t EXCEPT !.left = n] \in Local
         /\ \A e \in Waiter : [t EXCEPT !.next = e] \in Local
         /\ [NoTmp EXCEPT !.left = t.left] \in Local
         /\ t.new \in Nat /\ t.left \in Nat /\ t.next \in Waiter
BY SMT DEF Local, Waiter, NoTmp, Owner

\* update_waiter_priority changes priorities and nothing else.
LEMMA ReprioritisedFacts ==
  ASSUME waiters \in Seq(Entry), NEW q \in Pids, NEW new \in Prios
  PROVE  /\ Reprioritised(q, new) \in Seq(Entry)
         /\ DOMAIN Reprioritised(q, new) = DOMAIN waiters
         /\ \A i \in DOMAIN waiters : Reprioritised(q, new)[i].pid = waiters[i].pid
<1>1. Len(waiters) \in Nat /\ DOMAIN waiters = 1..Len(waiters)
  BY LenProperties
<1>2. new \in Nat /\ \A i \in DOMAIN waiters : waiters[i] \in Entry
  BY ConstantsAssumption, <1>1, ElementOfSeq
<1>3. \A e \in Entry : [e EXCEPT !.base = new] \in Entry /\ [e EXCEPT !.base = new].pid = e.pid
  BY <1>2 DEF Entry
<1>4. \A i \in DOMAIN waiters : /\ Reprioritised(q, new)[i] \in Entry
                               /\ Reprioritised(q, new)[i].pid = waiters[i].pid
  BY <1>2, <1>3 DEF Reprioritised
<1>5. DOMAIN Reprioritised(q, new) = DOMAIN waiters
  BY DEF Reprioritised
<1>6. Reprioritised(q, new) \in [1..Len(waiters) -> Entry]
  BY <1>1, <1>4, <1>5 DEF Reprioritised
<1>7. Reprioritised(q, new) \in Seq(Entry)
  BY <1>1, <1>6, SMT
<1> QED
  BY <1>4, <1>5, <1>7

\* What the step of a process may change and to what.
LEMMA TypeStep ==
  ASSUME TypeInv, NEW p \in Pids, NEW l \in Labels, pc' = [pc EXCEPT ![p] = l],
         ret' = ret \/ \E b \in {"idle", "try", "exit"} : ret' = [ret EXCEPT ![p] = b],
         tmp' = tmp \/ \E t \in Local : tmp' = [tmp EXCEPT ![p] = t],
         held' = held \/ \E q \in Owner, n \in Nat : held' = [held EXCEPT ![q] = n],
         waiters' \in Seq(Entry),
         holder' \in Owner, effective' \in Nat, holder_base' \in Nat
  PROVE  TypeInv'
<1>1. pc' \in [Pids -> Labels] /\ ret' \in [Pids -> {"idle", "try", "exit"}]
  BY DEF TypeInv
<1>2. tmp' \in [Pids -> Local]
  BY DEF TypeInv
<1>3. held' \in [Pids -> Nat]
  BY DEF TypeInv
<1> QED
  BY <1>1, <1>2, <1>3 DEF TypeInv

LEMMA RecomputeTyped ==
  ASSUME TypeInv, NEW p \in Pids, Recompute(p)
  PROVE  TypeInv'
<1>0. /\ ret[p] \in {"idle", "try", "exit"} /\ tmp[p] \in Local
      /\ {"idle", "try", "exit", "rc_max", "rc_compare", "rc_store"} \subseteq Labels
      /\ waiters \in Seq(Entry) /\ holder \in Owner /\ effective \in Nat /\ holder_base \in Nat
  BY DEF TypeInv, Labels, YieldPoints
<1>1. CASE RcBase(p)
  <2>1. /\ tmp' = [tmp EXCEPT ![p] = [tmp[p] EXCEPT !.new = holder_base]]
        /\ pc' = [pc EXCEPT ![p] = "rc_max"] /\ ret' = ret /\ held' = held
        /\ waiters' = waiters /\ holder' = holder /\ effective' = effective
        /\ holder_base' = holder_base
    BY <1>1 DEF RcBase, Goto, Jump, words
  <2>2. [tmp[p] EXCEPT !.new = holder_base] \in Local
    BY <1>0, LocalUpdates
  <2> QED
    BY <1>0, <2>1, <2>2, TypeStep
<1>2. CASE RcMax(p)
  <2> DEFINE m == SetMax({tmp[p].new, WaiterMax(waiters)})
  <2>1. /\ tmp' = [tmp EXCEPT ![p] = [tmp[p] EXCEPT !.new = m]]
        /\ pc' = [pc EXCEPT ![p] = "rc_compare"] /\ ret' = ret /\ held' = held
        /\ waiters' = waiters /\ holder' = holder /\ effective' = effective
        /\ holder_base' = holder_base
    BY <1>2 DEF RcMax, Goto, Jump, words
  <2>2. m \in Nat
    <3>1. tmp[p].new \in Nat /\ WaiterMax(waiters) \in Nat
      BY <1>0, LocalUpdates, WaiterMaxInNat
    <3> QED
      BY <3>1, SetMaxOfPair
  <2> HIDE DEF m
  <2>3. [tmp[p] EXCEPT !.new = m] \in Local
    BY <1>0, <2>2, LocalUpdates
  <2> QED
    BY <1>0, <2>1, <2>3, TypeStep
<1>3. CASE RcCompare(p) \/ RcStore(p)
  <2>1. /\ tmp' = tmp \/ tmp' = [tmp EXCEPT ![p] = [NoTmp EXCEPT !.left = tmp[p].left]]
        /\ \E l \in {"rc_store", ret[p]} : pc' = [pc EXCEPT ![p] = l]
        /\ ret' = ret \/ ret' = [ret EXCEPT ![p] = "idle"]
        /\ held' = held /\ waiters' = waiters /\ holder' = holder
        /\ effective' \in {effective, tmp[p].new} /\ holder_base' = holder_base
    BY <1>3 DEF RcCompare, RcStore, Return, Call, Goto, Jump, words
  <2>2. [NoTmp EXCEPT !.left = tmp[p].left] \in Local /\ effective' \in Nat
    BY <1>0, <2>1, LocalUpdates
  <2>3. PICK l \in Labels : pc' = [pc EXCEPT ![p] = l]
    BY <1>0, <2>1
  <2>4. /\ ret' = ret \/ \E b \in {"idle", "try", "exit"} : ret' = [ret EXCEPT ![p] = b]
        /\ tmp' = tmp \/ \E t \in Local : tmp' = [tmp EXCEPT ![p] = t]
    BY <2>1, <2>2
  <2> QED
    BY <1>0, <2>1, <2>2, <2>3, <2>4, TypeStep
<1> QED
  BY <1>1, <1>2, <1>3 DEF Recompute

LEMMA AcquireTyped ==
  ASSUME TypeInv, NEW p \in Pids, Acquire(p)
  PROVE  TypeInv'
<1> DEFINE L == {"register", "acq_holder", "acq_eff", "acq_base", "acq_track", "cs", "try",
                 "rc_base"}
<1>0. /\ Base[p] \in Nat /\ p \in Owner /\ L \subseteq Labels /\ held[p] + 1 \in Nat
      /\ waiters \in Seq(Entry) /\ holder \in Owner /\ effective \in Nat /\ holder_base \in Nat
  <2>1. Base[p] \in Nat /\ p \in Owner /\ L \subseteq Labels
    BY ConstantsAssumption DEF Labels, YieldPoints, InSection, Owner
  <2>2. held[p] \in Nat
    BY DEF TypeInv
  <2> QED
    BY <2>1, <2>2, SMT DEF TypeInv
<1>1. CASE TryLock(p) \/ AcqHolder(p) \/ AcqEffective(p) \/ AcqBase(p)
  <2>1. /\ \E l \in L : pc' = [pc EXCEPT ![p] = l]
        /\ tmp' = tmp /\ ret' = ret /\ held' = held /\ waiters' = waiters
        /\ holder' \in {holder, p} /\ effective' \in {effective, Base[p]}
        /\ holder_base' \in {holder_base, Base[p]}
    BY <1>1 DEF TryLock, AcqHolder, AcqEffective, AcqBase, Goto, Jump
  <2> QED
    BY <1>0, <2>1, TypeStep
<1>2. CASE AcqTrack(p)
  <2>1. /\ \E l \in L : pc' = [pc EXCEPT ![p] = l]
        /\ tmp' = tmp /\ ret' = ret /\ waiters' = waiters
        /\ held' = [held EXCEPT ![p] = held[p] + 1]
        /\ holder' = holder /\ effective' = effective /\ holder_base' = holder_base
    BY <1>2 DEF AcqTrack, TrackHold, Goto, Jump, words
  <2> QED
    BY <1>0, <2>1, TypeStep
<1>3. CASE Register(p)
  <2>1. /\ \E l \in L : pc' = [pc EXCEPT ![p] = l]
        /\ tmp' = tmp /\ held' = held
        /\ ret' = ret \/ ret' = [ret EXCEPT ![p] = "try"]
        /\ waiters' = waiters \/ waiters' = Append(waiters, [pid |-> p, base |-> Base[p]])
        /\ holder' = holder /\ effective' = effective /\ holder_base' = holder_base
    BY <1>3 DEF Register, Call, Goto, Jump, words
  <2>2. [pid |-> p, base |-> Base[p]] \in Entry
    BY <1>0 DEF Entry
  <2>3. Append(waiters, [pid |-> p, base |-> Base[p]]) \in Seq(Entry)
    BY <1>0, <2>2, AppendProperties
  <2>4. waiters' \in Seq(Entry)
    BY <1>0, <2>1, <2>3
  <2> QED
    BY <1>0, <2>1, <2>4, TypeStep
<1> QED
  BY <1>1, <1>2, <1>3 DEF Acquire

LEMMA ReleaseTyped ==
  ASSUME TypeInv, NEW p \in Pids, Release(p)
  PROVE  TypeInv'
<1> DEFINE L == {"idle", "try", "exit", "dead", "exit_locked", "un_pick", "rel_locked",
                 "rel_holder", "rel_eff", "rel_base", "ho_unlock", "ho_none", "ho_eff0",
                 "ho_base0", "ho_next", "ho_lock", "ho_eff", "ho_base", "ho_track", "rc_base"}
           NextPid == tmp[p].next.pid
           NextBase == tmp[p].next.base
<1>0. /\ ret[p] \in {"idle", "try", "exit"} /\ tmp[p] \in Local /\ L \subseteq Labels
      /\ waiters \in Seq(Entry) /\ holder \in Owner /\ effective \in Nat /\ holder_base \in Nat
      /\ NextPid \in Owner /\ NextBase \in Nat /\ tmp[p].left \in Nat
      /\ PID_NONE \in Owner /\ 0 \in Nat
  <2>1. /\ ret[p] \in {"idle", "try", "exit"} /\ tmp[p] \in Local /\ L \subseteq Labels
    BY DEF TypeInv, Labels, YieldPoints, InSection
  <2>2. tmp[p].next \in Waiter /\ tmp[p].left \in Nat
    BY <2>1, LocalUpdates
  <2>3. NextPid \in Owner /\ NextBase \in Nat
    BY <2>2 DEF Waiter
  <2> QED
    BY <2>1, <2>2, <2>3, SMT DEF TypeInv, Owner
<1>1. CASE UnlockInternal(p) \/ ExitLocked(p)
  <2>1. /\ \E l \in L : pc' = [pc EXCEPT ![p] = l]
        /\ ret' = ret \/ ret' = [ret EXCEPT ![p] = "exit"]
        /\ tmp' = tmp /\ held' = held /\ waiters' = waiters
        /\ holder' = holder /\ effective' = effective /\ holder_base' = holder_base
    BY <1>1 DEF UnlockInternal, ExitLocked, Call, Goto, Jump, words
  <2> QED
    BY <1>0, <2>1, TypeStep
<1>2. CASE ExitDispatch(p)
  <2>1. /\ \E l \in L : pc' = [pc EXCEPT ![p] = l]
        /\ ret' = ret
        /\ tmp' = tmp \/ /\ tmp[p].left # 0
                         /\ tmp' = [tmp EXCEPT ![p] = [tmp[p] EXCEPT !.left = tmp[p].left - 1]]
        /\ held' = held /\ waiters' = waiters
        /\ holder' = holder /\ effective' = effective /\ holder_base' = holder_base
    BY <1>2 DEF ExitDispatch, Goto, Jump, words
  <2>2. tmp[p].left # 0 => tmp[p].left - 1 \in Nat
    BY <1>0, SMT
  <2>3. tmp[p].left # 0 => [tmp[p] EXCEPT !.left = tmp[p].left - 1] \in Local
    BY <1>0, <2>2, LocalUpdates
  <2>4. PICK l \in Labels : pc' = [pc EXCEPT ![p] = l]
    BY <1>0, <2>1
  <2>5. tmp' = tmp \/ \E t \in Local : tmp' = [tmp EXCEPT ![p] = t]
    BY <2>1, <2>3
  <2> QED
    BY <1>0, <2>1, <2>4, <2>5, TypeStep
<1>3. CASE UnPick(p)
  <2>1. CASE waiters = <<>>
    <3>1. /\ \E l \in L : pc' = [pc EXCEPT ![p] = l]
          /\ ret' = ret /\ tmp' = tmp /\ held' = held /\ waiters' = waiters
          /\ holder' = holder /\ effective' = effective /\ holder_base' = holder_base
      BY <1>3, <2>1 DEF UnPick, Goto, Jump, words
    <3> QED
      BY <1>0, <3>1, TypeStep
  <2>2. CASE waiters # <<>>
    <3> DEFINE i == BestIndex(waiters)
    <3>1. /\ \E l \in L : pc' = [pc EXCEPT ![p] = l]
          /\ tmp' = [tmp EXCEPT ![p] = [tmp[p] EXCEPT !.next = waiters[i]]]
          /\ waiters' = Without(waiters, i)
          /\ ret' = ret /\ held' = held
          /\ holder' = holder /\ effective' = effective /\ holder_base' = holder_base
      BY <1>3, <2>2 DEF UnPick, Goto, Jump, words
    <3>2. i \in DOMAIN waiters
      BY <1>0, <2>2, BestExists
    <3> HIDE DEF i
    <3>3. waiters[i] \in Waiter
      <4>1. waiters[i] \in Entry
        BY <1>0, <3>2, LenProperties, ElementOfSeq
      <4> QED
        BY <4>1 DEF Entry, Waiter, Owner
    <3>4. [tmp[p] EXCEPT !.next = waiters[i]] \in Local
      BY <1>0, <3>3, LocalUpdates
    <3>5. Without(waiters, i) \in Seq(Entry)
      BY <1>0, <3>2, WithoutFacts
    <3> QED
      BY <1>0, <3>1, <3>4, <3>5, TypeStep
  <2> QED
    BY <2>1, <2>2
<1>4. CASE \/ RelLocked(p) \/ RelHolder(p) \/ RelEffective(p)
           \/ HoUnlock(p) \/ HoNone(p) \/ HoEffZero(p) \/ HoBaseZero(p)
           \/ HoNext(p) \/ HoLock(p) \/ HoEffective(p) \/ HoBase(p)
  <2>1. /\ \E l \in L : pc' = [pc EXCEPT ![p] = l]
        /\ ret' = ret /\ tmp' = tmp /\ held' = held /\ waiters' = waiters
        /\ holder' \in {holder, PID_NONE, NextPid}
        /\ effective' \in {effective, 0, NextBase}
        /\ holder_base' \in {holder_base, 0, NextBase}
    BY <1>4 DEF RelLocked, RelHolder, RelEffective, HoUnlock, HoNone, HoEffZero, HoBaseZero,
       HoNext, HoLock, HoEffective, HoBase, Store, Goto, Jump
  <2> HIDE DEF NextPid, NextBase
  <2>2. PICK l \in Labels : pc' = [pc EXCEPT ![p] = l]
    BY <1>0, <2>1
  <2>3. holder' \in Owner /\ effective' \in Nat /\ holder_base' \in Nat
    BY <1>0, <2>1
  <2> QED
    BY <1>0, <2>1, <2>2, <2>3, TypeStep
<1>5. CASE RelBase(p)
  <2>1. /\ pc' = [pc EXCEPT ![p] = ret[p]]
        /\ tmp' = [tmp EXCEPT ![p] = [NoTmp EXCEPT !.left = tmp[p].left]]
        /\ ret' = [ret EXCEPT ![p] = "idle"] /\ held' = held /\ waiters' = waiters
        /\ holder' = holder /\ effective' = effective /\ holder_base' = 0
    BY <1>5 DEF RelBase, Return, Call, Jump
  <2>2. [NoTmp EXCEPT !.left = tmp[p].left] \in Local
    BY <1>0, LocalUpdates
  <2> QED
    BY <1>0, <2>1, <2>2, TypeStep
<1>6. CASE HoTrack(p)
  <2>1. /\ pc' = [pc EXCEPT ![p] = "rc_base"]
        /\ ret' = ret /\ tmp' = tmp /\ waiters' = waiters
        /\ held' = [held EXCEPT ![NextPid] = held[NextPid] + 1]
        /\ holder' = holder /\ effective' = effective /\ holder_base' = holder_base
    BY <1>6 DEF HoTrack, TrackHold, Goto, Jump, words
  <2>2. held' = held \/ \E n \in Nat : held' = [held EXCEPT ![NextPid] = n]
    <3> HIDE DEF NextPid
    <3>1. CASE NextPid \in Pids
      <4>1. held[NextPid] \in Nat
        BY <3>1 DEF TypeInv
      <4>2. held[NextPid] + 1 \in Nat
        BY <4>1, SMT
      <4> QED
        BY <2>1, <4>2
    <3>2. CASE NextPid \notin Pids
      <4>1. held \in [Pids -> Nat]
        BY DEF TypeInv
      <4>2. [held EXCEPT ![NextPid] = held[NextPid] + 1] = held
        BY <3>2, <4>1
      <4> QED
        BY <2>1, <4>2
    <3> QED
      BY <3>1, <3>2
  <2> HIDE DEF NextPid
  <2> QED
    BY <1>0, <2>1, <2>2, TypeStep
<1> QED
  BY <1>1, <1>2, <1>3, <1>4, <1>5, <1>6 DEF Release

LEMMA NextTyped == TypeInv /\ [Next]_vars => TypeInv'
<1> SUFFICES ASSUME TypeInv, [Next]_vars PROVE TypeInv'
  OBVIOUS
<1>0. /\ {"try", "exit", "rc_base"} \subseteq Labels /\ 0 \in Nat
      /\ waiters \in Seq(Entry) /\ holder \in Owner /\ effective \in Nat /\ holder_base \in Nat
  BY SMT DEF TypeInv, Labels, YieldPoints
<1>1. ASSUME NEW p \in Pids, Lock(p) PROVE TypeInv'
  <2>1. /\ pc' = [pc EXCEPT ![p] = "try"]
        /\ ret' = ret /\ tmp' = tmp /\ held' = held /\ waiters' = waiters
        /\ holder' = holder /\ effective' = effective /\ holder_base' = holder_base
    BY <1>1 DEF Lock, Goto, Jump, words
  <2> QED
    BY <1>0, <2>1, TypeStep
<1>2. ASSUME NEW p \in Pids, Exit(p) PROVE TypeInv'
  <2>1. /\ pc' = [pc EXCEPT ![p] = "exit"]
        /\ tmp' = [tmp EXCEPT ![p] = [tmp[p] EXCEPT !.left = held[p]]]
        /\ held' = [held EXCEPT ![p] = 0] /\ ret' = ret /\ waiters' = waiters
        /\ holder' = holder /\ effective' = effective /\ holder_base' = holder_base
    BY <1>2 DEF Exit, Goto, Jump, words
  <2>2. tmp[p] \in Local /\ held[p] \in Nat /\ p \in Owner
    BY DEF TypeInv, Owner
  <2>3. [tmp[p] EXCEPT !.left = held[p]] \in Local
    BY <2>2, LocalUpdates
  <2> QED
    BY <1>0, <2>1, <2>2, <2>3, TypeStep
<1>3. ASSUME NEW p \in Pids, Step(p) PROVE TypeInv'
  BY <1>3, RecomputeTyped, AcquireTyped, ReleaseTyped DEF Step
<1>4. ASSUME NEW p \in Pids, NEW q \in Pids, NEW new \in Prios, UpdateWaiterPriority(p, q, new)
      PROVE TypeInv'
  <2>1. /\ pc' = [pc EXCEPT ![p] = "rc_base"] /\ waiters' = Reprioritised(q, new)
        /\ ret' = ret /\ tmp' = tmp /\ held' = held
        /\ holder' = holder /\ effective' = effective /\ holder_base' = holder_base
    BY <1>4 DEF UpdateWaiterPriority, Goto, Jump, words
  <2>2. Reprioritised(q, new) \in Seq(Entry)
    BY <1>0, ReprioritisedFacts
  <2> QED
    BY <1>0, <2>1, <2>2, TypeStep
<1>5. CASE UNCHANGED vars
  BY <1>5 DEF vars, words, TypeInv
<1> QED
  BY <1>1, <1>2, <1>3, <1>4, <1>5 DEF Next

LEMMA InitTyped == Init => TypeInv
<1> SUFFICES ASSUME Init PROVE TypeInv
  OBVIOUS
<1>1. NoTmp \in Local /\ 0 \in Nat /\ <<>> \in Seq(Entry)
  BY SMT DEF NoTmp, Local, Waiter, Owner
<1> QED
  BY <1>1 DEF Init, TypeInv, Labels, YieldPoints, Owner

-----------------------------------------------------------------------------
(***************************************************************************)
(* The waiter queue.                                                       *)
(***************************************************************************)

\* Three operations change the queue.
LEMMA QueueSteps ==
  ASSUME [Next]_vars
  PROVE  \/ waiters' = waiters
         \/ \E p \in Pids : Register(p)
         \/ \E p \in Pids : UnPick(p)
         \/ \E p, q \in Pids, new \in Prios : UpdateWaiterPriority(p, q, new)
<1>1. ASSUME NEW p \in Pids, Lock(p) \/ Exit(p) \/ Recompute(p) PROVE waiters' = waiters
  BY <1>1 DEF Lock, Exit, Recompute, RcBase, RcMax, RcCompare, RcStore
<1>2. ASSUME NEW p \in Pids, Acquire(p) PROVE waiters' = waiters \/ Register(p)
  BY <1>2 DEF Acquire, TryLock, AcqHolder, AcqEffective, AcqBase, AcqTrack
<1>3. ASSUME NEW p \in Pids, Release(p) PROVE waiters' = waiters \/ UnPick(p)
  BY <1>3 DEF Release, UnlockInternal, ExitDispatch, ExitLocked, RelLocked, RelHolder,
     RelEffective, RelBase, HoUnlock, HoNone, HoEffZero, HoBaseZero, HoNext, HoLock,
     HoEffective, HoBase, HoTrack, Store
<1>4. CASE UNCHANGED vars
  BY <1>4 DEF vars
<1> QED
  BY <1>1, <1>2, <1>3, <1>4 DEF Next, Step

LEMMA NextQueued == TypeInv /\ QueuedOnce /\ [Next]_vars => QueuedOnce'
<1> SUFFICES ASSUME TypeInv, QueuedOnce, [Next]_vars PROVE QueuedOnce'
  OBVIOUS
<1>0. waiters \in Seq(Entry) /\ Len(waiters) \in Nat /\ DOMAIN waiters = 1..Len(waiters)
  BY LenProperties DEF TypeInv
<1>1. CASE waiters' = waiters
  BY <1>1 DEF QueuedOnce
<1>2. ASSUME NEW p \in Pids, Register(p), waiters' # waiters PROVE QueuedOnce'
  <2> DEFINE e == [pid |-> p, base |-> Base[p]]
  <2>1. /\ \A i \in DOMAIN waiters : waiters[i].pid # p
        /\ waiters' = Append(waiters, e)
    BY <1>2 DEF Register, Queued
  <2>2. e \in Entry /\ e.pid = p
    BY ConstantsAssumption DEF Entry
  <2> HIDE DEF e
  <2>3. /\ DOMAIN waiters' = 1..(Len(waiters) + 1)
        /\ \A i \in 1..Len(waiters) : waiters'[i] = waiters[i]
        /\ waiters'[Len(waiters) + 1] = e
    BY <1>0, <2>1, <2>2, SMT
  <2>4. \A i \in DOMAIN waiters' :
          \/ i \in DOMAIN waiters /\ waiters'[i].pid = waiters[i].pid /\ waiters[i].pid # p
          \/ i = Len(waiters) + 1 /\ waiters'[i].pid = p
    <3> TAKE i \in DOMAIN waiters'
    <3>1. i \in 1..Len(waiters) \/ i = Len(waiters) + 1
      BY <1>0, <2>3, SMT
    <3> QED
      BY <1>0, <2>1, <2>2, <2>3, <3>1
  <2> QED
    BY <2>4 DEF QueuedOnce
<1>3. ASSUME NEW p \in Pids, UnPick(p), waiters' # waiters PROVE QueuedOnce'
  <2> DEFINE b == BestIndex(waiters)
  <2>1. waiters # <<>> /\ waiters' = Without(waiters, b)
    BY <1>3 DEF UnPick
  <2>2. b \in DOMAIN waiters
    BY <1>0, <2>1, BestExists
  <2> HIDE DEF b
  <2>3. /\ DOMAIN waiters' = 1..(Len(waiters) - 1)
        /\ \A j \in 1..(Len(waiters) - 1) : waiters'[j] = waiters[IF j < b THEN j ELSE j + 1]
    BY <1>0, <2>1, <2>2, WithoutFacts
  <2> SUFFICES ASSUME NEW i \in DOMAIN waiters', NEW j \in DOMAIN waiters',
                      waiters'[i].pid = waiters'[j].pid
               PROVE  i = j
    BY DEF QueuedOnce
  <2> DEFINE f(k) == IF k < b THEN k ELSE k + 1
  <2>4. f(i) \in DOMAIN waiters /\ f(j) \in DOMAIN waiters /\ (f(i) = f(j) => i = j)
    BY <1>0, <2>2, <2>3, SMT
  <2>5. waiters[f(i)].pid = waiters[f(j)].pid
    BY <2>3
  <2> HIDE DEF f
  <2> QED
    BY <2>4, <2>5 DEF QueuedOnce
<1>4. ASSUME NEW p \in Pids, NEW q \in Pids, NEW new \in Prios, UpdateWaiterPriority(p, q, new)
      PROVE QueuedOnce'
  <2>1. waiters' = Reprioritised(q, new)
    BY <1>4 DEF UpdateWaiterPriority
  <2>2. /\ DOMAIN waiters' = DOMAIN waiters
        /\ \A i \in DOMAIN waiters : waiters'[i].pid = waiters[i].pid
    BY <1>0, <2>1, ReprioritisedFacts
  <2> QED
    BY <2>2 DEF QueuedOnce
<1> QED
  BY <1>1, <1>2, <1>3, <1>4, QueueSteps

\* pi_mutex.rs:416: lock() registers on every round of its loop, and a waiter
\* keeps its place through updates and handovers: it is queued at most once.
THEOREM OneEntryEach == Spec => []QueuedOnce
<1>1. Init => QueuedOnce
  <2>1. DOMAIN <<>> = {}
    BY SMT
  <2> QED
    BY <2>1 DEF Init, QueuedOnce
<1> QED
  BY <1>1, InitTyped, NextTyped, NextQueued, PTL DEF Spec

-----------------------------------------------------------------------------
(***************************************************************************)
(* The registry that process exit goes by.                                 *)
(***************************************************************************)

Recomputing == {"rc_base", "rc_max", "rc_compare", "rc_store"}
Releasing == {"un_pick", "rel_locked", "rel_holder", "rel_eff", "rel_base"}

\* The handover, before and after the store that names the next holder.
Opening == {"ho_unlock", "ho_none", "ho_eff0", "ho_base0", "ho_next"}
Closing == {"ho_lock", "ho_eff", "ho_base", "ho_track"}

\* Where an exiting process may be in the release that it is given.
ExitCalls == Releasing \cup Opening \cup Closing \cup Recomputing

\* Where an acquirer is the holder and not yet entered.
Entering == {"acq_eff", "acq_base", "acq_track"}

InExit(p) == pc[p] \in {"exit", "exit_locked", "dead"} \/ ret[p] = "exit"

\* A holder is in the registry, is about to be entered by itself or by the
\* process that hands the lock to it, or has taken its entries out to exit.
Tracked(h) == \/ held[h] > 0
              \/ pc[h] \in Entering
              \/ InExit(h)
              \/ \E p \in Pids : pc[p] \in Closing /\ tmp[p].next.pid = h

RegistryInv ==
  /\ \A p \in Pids : ret[p] = "exit" => pc[p] \in ExitCalls
  /\ \A p \in Pids : pc[p] \in Opening \cup Closing => tmp[p].next.pid \in Pids
  /\ \A h \in Pids : holder = h => Tracked(h)

\* What a step of process p has to respect.
LEMMA RegistryStep ==
  ASSUME TypeInv, RegistryInv, NEW p \in Pids, NEW l, pc' = [pc EXCEPT ![p] = l],
         \A q \in Pids : q # p => ret'[q] = ret[q] /\ tmp'[q] = tmp[q],
         ret'[p] = "exit" => l \in ExitCalls,
         l \in Opening \cup Closing => tmp'[p].next.pid \in Pids,
         InExit(p) => InExit(p)',
         \A h \in Pids : held[h] > 0 => held'[h] > 0 \/ InExit(h)',
         pc[p] \in Entering => l \in Entering \/ held'[p] > 0,
         pc[p] \in Closing => \/ l \in Closing /\ tmp'[p].next.pid = tmp[p].next.pid
                              \/ held'[tmp[p].next.pid] > 0,
         \A h \in Pids : holder' = h => \/ holder = h
                                        \/ h = p /\ l \in Entering
                                        \/ l \in Closing /\ tmp'[p].next.pid = h
  PROVE  RegistryInv'
<1>0. pc'[p] = l /\ \A q \in Pids : q # p => pc'[q] = pc[q]
  BY DEF TypeInv
<1>1. \A q \in Pids : InExit(q) => InExit(q)'
  BY <1>0 DEF InExit
<1>2. ASSUME NEW h \in Pids, Tracked(h) PROVE Tracked(h)'
  <2>1. CASE held[h] > 0
    BY <2>1 DEF Tracked
  <2>2. CASE pc[h] \in Entering
    BY <1>0, <2>2 DEF Tracked
  <2>3. CASE InExit(h)
    BY <1>1, <2>3 DEF Tracked
  <2>4. ASSUME NEW r \in Pids, pc[r] \in Closing, tmp[r].next.pid = h PROVE Tracked(h)'
    <3>1. CASE r = p
      BY <1>0, <2>4, <3>1 DEF Tracked
    <3>2. CASE r # p
      BY <1>0, <2>4, <3>2 DEF Tracked
    <3> QED
      BY <3>1, <3>2
  <2> QED
    BY <1>2, <2>1, <2>2, <2>3, <2>4 DEF Tracked
<1>3. ASSUME NEW h \in Pids, holder' = h PROVE Tracked(h)'
  <2>1. CASE holder = h
    <3>1. Tracked(h)
      BY <2>1 DEF RegistryInv
    <3> QED
      BY <1>2, <3>1
  <2>2. CASE h = p /\ l \in Entering
    <3>1. pc'[h] \in Entering
      BY <1>0, <2>2
    <3> QED
      BY <3>1 DEF Tracked
  <2>3. CASE l \in Closing /\ tmp'[p].next.pid = h
    BY <1>0, <2>3 DEF Tracked
  <2> QED
    BY <1>3, <2>1, <2>2, <2>3
<1>4. \A q \in Pids : ret'[q] = "exit" => pc'[q] \in ExitCalls
  BY <1>0 DEF RegistryInv
<1>5. ASSUME NEW q \in Pids, pc'[q] \in Opening \cup Closing PROVE tmp'[q].next.pid \in Pids
  <2>1. CASE q = p
    BY <1>0, <1>5, <2>1
  <2>2. CASE q # p
    <3>1. pc[q] \in Opening \cup Closing /\ tmp'[q] = tmp[q]
      BY <1>0, <1>5, <2>2
    <3> QED
      BY <3>1 DEF RegistryInv
  <2> QED
    BY <2>1, <2>2
<1> QED
  BY <1>3, <1>4, <1>5 DEF RegistryInv

\* A step that leaves holder and registry alone, of a process that does not
\* enter a holder at the moment.
LEMMA OutsideRegistry ==
  ASSUME TypeInv, RegistryInv, NEW p \in Pids, NEW l, pc' = [pc EXCEPT ![p] = l],
         holder' = holder \/ holder' = PID_NONE, held' = held,
         \A q \in Pids : q # p => ret'[q] = ret[q] /\ tmp'[q] = tmp[q],
         pc[p] \notin Entering \cup Closing,
         ret'[p] = "exit" => l \in ExitCalls,
         l \in Opening \cup Closing => tmp'[p].next.pid \in Pids,
         InExit(p) => InExit(p)'
  PROVE  RegistryInv'
<1>1. PID_NONE \notin Pids
  BY ConstantsAssumption DEF PID_NONE
<1> QED
  BY <1>1, RegistryStep

LEMMA RecomputeRegistry ==
  ASSUME TypeInv, RegistryInv, NEW p \in Pids, Recompute(p)
  PROVE  RegistryInv'
<1>0. /\ pc \in [Pids -> Labels] /\ ret \in [Pids -> {"idle", "try", "exit"}]
      /\ tmp \in [Pids -> Local]
  BY DEF TypeInv
<1>1. PICK l : pc' = [pc EXCEPT ![p] = l] /\ l \in {"rc_max", "rc_compare", "rc_store", ret[p]}
  BY DEF Recompute, RcBase, RcMax, RcCompare, RcStore, Return, Call, Goto, Jump
<1>2. /\ pc[p] \in Recomputing /\ holder' = holder /\ held' = held
      /\ \A q \in Pids : q # p => ret'[q] = ret[q] /\ tmp'[q] = tmp[q]
      /\ \/ l \in Recomputing /\ ret'[p] = ret[p]
         \/ l = ret[p] /\ ret'[p] = "idle"
  <2>1. CASE RcBase(p) \/ RcMax(p)
    BY <1>0, <1>1, <2>1 DEF RcBase, RcMax, At, Goto, Jump, Recomputing, words
  <2>2. CASE RcCompare(p) \/ RcStore(p)
    BY <1>0, <1>1, <2>2 DEF RcCompare, RcStore, At, Return, Call, Goto, Jump, Recomputing, words
  <2> QED
    BY <2>1, <2>2 DEF Recompute
<1>3. InExit(p) => InExit(p)'
  BY <1>0, <1>1, <1>2 DEF InExit, Recomputing
<1>4. l \notin Opening \cup Closing
  BY <1>0, <1>1, <1>2 DEF Opening, Closing, Recomputing
<1>5. pc[p] \notin Entering \cup Closing
  BY <1>2 DEF Entering, Closing, Recomputing
<1> QED
  BY <1>1, <1>2, <1>3, <1>4, <1>5, OutsideRegistry DEF ExitCalls

LEMMA AcquireRegistry ==
  ASSUME TypeInv, RegistryInv, NEW p \in Pids, Acquire(p)
  PROVE  RegistryInv'
<1>0. /\ pc \in [Pids -> Labels] /\ ret \in [Pids -> {"idle", "try", "exit"}]
      /\ tmp \in [Pids -> Local] /\ held \in [Pids -> Nat]
  BY DEF TypeInv
<1>a. pc[p] \in InSection \cup {"try", "register"}
  BY DEF Acquire, TryLock, AcqHolder, AcqEffective, AcqBase, AcqTrack, Register, At, InSection
<1>b. ret[p] # "exit" /\ ~InExit(p)
  <2>1. ret[p] # "exit"
    BY <1>a DEF RegistryInv, InSection, ExitCalls, Releasing, Opening, Closing, Recomputing
  <2> QED
    BY <1>a, <2>1 DEF InExit, InSection
<1>1. CASE TryLock(p)
  <2>1. /\ \E l \in {"register", "acq_holder"} : pc' = [pc EXCEPT ![p] = l]
        /\ pc[p] = "try" /\ holder' = holder /\ held' = held /\ ret' = ret /\ tmp' = tmp
    BY <1>1 DEF TryLock, At, Goto, Jump
  <2> QED
    BY <1>0, <1>b, <2>1, OutsideRegistry DEF ExitCalls, Entering, Opening, Closing
<1>2. CASE AcqHolder(p) \/ AcqEffective(p) \/ AcqBase(p)
  <2>1. PICK l \in Entering : pc' = [pc EXCEPT ![p] = l]
    BY <1>2 DEF AcqHolder, AcqEffective, AcqBase, Goto, Jump, Entering
  <2>2. /\ pc[p] \notin Closing /\ held' = held /\ ret' = ret /\ tmp' = tmp
        /\ holder' = holder \/ holder' = p
    BY <1>2 DEF AcqHolder, AcqEffective, AcqBase, At, Goto, Jump, Closing
  <2>3. l \notin Opening \cup Closing
    BY <2>1 DEF Entering, Opening, Closing
  <2> QED
    BY <1>b, <2>1, <2>2, <2>3, RegistryStep DEF ExitCalls
<1>3. CASE AcqTrack(p)
  <2>1. /\ pc[p] = "acq_track" /\ pc' = [pc EXCEPT ![p] = "cs"]
        /\ ret' = ret /\ tmp' = tmp /\ holder' = holder
        /\ held' = [held EXCEPT ![p] = held[p] + 1]
    BY <1>3 DEF AcqTrack, TrackHold, At, Goto, Jump, words
  <2>2. held'[p] > 0 /\ \A h \in Pids : held[h] > 0 => held'[h] > 0
    BY <1>0, <2>1, SMT
  <2>3. "cs" \notin Opening \cup Closing /\ pc[p] \notin Closing
    BY <2>1 DEF Opening, Closing
  <2> QED
    BY <1>b, <2>1, <2>2, <2>3, RegistryStep DEF ExitCalls
<1>4. CASE Register(p)
  <2>1. /\ \E l \in {"try", "rc_base"} : pc' = [pc EXCEPT ![p] = l]
        /\ pc[p] = "register" /\ holder' = holder /\ held' = held /\ tmp' = tmp
        /\ ret' = ret \/ ret' = [ret EXCEPT ![p] = "try"]
    BY <1>4 DEF Register, At, Call, Goto, Jump, words
  <2>2. ret'[p] # "exit" /\ \A q \in Pids : q # p => ret'[q] = ret[q]
    BY <1>0, <1>b, <2>1
  <2> QED
    BY <1>b, <2>1, <2>2, OutsideRegistry DEF ExitCalls, Entering, Opening, Closing
<1> QED
  BY <1>1, <1>2, <1>3, <1>4 DEF Acquire

LEMMA ReleaseRegistry ==
  ASSUME TypeInv, RegistryInv, NEW p \in Pids, Release(p)
  PROVE  RegistryInv'
<1>0. /\ pc \in [Pids -> Labels] /\ ret \in [Pids -> {"idle", "try", "exit"}]
      /\ tmp \in [Pids -> Local] /\ held \in [Pids -> Nat]
  BY DEF TypeInv
<1>a. /\ ret[p] = "exit" => pc[p] \in ExitCalls
      /\ pc[p] \in Opening \cup Closing => tmp[p].next.pid \in Pids
  BY DEF RegistryInv
<1>1. CASE UnlockInternal(p)
  <2>1. /\ \E l \in {"un_pick", "idle"} : pc' = [pc EXCEPT ![p] = l]
        /\ pc[p] = "cs" /\ holder' = holder /\ held' = held /\ ret' = ret /\ tmp' = tmp
    BY <1>1 DEF UnlockInternal, At, Goto, Jump, words
  <2>2. ret[p] # "exit" /\ ~InExit(p)
    BY <1>a, <2>1 DEF InExit, ExitCalls, Releasing, Opening, Closing, Recomputing
  <2> QED
    BY <2>1, <2>2, OutsideRegistry DEF ExitCalls, Entering, Opening, Closing
<1>2. CASE ExitDispatch(p)
  <2>1. PICK l \in {"dead", "exit_locked", "exit"} : pc' = [pc EXCEPT ![p] = l]
    BY <1>2 DEF ExitDispatch, Goto, Jump
  <2>2. /\ pc[p] = "exit" /\ holder' = holder /\ held' = held /\ ret' = ret
        /\ \A q \in Pids : q # p => tmp'[q] = tmp[q]
    BY <1>0, <1>2 DEF ExitDispatch, At, Goto, Jump, words
  <2>3. ret[p] # "exit" /\ InExit(p)'
    BY <1>0, <1>a, <2>1, <2>2 DEF InExit, ExitCalls, Releasing, Opening, Closing, Recomputing
  <2> QED
    BY <2>1, <2>2, <2>3, OutsideRegistry DEF ExitCalls, Entering, Opening, Closing
<1>3. CASE ExitLocked(p)
  <2>1. /\ pc[p] = "exit_locked" /\ holder' = holder /\ held' = held /\ tmp' = tmp
        /\ \/ pc' = [pc EXCEPT ![p] = "un_pick"] /\ ret' = [ret EXCEPT ![p] = "exit"]
           \/ pc' = [pc EXCEPT ![p] = "exit"] /\ ret' = ret
    BY <1>3 DEF ExitLocked, At, Call, Goto, Jump, words
  <2>2. ret[p] # "exit"
    BY <1>a, <2>1 DEF ExitCalls, Releasing, Opening, Closing, Recomputing
  <2>3. /\ ret'[p] = "exit" => pc'[p] = "un_pick"
        /\ InExit(p)'
        /\ \A q \in Pids : q # p => ret'[q] = ret[q]
    BY <1>0, <2>1, <2>2 DEF InExit
  <2>4. PICK l \in {"un_pick", "exit"} : pc' = [pc EXCEPT ![p] = l]
    BY <2>1
  <2>5. ret'[p] = "exit" => l \in Releasing
    BY <1>0, <2>3, <2>4 DEF Releasing
  <2>6. l \notin Opening \cup Closing /\ pc[p] \notin Entering \cup Closing
    BY <2>1, <2>4 DEF Opening, Closing, Entering
  <2> QED
    BY <2>1, <2>3, <2>4, <2>5, <2>6, OutsideRegistry DEF ExitCalls
<1>4. CASE UnPick(p)
  <2>1. /\ pc[p] = "un_pick" /\ holder' = holder /\ held' = held /\ ret' = ret
        /\ \A q \in Pids : q # p => tmp'[q] = tmp[q]
    BY <1>0, <1>4 DEF UnPick, At, Goto, Jump, words
  <2>2. InExit(p) => ret[p] = "exit"
    BY <2>1 DEF InExit
  <2>3. InExit(p) => InExit(p)'
    BY <2>1, <2>2 DEF InExit
  <2>4. pc[p] \notin Entering \cup Closing
    BY <2>1 DEF Closing, Entering
  <2>5. CASE waiters = <<>>
    <3>1. pc' = [pc EXCEPT ![p] = "rel_locked"]
      BY <1>4, <2>5 DEF UnPick, Goto, Jump
    <3>2. "rel_locked" \in Releasing /\ "rel_locked" \notin Opening \cup Closing
      BY DEF Releasing, Opening, Closing
    <3> QED
      BY <2>1, <2>3, <2>4, <3>1, <3>2, OutsideRegistry DEF ExitCalls
  <2>6. CASE waiters # <<>>
    <3>1. pc' = [pc EXCEPT ![p] = "ho_unlock"] /\ tmp'[p].next = waiters[BestIndex(waiters)]
      BY <1>0, <1>4, <2>6, SMT DEF UnPick, Goto, Jump, Local
    <3>2. waiters[BestIndex(waiters)] \in Entry
      <4>1. waiters \in Seq(Entry) /\ BestIndex(waiters) \in DOMAIN waiters
        BY <2>6, BestExists DEF TypeInv
      <4> QED
        BY <4>1, LenProperties, ElementOfSeq
    <3>3. tmp'[p].next.pid \in Pids
      BY <3>1, <3>2 DEF Entry
    <3>4. "ho_unlock" \in Opening
      BY DEF Opening
    <3> QED
      BY <2>1, <2>3, <2>4, <3>1, <3>3, <3>4, OutsideRegistry DEF ExitCalls
  <2> QED
    BY <2>5, <2>6
<1>5. CASE RelLocked(p) \/ RelHolder(p) \/ RelEffective(p)
  <2>1. PICK l \in {"rel_holder", "rel_eff", "rel_base"} : pc' = [pc EXCEPT ![p] = l]
    BY <1>5 DEF RelLocked, RelHolder, RelEffective, Store, Goto, Jump
  <2>2. /\ pc[p] \in {"rel_locked", "rel_holder", "rel_eff"}
        /\ holder' = holder \/ holder' = PID_NONE
        /\ held' = held /\ ret' = ret /\ tmp' = tmp
    BY <1>5 DEF RelLocked, RelHolder, RelEffective, Store, At, Goto, Jump
  <2>3. InExit(p) => InExit(p)'
    BY <2>2 DEF InExit
  <2>4. l \in Releasing /\ l \notin Opening \cup Closing /\ pc[p] \notin Entering \cup Closing
    BY <2>1, <2>2 DEF Releasing, Opening, Closing, Entering
  <2> QED
    BY <2>1, <2>2, <2>3, <2>4, OutsideRegistry DEF ExitCalls
<1>6. CASE RelBase(p)
  <2>1. /\ pc[p] = "rel_base" /\ pc' = [pc EXCEPT ![p] = ret[p]] /\ holder' = holder /\ held' = held
        /\ ret' = [ret EXCEPT ![p] = "idle"]
        /\ \A q \in Pids : q # p => tmp'[q] = tmp[q]
    BY <1>0, <1>6 DEF RelBase, Return, Call, At, Jump
  <2>2. ret'[p] = "idle" /\ \A q \in Pids : q # p => ret'[q] = ret[q]
    BY <1>0, <2>1
  <2>3. InExit(p) => InExit(p)'
    BY <1>0, <2>1 DEF InExit
  <2>4. ret[p] \notin Opening \cup Closing /\ pc[p] \notin Entering \cup Closing
    BY <1>0, <2>1 DEF Opening, Closing, Entering
  <2> QED
    BY <2>1, <2>2, <2>3, <2>4, OutsideRegistry DEF ExitCalls
<1>7. CASE HoUnlock(p) \/ HoNone(p) \/ HoEffZero(p) \/ HoBaseZero(p)
  <2>1. PICK l \in Opening : pc' = [pc EXCEPT ![p] = l]
    BY <1>7 DEF HoUnlock, HoNone, HoEffZero, HoBaseZero, Store, Goto, Jump, Opening
  <2>2. /\ pc[p] \in Opening
        /\ holder' = holder \/ holder' = PID_NONE
        /\ held' = held /\ ret' = ret /\ tmp' = tmp
    BY <1>7 DEF HoUnlock, HoNone, HoEffZero, HoBaseZero, Store, At, Goto, Jump, Opening
  <2>3. InExit(p) => InExit(p)'
    BY <2>2 DEF InExit, Opening
  <2>4. pc[p] \notin Entering \cup Closing
    BY <2>2 DEF Opening, Closing, Entering
  <2> QED
    BY <1>a, <2>1, <2>2, <2>3, <2>4, OutsideRegistry DEF ExitCalls
<1>8. CASE HoNext(p) \/ HoLock(p) \/ HoEffective(p) \/ HoBase(p)
  <2>1. PICK l \in Closing : pc' = [pc EXCEPT ![p] = l]
    BY <1>8 DEF HoNext, HoLock, HoEffective, HoBase, Store, Goto, Jump, Closing
  <2>2. /\ pc[p] \in Closing \cup {"ho_next"}
        /\ holder' = holder \/ holder' = tmp[p].next.pid
        /\ held' = held /\ ret' = ret /\ tmp' = tmp
    BY <1>8 DEF HoNext, HoLock, HoEffective, HoBase, Store, At, Goto, Jump, Closing
  <2>3. InExit(p) => InExit(p)'
    BY <2>2 DEF InExit, Closing
  <2>4. pc[p] \notin Entering /\ pc[p] \in Opening \cup Closing
    BY <2>2 DEF Opening, Closing, Entering
  <2> QED
    BY <1>a, <2>1, <2>2, <2>3, <2>4, RegistryStep DEF ExitCalls
<1>9. CASE HoTrack(p)
  <2>1. /\ pc[p] = "ho_track" /\ pc' = [pc EXCEPT ![p] = "rc_base"]
        /\ ret' = ret /\ tmp' = tmp /\ holder' = holder
        /\ held' = [held EXCEPT ![tmp[p].next.pid] = held[tmp[p].next.pid] + 1]
    BY <1>9 DEF HoTrack, TrackHold, At, Goto, Jump, words
  <2>2. tmp[p].next.pid \in Pids
    BY <1>a, <2>1 DEF Closing
  <2>3. held'[tmp[p].next.pid] > 0 /\ \A h \in Pids : held[h] > 0 => held'[h] > 0
    BY <1>0, <2>1, <2>2, SMT
  <2>4. InExit(p) => InExit(p)'
    BY <2>1 DEF InExit
  <2>5. "rc_base" \in Recomputing /\ "rc_base" \notin Opening \cup Closing /\ pc[p] \notin Entering
    BY <2>1 DEF Opening, Closing, Recomputing, Entering
  <2> QED
    BY <2>1, <2>3, <2>4, <2>5, RegistryStep DEF ExitCalls
<1> QED
  BY <1>1, <1>2, <1>3, <1>4, <1>5, <1>6, <1>7, <1>8, <1>9 DEF Release

LEMMA NextRegistry == TypeInv /\ RegistryInv /\ [Next]_vars => RegistryInv'
<1> SUFFICES ASSUME TypeInv, RegistryInv, [Next]_vars PROVE RegistryInv'
  OBVIOUS
<1>0. /\ pc \in [Pids -> Labels] /\ ret \in [Pids -> {"idle", "try", "exit"}]
      /\ tmp \in [Pids -> Local] /\ held \in [Pids -> Nat]
  BY DEF TypeInv
<1>a. \A p \in Pids : ret[p] = "exit" => pc[p] \in ExitCalls
  BY DEF RegistryInv
<1>1. ASSUME NEW p \in Pids, Lock(p) PROVE RegistryInv'
  <2>1. /\ pc[p] = "idle" /\ pc' = [pc EXCEPT ![p] = "try"]
        /\ ret' = ret /\ tmp' = tmp /\ held' = held /\ holder' = holder
    BY <1>1 DEF Lock, At, Goto, Jump, words
  <2>2. ret[p] # "exit" /\ ~InExit(p)
    BY <1>a, <2>1 DEF InExit, ExitCalls, Releasing, Opening, Closing, Recomputing
  <2> QED
    BY <2>1, <2>2, OutsideRegistry DEF ExitCalls, Entering, Opening, Closing
<1>2. ASSUME NEW p \in Pids, Exit(p) PROVE RegistryInv'
  <2>1. /\ pc[p] \in {"idle", "cs"} /\ pc' = [pc EXCEPT ![p] = "exit"]
        /\ held' = [held EXCEPT ![p] = 0] /\ ret' = ret /\ holder' = holder
        /\ \A q \in Pids : q # p => tmp'[q] = tmp[q]
    BY <1>0, <1>2 DEF Exit, At, Goto, Jump, words
  <2>2. ret[p] # "exit" /\ InExit(p)'
    BY <1>0, <1>a, <2>1 DEF InExit, ExitCalls, Releasing, Opening, Closing, Recomputing
  <2>3. \A h \in Pids : held[h] > 0 => held'[h] > 0 \/ InExit(h)'
    BY <1>0, <2>1, <2>2
  <2>4. "exit" \notin Opening \cup Closing /\ pc[p] \notin Entering \cup Closing
    BY <2>1 DEF Entering, Opening, Closing
  <2> QED
    BY <2>1, <2>2, <2>3, <2>4, RegistryStep DEF ExitCalls
<1>3. ASSUME NEW p \in Pids, Step(p) PROVE RegistryInv'
  BY <1>3, RecomputeRegistry, AcquireRegistry, ReleaseRegistry DEF Step
<1>4. ASSUME NEW p \in Pids, NEW q \in Pids, NEW new \in Prios, UpdateWaiterPriority(p, q, new)
      PROVE RegistryInv'
  <2>1. /\ pc[p] = "idle" /\ pc' = [pc EXCEPT ![p] = "rc_base"]
        /\ ret' = ret /\ tmp' = tmp /\ held' = held /\ holder' = holder
    BY <1>4 DEF UpdateWaiterPriority, At, Goto, Jump, words
  <2>2. ret[p] # "exit" /\ ~InExit(p)
    BY <1>a, <2>1 DEF InExit, ExitCalls, Releasing, Opening, Closing, Recomputing
  <2> QED
    BY <2>1, <2>2, OutsideRegistry DEF ExitCalls, Entering, Opening, Closing
<1>5. CASE UNCHANGED vars
  BY <1>5 DEF vars, words, RegistryInv, Tracked, InExit
<1> QED
  BY <1>1, <1>2, <1>3, <1>4, <1>5 DEF Next

LEMMA InitRegistry == Init => RegistryInv
<1> SUFFICES ASSUME Init PROVE RegistryInv
  OBVIOUS
<1>1. holder \notin Pids
  BY ConstantsAssumption DEF Init, PID_NONE
<1> QED
  BY <1>1 DEF Init, RegistryInv, Opening, Closing

\* pi_mutex.rs:658: whoever the mutex names as its holder, by try_lock or by a
\* handover that names a process which is not running, is in the registry by
\* which its exit gives the mutex back, with preemption at any moment.
THEOREM ExitFindsHolder == Spec => []HolderTracked
<1>1. TypeInv /\ RegistryInv => HolderTracked
  <2> SUFFICES ASSUME TypeInv, RegistryInv, Quiet, holder # PID_NONE, pc[holder] # "dead"
               PROVE  held[holder] > 0
    BY DEF HolderTracked
  <2>1. holder \in Pids
    BY DEF TypeInv, Owner
  <2>2. /\ Tracked(holder)
        /\ \A p \in Pids : ret[p] = "exit" => pc[p] \in ExitCalls
    BY <2>1 DEF RegistryInv
  <2>3. \A p \in Pids : pc[p] \notin ExitCalls \cup Entering \cup {"exit", "exit_locked"}
    BY DEF Quiet, ExitCalls, Releasing, Opening, Closing, Recomputing, Entering
  <2> QED
    BY <2>1, <2>2, <2>3 DEF Tracked, InExit, ExitCalls
<1> QED
  BY <1>1, InitTyped, NextTyped, InitRegistry, NextRegistry, PTL DEF Spec

-----------------------------------------------------------------------------
(***************************************************************************)
(* The effective priority, when processes are switched only where the code *)
(* yields: the words are then stored by one process at a time.             *)
(***************************************************************************)

Top == SetMax({holder_base, WaiterMax(waiters)})

\* Nobody is between two stores.
AtRest == \A p \in Pids : pc[p] \in YieldPoints \cup {"register"}

HolderIs(p) == holder = p /\ locked
Taken == holder # PID_NONE /\ locked
Free == ~locked /\ waiters = <<>>

\* What a process that is inside an operation relies on.
Relies(p) ==
  /\ pc[p] = "acq_holder" => locked /\ holder = PID_NONE /\ waiters = <<>>
  /\ pc[p] \in Entering => HolderIs(p) /\ waiters = <<>>
  /\ pc[p] \in {"acq_base", "acq_track"} => effective = Base[p]
  /\ pc[p] = "acq_track" => holder_base = Base[p]
  /\ pc[p] \in {"exit_locked", "un_pick", "rel_locked", "ho_unlock"} => HolderIs(p)
  /\ pc[p] = "rel_locked" => waiters = <<>>
  /\ pc[p] \in {"rel_holder", "rel_eff", "rel_base"} => Free
  /\ pc[p] \in {"rel_eff", "rel_base"} => holder = PID_NONE
  /\ pc[p] \in {"ho_none", "ho_eff0", "ho_base0", "ho_next", "ho_lock"} => ~locked
  /\ pc[p] = "ho_lock" => holder # PID_NONE
  /\ pc[p] \in {"ho_eff", "ho_base", "ho_track", "register"} \cup Recomputing => Taken
  /\ pc[p] = "rc_max" => tmp[p].new = holder_base
  /\ pc[p] \in {"rc_compare", "rc_store"} => tmp[p].new = Top

\* What holds at rest; while a handover waits in notify_revoke the waiter it
\* has taken off the queue still counts.
Rest == /\ locked <=> holder # PID_NONE
        /\ ~locked => waiters = <<>>
        /\ locked /\ (\A p \in Pids : pc[p] # "ho_unlock") => effective = Top

CoopInv == /\ \A p, q \in Pids : pc[p] \notin YieldPoints /\ pc[q] \notin YieldPoints => p = q
           /\ \A p \in Pids : Relies(p)
           /\ AtRest => Rest

\* A step of process p: what p then relies on, that a handover of another
\* process still finds its words, and that rest is left in order.
LEMMA CoopStep ==
  ASSUME TypeInv, CoopInv, NEW p \in Pids, NEW l, pc' = [pc EXCEPT ![p] = l],
         \A q \in Pids : q # p => pc[q] \in YieldPoints,
         Relies(p)',
         \A q \in Pids : q # p /\ HolderIs(q) => HolderIs(q)',
         l \in YieldPoints \cup {"register"} => Rest'
  PROVE  CoopInv'
<1>0. pc'[p] = l /\ \A q \in Pids : q # p => pc'[q] = pc[q]
  BY DEF TypeInv
<1>1. \A q, r \in Pids : pc'[q] \notin YieldPoints /\ pc'[r] \notin YieldPoints => q = r
  BY <1>0
<1>2. ASSUME NEW q \in Pids, q # p PROVE Relies(q)'
  <2>1. pc'[q] = pc[q] /\ pc[q] \in YieldPoints
    BY <1>0, <1>2
  <2>2. pc[q] = "ho_unlock" => HolderIs(q)
    BY DEF CoopInv, Relies
  <2>3. pc'[q] = "ho_unlock" => HolderIs(q)'
    BY <1>2, <2>1, <2>2
  <2> QED
    BY <2>1, <2>3 DEF Relies, YieldPoints, Entering, Recomputing
<1>3. ASSUME AtRest' PROVE Rest'
  BY <1>0, <1>3 DEF AtRest
<1> QED
  BY <1>1, <1>2, <1>3 DEF CoopInv

LEMMA Alone ==
  ASSUME TypeInv, CoopInv, ~mode.smp, NEW p \in Pids, NEW l, At(p, l)
  PROVE  /\ pc[p] = l /\ Relies(p)
         /\ \A q \in Pids : q # p => pc[q] \in YieldPoints
         /\ l \in YieldPoints \cup {"register"} => Rest
<1>1. pc[p] = l /\ \A q \in Pids : q # p => pc[q] \in YieldPoints
  BY DEF At
<1>2. l \in YieldPoints \cup {"register"} => AtRest
  BY <1>1 DEF AtRest
<1> QED
  BY <1>1, <1>2 DEF CoopInv

\* A step between two places outside the stores.
LEMMA RestStep ==
  ASSUME TypeInv, CoopInv, Rest, NEW p \in Pids, NEW l, pc' = [pc EXCEPT ![p] = l],
         UNCHANGED <<words, waiters>>,
         \A q \in Pids : q # p => pc[q] \in YieldPoints,
         pc[p] # "ho_unlock", l \in {"idle", "try", "cs", "exit", "dead", "register"},
         l = "register" => Taken
  PROVE  CoopInv'
<1>0. pc'[p] = l /\ \A q \in Pids : q # p => pc'[q] = pc[q]
  BY DEF TypeInv
<1>1. /\ locked' = locked /\ holder' = holder /\ effective' = effective
      /\ holder_base' = holder_base /\ waiters' = waiters
  BY DEF words
<1>2. Rest'
  BY <1>0, <1>1 DEF Rest, Top
<1>3. Relies(p)'
  BY <1>0, <1>1 DEF Relies, Taken, Entering, Recomputing
<1> QED
  BY <1>1, <1>2, <1>3, CoopStep DEF HolderIs

LEMMA RecomputeCoop ==
  ASSUME TypeInv, CoopInv, ~mode.smp, NEW p \in Pids, Recompute(p)
  PROVE  CoopInv'
<1>0. /\ pc \in [Pids -> Labels] /\ ret[p] \in {"idle", "try", "exit"} /\ tmp \in [Pids -> Local]
  BY DEF TypeInv
<1>1. CASE RcBase(p)
  <2>1. At(p, "rc_base") /\ pc' = [pc EXCEPT ![p] = "rc_max"] /\ UNCHANGED <<words, waiters>>
    BY <1>1 DEF RcBase, Goto, Jump
  <2>2. tmp'[p].new = holder_base
    BY <1>0, <1>1, SMT DEF RcBase, Local
  <2>3. locked' = locked /\ holder' = holder /\ holder_base' = holder_base /\ pc'[p] = "rc_max"
    BY <1>0, <2>1 DEF words
  <2>4. Taken
    BY <2>1, Alone DEF Relies, Recomputing
  <2>5. Relies(p)'
    BY <2>2, <2>3, <2>4 DEF Relies, Taken, Entering, Recomputing
  <2> QED
    BY <2>1, <2>3, <2>5, Alone, CoopStep DEF HolderIs, YieldPoints
<1>2. CASE RcMax(p)
  <2>1. At(p, "rc_max") /\ pc' = [pc EXCEPT ![p] = "rc_compare"] /\ UNCHANGED <<words, waiters>>
    BY <1>2 DEF RcMax, Goto, Jump
  <2>2. tmp'[p].new = SetMax({tmp[p].new, WaiterMax(waiters)})
    BY <1>0, <1>2, SMT DEF RcMax, Local
  <2>3. /\ locked' = locked /\ holder' = holder /\ holder_base' = holder_base /\ waiters' = waiters
        /\ pc'[p] = "rc_compare"
    BY <1>0, <2>1 DEF words
  <2>4. Taken /\ tmp[p].new = holder_base
    BY <2>1, Alone DEF Relies, Recomputing
  <2>5. Relies(p)'
    BY <2>2, <2>3, <2>4 DEF Relies, Taken, Entering, Recomputing, Top
  <2> QED
    BY <2>1, <2>3, <2>5, Alone, CoopStep DEF HolderIs, YieldPoints
<1>3. CASE RcCompare(p) /\ tmp[p].new # effective
  <2>1. /\ At(p, "rc_compare") /\ pc' = [pc EXCEPT ![p] = "rc_store"]
        /\ tmp' = tmp /\ UNCHANGED <<words, waiters>>
    BY <1>3 DEF RcCompare, Goto, Jump
  <2>2. /\ locked' = locked /\ holder' = holder /\ holder_base' = holder_base /\ waiters' = waiters
        /\ pc'[p] = "rc_store"
    BY <1>0, <2>1 DEF words
  <2>3. Taken /\ tmp[p].new = Top
    BY <2>1, Alone DEF Relies, Recomputing
  <2>4. Relies(p)'
    BY <2>1, <2>2, <2>3 DEF Relies, Taken, Entering, Recomputing, Top
  <2> QED
    BY <2>1, <2>2, <2>4, Alone, CoopStep DEF HolderIs, YieldPoints
<1>4. CASE RcStore(p) \/ (RcCompare(p) /\ tmp[p].new = effective)
  <2>1. /\ At(p, "rc_compare") \/ At(p, "rc_store")
        /\ pc' = [pc EXCEPT ![p] = ret[p]]
        /\ locked' = locked /\ holder' = holder /\ holder_base' = holder_base /\ waiters' = waiters
        /\ effective' = tmp[p].new
    BY <1>4 DEF RcCompare, RcStore, Return, Call, Jump, words
  <2>2. Taken /\ tmp[p].new = Top /\ \A q \in Pids : q # p => pc[q] \in YieldPoints
    BY <2>1, Alone DEF Relies, Recomputing
  <2>3. Rest'
    BY <2>1, <2>2 DEF Rest, Taken, Top
  <2>4. pc'[p] \in {"idle", "try", "exit"}
    BY <1>0, <2>1
  <2>5. Relies(p)'
    BY <2>4 DEF Relies, Entering, Recomputing
  <2> QED
    BY <2>1, <2>2, <2>3, <2>5, CoopStep DEF HolderIs
<1> QED
  BY <1>1, <1>2, <1>3, <1>4 DEF Recompute

LEMMA AcquireCoop ==
  ASSUME TypeInv, CoopInv, ~mode.smp, NEW p \in Pids, Acquire(p)
  PROVE  CoopInv'
<1>0. pc \in [Pids -> Labels] /\ ret \in [Pids -> {"idle", "try", "exit"}]
  BY DEF TypeInv
<1>a. \A q \in Pids : q # PID_NONE
  BY ConstantsAssumption DEF PID_NONE
<1>1. CASE TryLock(p)
  <2>0. /\ At(p, "try") /\ locked' = TRUE
        /\ holder' = holder /\ effective' = effective /\ holder_base' = holder_base
        /\ waiters' = waiters
    BY <1>1 DEF TryLock
  <2>1. Rest /\ pc[p] = "try" /\ \A q \in Pids : q # p => pc[q] \in YieldPoints
    BY <2>0, Alone DEF YieldPoints
  <2>2. CASE locked
    <3>1. pc' = [pc EXCEPT ![p] = "register"]
      BY <1>1, <2>2 DEF TryLock, Goto, Jump
    <3>2. Taken /\ Taken'
      BY <2>0, <2>1, <2>2 DEF Taken, Rest
    <3>3. pc'[p] = "register" /\ \A q \in Pids : q # p => pc'[q] = pc[q]
      BY <1>0, <3>1
    <3>4. Rest'
      BY <2>0, <2>1, <2>2, <3>3 DEF Rest, Top
    <3>5. Relies(p)'
      BY <3>2, <3>3 DEF Relies, Entering, Recomputing
    <3> QED
      BY <2>0, <2>1, <3>1, <3>4, <3>5, CoopStep DEF HolderIs
  <2>3. CASE ~locked
    <3>1. pc' = [pc EXCEPT ![p] = "acq_holder"]
      BY <1>1, <2>3 DEF TryLock, Goto, Jump
    <3>2. holder' = PID_NONE /\ waiters' = <<>> /\ pc'[p] = "acq_holder"
      BY <1>0, <2>0, <2>1, <2>3, <3>1 DEF Rest
    <3>3. Relies(p)'
      BY <2>0, <3>2 DEF Relies, Entering, Recomputing
    <3> QED
      BY <2>1, <2>3, <3>1, <3>3, CoopStep DEF HolderIs, YieldPoints
  <2> QED
    BY <2>2, <2>3
<1>2. CASE AcqHolder(p)
  <2>1. /\ At(p, "acq_holder") /\ pc' = [pc EXCEPT ![p] = "acq_eff"]
        /\ holder' = p /\ locked' = locked /\ waiters' = waiters
    BY <1>2 DEF AcqHolder, Goto, Jump
  <2>2. locked /\ holder = PID_NONE /\ waiters = <<>> /\ pc'[p] = "acq_eff"
    BY <1>0, <2>1, Alone DEF Relies
  <2>3. Relies(p)'
    BY <2>1, <2>2 DEF Relies, HolderIs, Entering, Recomputing
  <2> QED
    BY <1>a, <2>1, <2>2, <2>3, Alone, CoopStep DEF HolderIs, YieldPoints
<1>3. CASE AcqEffective(p) \/ AcqBase(p)
  <2>1. /\ \/ /\ At(p, "acq_eff") /\ pc' = [pc EXCEPT ![p] = "acq_base"]
              /\ effective' = Base[p]
           \/ /\ At(p, "acq_base") /\ pc' = [pc EXCEPT ![p] = "acq_track"]
              /\ effective' = effective /\ holder_base' = Base[p]
        /\ holder' = holder /\ locked' = locked /\ waiters' = waiters
    BY <1>3 DEF AcqEffective, AcqBase, Goto, Jump
  <2>2. HolderIs(p) /\ waiters = <<>> /\ (At(p, "acq_base") => effective = Base[p])
    BY <2>1, Alone DEF Relies, Entering
  <2>3. HolderIs(p)' /\ waiters' = <<>> /\ effective' = Base[p]
    BY <2>1, <2>2 DEF HolderIs
  <2>4. pc'[p] = "acq_base" \/ (pc'[p] = "acq_track" /\ holder_base' = Base[p])
    BY <1>0, <2>1
  <2>5. Relies(p)'
    BY <2>3, <2>4 DEF Relies, Entering, Recomputing
  <2>6. PICK l \in {"acq_base", "acq_track"} : pc' = [pc EXCEPT ![p] = l]
    BY <2>1
  <2> QED
    BY <2>1, <2>5, <2>6, Alone, CoopStep DEF HolderIs, YieldPoints
<1>4. CASE AcqTrack(p)
  <2>1. /\ At(p, "acq_track") /\ pc' = [pc EXCEPT ![p] = "cs"]
        /\ locked' = locked /\ holder' = holder /\ holder_base' = holder_base
        /\ effective' = effective /\ waiters' = waiters
    BY <1>4 DEF AcqTrack, Goto, Jump, words
  <2>2. HolderIs(p) /\ waiters = <<>> /\ effective = Base[p] /\ holder_base = Base[p]
    BY <2>1, Alone DEF Relies, Entering
  <2>3. Top = Base[p]
    <3>1. Base[p] \in Nat /\ 0 \in Nat
      BY ConstantsAssumption, SMT
    <3>2. WaiterMax(waiters) = 0
      BY <2>2, WaiterMaxInNat DEF TypeInv
    <3> QED
      BY <2>2, <3>1, <3>2, SetMaxOfPair DEF Top
  <2>4. Top' = Top
    BY <2>1 DEF Top
  <2>5. Rest'
    BY <1>a, <2>1, <2>2, <2>3, <2>4 DEF Rest, HolderIs
  <2>6. pc'[p] = "cs"
    BY <1>0, <2>1
  <2>7. Relies(p)'
    BY <2>6 DEF Relies, Entering, Recomputing
  <2> QED
    BY <2>1, <2>5, <2>7, Alone, CoopStep DEF HolderIs
<1>5. CASE Register(p)
  <2>1. At(p, "register") /\ UNCHANGED words
    BY <1>5 DEF Register
  <2>2. Taken /\ Rest /\ pc[p] = "register" /\ \A q \in Pids : q # p => pc[q] \in YieldPoints
    BY <2>1, Alone DEF Relies
  <2>3. CASE Queued(p)
    <3>1. pc' = [pc EXCEPT ![p] = "try"] /\ UNCHANGED waiters
      BY <1>5, <2>3 DEF Register, Goto, Jump
    <3> QED
      BY <2>1, <2>2, <3>1, RestStep
  <2>4. CASE ~Queued(p)
    <3>1. pc' = [pc EXCEPT ![p] = "rc_base"]
      BY <1>5, <2>4 DEF Register, Call, Jump
    <3>2. pc'[p] = "rc_base" /\ holder' = holder /\ locked' = locked
      BY <1>0, <2>1, <3>1 DEF words
    <3>3. Relies(p)'
      BY <2>2, <3>2 DEF Relies, Taken, Entering, Recomputing
    <3> QED
      BY <2>2, <3>1, <3>2, <3>3, CoopStep DEF HolderIs, YieldPoints
  <2> QED
    BY <2>3, <2>4
<1> QED
  BY <1>1, <1>2, <1>3, <1>4, <1>5 DEF Acquire

LEMMA ReleaseCoop ==
  ASSUME TypeInv, RegistryInv, CoopInv, ~mode.smp, NEW p \in Pids, Release(p)
  PROVE  CoopInv'
<1>0. pc \in [Pids -> Labels] /\ ret[p] \in {"idle", "try", "exit"}
  BY DEF TypeInv
<1>a. \A q \in Pids : q # PID_NONE
  BY ConstantsAssumption DEF PID_NONE
<1>1. CASE UnlockInternal(p)
  <2>1. /\ At(p, "cs") /\ UNCHANGED <<words, waiters>>
        /\ pc' = [pc EXCEPT ![p] = IF holder = p THEN "un_pick" ELSE "idle"]
    BY <1>1 DEF UnlockInternal, Goto, Jump
  <2>2. Rest /\ pc[p] = "cs" /\ \A q \in Pids : q # p => pc[q] \in YieldPoints
    BY <2>1, Alone DEF YieldPoints
  <2>3. CASE holder # p
    <3>1. pc' = [pc EXCEPT ![p] = "idle"]
      BY <2>1, <2>3
    <3> QED
      BY <2>1, <2>2, <3>1, RestStep
  <2>4. CASE holder = p
    <3>1. pc' = [pc EXCEPT ![p] = "un_pick"] /\ locked' = locked /\ holder' = holder
      BY <2>1, <2>4 DEF words
    <3>2. HolderIs(p)' /\ pc'[p] = "un_pick"
      BY <1>0, <1>a, <2>2, <2>4, <3>1 DEF Rest, HolderIs
    <3>3. Relies(p)'
      BY <3>2 DEF Relies, Entering, Recomputing
    <3> QED
      BY <2>2, <3>1, <3>3, CoopStep DEF HolderIs, YieldPoints
  <2> QED
    BY <2>3, <2>4
<1>2. CASE ExitDispatch(p)
  <2>1. /\ At(p, "exit") /\ UNCHANGED <<words, waiters>>
        /\ \/ \E l \in {"dead", "exit"} : pc' = [pc EXCEPT ![p] = l]
           \/ pc' = [pc EXCEPT ![p] = "exit_locked"] /\ holder = p
    BY <1>2 DEF ExitDispatch, Goto, Jump
  <2>2. Rest /\ pc[p] = "exit" /\ \A q \in Pids : q # p => pc[q] \in YieldPoints
    BY <2>1, Alone DEF YieldPoints
  <2>3. ASSUME NEW l \in {"dead", "exit"}, pc' = [pc EXCEPT ![p] = l] PROVE CoopInv'
    BY <2>1, <2>2, <2>3, RestStep
  <2>4. CASE pc' = [pc EXCEPT ![p] = "exit_locked"] /\ holder = p
    <3>1. locked' = locked /\ holder' = holder
      BY <2>1 DEF words
    <3>2. HolderIs(p)' /\ pc'[p] = "exit_locked"
      BY <1>0, <1>a, <2>2, <2>4, <3>1 DEF Rest, HolderIs
    <3>3. Relies(p)'
      BY <3>2 DEF Relies, Entering, Recomputing
    <3> QED
      BY <2>2, <2>4, <3>1, <3>3, CoopStep DEF HolderIs, YieldPoints
  <2> QED
    BY <2>1, <2>3, <2>4
<1>3. CASE ExitLocked(p)
  <2>1. HolderIs(p) /\ \A q \in Pids : q # p => pc[q] \in YieldPoints
    BY <1>3, Alone DEF ExitLocked, Relies
  <2>2. pc' = [pc EXCEPT ![p] = "un_pick"] /\ locked' = locked /\ holder' = holder
    BY <1>3, <2>1 DEF ExitLocked, HolderIs, Call, Jump, words
  <2>3. HolderIs(p)' /\ pc'[p] = "un_pick"
    BY <1>0, <2>1, <2>2 DEF HolderIs
  <2>4. Relies(p)'
    BY <2>3 DEF Relies, Entering, Recomputing
  <2> QED
    BY <2>1, <2>2, <2>4, CoopStep DEF HolderIs, YieldPoints
<1>4. CASE UnPick(p)
  <2>1. HolderIs(p) /\ \A q \in Pids : q # p => pc[q] \in YieldPoints
    BY <1>4, Alone DEF UnPick, Relies
  <2>2. locked' = locked /\ holder' = holder /\ HolderIs(p)'
    BY <1>4, <2>1 DEF UnPick, HolderIs, words
  <2>3. CASE waiters = <<>>
    <3>1. pc' = [pc EXCEPT ![p] = "rel_locked"] /\ waiters' = <<>>
      BY <1>4, <2>3 DEF UnPick, Goto, Jump
    <3>2. pc'[p] = "rel_locked"
      BY <1>0, <3>1
    <3>3. Relies(p)'
      BY <2>2, <3>1, <3>2 DEF Relies, Entering, Recomputing
    <3> QED
      BY <2>1, <2>2, <3>1, <3>3, CoopStep DEF HolderIs, YieldPoints
  <2>4. CASE waiters # <<>>
    <3>1. pc' = [pc EXCEPT ![p] = "ho_unlock"]
      BY <1>4, <2>4 DEF UnPick, Goto, Jump
    <3>2. pc'[p] = "ho_unlock"
      BY <1>0, <3>1
    <3>3. Relies(p)'
      BY <2>2, <3>2 DEF Relies, Entering, Recomputing
    <3>4. Rest'
      BY <1>a, <2>2, <3>2 DEF Rest, HolderIs
    <3> QED
      BY <2>1, <2>2, <3>1, <3>3, <3>4, CoopStep DEF HolderIs
  <2> QED
    BY <2>3, <2>4
<1>5. CASE RelLocked(p)
  <2>1. /\ At(p, "rel_locked") /\ pc' = [pc EXCEPT ![p] = "rel_holder"]
        /\ locked' = FALSE /\ waiters' = waiters
    BY <1>5 DEF RelLocked, Store, Goto, Jump
  <2>2. HolderIs(p) /\ waiters = <<>> /\ pc'[p] = "rel_holder"
    BY <1>0, <2>1, Alone DEF Relies
  <2>3. Relies(p)'
    BY <2>1, <2>2 DEF Relies, Free, Entering, Recomputing
  <2> QED
    BY <2>1, <2>2, <2>3, Alone, CoopStep DEF HolderIs, YieldPoints
<1>6. CASE RelHolder(p) \/ RelEffective(p)
  <2>1. PICK l \in {"rel_eff", "rel_base"} : pc' = [pc EXCEPT ![p] = l]
    BY <1>6 DEF RelHolder, RelEffective, Store, Goto, Jump
  <2>2. /\ \/ At(p, "rel_holder") /\ holder' = PID_NONE
           \/ At(p, "rel_eff") /\ holder' = holder
        /\ locked' = locked /\ waiters' = waiters
    BY <1>6 DEF RelHolder, RelEffective, Store
  <2>3. /\ Free /\ (At(p, "rel_eff") => holder = PID_NONE)
        /\ \A q \in Pids : q # p => pc[q] \in YieldPoints
    BY <2>2, Alone DEF Relies
  <2>4. pc'[p] \in {"rel_eff", "rel_base"} /\ holder' = PID_NONE /\ Free'
    BY <1>0, <2>1, <2>2, <2>3 DEF Free
  <2>5. Relies(p)'
    BY <2>4 DEF Relies, Entering, Recomputing
  <2> QED
    BY <2>1, <2>3, <2>5, CoopStep DEF HolderIs, Free, YieldPoints
<1>7. CASE RelBase(p)
  <2>1. /\ At(p, "rel_base") /\ pc' = [pc EXCEPT ![p] = ret[p]]
        /\ locked' = locked /\ holder' = holder /\ waiters' = waiters
    BY <1>7 DEF RelBase, Return, Call, Jump
  <2>2. Free /\ holder = PID_NONE
    BY <2>1, Alone DEF Relies
  <2>3. Rest' /\ pc'[p] \in {"idle", "try", "exit"}
    BY <1>0, <2>1, <2>2 DEF Rest, Free
  <2>4. Relies(p)'
    BY <2>3 DEF Relies, Entering, Recomputing
  <2> QED
    BY <2>1, <2>3, <2>4, Alone, CoopStep DEF HolderIs
<1>8. CASE HoUnlock(p)
  <2>1. At(p, "ho_unlock") /\ pc' = [pc EXCEPT ![p] = "ho_none"] /\ locked' = FALSE
    BY <1>8 DEF HoUnlock, Store, Goto, Jump
  <2>2. HolderIs(p) /\ pc'[p] = "ho_none"
    BY <1>0, <2>1, Alone DEF Relies
  <2>3. Relies(p)'
    BY <2>1, <2>2 DEF Relies, Entering, Recomputing
  <2> QED
    BY <2>1, <2>2, <2>3, Alone, CoopStep DEF HolderIs, YieldPoints
<1>9. CASE HoNone(p) \/ HoEffZero(p) \/ HoBaseZero(p)
  <2>1. PICK l \in {"ho_eff0", "ho_base0", "ho_next"} : pc' = [pc EXCEPT ![p] = l]
    BY <1>9 DEF HoNone, HoEffZero, HoBaseZero, Store, Goto, Jump
  <2>2. /\ At(p, "ho_none") \/ At(p, "ho_eff0") \/ At(p, "ho_base0")
        /\ locked' = locked
    BY <1>9 DEF HoNone, HoEffZero, HoBaseZero, Store
  <2>3. ~locked /\ \A q \in Pids : q # p => pc[q] \in YieldPoints
    BY <2>2, Alone DEF Relies
  <2>4. pc'[p] \in {"ho_eff0", "ho_base0", "ho_next"}
    BY <1>0, <2>1
  <2>5. Relies(p)'
    BY <2>2, <2>3, <2>4 DEF Relies, Entering, Recomputing
  <2> QED
    BY <2>1, <2>3, <2>5, CoopStep DEF HolderIs, YieldPoints
<1>10. CASE HoNext(p)
  <2>1. /\ At(p, "ho_next") /\ pc' = [pc EXCEPT ![p] = "ho_lock"]
        /\ locked' = locked /\ holder' = tmp[p].next.pid
    BY <1>10 DEF HoNext, Store, Goto, Jump
  <2>2. ~locked /\ pc'[p] = "ho_lock" /\ pc[p] = "ho_next"
    BY <1>0, <2>1, Alone DEF Relies
  <2>3. holder' # PID_NONE
    BY <1>a, <2>1, <2>2 DEF RegistryInv, Opening
  <2>4. Relies(p)'
    BY <2>1, <2>2, <2>3 DEF Relies, Entering, Recomputing
  <2> QED
    BY <2>1, <2>2, <2>4, Alone, CoopStep DEF HolderIs, YieldPoints
<1>11. CASE HoLock(p)
  <2>1. /\ At(p, "ho_lock") /\ pc' = [pc EXCEPT ![p] = "ho_eff"]
        /\ locked' = TRUE /\ holder' = holder
    BY <1>11 DEF HoLock, Store, Goto, Jump
  <2>2. ~locked /\ pc'[p] = "ho_eff" /\ holder # PID_NONE
    BY <1>0, <2>1, Alone DEF Relies
  <2>3. Relies(p)'
    BY <2>1, <2>2 DEF Relies, Taken, Entering, Recomputing
  <2> QED
    BY <2>1, <2>2, <2>3, Alone, CoopStep DEF HolderIs, YieldPoints
<1>12. CASE HoEffective(p) \/ HoBase(p) \/ HoTrack(p)
  <2>1. PICK l \in {"ho_base", "ho_track", "rc_base"} : pc' = [pc EXCEPT ![p] = l]
    BY <1>12 DEF HoEffective, HoBase, HoTrack, Store, Goto, Jump
  <2>2. /\ At(p, "ho_eff") \/ At(p, "ho_base") \/ At(p, "ho_track")
        /\ locked' = locked /\ holder' = holder
    BY <1>12 DEF HoEffective, HoBase, HoTrack, Store, words
  <2>3. Taken /\ \A q \in Pids : q # p => pc[q] \in YieldPoints
    BY <2>2, Alone DEF Relies
  <2>4. pc'[p] \in {"ho_base", "ho_track", "rc_base"} /\ Taken'
    BY <1>0, <2>1, <2>2, <2>3 DEF Taken
  <2>5. Relies(p)'
    BY <2>4 DEF Relies, Entering, Recomputing
  <2> QED
    BY <2>1, <2>2, <2>3, <2>5, CoopStep DEF HolderIs, YieldPoints
<1> QED
  BY <1>1, <1>2, <1>3, <1>4, <1>5, <1>6, <1>7, <1>8, <1>9, <1>10, <1>11, <1>12 DEF Release

LEMMA NextCoop ==
  ASSUME TypeInv, RegistryInv, CoopInv, ~mode.smp, [Next]_vars
  PROVE  CoopInv'
<1>0. pc \in [Pids -> Labels]
  BY DEF TypeInv
<1>1. ASSUME NEW p \in Pids, Lock(p) \/ Exit(p) PROVE CoopInv'
  <2>1. /\ \E l \in {"try", "exit"} : pc' = [pc EXCEPT ![p] = l]
        /\ At(p, "idle") \/ At(p, "cs")
        /\ UNCHANGED <<words, waiters>>
    BY <1>1 DEF Lock, Exit, Goto, Jump
  <2>2. PICK l \in {"idle", "cs"} : At(p, l)
    BY <2>1
  <2>3. Rest /\ pc[p] = l /\ \A q \in Pids : q # p => pc[q] \in YieldPoints
    BY <2>2, Alone DEF YieldPoints
  <2> QED
    BY <2>1, <2>2, <2>3, RestStep
<1>2. ASSUME NEW p \in Pids, Step(p) PROVE CoopInv'
  BY <1>2, RecomputeCoop, AcquireCoop, ReleaseCoop DEF Step
<1>3. ASSUME NEW p \in Pids, NEW q \in Pids, NEW new \in Prios, UpdateWaiterPriority(p, q, new)
      PROVE CoopInv'
  <2>1. /\ At(p, "idle") /\ pc' = [pc EXCEPT ![p] = "rc_base"]
        /\ locked' = locked /\ holder' = holder
        /\ waiters # Reprioritised(q, new)
    BY <1>3 DEF UpdateWaiterPriority, Goto, Jump, words
  <2>2. waiters # <<>>
    <3>1. waiters = <<>> => DOMAIN waiters = {}
      BY SMT
    <3>2. waiters = <<>> => Reprioritised(q, new) = <<>>
      BY <3>1, SMT DEF Reprioritised
    <3> QED
      BY <2>1, <3>2
  <2>3. Taken /\ \A r \in Pids : r # p => pc[r] \in YieldPoints
    BY <2>1, <2>2, Alone DEF Rest, Taken, YieldPoints
  <2>4. Taken' /\ pc'[p] = "rc_base"
    BY <1>0, <2>1, <2>3 DEF Taken
  <2>5. Relies(p)'
    BY <2>4 DEF Relies, Entering, Recomputing
  <2> QED
    BY <2>1, <2>3, <2>5, CoopStep DEF HolderIs, YieldPoints
<1>4. CASE UNCHANGED vars
  <2>1. /\ pc' = pc /\ tmp' = tmp /\ waiters' = waiters /\ locked' = locked /\ holder' = holder
        /\ effective' = effective /\ holder_base' = holder_base
    BY <1>4 DEF vars, words
  <2>2. \A p \in Pids : Relies(p) => Relies(p)'
    BY <2>1, SMT DEF Relies, HolderIs, Taken, Free, Top
  <2>3. (AtRest' => AtRest) /\ (Rest => Rest')
    BY <2>1 DEF AtRest, Rest, Top
  <2> QED
    BY <2>1, <2>2, <2>3 DEF CoopInv
<1> QED
  BY <1>1, <1>2, <1>3, <1>4 DEF Next

CooperativeInv == ~mode.smp => CoopInv

\* pi_mutex.rs:215: when processes are switched only where the code yields,
\* the priority the holder runs with is its own or that of the waiter that
\* outranks it, through queueing, handovers, exits and updates.
THEOREM DonationIsExact == Spec => []EffectiveIsMax
<1>1. Init => CooperativeInv
  <2> SUFFICES ASSUME Init PROVE CoopInv
    BY DEF CooperativeInv
  <2>1. \A p \in Pids : pc[p] = "idle"
    BY DEF Init
  <2>2. \A p \in Pids : Relies(p)
    BY <2>1 DEF Relies, Entering, Recomputing
  <2> QED
    BY <2>1, <2>2 DEF Init, CoopInv, Rest, YieldPoints
<1>2. TypeInv /\ RegistryInv /\ CooperativeInv /\ [Next]_vars => CooperativeInv'
  BY ModeStays, NextCoop DEF CooperativeInv
<1>3. CooperativeInv => EffectiveIsMax
  <2> SUFFICES ASSUME CoopInv, Quiet, locked PROVE effective = Top
    BY DEF CooperativeInv, EffectiveIsMax, Top
  <2>1. AtRest /\ \A p \in Pids : pc[p] # "ho_unlock"
    BY DEF Quiet, AtRest, YieldPoints
  <2> QED
    BY <2>1 DEF CoopInv, Rest
<1> QED
  BY <1>1, <1>2, <1>3, InitTyped, NextTyped, InitRegistry, NextRegistry, PTL DEF Spec
=============================================================================
