----------------------------- MODULE LockProofs -----------------------------
(***************************************************************************)
(* Proofs about the mutex used through lock, try_lock and guards, without  *)
(* the condition variable, for any finite set of threads; and about the    *)
(* interrupt-safe spin locks, for any set of CPUs.                         *)
(***************************************************************************)
EXTENDS Mutex, IrqSpinLock, TLAPS

\* Either the mutex is free and no guard is alive, or exactly the owner has
\* guards, one of them, and the depth is one.
HolderInv ==
  /\ locked = 0 => \A t \in Threads : guards[t] = 0
  /\ locked = 1 => /\ depth = 1
                   /\ owner \in Threads
                   /\ guards[owner] = 1
                   /\ \A t \in Threads : t # owner => guards[t] = 0

\* Nobody is inside the condition variable.
NotWaiting == \A t \in Threads : mutex_pc[t] \in {"run", "lock"}

MutexInv == MutexTypeOK /\ HolderInv /\ NotWaiting

IndInv == ~uses_cond => MutexInv

LEMMA InitInv == MutexInit => IndInv
BY ConstantsAssumption
   DEF MutexInit, IndInv, MutexInv, MutexTypeOK, MutexLabels, HolderInv, NotWaiting

\* Every step of the mutex keeps the invariant; the depth a release reads is
\* one, so every release opens the lock.
LEMMA NextInv == IndInv /\ [MutexNext]_mutex_vars => IndInv'
<1> SUFFICES ASSUME IndInv, [MutexNext]_mutex_vars, ~uses_cond' PROVE MutexInv'
  BY DEF IndInv
<1>0. ~uses_cond /\ MutexInv /\ uses_cond' = uses_cond
  BY DEF IndInv, MutexNext, LockStep, WaitStep, Lock, MutexRawLock, MutexTryLock, DropGuard, Wait,
     WaitUnlock,
     WaitLock, WaitDrop, WaitReturn, MutexGoto, mutex_vars
<1> USE <1>0, ConstantsAssumption DEF MutexInv, MutexTypeOK, MutexLabels, HolderInv, NotWaiting
<1>1. ASSUME NEW t \in Threads, Lock(t) PROVE MutexInv'
  BY <1>1 DEF Lock, MutexGoto
<1>2. ASSUME NEW t \in Threads, MutexRawLock(t) PROVE MutexInv'
  BY <1>2 DEF MutexRawLock, AcquireLockInternal, GuardCreated, MutexGoto
<1>3. ASSUME NEW t \in Threads, MutexTryLock(t) PROVE MutexInv'
  BY <1>3 DEF MutexTryLock, AcquireLockInternal, GuardCreated
<1>4. ASSUME NEW t \in Threads, DropGuard(t) PROVE MutexInv'
  <2>1. locked = 1 /\ owner = t /\ depth = 1
    BY <1>4 DEF DropGuard
  <2>2. locked' = 0 /\ owner' = NoOwner /\ depth' = 0
    BY <1>4, <2>1 DEF DropGuard, MutexRawUnlock
  <2>3. guards' = [guards EXCEPT ![t] = 0]
    BY <1>4, <2>1 DEF DropGuard, GuardDropped
  <2> QED
    BY <1>4, <2>1, <2>2, <2>3 DEF DropGuard
<1>5. ASSUME NEW t \in Threads, WaitStep(t) PROVE FALSE
  BY <1>5 DEF WaitStep, Wait, WaitUnlock, WaitLock, WaitDrop, WaitReturn
<1>6. CASE UNCHANGED mutex_vars
  BY <1>6 DEF mutex_vars
<1> QED
  BY <1>1, <1>2, <1>3, <1>4, <1>5, <1>6 DEF MutexNext, LockStep

\* lock(), try_lock() and the guard's destructor keep the protected data to
\* one thread at a time (mutex.rs:52).
THEOREM MutualExclusion == MutexSpec => []Exclusion
<1>1. IndInv => Exclusion
  BY DEF IndInv, MutexInv, MutexTypeOK, HolderInv, Exclusion, Users
<1> QED
  BY <1>1, InitInv, NextInv, PTL DEF MutexSpec

\* Every step of the mutex grants the lock to one thread, takes it back from
\* one, or leaves the grants as they are.
LEMMA StepImplements ==
  IndInv /\ IndInv' /\ [MutexNext]_mutex_vars => [MutexAbstract!Next]_MutexGranted
<1> SUFFICES ASSUME IndInv, IndInv', [MutexNext]_mutex_vars, MutexGranted' # MutexGranted
             PROVE  MutexAbstract!Next
  OBVIOUS
<1> USE DEF MutexGranted
<1>0. uses_cond' = uses_cond
  BY DEF MutexNext, LockStep, WaitStep, Lock, MutexRawLock, MutexTryLock, DropGuard, Wait,
     WaitUnlock,
     WaitLock, WaitDrop, WaitReturn, MutexGoto, mutex_vars
<1>1. ~uses_cond /\ MutexInv /\ MutexInv'
  BY <1>0 DEF IndInv
<1> USE <1>0, <1>1 DEF MutexInv, MutexTypeOK, HolderInv, NotWaiting
<1>2. ASSUME NEW t \in Threads, Lock(t) PROVE FALSE
  BY <1>2 DEF Lock, MutexGoto
<1>3. ASSUME NEW t \in Threads, MutexRawLock(t) \/ MutexTryLock(t)
      PROVE  MutexAbstract!Acquire(t, "exclusive")
  <2>1. /\ \A u \in Threads : guards[u] = 0
        /\ guards' = [guards EXCEPT ![t] = 1]
    BY <1>3 DEF MutexRawLock, MutexTryLock, GuardCreated
  <2>2. MutexGranted = [u \in Threads |-> "none"]
    BY <2>1
  <2>3. MutexGranted' = [u \in Threads |-> IF u = t THEN "exclusive" ELSE "none"]
    BY <2>1
  <2> QED
    BY <2>2, <2>3 DEF MutexAbstract!Acquire, MutexAbstract!Compatible, MutexAbstract!Conflict
<1>4. ASSUME NEW t \in Threads, DropGuard(t) PROVE MutexAbstract!Release(t)
  <2>1. locked = 1 /\ owner = t
    BY <1>4 DEF DropGuard
  <2>2. guards[t] = 1 /\ guards' = [guards EXCEPT ![t] = 0]
    BY <1>4, <2>1 DEF DropGuard, GuardDropped
  <2>3. \A u \in Threads : u # t => guards[u] = 0 /\ guards'[u] = 0
    BY <2>1, <2>2
  <2>4. /\ MutexGranted = [u \in Threads |-> IF u = t THEN "exclusive" ELSE "none"]
        /\ MutexGranted' = [u \in Threads |-> "none"]
    BY <2>2, <2>3
  <2> QED
    BY <2>2, <2>4 DEF MutexAbstract!Release
<1>5. ASSUME NEW t \in Threads, WaitStep(t) PROVE FALSE
  BY <1>5 DEF WaitStep, Wait, WaitUnlock, WaitLock, WaitDrop, WaitReturn
<1>6. CASE UNCHANGED mutex_vars
  BY <1>6 DEF mutex_vars
<1> QED
  BY <1>2, <1>3, <1>4, <1>5, <1>6 DEF MutexNext, LockStep, MutexAbstract!Next, MutexAbstract!Grant

\* The mutex implements the abstract lock: every grant is exclusive, and is
\* made only while no other thread has one (mutex.rs:52).
THEOREM MutexImplementsLock == MutexSpec => ImplementsLock
<1>1. MutexInit => MutexAbstract!Init
  BY DEF MutexInit, MutexAbstract!Init, MutexGranted
<1> QED
  BY <1>1, InitInv, NextInv, StepImplements, PTL DEF MutexSpec, ImplementsLock, MutexAbstract!Spec

---------------------------------------------------------------------------
(* The interrupt-safe spin locks.  That the lock is one, needs only the    *)
(* lock word.  That no handler waits for the thread it interrupted, and    *)
(* that the interrupt flag comes back, needs to follow the flag: it is off *)
(* while a handler runs and while a thread is inside, and what the thread  *)
(* had chosen is in the CPU or in the guard.                               *)

\* The leaves are first-order facts about functions and sets.
USE Zenon

Context == Contexts

\* From the disabling of interrupts to their restoration.
Inside == {"spin", "count", "held", "uncount", "restore"}

SpinLabels == {"off", "idle", "cli", "try_cli"} \cup Inside

SpinType ==
  /\ irq_on \in [CPUs -> BOOLEAN] /\ wanted \in [CPUs -> BOOLEAN]
  /\ prev_if \in [Context -> BOOLEAN]
  /\ spin_pc \in [Context -> SpinLabels]
  /\ \A x \in Context : /\ spin_pc[x] = "try_cli" => use = "try_lock"
                        /\ spin_pc[x] \in {"count", "uncount"} => use # "irqsave"
  /\ \A c \in CPUs : spin_pc[Thread(c)] # "off"

\* The lock word is set while somebody has the lock.
OneHolder ==
  /\ spin_locked = 0 => Holders = {}
  /\ \A x, y \in Holders : x = y

\* A handler runs with interrupts off, from entry to return.
HandlerMasked ==
  \A c \in CPUs : spin_pc[Isr(c)] # "off" =>
    /\ ~irq_on[c]
    /\ spin_pc[Isr(c)] \in Inside => ~prev_if[Isr(c)]

\* Unless try_lock is used, no handler comes between a thread's two changes of
\* the interrupt flag.
ThreadMasked ==
  use # "try_lock" =>
    \A c \in CPUs : spin_pc[Thread(c)] \in Inside => ~irq_on[c] /\ spin_pc[Isr(c)] = "off"

\* The flag a thread chose is in the CPU, or in the guard, or was on when the
\* handler came.
FlagAt(c) ==
  /\ spin_pc[Isr(c)] # "off" => wanted[c]
  /\ spin_pc[Isr(c)] = "off" /\ spin_pc[Thread(c)] \in {"idle", "cli"} => irq_on[c] = wanted[c]
  /\ spin_pc[Thread(c)] \in Inside => prev_if[Thread(c)] = wanted[c]

FlagKept == use = "irqsave" => \A c \in CPUs : FlagAt(c)

SpinInv == SpinType /\ OneHolder /\ HandlerMasked /\ ThreadMasked /\ FlagKept

\* A context is the thread or the handler of its CPU.
LEMMA ContextFacts ==
  /\ \A c \in CPUs : Isr(c) \in Context /\ Thread(c) \in Context
  /\ \A c, d \in CPUs : Isr(c) # Thread(d)
  /\ \A c, d \in CPUs : Isr(c) = Isr(d) => c = d
  /\ \A c, d \in CPUs : Thread(c) = Thread(d) => c = d
  /\ \A c \in CPUs : Cpu(Isr(c)) = c /\ Cpu(Thread(c)) = c
  /\ \A c \in CPUs : Isr(c)[2] = "isr" /\ Thread(c)[2] = "thread"
  /\ \A x \in Context : Cpu(x) \in CPUs /\ (x = Thread(Cpu(x)) \/ x = Isr(Cpu(x)))
BY SMT DEF Context, Contexts, Kinds, Isr, Thread, Cpu

LEMMA RunsFacts ==
  /\ \A c \in CPUs : Runs(Thread(c)) <=> spin_pc[Isr(c)] = "off"
BY SMT DEF Runs, Isr, Thread, Cpu

LEMMA SpinInitInv == SpinInit => SpinInv
<1> SUFFICES ASSUME SpinInit PROVE SpinInv
  OBVIOUS
<1>1. \A c \in CPUs : spin_pc[Isr(c)] = "off" /\ spin_pc[Thread(c)] = "idle"
  BY ContextFacts DEF SpinInit, Context
<1>2. \A x \in Context : spin_pc[x] \in {"off", "idle"}
  BY <1>1, ContextFacts
<1>3. SpinType
  BY <1>1, <1>2 DEF SpinInit, SpinType, SpinLabels, Context
<1>4. Holders = {}
  BY <1>2 DEF Holders, Context
<1> QED
  BY <1>1, <1>3, <1>4 DEF SpinInv, OneHolder, HandlerMasked, ThreadMasked, FlagKept, FlagAt,
     SpinInit, Inside

\* A context that moves from one label to another enters or leaves the holders or neither.
LEMMA HoldersMove ==
  ASSUME SpinType, NEW x \in Context, NEW l, spin_pc' = [spin_pc EXCEPT ![x] = l]
  PROVE  /\ l \in {"try_cli", "count", "held"} => Holders' = Holders \cup {x}
         /\ l \notin {"try_cli", "count", "held"} => Holders' = Holders \ {x}
<1>1. \A y \in Context : spin_pc'[y] = IF y = x THEN l ELSE spin_pc[y]
  BY DEF SpinType
<1> QED
  BY <1>1 DEF Holders, Context

\* A step that leaves flags and guards alone and does not leave the section that
\* interrupts are off in, or enter it.
LEMMA QuietStep ==
  ASSUME SpinInv, NEW x \in Context, NEW l \in SpinLabels, SpinGoto(x, l),
         UNCHANGED <<irq_on, wanted, prev_if>>,
         \/ spin_pc[x] \in Inside /\ l \in Inside
         \/ spin_pc[x] \in {"idle", "cli"} /\ l \in {"idle", "cli"}
         \/ use # "irqsave" /\ l \in {"idle", "try_cli"} /\ spin_pc[x] # "off",
         l = "try_cli" => use = "try_lock",
         l \in {"count", "uncount"} => use # "irqsave"
  PROVE  SpinType' /\ HandlerMasked' /\ ThreadMasked' /\ FlagKept'
<1>1. spin_pc' = [spin_pc EXCEPT ![x] = l] /\ use' = use
  BY DEF SpinGoto
<1>2. spin_pc \in [Context -> SpinLabels]
  BY DEF SpinInv, SpinType
<1>3. \A y \in Context : spin_pc'[y] = IF y = x THEN l ELSE spin_pc[y]
  BY <1>1, <1>2
<1>4. \A c \in CPUs : Isr(c) \in Context /\ Thread(c) \in Context
  BY ContextFacts
<1>5. "off" \notin Inside /\ "idle" \notin Inside /\ "cli" \notin Inside /\ "try_cli" \notin Inside
  BY DEF Inside
<1>6. SpinType'
  BY <1>1, <1>2, <1>3, <1>4, <1>5 DEF SpinInv, SpinType
<1>7. \A c \in CPUs : (spin_pc'[Isr(c)] = "off") <=> (spin_pc[Isr(c)] = "off")
  BY <1>3, <1>4, <1>5
<1>8. \A y \in Context : spin_pc'[y] \in Inside => spin_pc[y] \in Inside
  BY <1>3, <1>5
<1>9. HandlerMasked'
  BY <1>4, <1>7, <1>8 DEF SpinInv, HandlerMasked
<1>10. ThreadMasked'
  BY <1>1, <1>4, <1>7, <1>8 DEF SpinInv, ThreadMasked
<1>11. use = "irqsave" =>
         \A y \in Context : (spin_pc'[y] \in {"idle", "cli"}) <=> (spin_pc[y] \in {"idle", "cli"})
  BY <1>3, <1>5
<1>12. FlagKept'
  BY <1>1, <1>4, <1>7, <1>8, <1>11 DEF SpinInv, FlagKept, FlagAt
<1> QED
  BY <1>6, <1>9, <1>10, <1>12

\* disable_interrupts() puts the flag the CPU had into the guard.
LEMMA DisableStep ==
  ASSUME SpinInv, NEW x \in Context, DisableInterrupts(x)
  PROVE  SpinType' /\ HandlerMasked' /\ ThreadMasked' /\ FlagKept'
<1> DEFINE c == Cpu(x)
           l == IF spin_pc[x] = "cli" THEN "spin" ELSE "count"
<1>1. /\ spin_pc' = [spin_pc EXCEPT ![x] = l] /\ use' = use /\ wanted' = wanted
      /\ prev_if' = [prev_if EXCEPT ![x] = irq_on[c]] /\ irq_on' = [irq_on EXCEPT ![c] = FALSE]
      /\ spin_pc[x] \in {"cli", "try_cli"} /\ Runs(x)
  BY DEF DisableInterrupts, SpinGoto
<1>2. /\ spin_pc \in [Context -> SpinLabels] /\ irq_on \in [CPUs -> BOOLEAN]
      /\ prev_if \in [Context -> BOOLEAN] /\ c \in CPUs
      /\ l \in Inside /\ l \in SpinLabels /\ l # "off" /\ l # "idle" /\ l # "cli" /\ l # "try_cli"
  BY ContextFacts DEF SpinInv, SpinType, Inside, SpinLabels
<1>3. use # "try_lock" => spin_pc[x] = "cli" /\ l = "spin"
  BY <1>1 DEF SpinInv, SpinType
<1> HIDE DEF c, l
<1>4. \A y \in Context : /\ spin_pc'[y] = IF y = x THEN l ELSE spin_pc[y]
                         /\ prev_if'[y] = IF y = x THEN irq_on[c] ELSE prev_if[y]
  BY <1>1, <1>2
<1>5. \A d \in CPUs : irq_on'[d] = IF d = c THEN FALSE ELSE irq_on[d]
  BY <1>1, <1>2
<1>6. SpinType'
  <2>1. l \in {"count", "uncount"} => use # "irqsave"
    BY <1>3
  <2> QED
    BY <1>1, <1>2, <1>4, <2>1, ContextFacts DEF SpinInv, SpinType
<1>7. x = Thread(c) \/ x = Isr(c)
  BY ContextFacts DEF c
<1>8. CASE x = Isr(c)
  <2>1. ~irq_on[c]
    BY <1>1, <1>2, <1>8 DEF SpinInv, HandlerMasked
  <2>2. irq_on' = irq_on
    BY <1>1, <1>2, <2>1
  <2>3. \A d \in CPUs : /\ d # c => spin_pc'[Isr(d)] = spin_pc[Isr(d)] /\ prev_if'[Isr(d)] = prev_if[Isr(d)]
                        /\ spin_pc'[Thread(d)] = spin_pc[Thread(d)] /\ prev_if'[Thread(d)] = prev_if[Thread(d)]
    BY <1>2, <1>4, <1>8, ContextFacts
  <2>4. spin_pc'[Isr(c)] = l /\ prev_if'[Isr(c)] = irq_on[c] /\ spin_pc[Isr(c)] # "off"
    BY <1>1, <1>2, <1>4, <1>8
  <2>5. HandlerMasked'
    BY <1>2, <2>1, <2>2, <2>3, <2>4 DEF SpinInv, HandlerMasked
  <2>6. ThreadMasked'
    BY <1>1, <1>2, <2>2, <2>3, <2>4 DEF SpinInv, ThreadMasked
  <2>7. ASSUME use = "irqsave", NEW d \in CPUs, FlagAt(d) PROVE FlagAt(d)'
    <3>1. CASE d = c
      BY <1>1, <1>2, <2>2, <2>3, <2>4, <2>7, <3>1 DEF FlagAt
    <3>2. CASE d # c
      BY <1>1, <2>2, <2>3, <2>7, <3>2 DEF FlagAt
    <3> QED
      BY <3>1, <3>2
  <2>8. FlagKept'
    BY <1>1, <2>7 DEF SpinInv, FlagKept
  <2> QED
    BY <1>6, <2>5, <2>6, <2>8
<1>9. CASE x = Thread(c)
  <2>1. spin_pc[Isr(c)] = "off"
    BY <1>1, <1>2, <1>9, RunsFacts
  <2>2. \A d \in CPUs : /\ d # c => spin_pc'[Thread(d)] = spin_pc[Thread(d)] /\ prev_if'[Thread(d)] = prev_if[Thread(d)]
                        /\ spin_pc'[Isr(d)] = spin_pc[Isr(d)] /\ prev_if'[Isr(d)] = prev_if[Isr(d)]
    BY <1>2, <1>4, <1>9, ContextFacts
  <2>3. spin_pc'[Thread(c)] = l /\ prev_if'[Thread(c)] = irq_on[c]
    BY <1>2, <1>4, <1>9
  <2>4. HandlerMasked'
    BY <1>2, <1>5, <2>1, <2>2 DEF SpinInv, HandlerMasked
  <2>5. ThreadMasked'
    BY <1>1, <1>2, <1>5, <2>1, <2>2, <2>3 DEF SpinInv, ThreadMasked
  <2>6. ASSUME use = "irqsave", NEW d \in CPUs, FlagAt(d) PROVE FlagAt(d)'
    <3>1. CASE d = c
      <4>1. irq_on[c] = wanted[c] /\ l = "spin"
        BY <1>1, <1>2, <1>3, <1>9, <2>1, <2>6, <3>1 DEF FlagAt
      <4> QED
        BY <1>1, <2>1, <2>2, <2>3, <2>6, <3>1, <4>1 DEF FlagAt
    <3>2. CASE d # c
      BY <1>1, <1>5, <2>2, <2>6, <3>2 DEF FlagAt
    <3> QED
      BY <3>1, <3>2
  <2>7. FlagKept'
    BY <1>1, <2>6 DEF SpinInv, FlagKept
  <2> QED
    BY <1>6, <2>4, <2>5, <2>7
<1> QED
  BY <1>7, <1>8, <1>9

\* The end of a section: the flag of the guard goes back into the CPU.
LEMMA RestoreStep ==
  ASSUME SpinInv, NEW x \in Context, RestoreInterrupts(x)
  PROVE  SpinType' /\ HandlerMasked' /\ ThreadMasked' /\ FlagKept'
<1> DEFINE c == Cpu(x)
<1>1. /\ spin_pc' = [spin_pc EXCEPT ![x] = "idle"] /\ use' = use /\ wanted' = wanted
      /\ prev_if' = prev_if /\ irq_on' = [irq_on EXCEPT ![c] = prev_if[x]]
      /\ spin_pc[x] = "restore" /\ Runs(x)
  BY DEF RestoreInterrupts, SpinGoto
<1>2. /\ spin_pc \in [Context -> SpinLabels] /\ irq_on \in [CPUs -> BOOLEAN]
      /\ prev_if \in [Context -> BOOLEAN] /\ c \in CPUs
      /\ "idle" \notin Inside /\ "idle" \in SpinLabels /\ "restore" \in Inside
  BY ContextFacts DEF SpinInv, SpinType, Inside, SpinLabels
<1> HIDE DEF c
<1>4. \A y \in Context : spin_pc'[y] = IF y = x THEN "idle" ELSE spin_pc[y]
  BY <1>1, <1>2
<1>5. \A d \in CPUs : irq_on'[d] = IF d = c THEN prev_if[x] ELSE irq_on[d]
  BY <1>1, <1>2
<1>6. SpinType'
  BY <1>1, <1>2, <1>4, ContextFacts DEF SpinInv, SpinType
<1>7. x = Thread(c) \/ x = Isr(c)
  BY ContextFacts DEF c
<1>8. CASE x = Isr(c)
  <2>1. ~irq_on[c] /\ ~prev_if[x]
    BY <1>1, <1>2, <1>8 DEF SpinInv, HandlerMasked
  <2>2. irq_on' = irq_on
    BY <1>1, <1>2, <2>1
  <2>3. \A d \in CPUs : /\ d # c => spin_pc'[Isr(d)] = spin_pc[Isr(d)]
                        /\ spin_pc'[Thread(d)] = spin_pc[Thread(d)]
    BY <1>2, <1>4, <1>8, ContextFacts
  <2>4. spin_pc'[Isr(c)] = "idle" /\ spin_pc[Isr(c)] = "restore"
    BY <1>1, <1>2, <1>4, <1>8
  <2>5. HandlerMasked'
    BY <1>1, <1>2, <2>1, <2>2, <2>3, <2>4 DEF SpinInv, HandlerMasked
  <2>6. ThreadMasked'
    BY <1>1, <1>2, <2>2, <2>3, <2>4 DEF SpinInv, ThreadMasked
  <2>7. ASSUME use = "irqsave", NEW d \in CPUs, FlagAt(d) PROVE FlagAt(d)'
    <3>1. CASE d = c
      BY <1>1, <2>2, <2>3, <2>4, <2>7, <3>1 DEF FlagAt
    <3>2. CASE d # c
      BY <1>1, <2>2, <2>3, <2>7, <3>2 DEF FlagAt
    <3> QED
      BY <3>1, <3>2
  <2>8. FlagKept'
    BY <1>1, <2>7 DEF SpinInv, FlagKept
  <2> QED
    BY <1>6, <2>5, <2>6, <2>8
<1>9. CASE x = Thread(c)
  <2>1. spin_pc[Isr(c)] = "off"
    BY <1>1, <1>2, <1>9, RunsFacts
  <2>2. \A d \in CPUs : /\ d # c => spin_pc'[Thread(d)] = spin_pc[Thread(d)]
                        /\ spin_pc'[Isr(d)] = spin_pc[Isr(d)]
    BY <1>2, <1>4, <1>9, ContextFacts
  <2>3. spin_pc'[Thread(c)] = "idle" /\ spin_pc[Thread(c)] = "restore"
    BY <1>1, <1>2, <1>4, <1>9
  <2>4. HandlerMasked'
    BY <1>1, <1>2, <1>5, <2>1, <2>2 DEF SpinInv, HandlerMasked
  <2>5. ThreadMasked'
    BY <1>1, <1>2, <1>5, <2>1, <2>2, <2>3 DEF SpinInv, ThreadMasked
  <2>6. ASSUME use = "irqsave", NEW d \in CPUs, FlagAt(d) PROVE FlagAt(d)'
    <3>1. CASE d = c
      <4>1. prev_if[x] = wanted[c]
        BY <1>2, <1>9, <2>3, <2>6, <3>1 DEF FlagAt
      <4> QED
        BY <1>1, <1>2, <1>5, <2>1, <2>2, <2>3, <3>1, <4>1 DEF FlagAt
    <3>2. CASE d # c
      BY <1>1, <1>5, <2>2, <2>6, <3>2 DEF FlagAt
    <3> QED
      BY <3>1, <3>2
  <2>7. FlagKept'
    BY <1>1, <2>6 DEF SpinInv, FlagKept
  <2> QED
    BY <1>6, <2>4, <2>5, <2>7
<1> QED
  BY <1>7, <1>8, <1>9

\* Interrupt entry, interrupt return, and the choice of the flag by a thread.
LEMMA CpuStep ==
  ASSUME SpinInv, NEW c \in CPUs,
         Interrupt(c) \/ InterruptReturn(c) \/ \E on \in BOOLEAN : SetInterrupts(c, on)
  PROVE  SpinInv'
<1>1. /\ spin_pc \in [Context -> SpinLabels] /\ irq_on \in [CPUs -> BOOLEAN]
      /\ wanted \in [CPUs -> BOOLEAN] /\ prev_if \in [Context -> BOOLEAN]
      /\ "idle" \notin Inside /\ "off" \notin Inside /\ "cli" \notin Inside
      /\ {"idle", "off", "cli"} \subseteq SpinLabels
  BY DEF SpinInv, SpinType, Inside, SpinLabels
<1>2. ASSUME NEW l \in {"cli", "off"}, NEW b \in BOOLEAN, SpinGoto(Isr(c), l),
             l = "cli" => ~b /\ irq_on[c] /\ spin_pc[Isr(c)] = "off",
             l = "off" => b /\ spin_pc[Isr(c)] = "idle",
             irq_on' = [irq_on EXCEPT ![c] = b],
             UNCHANGED <<spin_locked, spin_depth, wanted, prev_if>>
      PROVE  SpinInv'
  <2>1. spin_pc' = [spin_pc EXCEPT ![Isr(c)] = l] /\ use' = use
    BY <1>2 DEF SpinGoto
  <2>2. \A y \in Context : spin_pc'[y] = IF y = Isr(c) THEN l ELSE spin_pc[y]
    BY <1>1, <2>1
  <2>3. \A d \in CPUs : irq_on'[d] = IF d = c THEN b ELSE irq_on[d]
    BY <1>1, <1>2
  <2>4. SpinType'
    BY <1>1, <1>2, <2>1, <2>2, ContextFacts DEF SpinInv, SpinType
  <2>5. \A d \in CPUs : /\ d # c => spin_pc'[Isr(d)] = spin_pc[Isr(d)]
                        /\ spin_pc'[Thread(d)] = spin_pc[Thread(d)]
    BY <2>2, ContextFacts
  <2>6. spin_pc'[Isr(c)] = l
    BY <2>2, ContextFacts
  <2>7. Holders' = Holders
    <3>1. Isr(c) \in Context /\ spin_pc[Isr(c)] \notin {"try_cli", "count", "held"}
      BY <1>2, ContextFacts
    <3> QED
      BY <1>2, <2>1, <3>1, HoldersMove DEF SpinInv, Holders
  <2>8. OneHolder'
    BY <1>2, <2>7 DEF SpinInv, OneHolder
  <2>9. HandlerMasked'
    <3> SUFFICES ASSUME NEW d \in CPUs, spin_pc'[Isr(d)] # "off"
                 PROVE  ~irq_on'[d] /\ (spin_pc'[Isr(d)] \in Inside => ~prev_if'[Isr(d)])
      BY DEF HandlerMasked, Inside
    <3>1. CASE d = c
      <4>1. l = "cli"
        BY <1>2, <2>6, <3>1
      <4> QED
        BY <1>1, <1>2, <2>3, <2>6, <3>1, <4>1
    <3>2. CASE d # c
      <4>1. spin_pc'[Isr(d)] = spin_pc[Isr(d)] /\ irq_on'[d] = irq_on[d] /\ prev_if' = prev_if
        BY <1>2, <2>3, <2>5, <3>2
      <4> QED
        BY <4>1 DEF SpinInv, HandlerMasked
    <3> QED
      BY <3>1, <3>2
  <2>10. use # "try_lock" => spin_pc[Thread(c)] \notin Inside
    BY <1>2 DEF SpinInv, ThreadMasked
  <2>11. ThreadMasked'
    <3> SUFFICES ASSUME use # "try_lock", NEW d \in CPUs, spin_pc[Thread(d)] \in Inside
                 PROVE  ~irq_on'[d] /\ spin_pc'[Isr(d)] = "off"
      BY <2>1, <2>5 DEF ThreadMasked, Inside
    <3>1. d # c
      BY <2>10
    <3>2. spin_pc'[Isr(d)] = spin_pc[Isr(d)] /\ irq_on'[d] = irq_on[d]
      BY <2>3, <2>5, <3>1
    <3> QED
      BY <3>2 DEF SpinInv, ThreadMasked
  <2>12. ASSUME use = "irqsave" PROVE wanted[c]
    <3>1. CASE l = "off"
      BY <1>2, <2>12, <3>1 DEF SpinInv, FlagKept, FlagAt
    <3>2. CASE l = "cli"
      <4>1. spin_pc[Thread(c)] \in {"idle", "cli"}
        <5>1. spin_pc[Thread(c)] \in SpinLabels /\ spin_pc[Thread(c)] # "try_cli"
          BY <1>1, <2>12, ContextFacts DEF SpinInv, SpinType
        <5>2. spin_pc[Thread(c)] # "off"
          BY DEF SpinInv, SpinType
        <5> QED
          BY <2>10, <2>12, <5>1, <5>2 DEF SpinLabels
      <4> QED
        BY <1>2, <2>12, <3>2, <4>1 DEF SpinInv, FlagKept, FlagAt
    <3> QED
      BY <3>1, <3>2
  <2>13. ASSUME use = "irqsave", NEW d \in CPUs, FlagAt(d) PROVE FlagAt(d)'
    <3>1. CASE d = c
      <4>1. spin_pc'[Thread(c)] \notin Inside
        BY <2>5, <2>10, <2>13
      <4> QED
        BY <1>2, <2>3, <2>5, <2>6, <2>12, <2>13, <3>1, <4>1 DEF FlagAt
    <3>2. CASE d # c
      BY <1>2, <2>3, <2>5, <2>13, <3>2 DEF FlagAt
    <3> QED
      BY <3>1, <3>2
  <2>14. FlagKept'
    BY <2>1, <2>13 DEF SpinInv, FlagKept
  <2> QED
    BY <2>4, <2>8, <2>9, <2>11, <2>14 DEF SpinInv
<1>3. CASE Interrupt(c)
  BY <1>2, <1>3 DEF Interrupt
<1>4. CASE InterruptReturn(c)
  BY <1>2, <1>4 DEF InterruptReturn
<1>5. ASSUME NEW on \in BOOLEAN, SetInterrupts(c, on) PROVE SpinInv'
  <2>1. /\ irq_on' = [irq_on EXCEPT ![c] = on] /\ wanted' = [wanted EXCEPT ![c] = on]
        /\ spin_pc' = spin_pc /\ prev_if' = prev_if /\ use' = use /\ spin_locked' = spin_locked
        /\ spin_pc[Thread(c)] = "idle" /\ spin_pc[Isr(c)] = "off"
    BY <1>5, RunsFacts DEF SetInterrupts
  <2>2. \A d \in CPUs : /\ irq_on'[d] = IF d = c THEN on ELSE irq_on[d]
                        /\ wanted'[d] = IF d = c THEN on ELSE wanted[d]
    BY <1>1, <2>1
  <2>3. SpinType'
    BY <1>1, <1>5, <2>1 DEF SpinInv, SpinType
  <2>4. OneHolder'
    BY <2>1 DEF SpinInv, OneHolder, Holders
  <2>5. HandlerMasked' /\ ThreadMasked'
    <3>1. HandlerMasked'
      BY <2>1, <2>2 DEF SpinInv, HandlerMasked
    <3>2. ThreadMasked'
      BY <1>1, <2>1, <2>2 DEF SpinInv, ThreadMasked
    <3> QED
      BY <3>1, <3>2
  <2>6. ASSUME NEW d \in CPUs, FlagAt(d) PROVE FlagAt(d)'
    <3>1. CASE d = c
      BY <1>1, <2>1, <2>2, <3>1 DEF FlagAt
    <3>2. CASE d # c
      BY <2>1, <2>2, <2>6, <3>2 DEF FlagAt
    <3> QED
      BY <3>1, <3>2
  <2>7. FlagKept'
    BY <2>1, <2>6 DEF SpinInv, FlagKept
  <2> QED
    BY <2>3, <2>4, <2>5, <2>7 DEF SpinInv
<1> QED
  BY <1>3, <1>4, <1>5

\* A step grants the lock to a context while the lock word is clear, takes it back
\* and clears the word, or does neither.
Regranted ==
  \/ Holders' = Holders /\ spin_locked' = spin_locked
  \/ /\ spin_locked = 0 /\ spin_locked' = 1
     /\ \E x \in Context : Holders' = Holders \cup {x}
  \/ \E x \in Holders : spin_locked' = 0 /\ Holders' = Holders \ {x}

LEMMA GrantStep ==
  ASSUME SpinInv, [SpinNext]_spin_vars
  PROVE  Regranted
<1>0. SpinType
  BY DEF SpinInv
<1>1. ASSUME NEW x \in Context, NEW l, SpinGoto(x, l), spin_locked' = spin_locked,
             (spin_pc[x] \in {"try_cli", "count", "held"}) <=> (l \in {"try_cli", "count", "held"})
      PROVE  Regranted
  <2>1. spin_pc' = [spin_pc EXCEPT ![x] = l]
    BY <1>1 DEF SpinGoto
  <2>2. CASE l \in {"try_cli", "count", "held"}
    <3>1. x \in Holders /\ Holders' = Holders \cup {x}
      BY <1>0, <1>1, <2>1, <2>2, HoldersMove DEF Holders, Context
    <3> QED
      BY <1>1, <3>1 DEF Regranted
  <2>3. CASE l \notin {"try_cli", "count", "held"}
    <3>1. x \notin Holders /\ Holders' = Holders \ {x}
      BY <1>0, <1>1, <2>1, <2>3, HoldersMove DEF Holders
    <3> QED
      BY <1>1, <3>1 DEF Regranted
  <2> QED
    BY <2>2, <2>3
<1>2. ASSUME NEW x \in Context, NEW l \in {"try_cli", "count", "held"}, SpinGoto(x, l),
             spin_locked = 0, spin_locked' = 1
      PROVE  Regranted
  <2>1. spin_pc' = [spin_pc EXCEPT ![x] = l]
    BY <1>2 DEF SpinGoto
  <2>2. Holders' = Holders \cup {x}
    BY <1>0, <1>2, <2>1, HoldersMove
  <2> QED
    BY <1>2, <2>2 DEF Regranted
<1>3. ASSUME NEW c \in CPUs, Interrupt(c) PROVE Regranted
  BY <1>1, <1>3, ContextFacts DEF Interrupt
<1>4. ASSUME NEW c \in CPUs, InterruptReturn(c) PROVE Regranted
  BY <1>1, <1>4, ContextFacts DEF InterruptReturn
<1>5. ASSUME NEW c \in CPUs, CallLock(c) PROVE Regranted
  BY <1>1, <1>5, ContextFacts DEF CallLock
<1>6. ASSUME NEW c \in CPUs, SpinTryLock(c) PROVE Regranted
  BY <1>2, <1>6, ContextFacts DEF SpinTryLock
<1>7. ASSUME NEW c \in CPUs, NEW on \in BOOLEAN, SetInterrupts(c, on) PROVE Regranted
  BY <1>7 DEF SetInterrupts, Regranted, Holders
<1>8. ASSUME NEW x \in Context, DisableInterrupts(x) PROVE Regranted
  <2>1. CASE spin_pc[x] = "cli"
    BY <1>1, <1>8, <2>1 DEF DisableInterrupts
  <2>2. CASE spin_pc[x] = "try_cli"
    BY <1>1, <1>8, <2>2 DEF DisableInterrupts
  <2> QED
    BY <1>8, <2>1, <2>2 DEF DisableInterrupts
<1>9. ASSUME NEW x \in Context, SpinRawLock(x) PROVE Regranted
  BY <1>2, <1>9 DEF SpinRawLock
<1>10. ASSUME NEW x \in Context, CountDepth(x) PROVE Regranted
  BY <1>1, <1>10 DEF CountDepth
<1>11. ASSUME NEW x \in Context, SpinRawUnlock(x) PROVE Regranted
  <2>1. PICK l \in {"uncount", "restore"} : spin_pc' = [spin_pc EXCEPT ![x] = l]
    BY <1>11 DEF SpinRawUnlock, SpinGoto
  <2>2. Holders' = Holders \ {x} /\ x \in Holders
    BY <1>0, <1>11, <2>1, HoldersMove DEF SpinRawUnlock, Holders, Context
  <2> QED
    BY <1>11, <2>2 DEF Regranted, SpinRawUnlock
<1>12. ASSUME NEW x \in Context, UncountDepth(x) PROVE Regranted
  <2>1. PICK l \in {"restore", "idle"} : SpinGoto(x, l)
    BY <1>12 DEF UncountDepth
  <2> QED
    BY <1>1, <1>12, <2>1 DEF UncountDepth
<1>13. ASSUME NEW x \in Context, RestoreInterrupts(x) PROVE Regranted
  BY <1>1, <1>13 DEF RestoreInterrupts
<1>14. CASE UNCHANGED spin_vars
  BY <1>14 DEF spin_vars, Regranted, Holders
<1> QED
  BY <1>3, <1>4, <1>5, <1>6, <1>7, <1>8, <1>9, <1>10, <1>11, <1>12, <1>13, <1>14
     DEF SpinNext, SpinStep, Context

LEMMA SpinNextInv ==
  ASSUME SpinInv, [SpinNext]_spin_vars
  PROVE  SpinInv'
<1>1. OneHolder'
  <2>1. Regranted
    BY GrantStep
  <2> QED
    BY <2>1, SMT DEF Regranted, SpinInv, OneHolder
<1>2. ASSUME SpinType' /\ HandlerMasked' /\ ThreadMasked' /\ FlagKept' PROVE SpinInv'
  BY <1>1, <1>2 DEF SpinInv
<1>3. {"idle", "cli", "try_cli"} \cup Inside \subseteq SpinLabels
  BY DEF SpinLabels
<1>4. ASSUME NEW c \in CPUs, CallLock(c) PROVE SpinInv'
  BY <1>2, <1>3, <1>4, QuietStep, ContextFacts DEF CallLock
<1>5. ASSUME NEW c \in CPUs, SpinTryLock(c) PROVE SpinInv'
  <2>1. use # "irqsave"
    BY <1>5 DEF SpinTryLock
  <2> QED
    BY <1>2, <1>3, <1>5, <2>1, QuietStep, ContextFacts DEF SpinTryLock
<1>6. ASSUME NEW x \in Context, SpinRawLock(x) PROVE SpinInv'
  <2>1. PICK l \in {"count", "held"} : SpinGoto(x, l) /\ (l = "count" => use # "irqsave")
    BY <1>6 DEF SpinRawLock, CountsDepth
  <2>2. l \in Inside /\ "spin" \in Inside
    BY DEF Inside
  <2> QED
    BY <1>2, <1>3, <1>6, <2>1, <2>2, QuietStep DEF SpinRawLock
<1>7. ASSUME NEW x \in Context, CountDepth(x) PROVE SpinInv'
  <2>1. {"count", "held"} \subseteq Inside
    BY DEF Inside
  <2> QED
    BY <1>2, <1>3, <1>7, <2>1, QuietStep DEF CountDepth
<1>8. ASSUME NEW x \in Context, SpinRawUnlock(x) PROVE SpinInv'
  <2>1. PICK l \in {"uncount", "restore"} : SpinGoto(x, l) /\ (l = "uncount" => use # "irqsave")
    BY <1>8 DEF SpinRawUnlock, CountsDepth
  <2>2. l \in Inside /\ "held" \in Inside
    BY DEF Inside
  <2> QED
    BY <1>2, <1>3, <1>8, <2>1, <2>2, QuietStep DEF SpinRawUnlock
<1>9. ASSUME NEW x \in Context, UncountDepth(x) PROVE SpinInv'
  <2>1. PICK l \in {"restore", "idle"} : SpinGoto(x, l)
    BY <1>9 DEF UncountDepth
  <2>2. {"uncount", "restore"} \subseteq Inside
    BY DEF Inside
  <2>3. CASE l = "restore"
    BY <1>2, <1>3, <1>9, <2>1, <2>2, <2>3, QuietStep DEF UncountDepth
  <2>4. CASE l = "idle"
    <3>1. spin_pc[x] = "uncount" /\ use # "irqsave"
      BY <1>9 DEF UncountDepth, SpinInv, SpinType
    <3> QED
      BY <1>2, <1>3, <1>9, <2>1, <2>4, <3>1, QuietStep DEF UncountDepth
  <2> QED
    BY <2>3, <2>4
<1>10. ASSUME NEW x \in Context, DisableInterrupts(x) \/ RestoreInterrupts(x) PROVE SpinInv'
  BY <1>2, <1>10, DisableStep, RestoreStep
<1>11. CASE UNCHANGED spin_vars
  BY <1>1, <1>11 DEF spin_vars, SpinInv, SpinType, HandlerMasked, ThreadMasked, FlagKept, FlagAt
<1> QED
  BY <1>4, <1>5, <1>6, <1>7, <1>8, <1>9, <1>10, <1>11, CpuStep DEF SpinNext, SpinStep, Context

LEMMA SpinInvariance == SpinSpec => []SpinInv
<1>1. SpinInv /\ [SpinNext]_spin_vars => SpinInv'
  BY SpinNextInv
<1> QED
  BY SpinInitInv, <1>1, PTL DEF SpinSpec

\* For any number of CPUs: a handler that interrupts a thread never waits for the
\* spin lock that thread has, because lock() and lock_irqsave() disable interrupts
\* before they ask for it (irq_spinlock.rs:7-9).
THEOREM HandlerNeverDeadlocks == SpinSpec => []NoSelfDeadlock
<1>1. ASSUME SpinInv PROVE NoSelfDeadlock
  <2> SUFFICES ASSUME use # "try_lock", NEW c \in CPUs, spin_pc[Isr(c)] = "spin",
                      Thread(c) \in Holders
               PROVE  FALSE
    BY DEF NoSelfDeadlock
  <2>1. spin_pc[Thread(c)] \in {"count", "held"}
    BY <1>1, ContextFacts DEF SpinInv, SpinType, Holders
  <2>2. spin_pc[Isr(c)] = "off"
    BY <1>1, <2>1 DEF SpinInv, ThreadMasked, Inside
  <2> QED
    BY <2>2
<1> QED
  BY SpinInvariance, <1>1, PTL

\* For any number of CPUs: outside lock_irqsave and unlock_irqrestore a thread has
\* the interrupt flag it chose, whatever interrupts came in between.
THEOREM FlagComesBack == SpinSpec => []IrqsaveFlagRestored
<1>1. SpinInv => IrqsaveFlagRestored
  BY DEF SpinInv, FlagKept, FlagAt, IrqsaveFlagRestored, FlagRestored
<1> QED
  BY SpinInvariance, <1>1, PTL

\* For any number of CPUs: in all its uses, try_lock included, the spin lock
\* implements the abstract lock for the threads and the handlers of all CPUs.
THEOREM SpinImplementsLock == SpinSpec => ImplementsSpinLock
<1>1. SpinInit => SpinAbstract!Init
  <2> SUFFICES ASSUME SpinInit PROVE SpinAbstract!Init
    OBVIOUS
  <2>1. Holders = {}
    BY SpinInitInv DEF SpinInv, OneHolder, SpinInit
  <2> QED
    BY <2>1 DEF SpinAbstract!Init, SpinGranted
<1>2. SpinInv /\ [SpinNext]_spin_vars => [SpinAbstract!Next]_(SpinGranted)
  <2> SUFFICES ASSUME SpinInv, [SpinNext]_spin_vars, SpinGranted' # SpinGranted
               PROVE  SpinAbstract!Next
    OBVIOUS
  <2>1. Holders' # Holders
    BY DEF SpinGranted
  <2>2. CASE spin_locked = 0 /\ \E x \in Context : Holders' = Holders \cup {x}
    <3>1. PICK x \in Context : Holders' = Holders \cup {x}
      BY <2>2
    <3>2. Holders = {} /\ Holders' = {x}
      BY <2>2, <3>1 DEF SpinInv, OneHolder
    <3>3. /\ SpinGranted = [y \in Contexts |-> "none"]
          /\ SpinGranted' = [y \in Contexts |-> IF y = x THEN "exclusive" ELSE "none"]
      BY <3>2 DEF SpinGranted
    <3>4. SpinAbstract!Acquire(x, "exclusive")
      BY <3>3 DEF SpinAbstract!Acquire, SpinAbstract!Compatible, SpinAbstract!Conflict, Context
    <3> QED
      BY <3>4 DEF SpinAbstract!Next, SpinAbstract!Grant, Context
  <2>3. CASE \E x \in Holders : Holders' = Holders \ {x}
    <3>1. PICK x \in Holders : Holders' = Holders \ {x}
      BY <2>3
    <3>2. Holders = {x} /\ Holders' = {} /\ x \in Contexts
      BY <3>1 DEF SpinInv, OneHolder, Holders
    <3>3. /\ SpinGranted = [y \in Contexts |-> IF y = x THEN "exclusive" ELSE "none"]
          /\ SpinGranted' = [y \in Contexts |-> "none"]
      BY <3>2 DEF SpinGranted
    <3>4. SpinAbstract!Release(x)
      BY <3>2, <3>3 DEF SpinAbstract!Release
    <3> QED
      BY <3>2, <3>4 DEF SpinAbstract!Next
  <2> QED
    BY <2>1, <2>2, <2>3, GrantStep DEF Regranted
<1> QED
  BY <1>1, <1>2, SpinInvariance, PTL DEF SpinSpec, ImplementsSpinLock, SpinAbstract!Spec
=============================================================================
