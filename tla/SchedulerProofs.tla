-------------------------- MODULE SchedulerProofs --------------------------
(***************************************************************************)
(* Proofs about the scheduler for a process table of any size.             *)
(*                                                                         *)
(* ReadyIsQueued is not inductive by itself.  QueueInv adds what schedule()*)
(* relies on: only the process on the CPU is Running or Blocked, and no    *)
(* process that is still being created is in the tree.  It is stated for   *)
(* any states ps, tree tr and current process cur, because exit calls      *)
(* schedule() in the middle of its changes.                                *)
(*                                                                         *)
(* The second part adds the futex calls.  EntriesExact needs to know that  *)
(* process 0 does not exist and that a process inside futex_wait has not   *)
(* exited; with these a waiter that is not on the CPU can only be Ready,   *)
(* and every futex call is a step of the scheduler or none.                *)
(***************************************************************************)
EXTENDS Futex, FiniteSetTheorems, TLAPS

\* The leaves are first-order facts about functions and sets; the ones that need
\* arithmetic or records cite SMT.
USE Zenon

OnCpu == {"Ready", "Running", "Blocked"}

QueueInv(ps, tr, cur) ==
  /\ ps \in [Pid -> States]
  /\ tr \subseteq Pid
  /\ cur \in Pid
  /\ \A p \in Pid : ps[p] = "Ready" => p \in tr \/ p = cur
  /\ \A p \in Pid : ps[p] \in {"Running", "Blocked"} => p = cur
  /\ \A p \in tr : ps[p] # "Created"
  /\ ps[cur] # "Created"

\* While the machine is up the process on the CPU has not exited.
Inv ==
  /\ QueueInv(pstate, tree, current)
  /\ TableWithinBitmap
  /\ machine = "up" => pstate[current] \in OnCpu

\* A change of state, refused or not, gives a state function.
LEMMA SetStateType ==
  ASSUME NEW ps \in [Pid -> States], NEW p \in Pid, NEW s \in States
  PROVE  /\ SetState(ps, p, s) \in [Pid -> States]
         /\ \A q \in Pid : q # p => SetState(ps, p, s)[q] = ps[q]
         /\ SetState(ps, p, s)[p] \in {ps[p], s}
         /\ <<ps[p], s>> \in Legal => SetState(ps, p, s)[p] = s
         /\ <<ps[p], s>> \notin Legal => SetState(ps, p, s)[p] = ps[p]
BY DEF SetState

\* The switch away from the current process keeps the queue in order, and
\* the process switched to was Ready.
LEMMA SwitchKeepsQueue ==
  ASSUME NEW ps, NEW tr, NEW p \in tr,
         QueueInv(ps, tr, current), Switch(ps, tr, p)
  PROVE  /\ QueueInv(pstate', tree', current')
         /\ pstate'[current'] = "Running"
         /\ ps[p] = "Ready"
         /\ \A q \in Pid : ps[q] = "Zombie" => pstate'[q] = "Zombie"
         /\ \A q \in Pid : pstate'[q] # "Free" <=> ps[q] # "Free"
<1>1. /\ p \in Pid /\ p # current /\ current \in Pid
      /\ ps \in [Pid -> States]
      /\ "Running" \in States /\ "Ready" \in States
  BY DEF QueueInv, Switch, States
<1>2. ps[p] = "Ready"
  BY <1>1 DEF QueueInv, Switch, Schedulable, States
<1>3. <<ps[p], "Running">> \in Legal
  BY <1>2 DEF Legal
<1> DEFINE mid == SetState(ps, p, "Running")
<1>4. /\ mid \in [Pid -> States]
      /\ mid[p] = "Running"
      /\ \A q \in Pid : q # p => mid[q] = ps[q]
  BY <1>1, <1>3, SetStateType
<1>5. /\ pstate' = SetState(mid, current, "Ready")
      /\ tree' = (tr \ {p}) \union {current}
      /\ current' = p
  BY DEF Switch
<1> HIDE DEF mid
<1>6. /\ pstate' \in [Pid -> States]
      /\ \A q \in Pid : q # current => pstate'[q] = mid[q]
      /\ pstate'[current] \in {mid[current], "Ready"}
      /\ <<mid[current], "Ready">> \in Legal => pstate'[current] = "Ready"
      /\ <<mid[current], "Ready">> \notin Legal => pstate'[current] = mid[current]
  BY <1>1, <1>4, <1>5, SetStateType, SMT
<1>7. mid[current] = ps[current]
  BY <1>1, <1>4
<1>8. ps[current] = "Zombie" => pstate'[current] = "Zombie"
  BY <1>6, <1>7 DEF Legal
<1>9. ps[current] = "Free" => pstate'[current] = "Free"
  BY <1>6, <1>7 DEF Legal
<1>10. pstate'[current] \notin {"Running", "Blocked", "Created"}
  <2>1. ps[current] \in States /\ ps[current] # "Created"
    BY <1>1 DEF QueueInv
  <2>2. ps[current] \in {"Running", "Blocked"} => <<ps[current], "Ready">> \in Legal
    BY DEF Legal
  <2> QED
    BY <1>6, <1>7, <2>1, <2>2
<1>11. pstate'[p] = "Running"
  BY <1>1, <1>4, <1>6
<1>12. QueueInv(pstate', tree', current')
  <2>1. \A q \in Pid : pstate'[q] = "Ready" => q \in tree' \/ q = current'
    BY <1>1, <1>4, <1>5, <1>6, <1>11 DEF QueueInv
  <2>2. \A q \in Pid : pstate'[q] \in {"Running", "Blocked"} => q = current'
    BY <1>1, <1>4, <1>5, <1>6, <1>10 DEF QueueInv
  <2>3. \A q \in tree' : pstate'[q] # "Created"
    BY <1>1, <1>4, <1>5, <1>6, <1>10 DEF QueueInv
  <2>4. tree' \subseteq Pid /\ current' \in Pid
    BY <1>1, <1>5 DEF QueueInv
  <2> QED
    BY <1>5, <1>6, <1>11, <2>1, <2>2, <2>3, <2>4 DEF QueueInv
<1>13. \A q \in Pid : ps[q] = "Zombie" => pstate'[q] = "Zombie"
  BY <1>2, <1>4, <1>6, <1>8
<1>14. \A q \in Pid : pstate'[q] # "Free" <=> ps[q] # "Free"
  BY <1>2, <1>4, <1>6, <1>7, <1>9, <1>11
<1> QED
  BY <1>2, <1>5, <1>11, <1>12, <1>13, <1>14

\* What schedule() may do to the queue, whichever of its outcomes it has.
LEMMA ScheduleKeepsQueue ==
  ASSUME NEW ps, NEW tr, QueueInv(ps, tr, current), Schedule(ps, tr)
  PROVE  /\ QueueInv(pstate', tree', current')
         /\ current' # current => ps[current'] = "Ready"
         /\ \A q \in Pid : ps[q] = "Zombie" => pstate'[q] = "Zombie"
         /\ \A q \in Pid : pstate'[q] # "Free" <=> ps[q] # "Free"
         /\ \/ pstate'[current'] = "Running"
            \/ current' = current /\ pstate' = ps
         /\ PickSomething(ps, tr) => pstate'[current'] \in OnCpu
<1>1. CASE PickNothing(ps, tr)
  <2>1. pstate' = ps /\ tree' = tr /\ current' = current
    BY <1>1 DEF PickNothing
  <2>2. ~PickSelf(ps, tr)
    <3>1. SUFFICES ASSUME PickSelf(ps, tr) PROVE FALSE
      OBVIOUS
    <3>2. current \in tr /\ (\A q \in tr : current <= q) /\ Schedulable(ps, current)
      BY <3>1 DEF PickSelf, Leftmost
    <3>3. PICK p \in tr : (\A q \in tr : p <= q) /\ ~Schedulable(ps, p)
      BY <1>1, <3>2 DEF PickNothing, Leftmost
    <3>4. p \in Nat /\ current \in Nat
      BY <3>2, <3>3, TableAssumption, SMT DEF QueueInv, Pid
    <3> QED
      BY <3>2, <3>3, <3>4, SMT
  <2>3. \A p \in tr : ~Switch(ps, tr, p)
    <3>1. SUFFICES ASSUME NEW r \in tr, Switch(ps, tr, r) PROVE FALSE
      OBVIOUS
    <3>2. (\A q \in tr : r <= q) /\ Schedulable(ps, r)
      BY <3>1 DEF Switch, Leftmost
    <3>3. PICK p \in tr : (\A q \in tr : p <= q) /\ ~Schedulable(ps, p)
      BY <1>1, <3>1 DEF PickNothing, Leftmost
    <3>4. p \in Nat /\ r \in Nat
      BY <3>1, <3>3, TableAssumption, SMT DEF QueueInv, Pid
    <3> QED
      BY <3>2, <3>3, <3>4, SMT
  <2> QED
    BY <2>1, <2>2, <2>3 DEF PickSomething
<1>2. CASE PickSelf(ps, tr)
  <2>1. pstate' = ps /\ tree' = tr \ {current} /\ current' = current
    BY <1>2 DEF PickSelf
  <2>2. ps[current] \in OnCpu
    BY <1>2 DEF PickSelf, Schedulable, QueueInv, States, OnCpu
  <2>3. QueueInv(pstate', tree', current')
    BY <2>1 DEF QueueInv
  <2> QED
    BY <2>1, <2>2, <2>3
<1>3. CASE \E p \in tr : Switch(ps, tr, p)
  <2>1. PICK p \in tr : Switch(ps, tr, p)
    BY <1>3
  <2>2. current' = p
    BY <2>1 DEF Switch
  <2> QED
    BY <2>1, <2>2, SwitchKeepsQueue DEF OnCpu
<1> QED
  BY <1>1, <1>2, <1>3 DEF Schedule, PickSomething

\* A wake-up of a blocked process puts it in the tree and makes it Ready.
LEMMA UnblockKeepsQueue ==
  ASSUME NEW ps, NEW tr, NEW cur, NEW p, QueueInv(ps, tr, cur)
  PROVE  /\ QueueInv(UnblockState(ps, p), UnblockTree(ps, tr, p), cur)
         /\ \A q \in Pid : ps[q] = "Zombie" => UnblockState(ps, p)[q] = "Zombie"
         /\ \A q \in Pid : UnblockState(ps, p)[q] # "Free" <=> ps[q] # "Free"
         /\ \A q \in Pid : q # cur => UnblockState(ps, p)[q] = ps[q]
         /\ ps[cur] \in OnCpu => UnblockState(ps, p)[cur] \in OnCpu
<1>1. CASE Unblocks(ps, p)
  <2>1. p \in Pid /\ ps[p] = "Blocked" /\ ps \in [Pid -> States] /\ p = cur
    BY <1>1 DEF Unblocks, QueueInv
  <2>2. "Ready" \in States /\ <<ps[p], "Ready">> \in Legal
    BY <2>1 DEF States, Legal
  <2>3. /\ UnblockState(ps, p) = SetState(ps, p, "Ready")
        /\ UnblockTree(ps, tr, p) = tr \union {p}
    BY <1>1 DEF UnblockState, UnblockTree
  <2>4. /\ UnblockState(ps, p) \in [Pid -> States]
        /\ UnblockState(ps, p)[p] = "Ready"
        /\ \A q \in Pid : q # p => UnblockState(ps, p)[q] = ps[q]
    BY <2>1, <2>2, <2>3, SetStateType, SMT
  <2>5. QueueInv(UnblockState(ps, p), UnblockTree(ps, tr, p), cur)
    BY <2>1, <2>3, <2>4 DEF QueueInv
  <2> QED
    BY <2>1, <2>4, <2>5 DEF OnCpu
<1>2. CASE ~Unblocks(ps, p)
  BY <1>2 DEF UnblockState, UnblockTree
<1> QED
  BY <1>1, <1>2

\* The current process may become Blocked or Zombie without leaving the queue
\* out of order.
LEMMA CurrentStops ==
  ASSUME NEW s \in {"Blocked", "Zombie"}, QueueInv(pstate, tree, current)
  PROVE  LET ps == SetState(pstate, current, s)
         IN  /\ QueueInv(ps, tree, current)
             /\ \A q \in Pid : pstate[q] = "Zombie" => ps[q] = "Zombie"
             /\ \A q \in Pid : ps[q] # "Free" <=> pstate[q] # "Free"
             /\ \A q \in Pid : q # current => ps[q] = pstate[q]
             /\ s = "Blocked" /\ pstate[current] \in OnCpu => ps[current] \in OnCpu
<1> DEFINE ps == SetState(pstate, current, s)
<1>1. s \in States /\ pstate \in [Pid -> States] /\ current \in Pid
  BY DEF QueueInv, States
<1>2. /\ ps \in [Pid -> States]
      /\ \A q \in Pid : q # current => ps[q] = pstate[q]
      /\ ps[current] \in {pstate[current], s}
      /\ <<pstate[current], s>> \notin Legal => ps[current] = pstate[current]
  BY <1>1, SetStateType
<1>3. pstate[current] \in {"Zombie", "Free"} => <<pstate[current], s>> \notin Legal
  BY DEF Legal
<1> HIDE DEF ps
<1>4. QueueInv(ps, tree, current)
  BY <1>1, <1>2 DEF QueueInv
<1>5. /\ \A q \in Pid : pstate[q] = "Zombie" => ps[q] = "Zombie"
      /\ \A q \in Pid : ps[q] # "Free" <=> pstate[q] # "Free"
  BY <1>1, <1>2, <1>3
<1>6. s = "Blocked" /\ pstate[current] \in OnCpu => ps[current] \in OnCpu
  BY <1>2 DEF OnCpu
<1> QED
  BY <1>2, <1>4, <1>5, <1>6 DEF ps

\* What exit has done when it calls schedule().
LEMMA ExitKeepsQueue ==
  ASSUME QueueInv(pstate, tree, current)
  PROVE  /\ QueueInv(ExitState, ExitTree, current)
         /\ \A q \in Pid : pstate[q] = "Zombie" => ExitState[q] = "Zombie"
         /\ \A q \in Pid : ExitState[q] # "Free" <=> pstate[q] # "Free"
         /\ \A q \in Pid : q # current => ExitState[q] = pstate[q]
         /\ pstate[current] \in OnCpu /\ pstate[current] # "Ready"
              => ExitState[current] = "Zombie"
<1> DEFINE ps == SetState(pstate, current, "Zombie")
<1>0. /\ current \in Pid
      /\ pstate[current] \in OnCpu /\ pstate[current] # "Ready"
           => ps[current] = "Zombie"
  <2>1. pstate \in [Pid -> States] /\ current \in Pid /\ "Zombie" \in States
    BY DEF QueueInv, States
  <2>2. pstate[current] \in OnCpu /\ pstate[current] # "Ready"
          => <<pstate[current], "Zombie">> \in Legal
    BY DEF OnCpu, Legal
  <2> QED
    BY <2>1, <2>2, SetStateType
<1>1. /\ QueueInv(ps, tree, current)
      /\ \A q \in Pid : pstate[q] = "Zombie" => ps[q] = "Zombie"
      /\ \A q \in Pid : ps[q] # "Free" <=> pstate[q] # "Free"
      /\ \A q \in Pid : q # current => ps[q] = pstate[q]
  BY CurrentStops
<1>2. /\ ExitState = UnblockState(ps, parent[current])
      /\ ExitTree = UnblockTree(ps, tree, parent[current])
  BY DEF ExitState, ExitTree
<1> HIDE DEF ps
<1>3. /\ QueueInv(ExitState, ExitTree, current)
      /\ \A q \in Pid : ps[q] = "Zombie" => ExitState[q] = "Zombie"
      /\ \A q \in Pid : ExitState[q] # "Free" <=> ps[q] # "Free"
      /\ \A q \in Pid : q # current => ExitState[q] = ps[q]
  BY <1>1, <1>2, UnblockKeepsQueue, SMT
<1> QED
  BY <1>1, <1>3, <1>0

\* What one step may do: the two action properties and the invariant.
StepOK ==
  /\ Inv'
  /\ current' # current => pstate[current'] \in {"Ready", "Running"}
  /\ \A p \in Pid : pstate[p] = "Zombie" => pstate'[p] \in {"Zombie", "Free"}

LEMMA InitInv == Init => Inv
<1>1. /\ InitPid \in Pid /\ BootPid \in Pid /\ InitPid # BootPid
  BY TableAssumption, SMT DEF InitPid, BootPid, Pid
<1> QED
  BY <1>1 DEF Init, Inv, QueueInv, TableWithinBitmap, OnCpu, States

\* A call of schedule() by a process that keeps running when nothing is found.
LEMMA ScheduleStep ==
  ASSUME Inv, machine = "up", Schedule(pstate, tree), UNCHANGED <<bitmap, machine>>
  PROVE  StepOK
<1>1. QueueInv(pstate, tree, current) /\ pstate[current] \in OnCpu
  BY DEF Inv
<1>2. /\ QueueInv(pstate', tree', current')
      /\ current' # current => pstate[current'] = "Ready"
      /\ \A q \in Pid : pstate[q] = "Zombie" => pstate'[q] = "Zombie"
      /\ \A q \in Pid : pstate'[q] # "Free" <=> pstate[q] # "Free"
      /\ \/ pstate'[current'] = "Running"
         \/ current' = current /\ pstate' = pstate
  BY <1>1, ScheduleKeepsQueue
<1>3. pstate'[current'] \in OnCpu
  BY <1>1, <1>2 DEF OnCpu
<1>4. TableWithinBitmap'
  BY <1>2 DEF Inv, TableWithinBitmap
<1> QED
  BY <1>2, <1>3, <1>4 DEF StepOK, Inv

LEMMA ReapStep ==
  ASSUME Inv, machine = "up", NEW c, pstate[c] = "Zombie", Reap(c)
  PROVE  StepOK
<1>1. /\ pstate \in [Pid -> States] /\ current \in Pid /\ tree \subseteq Pid
      /\ pstate[current] \in OnCpu /\ c # current
  BY DEF Inv, QueueInv, OnCpu
<1>2. /\ current' = current /\ tree' = tree /\ bitmap' = bitmap \ {c}
      /\ pstate' = [pstate EXCEPT ![c] = "Free"]
  BY DEF Reap
<1>3. /\ pstate' \in [Pid -> States]
      /\ \A q \in Pid : pstate'[q] = IF q = c THEN "Free" ELSE pstate[q]
  BY <1>1, <1>2 DEF States
<1>4. QueueInv(pstate', tree', current')
  BY <1>1, <1>2, <1>3 DEF Inv, QueueInv
<1>5. TableWithinBitmap'
  BY <1>2, <1>3 DEF Inv, TableWithinBitmap
<1> QED
  BY <1>1, <1>2, <1>3, <1>4, <1>5 DEF StepOK, Inv

LEMMA ForkStep == Inv /\ Fork => StepOK
<1> SUFFICES ASSUME Inv, Fork PROVE StepOK
  OBVIOUS
<1>1. PICK i \in Pid \ {0} :
        /\ allocate_pid(i)
        /\ pstate' = [pstate EXCEPT ![i] = "Ready"]
        /\ tree' = tree \union {i}
  BY DEF Fork
<1>2. machine = "up" /\ machine' = machine /\ current' = current
  BY DEF Fork, At
<1>3. i \notin bitmap /\ bitmap' = bitmap \union {i}
  BY <1>1 DEF allocate_pid
<1>4. pstate[i] = "Free"
  BY <1>1, <1>3 DEF Inv, TableWithinBitmap
<1>5. /\ pstate \in [Pid -> States] /\ current \in Pid
      /\ pstate[current] \in OnCpu /\ i # current
  BY <1>2, <1>4 DEF Inv, QueueInv, OnCpu
<1>6. /\ pstate' \in [Pid -> States]
      /\ \A q \in Pid : pstate'[q] = IF q = i THEN "Ready" ELSE pstate[q]
  BY <1>1, <1>5 DEF States
<1>7. QueueInv(pstate', tree', current')
  BY <1>1, <1>2, <1>5, <1>6 DEF Inv, QueueInv
<1>8. TableWithinBitmap'
  BY <1>3, <1>6 DEF Inv, TableWithinBitmap
<1> QED
  BY <1>2, <1>4, <1>5, <1>6, <1>7, <1>8 DEF StepOK, Inv

LEMMA BlockStep == Inv /\ Block => StepOK
<1> SUFFICES ASSUME Inv, Block PROVE StepOK
  OBVIOUS
<1>1. /\ pstate' = SetState(pstate, current, "Blocked")
      /\ tree' = tree /\ current' = current /\ bitmap' = bitmap
      /\ machine = "up"
  BY DEF Block, At, table
<1>2. QueueInv(pstate, tree, current) /\ pstate[current] \in OnCpu
  BY <1>1 DEF Inv
<1>3. /\ QueueInv(pstate', tree', current')
      /\ \A q \in Pid : pstate[q] = "Zombie" => pstate'[q] = "Zombie"
      /\ \A q \in Pid : pstate'[q] # "Free" <=> pstate[q] # "Free"
      /\ pstate'[current'] \in OnCpu
  BY <1>1, <1>2, CurrentStops
<1>4. TableWithinBitmap'
  BY <1>1, <1>3 DEF Inv, TableWithinBitmap
<1> QED
  BY <1>1, <1>3, <1>4 DEF StepOK, Inv

LEMMA UnblockStep == ASSUME NEW p \in Pid, Inv, Unblock(p) PROVE StepOK
<1>1. /\ pstate' = UnblockState(pstate, p)
      /\ tree' = UnblockTree(pstate, tree, p)
      /\ current' = current /\ bitmap' = bitmap /\ machine = "up"
  BY DEF Unblock, table
<1>2. QueueInv(pstate, tree, current) /\ pstate[current] \in OnCpu
  BY <1>1 DEF Inv
<1>3. /\ QueueInv(pstate', tree', current')
      /\ \A q \in Pid : pstate[q] = "Zombie" => pstate'[q] = "Zombie"
      /\ \A q \in Pid : pstate'[q] # "Free" <=> pstate[q] # "Free"
      /\ pstate'[current'] \in OnCpu
  BY <1>1, <1>2, UnblockKeepsQueue, SMT
<1>4. TableWithinBitmap'
  BY <1>1, <1>3 DEF Inv, TableWithinBitmap
<1> QED
  BY <1>1, <1>3, <1>4 DEF StepOK, Inv

LEMMA ExitHangsStep == Inv /\ ExitHangs => StepOK
<1> SUFFICES ASSUME Inv, ExitHangs PROVE StepOK
  OBVIOUS
<1>1. /\ pstate' = ExitState /\ tree' = ExitTree /\ machine' = "hung"
      /\ current' = current /\ bitmap' = bitmap
  BY DEF ExitHangs, table
<1>2. /\ QueueInv(pstate', tree', current')
      /\ \A q \in Pid : pstate[q] = "Zombie" => pstate'[q] = "Zombie"
      /\ \A q \in Pid : pstate'[q] # "Free" <=> pstate[q] # "Free"
  BY <1>1, ExitKeepsQueue DEF Inv
<1>3. TableWithinBitmap'
  BY <1>1, <1>2 DEF Inv, TableWithinBitmap
<1> QED
  BY <1>1, <1>2, <1>3 DEF StepOK, Inv

LEMMA ExitStep ==
  Inv /\ Exit =>
    StepOK /\ (pstate[current] # "Ready" => pstate'[current] = "Zombie")
<1> SUFFICES ASSUME Inv, Exit
             PROVE  /\ StepOK
                    /\ pstate[current] # "Ready" => pstate'[current] = "Zombie"
  OBVIOUS
<1>1. /\ Schedule(ExitState, ExitTree)
      /\ machine' = "up" => PickSomething(ExitState, ExitTree)
      /\ bitmap' = bitmap
  BY DEF Exit, Schedule, table
<1>2. /\ QueueInv(ExitState, ExitTree, current)
      /\ \A q \in Pid : pstate[q] = "Zombie" => ExitState[q] = "Zombie"
      /\ \A q \in Pid : ExitState[q] # "Free" <=> pstate[q] # "Free"
      /\ \A q \in Pid : q # current => ExitState[q] = pstate[q]
  BY ExitKeepsQueue DEF Inv
<1>3. /\ QueueInv(pstate', tree', current')
      /\ current' # current => ExitState[current'] = "Ready"
      /\ \A q \in Pid : ExitState[q] = "Zombie" => pstate'[q] = "Zombie"
      /\ \A q \in Pid : pstate'[q] # "Free" <=> ExitState[q] # "Free"
      /\ PickSomething(ExitState, ExitTree) => pstate'[current'] \in OnCpu
  BY <1>1, <1>2, ScheduleKeepsQueue
<1>4. current' \in Pid
  BY <1>3 DEF QueueInv
<1>5. TableWithinBitmap'
  BY <1>1, <1>2, <1>3 DEF Inv, TableWithinBitmap
<1>6. pstate[current] # "Ready" => pstate'[current] = "Zombie"
  <2>1. /\ QueueInv(pstate, tree, current) /\ current \in Pid
        /\ pstate[current] \in OnCpu
    BY DEF Inv, QueueInv, Exit, At
  <2>2. pstate[current] # "Ready" => ExitState[current] = "Zombie"
    BY <2>1, ExitKeepsQueue
  <2> QED
    BY <1>3, <2>1, <2>2
<1> QED
  BY <1>1, <1>2, <1>3, <1>4, <1>5, <1>6 DEF StepOK, Inv

\* Every step of the scheduler.
LEMMA NextStep == Inv /\ [Next]_vars => Inv' /\ (StepOK \/ UNCHANGED vars)
<1> SUFFICES ASSUME Inv, [Next]_vars PROVE Inv' /\ (StepOK \/ UNCHANGED vars)
  OBVIOUS
<1>1. CASE ForkFails
  <2>1. /\ pstate' = pstate /\ tree' = tree /\ current' = current
        /\ machine' = machine
        /\ \E i \in Pid : bitmap' = bitmap \union {i}
    BY <1>1 DEF ForkFails, allocate_pid
  <2> QED
    BY <2>1 DEF StepOK, Inv, QueueInv, TableWithinBitmap
<1>2. CASE Yield
  BY <1>2, ScheduleStep DEF Yield, At, table, StepOK
<1>3. CASE BlockReschedule
  BY <1>3, ScheduleStep DEF BlockReschedule, At, table, StepOK
<1>4. CASE WaitLoop
  <2>1. CASE pstate[target[current]] = "Zombie"
    BY <1>4, <2>1, ReapStep DEF WaitLoop, At, StepOK
  <2>2. CASE pstate[target[current]] # "Zombie"
    BY <1>4, <2>2, ScheduleStep DEF WaitLoop, At, table, StepOK
  <2> QED
    BY <2>1, <2>2
<1>5. CASE \E p \in Pid : Wait4(p)
  <2>1. PICK c \in Pid : Wait4(c)
    BY <1>5
  <2>2. CASE pstate[c] = "Zombie"
    BY <2>1, <2>2, ReapStep DEF Wait4, At, StepOK
  <2>3. CASE pstate[c] # "Zombie"
    BY <2>1, <2>3 DEF Wait4, table, StepOK, Inv, QueueInv, TableWithinBitmap
  <2> QED
    BY <2>2, <2>3
<1>6. CASE \E p \in Pid : Unblock(p)
  BY <1>6, UnblockStep DEF StepOK
<1>7. CASE Fork \/ Block \/ ExitHangs \/ Exit
  BY <1>7, ForkStep, BlockStep, ExitHangsStep, ExitStep DEF StepOK
<1>8. CASE UNCHANGED vars
  BY <1>8 DEF vars, Inv, QueueInv, TableWithinBitmap
<1> QED
  BY <1>1, <1>2, <1>3, <1>4, <1>5, <1>6, <1>7, <1>8 DEF Next

LEMMA Invariance == Spec => []Inv
<1>1. Inv /\ [Next]_vars => Inv'
  BY NextStep
<1> QED
  BY InitInv, <1>1, PTL DEF Spec

\* For every size of the process table: no Ready process is lost from the run
\* queue by schedule(), block(), unblock(), fork or exit.
THEOREM ReadyNeverLost == Spec => []ReadyIsQueued
<1>1. Inv => ReadyIsQueued
  BY DEF Inv, QueueInv, ReadyIsQueued
<1> QED
  BY Invariance, <1>1, PTL

\* For every size of the process table: allocate_pid never hands out the PID
\* of a process that is still in the table.
THEOREM PidsNeverShared == Spec => []TableWithinBitmap
<1>1. Inv => TableWithinBitmap
  BY DEF Inv
<1> QED
  BY Invariance, <1>1, PTL

\* For every size of the process table: schedule() switches only to a process
\* that was Ready, whatever stale entries exits and reaping left in the tree.
THEOREM SwitchesOnlyToLive == Spec => SwitchesToLive
<1>1. Inv /\ [Next]_vars =>
        [current' # current => pstate[current'] \in {"Ready", "Running"}]_vars
  BY NextStep DEF StepOK
<1> QED
  BY Invariance, <1>1, PTL DEF Spec, SwitchesToLive

\* For every size of the process table: exit leaves a zombie behind, and no
\* wake-up, switch or re-insertion brings an exited process back to life.
THEOREM ExitIsFinal == Spec => ZombieIsFinal
<1>1. Inv /\ [Next]_vars =>
        [/\ Exit /\ pstate[current] # "Ready" => pstate'[current] = "Zombie"
         /\ \A p \in Pid : pstate[p] = "Zombie" => pstate'[p] \in {"Zombie", "Free"}]_vars
  BY NextStep, ExitStep DEF StepOK
<1> QED
  BY Invariance, <1>1, PTL DEF Spec, ZombieIsFinal

\* What schedule() does to the variables TypeOK is about and Inv is not.
LEMMA ScheduleTyped ==
  ASSUME NEW ps, NEW tr \in SUBSET Pid, current \in Pid, Schedule(ps, tr)
  PROVE  picked' \in Pid \union {NoPid, NoCall}
BY DEF Schedule, PickNothing, PickSomething, PickSelf, Switch

\* The rest of TypeOK: Inv has the states, the tree and the current process.
TableType ==
  /\ parent \in [Pid -> Pid \union {NoPid}]
  /\ children \in [Pid -> SUBSET Pid]
  /\ bitmap \subseteq Pid
  /\ next_search \in Pid
  /\ pc \in [Pid -> {"user", "block", "wait"}]
  /\ target \in [Pid -> Pid \union {NoPid}]
  /\ picked \in Pid \union {NoPid, NoCall}
  /\ machine \in {"up", "off", "hung"}

\* The start of the next scan wraps around the table.
LEMMA AllocateTyped ==
  ASSUME NEW i \in Pid, TableType, allocate_pid(i)
  PROVE  bitmap' \subseteq Pid /\ next_search' \in Pid
<1>1. (i + 1) % MAX_PROCESSES \in Pid
  BY TableAssumption, SMT DEF Pid
<1> QED
  BY <1>1 DEF allocate_pid, TableType

LEMMA NextTableType ==
  ASSUME Inv, TableType, [Next]_vars
  PROVE  TableType'
<1>0. current \in Pid /\ tree \in SUBSET Pid /\ pstate \in [Pid -> States]
  BY DEF Inv, QueueInv
<1>1. CASE ForkFails
  <2>1. PICK i \in Pid : allocate_pid(i)
    BY <1>1 DEF ForkFails
  <2> QED
    BY <1>1, <2>1, AllocateTyped DEF ForkFails, TableType, prog
<1>2. CASE Fork
  <2>1. PICK i \in Pid \ {0} :
          /\ allocate_pid(i)
          /\ parent' = [parent EXCEPT ![i] = current]
          /\ children' = [children EXCEPT ![i] = {}, ![current] = @ \union {i}]
          /\ pc' = [pc EXCEPT ![i] = "user"]
    BY <1>2 DEF Fork
  <2>2. children' \in [Pid -> SUBSET Pid]
    BY <1>0, <2>1, SMT DEF TableType
  <2>3. parent' \in [Pid -> Pid \union {NoPid}] /\ pc' \in [Pid -> {"user", "block", "wait"}]
    BY <1>0, <2>1 DEF TableType
  <2> QED
    BY <1>2, <2>1, <2>2, <2>3, AllocateTyped DEF Fork, TableType
<1>3. CASE Yield
  BY <1>0, <1>3, ScheduleTyped DEF Yield, TableType, table, prog
<1>4. CASE Block
  <2>1. PICK next \in {"user", "block"} : pc' = [pc EXCEPT ![current] = next]
    BY <1>4 DEF Block
  <2> QED
    BY <1>0, <1>4, <2>1 DEF Block, TableType, table
<1>5. CASE BlockReschedule
  <2>1. picked' \in Pid \union {NoPid, NoCall}
    BY <1>0, <1>5, ScheduleTyped DEF BlockReschedule
  <2> QED
    BY <1>0, <1>5, <2>1 DEF BlockReschedule, TableType, table
<1>6. ASSUME NEW c, Reap(c),
             \/ UNCHANGED prog
             \/ pc' = [pc EXCEPT ![current] = "user"] /\ UNCHANGED target
      PROVE  TableType'
  BY <1>0, <1>6 DEF Reap, TableType, prog
<1>7. CASE WaitLoop
  <2>1. CASE pstate[target[current]] = "Zombie"
    BY <1>6, <1>7, <2>1 DEF WaitLoop
  <2>2. CASE pstate[target[current]] # "Zombie"
    BY <1>0, <1>7, <2>2, ScheduleTyped DEF WaitLoop, TableType, table, prog
  <2> QED
    BY <2>1, <2>2
<1>8. ASSUME NEW c \in Pid, Wait4(c) PROVE TableType'
  <2>1. CASE pstate[c] = "Zombie"
    BY <1>6, <1>8, <2>1 DEF Wait4
  <2>2. CASE pstate[c] # "Zombie"
    <3>1. /\ pc' = [pc EXCEPT ![current] = "wait"]
          /\ target' = [target EXCEPT ![current] = c]
          /\ picked' = NoCall
          /\ UNCHANGED <<pstate, tree, table, current, machine>>
      BY <1>8, <2>2 DEF Wait4
    <3>2. pc' \in [Pid -> {"user", "block", "wait"}] /\ target' \in [Pid -> Pid \union {NoPid}]
      BY <1>0, <3>1 DEF TableType
    <3> QED
      BY <3>1, <3>2 DEF TableType, table
  <2> QED
    BY <2>1, <2>2
<1>9. ASSUME NEW p \in Pid, Unblock(p) PROVE TableType'
  BY <1>9 DEF Unblock, TableType, table, prog
<1>10. CASE ExitHangs
  BY <1>10 DEF ExitHangs, TableType, table, prog
<1>11. CASE Exit
  <2>1. ExitTree \in SUBSET Pid
    BY <1>0 DEF ExitTree, UnblockTree, Unblocks
  <2>2. Schedule(ExitState, ExitTree) /\ machine' \in {"up", "off", "hung"}
    BY <1>11 DEF Exit, Schedule, TableType
  <2>3. picked' \in Pid \union {NoPid, NoCall}
    BY <1>0, <2>1, <2>2, ScheduleTyped
  <2> QED
    BY <1>11, <2>2, <2>3 DEF Exit, TableType, table, prog
<1>12. CASE UNCHANGED vars
  BY <1>12 DEF vars, TableType
<1> QED
  BY <1>1, <1>2, <1>3, <1>4, <1>5, <1>7, <1>8, <1>9, <1>10, <1>11, <1>12 DEF Next

\* For every size of the process table: the scheduler keeps its variables in their
\* types. The ring scan of allocate_pid starts inside the bitmap, and schedule()
\* hands out PIDs of the table only.
THEOREM SchedulerTypes == Spec => []TypeOK
<1>1. Init => TableType
  <2>1. /\ InitPid \in Pid /\ BootPid \in Pid /\ (InitPid + 1) % MAX_PROCESSES \in Pid
    BY TableAssumption, SMT DEF InitPid, BootPid, Pid
  <2> QED
    BY <2>1 DEF Init, TableType
<1>2. Inv /\ TableType /\ [Next]_vars => TableType'
  BY NextTableType
<1>3. Inv /\ TableType => TypeOK
  BY DEF Inv, QueueInv, TableType, TypeOK
<1> QED
  BY Invariance, <1>1, <1>2, <1>3, PTL DEF Spec

---------------------------------------------------------------------------
(* With the futex calls.                                                   *)

Waiter == [uaddr : Addr \union {Vacant.uaddr}, pid : Pid]

FutexType ==
  /\ waiters \in [Bucket -> [Slot -> Waiter]]
  /\ count \in [Bucket -> Nat]
  /\ wait \in [Pid -> Bucket \union {NoBucket}]

\* Process 0, whose PID marks a free slot, never exists; a process inside
\* futex_wait has not exited.
FInv ==
  /\ Inv
  /\ FutexType
  /\ EntriesExact
  /\ pstate[0] = "Free"
  /\ \A p \in Pid : wait[p] # NoBucket => pstate[p] \in OnCpu

\* A process that can run still can after schedule().
LEMMA ScheduleKeepsLive ==
  ASSUME NEW ps, NEW tr, QueueInv(ps, tr, current), Schedule(ps, tr)
  PROVE  \A q \in Pid : ps[q] \in OnCpu => pstate'[q] \in OnCpu
<1>1. CASE pstate' = ps
  BY <1>1
<1>2. CASE \E p \in tr : Switch(ps, tr, p)
  <2>1. PICK p \in tr : Switch(ps, tr, p)
    BY <1>2
  <2>2. /\ p \in Pid /\ current \in Pid /\ ps \in [Pid -> States]
        /\ "Running" \in States /\ "Ready" \in States
    BY DEF QueueInv, States
  <2> DEFINE mid == SetState(ps, p, "Running")
  <2>3. /\ mid \in [Pid -> States]
        /\ \A q \in Pid : q # p => mid[q] = ps[q]
        /\ mid[p] = ps[p] \/ mid[p] = "Running"
    BY <2>2 DEF SetState
  <2> HIDE DEF mid
  <2>4. pstate' = SetState(mid, current, "Ready")
    BY <2>1 DEF Switch, mid
  <2>5. /\ \A q \in Pid : q # current => pstate'[q] = mid[q]
        /\ pstate'[current] = mid[current] \/ pstate'[current] = "Ready"
    BY <2>2, <2>3, <2>4 DEF SetState
  <2> QED
    BY <2>3, <2>5 DEF OnCpu
<1> QED
  BY <1>1, <1>2 DEF Schedule, PickNothing, PickSomething, PickSelf

\* Only its own exit takes a process that can run out of the game, and no step of
\* the scheduler brings process 0 into being.
StepKeepsLive ==
  /\ \A q \in Pid : q # current /\ pstate[q] \in OnCpu => pstate'[q] \in OnCpu
  /\ pstate[0] = "Free" => pstate'[0] = "Free"

LEMMA ZeroIsPid == 0 \in Pid
BY TableAssumption, SMT DEF Pid

LEMMA ScheduleStepKeepsLive ==
  ASSUME Inv, Schedule(pstate, tree)
  PROVE  /\ StepKeepsLive
         /\ \A q \in Pid : pstate[q] \in OnCpu => pstate'[q] \in OnCpu
<1>1. QueueInv(pstate, tree, current)
  BY DEF Inv
<1> QED
  BY <1>1, ScheduleKeepsQueue, ScheduleKeepsLive, ZeroIsPid DEF StepKeepsLive

LEMMA ReapKeepsLive ==
  ASSUME Inv, NEW c, pstate[c] = "Zombie", Reap(c)
  PROVE  StepKeepsLive
<1>1. pstate \in [Pid -> States]
  BY DEF Inv, QueueInv
<1>2. \A q \in Pid : pstate'[q] = IF q = c THEN "Free" ELSE pstate[q]
  BY <1>1 DEF Reap
<1> QED
  BY <1>2, ZeroIsPid DEF StepKeepsLive, OnCpu

LEMMA BlockKeepsLive ==
  ASSUME Inv, Block
  PROVE  /\ StepKeepsLive
         /\ \A q \in Pid : pstate[q] \in OnCpu => pstate'[q] \in OnCpu
<1>1. QueueInv(pstate, tree, current) /\ pstate' = SetState(pstate, current, "Blocked")
  BY DEF Inv, Block
<1>2. /\ \A q \in Pid : pstate'[q] # "Free" <=> pstate[q] # "Free"
      /\ \A q \in Pid : q # current => pstate'[q] = pstate[q]
      /\ pstate[current] \in OnCpu => pstate'[current] \in OnCpu
  BY <1>1, CurrentStops
<1> QED
  BY <1>2, ZeroIsPid DEF StepKeepsLive

LEMMA UnblockKeepsLive ==
  ASSUME Inv, NEW p \in Pid, Unblock(p)
  PROVE  /\ StepKeepsLive
         /\ \A q \in Pid : pstate[q] \in OnCpu => pstate'[q] \in OnCpu
<1>1. /\ QueueInv(pstate, tree, current) /\ pstate' = UnblockState(pstate, p)
      /\ tree' = UnblockTree(pstate, tree, p)
  BY DEF Inv, Unblock
<1>2. /\ QueueInv(pstate', tree', current)
      /\ \A q \in Pid : pstate'[q] # "Free" <=> pstate[q] # "Free"
      /\ \A q \in Pid : q # current => pstate'[q] = pstate[q]
      /\ pstate[current] \in OnCpu => pstate'[current] \in OnCpu
  BY <1>1, UnblockKeepsQueue, SMT
<1> QED
  BY <1>2, ZeroIsPid DEF StepKeepsLive

LEMMA ExitKeepsLive ==
  ASSUME Inv, ExitHangs \/ Exit
  PROVE  StepKeepsLive
<1>1. /\ QueueInv(ExitState, ExitTree, current)
      /\ \A q \in Pid : ExitState[q] # "Free" <=> pstate[q] # "Free"
      /\ \A q \in Pid : q # current => ExitState[q] = pstate[q]
  BY ExitKeepsQueue DEF Inv
<1>2. CASE ExitHangs
  BY <1>1, <1>2, ZeroIsPid DEF ExitHangs, StepKeepsLive
<1>3. CASE Exit
  <2>1. Schedule(ExitState, ExitTree)
    BY <1>3 DEF Exit, Schedule
  <2>2. /\ \A q \in Pid : ExitState[q] \in OnCpu => pstate'[q] \in OnCpu
        /\ \A q \in Pid : pstate'[q] # "Free" <=> ExitState[q] # "Free"
    BY <1>1, <2>1, ScheduleKeepsLive, ScheduleKeepsQueue
  <2> QED
    BY <1>1, <2>2, ZeroIsPid DEF StepKeepsLive
<1> QED
  BY <1>2, <1>3

LEMMA NextKeepsLive == ASSUME Inv, Next PROVE StepKeepsLive
<1>1. CASE ForkFails
  BY <1>1 DEF ForkFails, StepKeepsLive
<1>2. CASE Fork
  <2>1. PICK i \in Pid \ {0} : pstate' = [pstate EXCEPT ![i] = "Ready"]
    BY <1>2 DEF Fork
  <2>2. pstate \in [Pid -> States]
    BY DEF Inv, QueueInv
  <2>3. \A q \in Pid : pstate'[q] = IF q = i THEN "Ready" ELSE pstate[q]
    BY <2>1, <2>2
  <2> QED
    BY <2>1, <2>3, ZeroIsPid DEF StepKeepsLive, OnCpu
<1>3. CASE Yield \/ BlockReschedule
  BY <1>3, ScheduleStepKeepsLive DEF Yield, BlockReschedule
<1>4. CASE WaitLoop
  BY <1>4, ScheduleStepKeepsLive, ReapKeepsLive DEF WaitLoop
<1>5. CASE \E p \in Pid : Wait4(p)
  <2>1. PICK c \in Pid : Wait4(c)
    BY <1>5
  <2>2. CASE pstate[c] = "Zombie"
    BY <2>1, <2>2, ReapKeepsLive DEF Wait4
  <2>3. CASE pstate[c] # "Zombie"
    BY <2>1, <2>3 DEF Wait4, StepKeepsLive
  <2> QED
    BY <2>2, <2>3
<1>6. CASE \E p \in Pid : Unblock(p)
  BY <1>6, UnblockKeepsLive
<1>7. CASE Block
  BY <1>7, BlockKeepsLive
<1>8. CASE ExitHangs \/ Exit
  BY <1>8, ExitKeepsLive
<1> QED
  BY <1>1, <1>2, <1>3, <1>4, <1>5, <1>6, <1>7, <1>8 DEF Next

LEMMA SlotsFinite ==
  ASSUME NEW b
  PROVE  IsFiniteSet(Occupied(b)) /\ Cardinality(Occupied(b)) \in Nat
<1>1. IsFiniteSet(Slot)
  BY FS_Interval, FutexAssumption, SMT DEF Slot
<1>2. Occupied(b) \in SUBSET Slot
  BY DEF Occupied
<1> QED
  BY <1>1, <1>2, FS_Subset, FS_CardinalityType

\* The slots in gone of bucket b are emptied, which leaves f; the processes in the
\* other slots stay where they are and are still inside their calls.
EntriesGone(b, gone, f) ==
  /\ b \in Bucket /\ gone \in SUBSET Occupied(b) /\ f \in [Slot -> Waiter]
  /\ \A i \in Slot : f[i].pid = IF i \in gone THEN 0 ELSE waiters[b][i].pid
  /\ waiters' = [waiters EXCEPT ![b] = f]
  /\ count' = [count EXCEPT ![b] = @ - Cardinality(gone)]
  /\ \A c \in Bucket : \A i \in Occupied(c) :
       (c = b /\ i \in gone) \/ wait'[waiters[c][i].pid] = c

LEMMA EntriesLeave ==
  ASSUME FutexType, EntriesExact, NEW b, NEW gone, NEW f, EntriesGone(b, gone, f)
  PROVE  EntriesExact' /\ waiters' \in [Bucket -> [Slot -> Waiter]] /\ count' \in [Bucket -> Nat]
<1> USE DEF EntriesGone
<1>1. /\ waiters \in [Bucket -> [Slot -> Waiter]] /\ count \in [Bucket -> Nat]
      /\ waiters' \in [Bucket -> [Slot -> Waiter]]
      /\ \A c \in Bucket : waiters'[c] = IF c = b THEN f ELSE waiters[c]
  BY DEF FutexType
<1>2. \A c \in Bucket : c # b => Occupied(c)' = Occupied(c)
  BY <1>1 DEF Occupied
<1>3. Occupied(b)' = Occupied(b) \ gone
  BY <1>1 DEF Occupied
<1>4. /\ IsFiniteSet(gone) /\ Cardinality(gone) \in Nat
      /\ Cardinality(Occupied(b) \ gone) = Cardinality(Occupied(b)) - Cardinality(gone)
      /\ Cardinality(Occupied(b) \ gone) \in Nat
  <2>1. Occupied(b) \cap gone = gone
    OBVIOUS
  <2>2. IsFiniteSet(Occupied(b)) /\ Cardinality(Occupied(b)) \in Nat
    BY SlotsFinite
  <2>3. IsFiniteSet(gone)
    BY <2>2, FS_Subset
  <2>4. Cardinality(gone) \in Nat
    BY <2>3, FS_CardinalityType
  <2>5. /\ IsFiniteSet(Occupied(b) \ gone)
        /\ Cardinality(Occupied(b) \ gone) = Cardinality(Occupied(b)) - Cardinality(gone)
    BY <2>1, <2>2, FS_Difference
  <2>6. Cardinality(Occupied(b) \ gone) \in Nat
    BY <2>5, FS_CardinalityType
  <2> QED
    BY <2>3, <2>4, <2>5, <2>6
<1>5. \A c \in Bucket : count'[c] = IF c = b THEN count[b] - Cardinality(gone) ELSE count[c]
  BY <1>1
<1>6. \A c \in Bucket : count[c] = Cardinality(Occupied(c))
  BY DEF EntriesExact
<1>7. \A c \in Bucket : count'[c] = Cardinality(Occupied(c)')
  BY <1>2, <1>3, <1>4, <1>5, <1>6
<1>8. count' \in [Bucket -> Nat]
  BY <1>1, <1>4, <1>5, <1>6, SMT
<1>9. \A c \in Bucket : \A i \in Occupied(c)' :
        /\ i \in Occupied(c) /\ ~(c = b /\ i \in gone)
        /\ waiters'[c][i].pid = waiters[c][i].pid
  <2>1. Occupied(b) \subseteq Slot
    BY DEF Occupied
  <2> QED
    BY <1>1, <1>2, <1>3, <2>1
<1>10. \A c \in Bucket : \A i \in Occupied(c)' : wait'[waiters'[c][i].pid] = c
  BY <1>9, SMT
<1>11. \A c \in Bucket : \A i, j \in Occupied(c)' :
         waiters'[c][i].pid = waiters'[c][j].pid => i = j
  BY <1>9, SMT DEF EntriesExact
<1> QED
  BY <1>1, <1>7, <1>8, <1>10, <1>11 DEF EntriesExact

\* The entries of other processes than the caller belong to processes that are
\* Ready already: a wake-up finds nobody to unblock.
LEMMA NobodyToUnblock ==
  ASSUME FInv, InUser, NEW b \in Bucket, NEW S \in SUBSET Occupied(b), UnblockAll(b, S)
  PROVE  UNCHANGED vars
<1>1. /\ waiters \in [Bucket -> [Slot -> Waiter]] /\ wait \in [Pid -> Bucket \union {NoBucket}]
      /\ pstate \in [Pid -> States]
  BY DEF FInv, FutexType, Inv, QueueInv
<1>2. \A i \in S : waiters[b][i].pid \in Pid /\ wait[waiters[b][i].pid] = b
  <2>1. \A i \in S : i \in Slot /\ i \in Occupied(b)
    BY DEF Occupied
  <2>2. \A i \in S : wait[waiters[b][i].pid] = b
    BY <2>1 DEF FInv, EntriesExact
  <2>3. \A i \in S : waiters[b][i] \in Waiter
    BY <1>1, <2>1
  <2> QED
    BY <2>2, <2>3 DEF Waiter
<1>3. b # NoBucket
  BY FutexAssumption, SMT DEF Bucket, NoBucket
<1>4. \A i \in S : waiters[b][i].pid # current
  BY <1>2, <1>3 DEF InUser
<1>5. \A i \in S : ~Unblocks(pstate, waiters[b][i].pid)
  BY <1>2, <1>4 DEF FInv, Inv, QueueInv, Unblocks
<1>6. {p \in {waiters[b][i].pid : i \in S} : Unblocks(pstate, p)} = {}
  BY <1>5
<1>7. /\ pstate' = [p \in Pid |-> pstate[p]] /\ tree' = tree /\ picked' = picked
      /\ UNCHANGED <<table, current, prog, machine>>
  BY <1>6 DEF UnblockAll
<1>8. pstate' = pstate
  BY <1>1, <1>7
<1> QED
  BY <1>7, <1>8 DEF vars, table, prog

LEMMA BucketFacts ==
  /\ NoBucket \notin Bucket
  /\ \A a \in Addr : hash_uaddr[a] \in Bucket
  /\ Vacant \in Waiter /\ Vacant.pid = 0
BY FutexAssumption, ZeroIsPid, SMT DEF Bucket, NoBucket, Vacant, Waiter

\* FUTEX_WAIT: to the scheduler, block().
LEMMA FutexWaitStep ==
  ASSUME FInv, NEW a \in Addr, FutexWait(a)
  PROVE  FInv' /\ Block
<1> DEFINE b == hash_uaddr[a]
<1>1. b \in Bucket /\ b # NoBucket
  BY BucketFacts
<1>2. Block
  BY DEF FutexWait, Block, InUser
<1>3. PICK i \in Slot :
        /\ i \notin Occupied(b)
        /\ waiters' = [waiters EXCEPT ![b][i] = [uaddr |-> a, pid |-> current]]
  BY DEF FutexWait, push
<1>4. /\ count' = [count EXCEPT ![b] = @ + 1]
      /\ wait' = [wait EXCEPT ![current] = b]
      /\ wait[current] = NoBucket /\ machine = "up"
  BY DEF FutexWait, InUser, At
<1> HIDE DEF b
<1>5. /\ waiters \in [Bucket -> [Slot -> Waiter]] /\ count \in [Bucket -> Nat]
      /\ wait \in [Pid -> Bucket \union {NoBucket}]
  BY DEF FInv, FutexType
<1>6. current \in Pid /\ current # 0 /\ pstate[current] \in OnCpu
  BY <1>4 DEF FInv, Inv, QueueInv, OnCpu
<1>7. [uaddr |-> a, pid |-> current] \in Waiter
  BY <1>6 DEF Waiter
<1>8. FutexType'
  BY <1>1, <1>3, <1>4, <1>5, <1>6, <1>7, SMT DEF FutexType
<1>9. /\ \A c \in Bucket : c # b => waiters'[c] = waiters[c]
      /\ \A j \in Slot : j # i => waiters'[b][j] = waiters[b][j]
      /\ waiters'[b][i].pid = current
  BY <1>1, <1>3, <1>5
<1>10. /\ \A c \in Bucket : c # b => Occupied(c)' = Occupied(c)
       /\ Occupied(b)' = Occupied(b) \union {i}
  BY <1>6, <1>9 DEF Occupied
<1>11. \A c \in Bucket : count'[c] = Cardinality(Occupied(c)')
  <2>1. Cardinality(Occupied(b) \union {i}) = Cardinality(Occupied(b)) + 1
    BY <1>3, SlotsFinite, FS_AddElement
  <2>2. \A c \in Bucket : count[c] = Cardinality(Occupied(c))
    BY DEF FInv, EntriesExact
  <2>3. \A c \in Bucket : count'[c] = IF c = b THEN count[b] + 1 ELSE count[c]
    BY <1>4, <1>5
  <2> QED
    BY <1>1, <1>10, <2>1, <2>2, <2>3
<1>12. \A c \in Bucket : \A j \in Occupied(c) :
         /\ waiters[c][j].pid \in Pid /\ waiters[c][j].pid # current
         /\ wait[waiters[c][j].pid] = c
  <2>1. \A c \in Bucket : \A j \in Occupied(c) : wait[waiters[c][j].pid] = c
    BY DEF FInv, EntriesExact
  <2>2. \A c \in Bucket : \A j \in Occupied(c) : waiters[c][j] \in Waiter
    BY <1>5 DEF Occupied
  <2>3. \A c \in Bucket : c # NoBucket
    BY BucketFacts
  <2> QED
    BY <1>4, <2>1, <2>2, <2>3 DEF Waiter
<1>13. \A c \in Bucket : \A j \in Occupied(c)' :
         \/ j \in Occupied(c) /\ waiters'[c][j].pid = waiters[c][j].pid
         \/ c = b /\ j = i /\ waiters'[c][j].pid = current
  BY <1>3, <1>9, <1>10 DEF Occupied
<1>14. \A c \in Bucket : \A j \in Occupied(c)' : wait'[waiters'[c][j].pid] = c
  BY <1>4, <1>5, <1>6, <1>12, <1>13, SMT
<1>15. \A c \in Bucket : \A j, k \in Occupied(c)' :
         waiters'[c][j].pid = waiters'[c][k].pid => j = k
  BY <1>12, <1>13, SMT DEF FInv, EntriesExact
<1>16. EntriesExact'
  BY <1>11, <1>14, <1>15 DEF EntriesExact
<1>17. Inv' /\ pstate'[0] = "Free" /\ \A q \in Pid : pstate[q] \in OnCpu => pstate'[q] \in OnCpu
  BY <1>2, BlockStep, BlockKeepsLive DEF FInv, StepOK, StepKeepsLive
<1>18. \A p \in Pid : wait'[p] # NoBucket => pstate'[p] \in OnCpu
  BY <1>4, <1>5, <1>6, <1>17 DEF FInv
<1> QED
  BY <1>2, <1>8, <1>16, <1>17, <1>18 DEF FInv

\* A step that leaves the scheduler alone keeps its part of the invariant.
LEMMA QuietStep ==
  ASSUME FInv, UNCHANGED vars
  PROVE  Inv' /\ pstate'[0] = "Free"
BY NextStep DEF FInv, vars

\* The return from futex_wait.
LEMMA FutexReturnStep ==
  ASSUME FInv, FutexReturn
  PROVE  FInv' /\ UNCHANGED vars
<1>1. /\ UNCHANGED vars /\ wait[current] # NoBucket
      /\ wait' = [wait EXCEPT ![current] = NoBucket]
  BY DEF FutexReturn
<1>2. /\ waiters \in [Bucket -> [Slot -> Waiter]] /\ count \in [Bucket -> Nat]
      /\ wait \in [Pid -> Bucket \union {NoBucket}] /\ current \in Pid
      /\ FutexType /\ EntriesExact
  BY DEF FInv, FutexType, Inv, QueueInv
<1> DEFINE b == wait[current]
           mine == {i \in Slot : waiters[b][i].pid = current}
           gone == {i \in mine : \A j \in mine : i <= j}
           f == [i \in Slot |-> IF i \in gone THEN Vacant ELSE waiters[b][i]]
<1>3. b \in Bucket
  BY <1>1, <1>2
<1>4. current # 0
  BY <1>1, <1>2 DEF FInv, OnCpu
<1>5. mine \subseteq Occupied(b)
  BY <1>4 DEF Occupied
<1>6. /\ waiters' = [waiters EXCEPT ![b] = f]
      /\ count' = [count EXCEPT ![b] = @ - Cardinality(gone)]
  BY <1>2, <1>3 DEF FutexReturn, Vacate
<1>7. gone = mine
  <2>1. \A i, j \in mine : i = j
    BY <1>3, <1>5, SMT DEF FInv, EntriesExact
  <2>2. \A i \in Slot : i <= i
    BY FutexAssumption, SMT DEF Slot
  <2> QED
    BY <2>1, <2>2
<1>8. /\ f \in [Slot -> Waiter]
      /\ \A i \in Slot : f[i].pid = IF i \in gone THEN 0 ELSE waiters[b][i].pid
  BY <1>2, <1>3, BucketFacts, SMT
<1>9. \A c \in Bucket : \A i \in Occupied(c) :
        (c = b /\ i \in gone) \/ wait'[waiters[c][i].pid] = c
  <2>1. \A c \in Bucket : \A i \in Occupied(c) : wait[waiters[c][i].pid] = c
    BY <1>2 DEF EntriesExact
  <2>2. \A c \in Bucket : \A i \in Occupied(c) : i \in Slot /\ waiters[c][i] \in Waiter
    BY <1>2 DEF Occupied
  <2>3. \A c \in Bucket : \A i \in Occupied(c) : waiters[c][i].pid \in Pid
    BY <2>2 DEF Waiter
  <2>4. SUFFICES ASSUME NEW c \in Bucket, NEW i \in Occupied(c), ~(c = b /\ i \in gone)
                 PROVE  wait'[waiters[c][i].pid] = c
    OBVIOUS
  <2>5. waiters[c][i].pid # current
    BY <1>7, <2>1, <2>2, <2>4
  <2> QED
    BY <1>1, <1>2, <2>1, <2>3, <2>5
<1>10. gone \in SUBSET Occupied(b)
  BY <1>5
<1> HIDE DEF b, mine, gone, f
<1>11. EntriesExact' /\ waiters' \in [Bucket -> [Slot -> Waiter]] /\ count' \in [Bucket -> Nat]
  <2>1. EntriesGone(b, gone, f)
    BY <1>3, <1>6, <1>8, <1>9, <1>10 DEF EntriesGone
  <2> QED
    BY <1>2, <2>1, EntriesLeave
<1>12. wait' \in [Pid -> Bucket \union {NoBucket}]
  BY <1>1, <1>2
<1>13. \A p \in Pid : wait'[p] # NoBucket => pstate'[p] \in OnCpu
  BY <1>1, <1>2 DEF FInv, vars
<1> QED
  BY <1>1, <1>11, <1>12, <1>13, QuietStep DEF FInv, FutexType

\* FUTEX_WAKE and FUTEX_REQUEUE: the slots in woken are emptied, those in moved
\* get another address.
LEMMA WakeStep ==
  ASSUME FInv, InUser, NEW b \in Bucket, NEW woken \in SUBSET Occupied(b),
         UnblockAll(b, woken), EntriesGone(b, woken, waiters'[b])
  PROVE  FInv' /\ UNCHANGED vars
<1>1. UNCHANGED vars
  BY NobodyToUnblock
<1>2. wait' = wait /\ pstate' = pstate
  BY <1>1 DEF UnblockAll, vars
<1>3. EntriesExact' /\ waiters' \in [Bucket -> [Slot -> Waiter]] /\ count' \in [Bucket -> Nat]
  BY EntriesLeave DEF FInv
<1> QED
  BY <1>1, <1>2, <1>3, QuietStep DEF FInv, FutexType

LEMMA FutexWakeStep ==
  ASSUME FInv, NEW a \in Addr, NEW n, FutexWake(a, n)
  PROVE  FInv' /\ UNCHANGED vars
<1> DEFINE b == hash_uaddr[a]
           woken == {i \in Matching(b, a) : Rank(Matching(b, a), i) < n}
           f == [i \in Slot |-> IF i \in woken THEN Vacant ELSE waiters[b][i]]
<1>1. b \in Bucket /\ woken \in SUBSET Occupied(b)
  BY BucketFacts DEF Matching
<1>2. /\ waiters \in [Bucket -> [Slot -> Waiter]]
      /\ \A c \in Bucket : \A i \in Occupied(c) : wait[waiters[c][i].pid] = c
  BY DEF FInv, FutexType, EntriesExact
<1>3. InUser /\ UnblockAll(b, woken) /\ Vacate(b, woken)
  BY DEF FutexWake
<1> HIDE DEF woken
<1>4. /\ waiters' = [waiters EXCEPT ![b] = f]
      /\ count' = [count EXCEPT ![b] = @ - Cardinality(woken)]
      /\ wait' = wait
  BY <1>1, <1>2, <1>3 DEF Vacate, UnblockAll
<1>5. waiters'[b] = f
  BY <1>1, <1>2, <1>4
<1>6. /\ f \in [Slot -> Waiter]
      /\ \A i \in Slot : f[i].pid = IF i \in woken THEN 0 ELSE waiters[b][i].pid
  BY <1>1, <1>2, BucketFacts, SMT
<1>7. \A c \in Bucket : \A i \in Occupied(c) :
        (c = b /\ i \in woken) \/ wait'[waiters[c][i].pid] = c
  BY <1>2, <1>4
<1> HIDE DEF b, f
<1>8. EntriesGone(b, woken, waiters'[b])
  BY <1>1, <1>4, <1>5, <1>6, <1>7 DEF EntriesGone
<1> QED
  BY <1>1, <1>3, <1>8, WakeStep

LEMMA FutexRequeueStep ==
  ASSUME FInv, NEW a \in Addr, NEW w, NEW a2 \in Addr, NEW r, FutexRequeue(a, w, a2, r)
  PROVE  FInv' /\ UNCHANGED vars
<1> DEFINE b == hash_uaddr[a]
           woken == {i \in Matching(b, a) : Rank(Matching(b, a), i) < w}
           moved == {i \in Matching(b, a) \ woken : Rank(Matching(b, a), i) < w + r}
           f == [i \in Slot |-> IF i \in woken THEN Vacant
                                ELSE IF i \in moved THEN [waiters[b][i] EXCEPT !.uaddr = a2]
                                ELSE waiters[b][i]]
<1>1. b \in Bucket /\ woken \in SUBSET Occupied(b)
  BY BucketFacts DEF Matching
<1>2. /\ waiters \in [Bucket -> [Slot -> Waiter]]
      /\ \A c \in Bucket : \A i \in Occupied(c) : wait[waiters[c][i].pid] = c
  BY DEF FInv, FutexType, EntriesExact
<1>3. /\ InUser /\ UnblockAll(b, woken)
      /\ count' = [count EXCEPT ![b] = @ - Cardinality(woken)]
      /\ waiters' = [waiters EXCEPT ![b] =
           [i \in Slot |-> IF i \in woken THEN Vacant
                           ELSE IF i \in moved THEN [@[i] EXCEPT !.uaddr = a2] ELSE @[i]]]
  BY DEF FutexRequeue
<1> HIDE DEF woken, moved
<1>4. /\ waiters' = [waiters EXCEPT ![b] = f]
      /\ wait' = wait
  BY <1>1, <1>2, <1>3 DEF UnblockAll
<1>5. waiters'[b] = f
  BY <1>1, <1>2, <1>4
<1>6. \A i \in Slot : /\ waiters[b][i] \in Waiter
                      /\ [waiters[b][i] EXCEPT !.uaddr = a2] \in Waiter
                      /\ [waiters[b][i] EXCEPT !.uaddr = a2].pid = waiters[b][i].pid
  BY <1>1, <1>2, SMT DEF Waiter
<1>7. /\ f \in [Slot -> Waiter]
      /\ \A i \in Slot : f[i].pid = IF i \in woken THEN 0 ELSE waiters[b][i].pid
  BY <1>6, BucketFacts
<1>8. \A c \in Bucket : \A i \in Occupied(c) :
        (c = b /\ i \in woken) \/ wait'[waiters[c][i].pid] = c
  BY <1>2, <1>4
<1> HIDE DEF b, f
<1>9. EntriesGone(b, woken, waiters'[b])
  BY <1>1, <1>3, <1>4, <1>5, <1>7, <1>8 DEF EntriesGone
<1> QED
  BY <1>1, <1>3, <1>9, WakeStep

\* Every step with the futex calls keeps the invariant and is a step of the
\* scheduler, or leaves it alone.
LEMMA FNextStep == FInv /\ [FNext]_fvars => FInv' /\ [Next]_vars
<1> SUFFICES ASSUME FInv, [FNext]_fvars PROVE FInv' /\ [Next]_vars
  OBVIOUS
<1>1. CASE OtherStep
  <2>1. futex' = futex /\ Next
    BY <1>1 DEF OtherStep, Next
  <2>2. Inv' /\ StepKeepsLive
    BY <2>1, NextStep, NextKeepsLive DEF FInv
  <2>3. waiters' = waiters /\ count' = count /\ wait' = wait
    BY <2>1 DEF futex
  <2>4. FutexType' /\ EntriesExact'
    BY <2>3 DEF FInv, FutexType, EntriesExact, Occupied
  <2>5. pstate'[0] = "Free"
    BY <2>2 DEF FInv, StepKeepsLive
  <2>6. \A p \in Pid : wait'[p] # NoBucket => pstate'[p] \in OnCpu
    <3>1. CASE wait[current] = NoBucket
      BY <2>2, <2>3, <3>1 DEF FInv, StepKeepsLive
    <3>2. CASE BlockReschedule
      BY <2>3, <3>2, ScheduleStepKeepsLive DEF FInv, BlockReschedule
    <3>3. CASE \E p \in Pid : Unblock(p)
      BY <2>3, <3>3, UnblockKeepsLive DEF FInv
    <3> QED
      BY <1>1, <3>1, <3>2, <3>3 DEF OtherStep
  <2> QED
    BY <2>1, <2>2, <2>4, <2>5, <2>6 DEF FInv
<1>2. CASE FutexReturn
  BY <1>2, FutexReturnStep
<1>3. CASE \E a \in Addr : FutexWait(a)
  BY <1>3, FutexWaitStep DEF Next
<1>4. CASE \E a \in Addr : \E n \in 1 .. MaxCount : FutexWake(a, n)
  BY <1>4, FutexWakeStep
<1>5. CASE \E a \in Addr : \E w, r \in 0 .. MaxCount, a2 \in Addr : FutexRequeue(a, w, a2, r)
  BY <1>5, FutexRequeueStep
<1>6. CASE UNCHANGED fvars
  <2>1. UNCHANGED vars /\ waiters' = waiters /\ count' = count /\ wait' = wait
    BY <1>6 DEF fvars, vars
  <2>2. pstate' = pstate
    BY <2>1 DEF vars
  <2> QED
    BY <2>1, <2>2, QuietStep DEF FInv, FutexType, EntriesExact, Occupied
<1> QED
  BY <1>1, <1>2, <1>3, <1>4, <1>5, <1>6 DEF FNext

LEMMA FInitInv == FInit => FInv
<1> SUFFICES ASSUME FInit PROVE FInv
  OBVIOUS
<1>1. Inv
  BY InitInv DEF FInit
<1>2. FutexType
  BY BucketFacts DEF FInit, FutexType
<1>3. \A b \in Bucket : Occupied(b) = {}
  BY BucketFacts DEF FInit, Occupied
<1>4. EntriesExact
  BY <1>3, FS_EmptySet DEF FInit, EntriesExact
<1>5. pstate[0] = "Free"
  BY ZeroIsPid, SMT DEF FInit, Init, InitPid, BootPid
<1> QED
  BY <1>1, <1>2, <1>4, <1>5 DEF FInv, FInit

LEMMA FutexInvariance == FSpec => []FInv
BY FInitInv, FNextStep, PTL DEF FSpec

\* For any number of processes, futex words, buckets and slots: the hash table
\* holds the processes inside futex_wait that nobody has woken, each once and in
\* the bucket it will look in, and its counts are right.
THEOREM FutexTableExact == FSpec => []EntriesExact
<1>1. FInv => EntriesExact
  BY DEF FInv
<1> QED
  BY FutexInvariance, <1>1, PTL

\* The scheduler with the futex calls implements the scheduler: what the theorems
\* above say of processes and run queue holds with futexes as well.
THEOREM FutexKeepsScheduler == FSpec => OnlySchedulerSteps
<1>1. FInit => Init
  BY DEF FInit
<1>2. FInv /\ [FNext]_fvars => [Next]_vars
  BY FNextStep
<1> QED
  BY <1>1, <1>2, FutexInvariance, PTL DEF FSpec, Spec, OnlySchedulerSteps
=============================================================================
