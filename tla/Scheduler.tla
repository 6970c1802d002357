----------------------------- MODULE Scheduler -----------------------------
(***************************************************************************)
(* The process scheduler and the process table on one CPU:                 *)
(* framework/proc/scheduler.rs (schedule, block, unblock, exit),           *)
(* services/proc/sched_policy.rs (the CFS tree), framework/proc/process.rs *)
(* (the table, the PID bitmap, the state machine) and the calls that drive *)
(* them: fork, wait4, sched_yield, futex/sleep blocking, exit.             *)
(*                                                                         *)
(* Every process is SCHED_NORMAL: nothing calls the functions that put a   *)
(* process in the deadline or real-time queues.  A key of the CFS tree is  *)
(* (vruntime, pid); vruntime is 0 for every process, because only          *)
(* Scheduler::tick advances it and nothing calls that function (the timer  *)
(* calls SchedulerEx::tick).  The tree is therefore a set of PIDs ordered  *)
(* by PID, and nr_running, which only load balancing lowers, never returns *)
(* to zero once the first process has been added.                          *)
(*                                                                         *)
(* The kernel is not preempted at process level, so the running process    *)
(* moves from one call of the scheduler to the next in one step; wake-ups  *)
(* from interrupt handlers come at any point between two steps.            *)
(***************************************************************************)
EXTENDS Naturals

CONSTANT MAX_PROCESSES   \* slots of the process table

ASSUME TableAssumption == MAX_PROCESSES \in Nat /\ MAX_PROCESSES > 4

Pid    == 0 .. MAX_PROCESSES - 1
NoPid  == MAX_PROCESSES          \* None
NoCall == MAX_PROCESSES + 1      \* schedule() was not called in the last step

BootPid == 2   \* the kernel's own entry, made by Scheduler::init
InitPid == 3   \* the first user process

\* "Free" is an empty slot of the table.  Terminated is stored and the slot
\* emptied in one go, and Frozen is reached only through the freezer.
States == {"Free", "Created", "Ready", "Running", "Blocked", "Zombie"}

VARIABLES
  pstate,       \* state of each PID's process
  parent,       \* Process::parent
  children,     \* Process::children: grows with every fork, reaping leaves it alone
  tree,         \* the CFS tree
  bitmap,       \* allocated PIDs
  next_search,  \* where the ring scan for a PID starts
  current,      \* the process the CPU is executing
  pc,           \* where each process is: in user code or inside a system call
  target,       \* the child a process in wait4 waits for
  picked,       \* result of the schedule() call of the last step
  machine       \* "up", "off" (powered off by exit) or "hung" (spinning on a lock)

table == <<parent, children, bitmap, next_search>>
prog  == <<pc, target>>
vars  == <<pstate, parent, children, tree, bitmap, next_search, current, pc,
           target, picked, machine>>

\* Scheduler::init creates the kernel entry, whose move to Running is refused
\* because it is only Created; the boot code then adds the first user process
\* to the tree and makes it current without taking it out again.
Init ==
  /\ pstate = [p \in Pid |-> IF p = InitPid THEN "Ready"
                             ELSE IF p = BootPid THEN "Created" ELSE "Free"]
  /\ parent = [p \in Pid |-> NoPid]
  /\ children = [p \in Pid |-> {}]
  /\ tree = {InitPid}
  /\ bitmap = {BootPid, InitPid}
  /\ next_search = (InitPid + 1) % MAX_PROCESSES
  /\ current = InitPid
  /\ pc = [p \in Pid |-> "user"]
  /\ target = [p \in Pid |-> NoPid]
  /\ picked = NoCall
  /\ machine = "up"

---------------------------------------------------------------------------
(* The state machine of a process and the CFS tree.                        *)

Legal == {<<"Created", "Ready">>, <<"Ready", "Running">>, <<"Running", "Ready">>,
          <<"Running", "Blocked">>, <<"Running", "Zombie">>,
          <<"Blocked", "Ready">>, <<"Blocked", "Zombie">>}

\* Faulty variant: every change is made.
SetStateUnchecked(ps, p, s) == [ps EXCEPT ![p] = s]

\* An illegal change is refused, and every caller drops the error.
SetState(ps, p, s) ==
  IF <<ps[p], s>> \in Legal THEN [ps EXCEPT ![p] = s] ELSE ps

\* Faulty variant: exited processes are not told apart.
SchedulableNoZombieTest(ps, p) == ps[p] \notin {"Free", "Blocked"}

Schedulable(ps, p) == ps[p] \notin {"Free", "Blocked", "Zombie"}

Leftmost(tr, p) == p \in tr /\ \A q \in tr : p <= q

\* unblock: only a blocked process becomes ready and enters the tree.
Unblocks(ps, p) == p \in Pid /\ ps[p] = "Blocked"
UnblockState(ps, p) == IF Unblocks(ps, p) THEN SetState(ps, p, "Ready") ELSE ps
UnblockTree(ps, tr, p) == IF Unblocks(ps, p) THEN tr \union {p} ELSE tr

---------------------------------------------------------------------------
(* schedule(), called with the states ps and the tree tr.                  *)

\* Nothing in the tree, or a leftmost entry that cannot run: pick_cfs_task
\* puts the entry back and gives up.
PickNothing(ps, tr) ==
  /\ \/ tr = {}
     \/ \E p \in tr : Leftmost(tr, p) /\ ~Schedulable(ps, p)
  /\ pstate' = ps
  /\ tree' = tr
  /\ picked' = NoPid
  /\ UNCHANGED current

\* The leftmost entry is the process already running: it leaves the tree.
PickSelf(ps, tr) ==
  /\ Leftmost(tr, current)
  /\ Schedulable(ps, current)
  /\ pstate' = ps
  /\ tree' = tr \ {current}
  /\ picked' = current
  /\ UNCHANGED current

\* Faulty variant: a blocked process is set Ready and not put back.
SwitchDroppingPrev(ps, tr, p) ==
  /\ Leftmost(tr, p)
  /\ p # current
  /\ Schedulable(ps, p)
  /\ pstate' = SetState(SetState(ps, p, "Running"), current, "Ready")
  /\ tree' = IF ps[current] = "Blocked" THEN tr \ {p}
             ELSE (tr \ {p}) \union {current}
  /\ picked' = p
  /\ current' = p

\* The previous process goes back into the tree and is set Ready whatever it
\* was: the state machine refuses this for a zombie, not for a blocked one.
Switch(ps, tr, p) ==
  /\ Leftmost(tr, p)
  /\ p # current
  /\ Schedulable(ps, p)
  /\ pstate' = SetState(SetState(ps, p, "Running"), current, "Ready")
  /\ tree' = (tr \ {p}) \union {current}
  /\ picked' = p
  /\ current' = p

PickSomething(ps, tr) == PickSelf(ps, tr) \/ \E p \in tr : Switch(ps, tr, p)

Schedule(ps, tr) == PickNothing(ps, tr) \/ PickSomething(ps, tr)

---------------------------------------------------------------------------
(* System calls of the running process.                                    *)

At(label) == machine = "up" /\ pc[current] = label

\* A ring scan from next_search for a PID whose bit is clear.
Distance(i) == (i + MAX_PROCESSES - next_search) % MAX_PROCESSES

\* Faulty variant: the start of the next scan does not wrap.
AllocateWithoutWrap(i) ==
  /\ i \in Pid \ bitmap
  /\ \A j \in Pid \ bitmap : Distance(i) <= Distance(j)
  /\ bitmap' = bitmap \union {i}
  /\ next_search' = i + 1

allocate_pid(i) ==
  /\ i \in Pid \ bitmap
  /\ \A j \in Pid \ bitmap : Distance(i) <= Distance(j)
  /\ bitmap' = bitmap \union {i}
  /\ next_search' = (i + 1) % MAX_PROCESSES

\* fork without a kernel stack, or with PID 0, which the caller reads as a
\* failure: the bit stays set and nothing else happens.
ForkFails ==
  /\ At("user")
  /\ \E i \in Pid : allocate_pid(i)
  /\ picked' = NoCall
  /\ UNCHANGED <<pstate, parent, children, tree, current, prog, machine>>

Fork ==
  /\ At("user")
  /\ \E i \in Pid \ {0} :
       /\ allocate_pid(i)
       /\ pstate' = [pstate EXCEPT ![i] = "Ready"]
       /\ parent' = [parent EXCEPT ![i] = current]
       /\ children' = [children EXCEPT ![i] = {}, ![current] = @ \union {i}]
       /\ tree' = tree \union {i}
       /\ pc' = [pc EXCEPT ![i] = "user"]
  /\ picked' = NoCall
  /\ UNCHANGED <<current, target, machine>>

Yield ==
  /\ At("user")
  /\ Schedule(pstate, tree)
  /\ UNCHANGED <<table, prog, machine>>

\* block() alone (the IPC wait queues), or followed by schedule() (futex
\* wait, sleep).
Block ==
  /\ At("user")
  /\ pstate' = SetState(pstate, current, "Blocked")
  /\ \E next \in {"user", "block"} : pc' = [pc EXCEPT ![current] = next]
  /\ picked' = NoCall
  /\ UNCHANGED <<tree, table, current, target, machine>>

BlockReschedule ==
  /\ At("block")
  /\ Schedule(pstate, tree)
  /\ pc' = [pc EXCEPT ![current] = "user"]
  /\ UNCHANGED <<table, target, machine>>

\* A wake-up of p: by the running process or by an interrupt handler.
Unblock(p) ==
  /\ machine = "up"
  /\ Unblocks(pstate, p)
  /\ pstate' = UnblockState(pstate, p)
  /\ tree' = UnblockTree(pstate, tree, p)
  /\ picked' = NoCall
  /\ UNCHANGED <<table, current, prog, machine>>

\* Faulty variant: the PID is given back and the process stays in the table.
ReapKeepsSlot(c) ==
  /\ bitmap' = bitmap \ {c}
  /\ picked' = NoCall
  /\ UNCHANGED <<pstate, parent, children, tree, next_search, current, machine>>

\* remove_and_free: the slot and the bit, not the tree, not the parent's list.
Reap(c) ==
  /\ pstate' = [pstate EXCEPT ![c] = "Free"]
  /\ bitmap' = bitmap \ {c}
  /\ picked' = NoCall
  /\ UNCHANGED <<parent, children, tree, next_search, current, machine>>

\* find_waitable_child: an entry of the list that still has a process, the
\* caller's child or whoever has its PID by now.
Waitable(c) == c \in children[current] /\ pstate[c] # "Free"

Wait4(c) ==
  /\ At("user")
  /\ Waitable(c)
  /\ \/ pstate[c] = "Zombie" /\ Reap(c) /\ UNCHANGED prog
     \/ /\ pstate[c] # "Zombie"
        /\ pc' = [pc EXCEPT ![current] = "wait"]
        /\ target' = [target EXCEPT ![current] = c]
        /\ picked' = NoCall
        /\ UNCHANGED <<pstate, tree, table, current, machine>>

\* One turn of wait4's loop, which ends only on a zombie.
WaitLoop ==
  /\ At("wait")
  /\ \/ /\ pstate[target[current]] = "Zombie"
        /\ Reap(target[current])
        /\ pc' = [pc EXCEPT ![current] = "user"]
        /\ UNCHANGED target
     \/ /\ pstate[target[current]] # "Zombie"
        /\ Schedule(pstate, tree)
        /\ UNCHANGED <<table, prog, machine>>

\* exit, up to the call of schedule().
ExitState == UnblockState(SetState(pstate, current, "Zombie"), parent[current])
ExitTree  == UnblockTree(SetState(pstate, current, "Zombie"), tree, parent[current])

\* The list of children is walked inside with_process, which holds the table
\* lock, with calls that take it again: the first entry never returns.
ExitHangs ==
  /\ At("user")
  /\ children[current] # {}
  /\ pstate' = ExitState
  /\ tree' = ExitTree
  /\ machine' = "hung"
  /\ picked' = NoCall
  /\ UNCHANGED <<table, current, prog>>

\* When schedule() finds nothing the machine is powered off.  A process whose
\* move to Zombie was refused goes on in user code when it is picked again.
Exit ==
  /\ At("user")
  /\ children[current] = {}
  /\ \/ PickNothing(ExitState, ExitTree) /\ machine' = "off"
     \/ PickSomething(ExitState, ExitTree) /\ UNCHANGED machine
  /\ UNCHANGED <<table, prog>>

Next ==
  \/ ForkFails \/ Fork \/ Yield \/ Block \/ BlockReschedule
  \/ WaitLoop \/ ExitHangs \/ Exit
  \/ \E p \in Pid : Unblock(p) \/ Wait4(p)

Spec == Init /\ [][Next]_vars

---------------------------------------------------------------------------
(* Properties.                                                             *)

\* Every variable has its type; the scan for a PID starts inside the table.
TypeOK ==
  /\ pstate \in [Pid -> States]
  /\ parent \in [Pid -> Pid \union {NoPid}]
  /\ children \in [Pid -> SUBSET Pid]
  /\ tree \subseteq Pid
  /\ bitmap \subseteq Pid
  /\ next_search \in Pid
  /\ current \in Pid
  /\ pc \in [Pid -> {"user", "block", "wait"}]
  /\ target \in [Pid -> Pid \union {NoPid}]
  /\ picked \in Pid \union {NoPid, NoCall}
  /\ machine \in {"up", "off", "hung"}

\* No process is lost: whatever sequence of forks, blocks, wake-ups, yields
\* and exits the scheduler goes through, a Ready process is in the run queue
\* or on the CPU (the re-insertions of schedule() and pick_cfs_task).
ReadyIsQueued ==
  \A p \in Pid : pstate[p] = "Ready" => p \in tree \/ p = current

\* The table and the PID bitmap agree: a process in the table has its PID's
\* bit set, so allocate_pid never hands out the PID of a process that a
\* parent has not reaped.
TableWithinBitmap == \A p \in Pid : pstate[p] # "Free" => p \in bitmap

\* schedule() never switches to an exited, blocked or reaped process, although
\* exits and reaping leave their entries in the tree.
SwitchesToLive ==
  [][current' # current => pstate[current'] \in {"Ready", "Running"}]_vars

\* exit is final.  The schedule() that exit ends with sets the process it leaves
\* Ready without looking at its state, and still leaves a zombie; from then on
\* the process stays one until it is reaped.  (A current process still in state
\* Ready cannot become a zombie at all: the state machine refuses it.)
ZombieIsFinal ==
  [][/\ Exit /\ pstate[current] # "Ready" => pstate'[current] = "Zombie"
     /\ \A p \in Pid : pstate[p] = "Zombie" => pstate'[p] \in {"Zombie", "Free"}]_vars

\* schedule() returns None only when nothing in the run queue can run.
ScheduleFindsRunnable ==
  picked = NoPid => \A p \in tree : ~Schedulable(pstate, p)
=============================================================================
