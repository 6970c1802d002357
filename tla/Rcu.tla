-------------------------------- MODULE Rcu --------------------------------
(***************************************************************************)
(* Read-copy-update of src/kernel/framework/sync/rcu.rs: per-CPU nesting   *)
(* counts and grace-period states, synchronize_rcu, call_rcu, and the      *)
(* quiescent-state hook that the scheduler calls at a context switch.      *)
(*                                                                         *)
(* One protected pointer whose successive targets are numbered.  The       *)
(* client is the documented one: readers dereference inside a read         *)
(* section; an updater replaces the pointer and reclaims the old target    *)
(* after synchronize_rcu, or through call_rcu.  All CPUs are online.       *)
(***************************************************************************)
EXTENDS RcuClients

VARIABLES nesting,   \* PerCpuRcu::nesting
          gp_state,  \* PerCpuRcu::gp_state
          callbacks, \* PerCpuRcu::callbacks: the targets waiting to be freed
          pointer,   \* the target of the protected pointer
          freed,     \* targets reclaimed
          ref,       \* targets the read section of each CPU has dereferenced
          old,       \* the target an updater has taken out
          loop,      \* the loop variable of synchronize_rcu
          rcu_pc,    \* where each CPU is
          setting    \* one of Settings: never changes

rcu_vars == <<nesting, gp_state, callbacks, pointer, freed, ref, old, loop, rcu_pc, setting>>

RcuInit == /\ nesting = [c \in CPUs |-> 0]
           /\ gp_state = [c \in CPUs |-> "IDLE"]
           /\ callbacks = [c \in CPUs |-> {}]
           /\ pointer = 0
           /\ freed = {}
           /\ ref = [c \in CPUs |-> {}]
           /\ old = [c \in CPUs |-> 0]
           /\ loop = [c \in CPUs |-> 1]
           /\ rcu_pc = [c \in CPUs |-> "idle"]
           /\ setting \in Settings

RcuGoto(c, label) == rcu_pc' = [rcu_pc EXCEPT ![c] = label] /\ UNCHANGED setting

(***************************************************************************)
(* Readers.                                                                *)
(***************************************************************************)

ReadLock(c) ==
  /\ rcu_pc[c] = "idle"
  /\ nesting[c] < MaxNesting
  /\ nesting' = [nesting EXCEPT ![c] = @ + 1]
  /\ UNCHANGED <<gp_state, callbacks, pointer, freed, ref, old, loop, rcu_pc, setting>>

Dereference(c) ==
  /\ rcu_pc[c] = "idle"
  /\ nesting[c] > 0
  /\ ref' = [ref EXCEPT ![c] = @ \cup {pointer}]
  /\ UNCHANGED <<nesting, gp_state, callbacks, pointer, freed, old, loop, rcu_pc, setting>>

\* Leaving the outermost section ends the use of what was dereferenced.
ReadUnlock(c) ==
  /\ rcu_pc[c] = "idle"
  /\ nesting[c] > 0
  /\ nesting' = [nesting EXCEPT ![c] = @ - 1]
  /\ ref' = [ref EXCEPT ![c] = IF nesting[c] = 1 THEN {} ELSE @]
  /\ UNCHANGED <<gp_state, callbacks, pointer, freed, old, loop, rcu_pc, setting>>

(***************************************************************************)
(* Updaters.                                                               *)
(***************************************************************************)

\* rcu_assign_pointer publishes a new target, then the updater waits ...
AssignAndSynchronize(c) ==
  /\ c \in setting.updaters
  /\ rcu_pc[c] = "idle" /\ nesting[c] = 0
  /\ pointer < MaxTarget
  /\ pointer' = pointer + 1
  /\ old' = [old EXCEPT ![c] = pointer]
  /\ loop' = [loop EXCEPT ![c] = 1]
  /\ RcuGoto(c, "mark")
  /\ UNCHANGED <<nesting, gp_state, callbacks, freed, ref>>

\* ... or hands the old target to call_rcu.
AssignAndCallRcu(c) ==
  /\ setting.call_rcu
  /\ c \in setting.updaters
  /\ rcu_pc[c] = "idle" /\ nesting[c] = 0
  /\ pointer < MaxTarget
  /\ pointer' = pointer + 1
  /\ callbacks' = [callbacks EXCEPT ![c] = @ \cup {pointer}]
  /\ UNCHANGED <<nesting, gp_state, freed, ref, old, loop, rcu_pc, setting>>

\* One pass of a loop of synchronize_rcu over the CPUs.
RcuAdvance(c, next) ==
     IF loop[c] = N
     THEN RcuGoto(c, next) /\ loop' = [loop EXCEPT ![c] = 1]
     ELSE loop' = [loop EXCEPT ![c] = @ + 1] /\ UNCHANGED <<rcu_pc, setting>>

\* Mark every other CPU and send it a reschedule interrupt.
SyncMark(c) ==
  /\ rcu_pc[c] = "mark"
  /\ gp_state' = IF loop[c] = c THEN gp_state ELSE [gp_state EXCEPT ![loop[c]] = "WAIT"]
  /\ RcuAdvance(c, "own")
  /\ UNCHANGED <<nesting, callbacks, pointer, freed, ref, old>>

SyncOwn(c) ==
  /\ rcu_pc[c] = "own"
  /\ gp_state' = IF nesting[c] = 0 THEN [gp_state EXCEPT ![c] = "DONE"] ELSE gp_state
  /\ RcuGoto(c, "wait")
  /\ UNCHANGED <<nesting, callbacks, pointer, freed, ref, old, loop>>

\* The CPU being waited for is this one, or has reported.
SyncSeen(c) ==
  /\ rcu_pc[c] = "wait"
  /\ loop[c] = c \/ gp_state[loop[c]] = "DONE"
  /\ RcuAdvance(c, "own_wait")
  /\ UNCHANGED <<nesting, gp_state, callbacks, pointer, freed, ref, old>>

\* Faulty variant: the spins are counted from 0 again.
SyncTimeoutRetries(c) ==
  /\ setting.timeouts
  /\ rcu_pc[c] = "wait"
  /\ loop[c] # c /\ gp_state[loop[c]] # "DONE"
  /\ gp_state' = [gp_state EXCEPT ![loop[c]] = "WAIT"]
  /\ UNCHANGED <<nesting, callbacks, pointer, freed, ref, old, loop, rcu_pc, setting>>

\* SYNC_TIMEOUT_SPINS ran out: the CPU is taken to have reported.
SyncTimeout(c) ==
  /\ setting.timeouts
  /\ rcu_pc[c] = "wait"
  /\ loop[c] # c /\ gp_state[loop[c]] # "DONE"
  /\ gp_state' = [gp_state EXCEPT ![loop[c]] = "DONE"]
  /\ RcuAdvance(c, "own_wait")
  /\ UNCHANGED <<nesting, callbacks, pointer, freed, ref, old>>

SyncOwnWait(c) ==
  /\ rcu_pc[c] = "own_wait"
  /\ nesting[c] = 0 \/ setting.timeouts
  /\ RcuGoto(c, "reset")
  /\ UNCHANGED <<nesting, gp_state, callbacks, pointer, freed, ref, old, loop>>

SyncReset(c) ==
  /\ rcu_pc[c] = "reset"
  /\ gp_state' = [gp_state EXCEPT ![loop[c]] = "IDLE"]
  /\ RcuAdvance(c, "callbacks")
  /\ UNCHANGED <<nesting, callbacks, pointer, freed, ref, old>>

\* Faulty variant: the list is cleared and its head is lost.
DropCallbacks(c) ==
  /\ callbacks' = [callbacks EXCEPT ![c] = {}]
  /\ UNCHANGED freed

\* process_callbacks takes this CPU's list and runs it.
ProcessCallbacks(c) ==
  /\ freed' = freed \cup callbacks[c]
  /\ callbacks' = [callbacks EXCEPT ![c] = {}]

SyncCallbacks(c) ==
  /\ rcu_pc[c] = "callbacks"
  /\ ProcessCallbacks(c)
  /\ RcuGoto(c, "free")
  /\ UNCHANGED <<nesting, gp_state, pointer, ref, old, loop>>

\* synchronize_rcu has returned; the updater reclaims the old target.
Free(c) ==
  /\ rcu_pc[c] = "free"
  /\ freed' = freed \cup {old[c]}
  /\ RcuGoto(c, "idle")
  /\ UNCHANGED <<nesting, gp_state, callbacks, pointer, ref, old, loop>>

(***************************************************************************)
(* rcu_note_quiescent_state, at a context switch.                          *)
(***************************************************************************)

\* Faulty variant: a read section does not stop the report.
NoteAnyState(c) ==
  /\ rcu_pc[c] = "idle"
  /\ RcuGoto(c, IF gp_state[c] = "WAIT" THEN "note_done" ELSE "note_callbacks")
  /\ UNCHANGED <<nesting, gp_state, callbacks, pointer, freed, ref, old, loop>>

NoteQuiescentState(c) ==
  /\ rcu_pc[c] = "idle"
  /\ nesting[c] = 0
  /\ RcuGoto(c, IF gp_state[c] = "WAIT" THEN "note_done" ELSE "note_callbacks")
  /\ UNCHANGED <<nesting, gp_state, callbacks, pointer, freed, ref, old, loop>>

NoteDone(c) ==
  /\ rcu_pc[c] = "note_done"
  /\ gp_state' = [gp_state EXCEPT ![c] = "DONE"]
  /\ RcuGoto(c, "note_callbacks")
  /\ UNCHANGED <<nesting, callbacks, pointer, freed, ref, old, loop>>

NoteCallbacks(c) ==
  /\ rcu_pc[c] = "note_callbacks"
  /\ ProcessCallbacks(c)
  /\ RcuGoto(c, "idle")
  /\ UNCHANGED <<nesting, gp_state, pointer, ref, old, loop>>

Sync(c) == \/ SyncMark(c) \/ SyncOwn(c) \/ SyncSeen(c) \/ SyncTimeout(c)
           \/ SyncOwnWait(c) \/ SyncReset(c) \/ SyncCallbacks(c) \/ Free(c)

Note(c) == NoteDone(c) \/ NoteCallbacks(c)

RcuNext == \E c \in CPUs :
             \/ ReadLock(c) \/ Dereference(c) \/ ReadUnlock(c)
             \/ AssignAndSynchronize(c) \/ AssignAndCallRcu(c)
             \/ Sync(c) \/ NoteQuiescentState(c) \/ Note(c)

RcuSpec == RcuInit /\ [][RcuNext]_rcu_vars

(***************************************************************************)
(* Properties.                                                             *)
(***************************************************************************)

RcuLabels == {"idle", "mark", "own", "wait", "own_wait", "reset", "callbacks", "free",
              "note_done", "note_callbacks"}

\* Every variable has its type.
RcuTypeOK == /\ nesting \in [CPUs -> Nat]
             /\ gp_state \in [CPUs -> {"IDLE", "WAIT", "DONE"}]
             /\ callbacks \in [CPUs -> SUBSET Nat]
             /\ pointer \in Nat
             /\ freed \subseteq Nat
             /\ ref \in [CPUs -> SUBSET Nat]
             /\ old \in [CPUs -> Nat]
             /\ loop \in [CPUs -> CPUs]
             /\ rcu_pc \in [CPUs -> RcuLabels]
             /\ setting \in Setting

\* rcu.rs:157: what a read section has dereferenced is not reclaimed until
\* the section ends, however many CPUs update at once.  A wait that times out
\* does not wait for the reader (SyncTimeout), and a callback waits for the
\* readers of its own CPU only (NoteCallbacks): neither is covered.
NoUseAfterFree ==
  ~setting.timeouts /\ ~setting.call_rcu => \A c \in CPUs : ref[c] \cap freed = {}

\* synchronize_rcu returns (rcu.rs:199-225), also when updates overlap on the
\* same per-CPU words and when a CPU it has marked never switches context.
SyncReturns ==
  \A c \in CPUs : rcu_pc[c] = "mark" /\ setting.timeouts ~> rcu_pc[c] = "idle"

\* No callback is forgotten: what call_rcu is given on the CPU that switches
\* between processes is reclaimed, whatever order it is registered and taken in.
CallbacksRun == \A t \in 0..(MaxTarget - 1) : t \in callbacks[BootCpu] ~> t \in freed
=============================================================================
