------------------------------ MODULE OnceLock ------------------------------
(***************************************************************************)
(* The one-time cell of src/kernel/framework/sync/once_lock.rs: the state  *)
(* machine of InnerOnce::call_once and the accessors built on it.          *)
(*                                                                         *)
(* Each thread makes calls with its own value.  A closure that panics      *)
(* unwinds through PanicGuard where the build unwinds (the host tests);    *)
(* the kernel image aborts on panic, which is unwinds = FALSE.             *)
(***************************************************************************)
EXTENDS Naturals, FiniteSets, CellClients

CONSTANT Uninit  \* the content of a cell nobody has written

ASSUME UninitAssumption == Uninit \notin Values

VARIABLES once_state, \* InnerOnce::state
          value,      \* OnceLock::value
          op,         \* the call a thread is in
          arg,        \* the value it brings
          ran,        \* whether its closure has run (the slot of set() is empty)
          result,     \* what its last call returned
          once_pc,    \* where it is
          unwinds     \* whether the build unwinds on a panic: never changes

once_vars == <<once_state, value, op, arg, ran, result, once_pc, unwinds>>

None == "none"

OnceInit == /\ once_state = "UNINITIALIZED"
            /\ value = Uninit
            /\ op = [t \in Threads |-> None]
            /\ arg = [t \in Threads |-> Uninit]
            /\ ran = [t \in Threads |-> FALSE]
            /\ result = [t \in Threads |-> None]
            /\ once_pc = [t \in Threads |-> "idle"]
            /\ unwinds \in BOOLEAN

OnceGoto(t, label) == once_pc' = [once_pc EXCEPT ![t] = label] /\ UNCHANGED unwinds

\* A thread calls get_or_init or set.
Call(t, call, v) ==
  /\ once_pc[t] = "idle"
  /\ op' = [op EXCEPT ![t] = call]
  /\ arg' = [arg EXCEPT ![t] = v]
  /\ ran' = [ran EXCEPT ![t] = FALSE]
  /\ result' = [result EXCEPT ![t] = None]
  /\ OnceGoto(t, "load")
  /\ UNCHANGED <<once_state, value>>

\* The fast path of call_once.
FastPath(t) ==
  /\ once_pc[t] = "load"
  /\ OnceGoto(t, IF once_state = "DONE" THEN "return" ELSE "cas")
  /\ UNCHANGED <<once_state, value, op, arg, ran, result>>

\* Faulty variant: the state is loaded and stored, not exchanged, so a
\* thread wins although another one is in progress.
WinAlways(t) ==
  /\ once_pc[t] = "cas"
  /\ once_state' = IF once_state = "DONE" THEN "DONE" ELSE "IN_PROGRESS"
  /\ OnceGoto(t, IF once_state = "DONE" THEN "return" ELSE "run")
  /\ UNCHANGED <<value, op, arg, ran, result>>

\* compare_exchange(UNINITIALIZED, IN_PROGRESS) and the match on its result.
CompareExchange(t) ==
  /\ once_pc[t] = "cas"
  /\ once_state' = IF once_state = "UNINITIALIZED" THEN "IN_PROGRESS" ELSE once_state
  /\ OnceGoto(t, CASE once_state = "UNINITIALIZED" -> "run"
                   [] once_state = "IN_PROGRESS" -> "spin"
                   [] once_state = "DONE" -> "return")
  /\ UNCHANGED <<value, op, arg, ran, result>>

\* The closure writes the cell in place.
RunClosure(t) ==
  /\ once_pc[t] = "run"
  /\ value' = arg[t]
  /\ ran' = [ran EXCEPT ![t] = TRUE]
  /\ OnceGoto(t, "finish")
  /\ UNCHANGED <<once_state, op, arg, result>>

\* Faulty variant: the guard is forgotten and DONE is not published.
OnceFinishUnpublished(t) ==
      /\ once_pc[t] = "finish"
      /\ OnceGoto(t, "return")
      /\ UNCHANGED <<once_state, value, op, arg, ran, result>>

\* The guard is forgotten and DONE is published.
OnceFinish(t) ==
      /\ once_pc[t] = "finish"
      /\ once_state' = "DONE"
      /\ OnceGoto(t, "return")
      /\ UNCHANGED <<value, op, arg, ran, result>>

\* The closure unwinds, before or after it wrote the cell: PanicGuard resets
\* the state and the call does not return.
Panic(t) ==
  /\ unwinds
  /\ once_pc[t] \in {"run", "finish"}
  /\ once_state' = "UNINITIALIZED"
  /\ OnceGoto(t, "idle")
  /\ UNCHANGED <<value, op, arg, ran, result>>

\* A waiter leaves its loop when the state is no longer IN_PROGRESS ...
SpinEnds(t) ==
  /\ once_pc[t] = "spin"
  /\ once_state # "IN_PROGRESS"
  /\ OnceGoto(t, "recheck")
  /\ UNCHANGED <<once_state, value, op, arg, ran, result>>

\* ... and loads it again: only UNINITIALIZED makes it start over.
Recheck(t) ==
  /\ once_pc[t] = "recheck"
  /\ OnceGoto(t, IF once_state = "UNINITIALIZED" THEN "load" ELSE "return")
  /\ UNCHANGED <<once_state, value, op, arg, ran, result>>

\* get_or_init returns the cell (assume_init_ref); set returns Ok when its
\* slot is empty and Err otherwise.
Return(t) ==
  /\ once_pc[t] = "return"
  /\ result' = [result EXCEPT ![t] = CASE op[t] = "get_or_init" -> value
                                       [] op[t] = "set" -> IF ran[t] THEN "ok" ELSE "err"]
  /\ OnceGoto(t, "idle")
  /\ UNCHANGED <<once_state, value, op, arg, ran>>

\* get(): the cell when it is complete, and nothing otherwise.
Get(t) ==
  /\ once_pc[t] = "idle"
  /\ op' = [op EXCEPT ![t] = "get"]
  /\ result' = [result EXCEPT ![t] = IF once_state = "DONE" THEN value ELSE None]
  /\ UNCHANGED <<once_state, value, arg, ran, once_pc, unwinds>>

OnceStep(t) == \/ FastPath(t) \/ CompareExchange(t) \/ RunClosure(t) \/ OnceFinish(t)
               \/ Panic(t) \/ SpinEnds(t) \/ Recheck(t) \/ Return(t)

OnceNext == \E t \in Threads :
              \/ \E call \in {"get_or_init", "set"}, v \in Values : Call(t, call, v)
              \/ Get(t)
              \/ OnceStep(t)

OnceSpec == OnceInit /\ [][OnceNext]_once_vars

(***************************************************************************)
(* Properties.                                                             *)
(***************************************************************************)

States == {"UNINITIALIZED", "IN_PROGRESS", "DONE"}
OnceLabels == {"idle", "load", "cas", "run", "finish", "spin", "recheck", "return"}

\* Every variable has its type.
OnceTypeOK == /\ once_state \in States
              /\ value \in Values \cup {Uninit}
              /\ op \in [Threads -> {None, "get_or_init", "set", "get"}]
              /\ arg \in [Threads -> Values \cup {Uninit}]
              /\ ran \in [Threads -> BOOLEAN]
              /\ result \in [Threads -> Values \cup {Uninit, None, "ok", "err"}]
              /\ once_pc \in [Threads -> OnceLabels]
              /\ unwinds \in BOOLEAN

\* once_lock.rs:178: when get_or_init returns, and when get returns a
\* reference, the cell is complete and the caller sees its only value.  With
\* unwinding a waiter can leave its loop, find the cell being initialised
\* again (Recheck) and return early, so this is about builds that abort.
ReadsComplete ==
  \A t \in Threads :
    ~unwinds /\ once_pc[t] = "idle" /\ op[t] \in {"get_or_init", "get"} /\ result[t] # None =>
      once_state = "DONE" /\ result[t] = value /\ value # Uninit

\* once_lock.rs:185-195: set returns Ok when it was the one to write the
\* cell, and Err only when the cell was complete already.
SetTellsTruth ==
  \A t \in Threads :
    ~unwinds /\ once_pc[t] = "idle" /\ op[t] = "set" =>
      /\ result[t] = "ok" => once_state = "DONE" /\ value = arg[t]
      /\ result[t] = "err" => once_state = "DONE"

\* A complete cell is never written again and never becomes incomplete,
\* even when closures unwind (once_lock.rs:14-16).
CompleteIsFinal == [][once_state = "DONE" => UNCHANGED <<once_state, value>>]_once_vars

\* Unless closures keep unwinding every call returns: no waiter is left
\* behind in the loop at line 100.
CallsReturn == \A t \in Threads : once_pc[t] # "idle" /\ ~unwinds ~> once_pc[t] = "idle"
=============================================================================
