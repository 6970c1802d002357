------------------------------- MODULE Futex -------------------------------
(***************************************************************************)
(* The futex calls (framework/syscall/futex.rs) on top of the scheduler:   *)
(* FUTEX_WAIT, FUTEX_WAKE and FUTEX_REQUEUE over the hash table of waiters.*)
(*                                                                         *)
(* A wait compares the user's word, registers and blocks without leaving   *)
(* the CPU, so all of it is one step; it leaves the CPU in the schedule()  *)
(* of process_block, which is Scheduler's BlockReschedule, and removes its *)
(* entry when it is back.  Whether the word has the expected value is the  *)
(* user's business: a wait that finds another value changes nothing.       *)
(***************************************************************************)
EXTENDS Scheduler, FiniteSets

CONSTANTS
  Addr,                    \* addresses of futex words
  FUTEX_HASH_BUCKETS, FUTEX_BUCKET_CAPACITY,
  hash_uaddr,              \* the bucket of each address
  MaxCount                 \* bound on the numbers given to wake and requeue

Bucket   == 0 .. FUTEX_HASH_BUCKETS - 1
NoBucket == FUTEX_HASH_BUCKETS
Slot     == 1 .. FUTEX_BUCKET_CAPACITY

ASSUME FutexAssumption ==
  /\ FUTEX_HASH_BUCKETS \in Nat /\ FUTEX_BUCKET_CAPACITY \in Nat /\ MaxCount \in Nat
  /\ hash_uaddr \in [Addr -> Bucket]

VARIABLES
  waiters,   \* FutexBucket::waiters: address and PID of each slot, PID 0 when free
  count,     \* FutexBucket::count
  wait       \* the bucket of the futex_wait a process is inside of

futex == <<waiters, count, wait>>
fvars == <<pstate, parent, children, tree, bitmap, next_search, current, pc,
           target, picked, machine, waiters, count, wait>>

\* FutexWaiter::empty; nothing looks at the address of a free slot.
Vacant == [uaddr |-> 0, pid |-> 0]

Occupied(b) == {i \in Slot : waiters[b][i].pid # 0}

FInit ==
  /\ Init
  /\ waiters = [b \in Bucket |-> [i \in Slot |-> Vacant]]
  /\ count = [b \in Bucket |-> 0]
  /\ wait = [p \in Pid |-> NoBucket]

---------------------------------------------------------------------------
(* The calls.                                                              *)

\* The running process is in user code, outside the futex calls.
InUser == At("user") /\ wait[current] = NoBucket

\* Bucket b with the slots in gone emptied.
Vacate(b, gone) ==
  /\ waiters' = [waiters EXCEPT ![b] = [i \in Slot |-> IF i \in gone THEN Vacant ELSE @[i]]]
  /\ count' = [count EXCEPT ![b] = @ - Cardinality(gone)]

\* push takes the first free slot.
push(b, i) ==
  /\ count[b] < FUTEX_BUCKET_CAPACITY
  /\ i \in Slot \ Occupied(b)
  /\ \A j \in Slot \ Occupied(b) : i <= j

\* Faulty variant: block() is left out.
FutexWaitUnblocked(a) ==
  /\ InUser
  /\ \E i \in Slot :
       /\ push(hash_uaddr[a], i)
       /\ waiters' = [waiters EXCEPT ![hash_uaddr[a]][i] = [uaddr |-> a, pid |-> current]]
  /\ count' = [count EXCEPT ![hash_uaddr[a]] = @ + 1]
  /\ wait' = [wait EXCEPT ![current] = hash_uaddr[a]]
  /\ pc' = [pc EXCEPT ![current] = "block"]
  /\ picked' = NoCall
  /\ UNCHANGED <<pstate, tree, table, current, target, machine>>

\* The word has the expected value and the bucket room: register, then block().
FutexWait(a) ==
  /\ InUser
  /\ \E i \in Slot :
       /\ push(hash_uaddr[a], i)
       /\ waiters' = [waiters EXCEPT ![hash_uaddr[a]][i] = [uaddr |-> a, pid |-> current]]
  /\ count' = [count EXCEPT ![hash_uaddr[a]] = @ + 1]
  /\ wait' = [wait EXCEPT ![current] = hash_uaddr[a]]
  /\ pstate' = SetState(pstate, current, "Blocked")
  /\ pc' = [pc EXCEPT ![current] = "block"]
  /\ picked' = NoCall
  /\ UNCHANGED <<tree, table, current, target, machine>>

\* Faulty variant: the waiter trusts that whoever woke it has removed its entry.
ReturnUnregistered ==
  /\ At("user") /\ wait[current] # NoBucket
  /\ wait' = [wait EXCEPT ![current] = NoBucket]
  /\ UNCHANGED <<vars, waiters, count>>

\* Back from process_block: remove_by_pid looks for the first entry of the
\* caller, in the bucket it registered in.
FutexReturn ==
  /\ At("user") /\ wait[current] # NoBucket
  /\ LET b == wait[current]
         mine == {i \in Slot : waiters[b][i].pid = current}
     IN Vacate(b, {i \in mine : \A j \in mine : i <= j})
  /\ wait' = [wait EXCEPT ![current] = NoBucket]
  /\ UNCHANGED vars

\* The slots of bucket b that wait for address a, and how many come before slot i.
Matching(b, a) == {i \in Occupied(b) : waiters[b][i].uaddr = a}
Rank(S, i) == Cardinality({j \in S : j < i})

\* process_unblock of the processes in the slots of set S.
UnblockAll(b, S) ==
  LET blocked == {p \in {waiters[b][i].pid : i \in S} : Unblocks(pstate, p)} IN
  /\ pstate' = [p \in Pid |-> IF p \in blocked THEN "Ready" ELSE pstate[p]]
  /\ tree' = tree \union blocked
  /\ picked' = IF blocked = {} THEN picked ELSE NoCall
  /\ UNCHANGED <<table, current, prog, machine, wait>>

FutexWake(a, n) ==
  /\ InUser
  /\ LET b == hash_uaddr[a]
         woken == {i \in Matching(b, a) : Rank(Matching(b, a), i) < n}
     IN UnblockAll(b, woken) /\ Vacate(b, woken)

\* requeue wakes w waiters and gives the next r the address a2.  They stay in
\* the bucket of a, whatever the bucket of a2 is.
FutexRequeue(a, w, a2, r) ==
  /\ InUser
  /\ LET b == hash_uaddr[a]
         match == Matching(b, a)
         woken == {i \in match : Rank(match, i) < w}
         moved == {i \in match \ woken : Rank(match, i) < w + r}
     IN /\ UnblockAll(b, woken)
        /\ waiters' = [waiters EXCEPT ![b] =
             [i \in Slot |-> IF i \in woken THEN Vacant
                             ELSE IF i \in moved THEN [@[i] EXCEPT !.uaddr = a2] ELSE @[i]]]
        /\ count' = [count EXCEPT ![b] = @ - Cardinality(woken)]

---------------------------------------------------------------------------
\* The other calls of the process, the second half of a wait, and wake-ups from
\* interrupt handlers.
OtherStep ==
  /\ \/ wait[current] = NoBucket /\ Next
     \/ BlockReschedule
     \/ \E p \in Pid : Unblock(p)
  /\ UNCHANGED futex

FNext ==
  \/ OtherStep
  \/ FutexReturn
  \/ \E a \in Addr :
       \/ FutexWait(a)
       \/ \E n \in 1 .. MaxCount : FutexWake(a, n)
       \/ \E w, r \in 0 .. MaxCount, a2 \in Addr : FutexRequeue(a, w, a2, r)

FSpec == FInit /\ [][FNext]_fvars

---------------------------------------------------------------------------
(* Properties.                                                             *)

\* The table of waiters knows exactly who can be woken.  An entry belongs to a
\* process that is inside futex_wait and will look for it in that bucket, and to
\* no other entry's process; so no exit leaves an entry behind for the process
\* that gets the PID next, although wake, requeue and the return of the waiter
\* change the buckets in any order.  The count, which decides whether a bucket is
\* full, is the number of entries.
EntriesExact ==
  \A b \in Bucket :
    /\ \A i \in Occupied(b) : wait[waiters[b][i].pid] = b
    /\ \A i, j \in Occupied(b) : waiters[b][i].pid = waiters[b][j].pid => i = j
    /\ count[b] = Cardinality(Occupied(b))

\* The futex calls use the scheduler only through its own operations: whatever
\* they do to processes and run queue is a step of the scheduler or none, so what
\* holds of the scheduler alone holds with futexes as well.
OnlySchedulerSteps == Spec

\* FUTEX_WAIT blocks the caller (futex.rs): who is blocked in it leaves that state
\* when somebody unblocks the process, or wakes it and removes its entry.
SleepsUntilWoken ==
  [][\A p \in Pid : wait[p] # NoBucket /\ pstate[p] = "Blocked" /\ pstate'[p] # "Blocked" =>
       Unblock(p) \/ ~\E i \in Slot : waiters'[wait[p]][i].pid = p]_fvars
=============================================================================
