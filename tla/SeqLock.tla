------------------------------ MODULE SeqLock ------------------------------
(***************************************************************************)
(* The sequence lock of src/kernel/framework/sync/seqlock.rs.              *)
(*                                                                         *)
(* One lock, any number of threads.  The protected value is a function     *)
(* from Words to Values: a word is what one memory access moves, so a      *)
(* reader or a writer touches the value one word per step and a reader can *)
(* meet a half-written value.  The counter is `sequence` (odd while a      *)
(* write guard exists).  `committed` is a history variable, not code: it   *)
(* keeps, for every even counter value, the data that was in place when    *)
(* the counter took that value.                                            *)
(***************************************************************************)
EXTENDS Naturals, FiniteSets, CellClients

CONSTANTS Words,   \* the memory words the protected value occupies
          MaxSeq   \* bound: no write starts once sequence reaches MaxSeq

VARIABLES sequence, \* SeqLock::sequence
          data,     \* SeqLock::data, word by word
          seq_pc,   \* where each thread is inside the API
          seq1,     \* the sequence a thread loaded (SeqLockReadGuard::seq1, `current`)
          left,     \* words the thread's copy has not read yet
          buf,      \* the thread's copy of the value
          committed \* history: even counter value -> data at that moment

seq_vars == <<sequence, data, seq_pc, seq1, left, buf, committed>>

Snapshots == [Words -> Values]

SeqLabels == {"idle", "write", "write_cas", "try_write_cas", "writing",
              "guard", "read_ok", "valid_copy", "valid_ok"}

\* seq & 1 == 1: a write is in progress.
Odd(n) == n % 2 = 1

SeqInit == /\ sequence = 0
           /\ data \in Snapshots
           /\ seq_pc = [t \in Threads |-> "idle"]
           /\ seq1 = [t \in Threads |-> 0]
           /\ left = [t \in Threads |-> {}]
           /\ buf = [t \in Threads |-> data]
           /\ committed = [n \in {0} |-> data]

(***************************************************************************)
(* Readers.                                                                *)
(***************************************************************************)

\* Faulty variant: read() without the test of the low bit.
ReadMidWrite(t) ==
  /\ seq_pc[t] = "idle"
  /\ seq1' = [seq1 EXCEPT ![t] = sequence]
  /\ left' = [left EXCEPT ![t] = Words]
  /\ seq_pc' = [seq_pc EXCEPT ![t] = "guard"]
  /\ UNCHANGED <<sequence, data, buf, committed>>

\* read(): spins while the counter is odd, then returns a guard holding it.
Read(t) ==
  /\ seq_pc[t] = "idle"
  /\ ~Odd(sequence)
  /\ seq1' = [seq1 EXCEPT ![t] = sequence]
  /\ left' = [left EXCEPT ![t] = Words]
  /\ seq_pc' = [seq_pc EXCEPT ![t] = "guard"]
  /\ UNCHANGED <<sequence, data, buf, committed>>

\* One load through get(): either the caller's own copy (guard) or the copy
\* made through the reference get_valid() returned (valid_copy).
CopyWord(t, w) ==
  /\ seq_pc[t] \in {"guard", "valid_copy"}
  /\ w \in left[t]
  /\ buf' = [buf EXCEPT ![t][w] = data[w]]
  /\ left' = [left EXCEPT ![t] = @ \ {w}]
  /\ UNCHANGED <<sequence, data, seq_pc, seq1, committed>>

\* is_valid() after the copy: keep the copy only if the counter has not moved.
Validate(t) ==
  /\ seq_pc[t] = "guard"
  /\ left[t] = {}
  /\ seq_pc' = [seq_pc EXCEPT ![t] = IF sequence = seq1[t] THEN "read_ok" ELSE "idle"]
  /\ UNCHANGED <<sequence, data, seq1, left, buf, committed>>

\* get_valid(): is_valid() first, then get() hands out the reference.
GetValid(t) ==
  /\ seq_pc[t] = "guard"
  /\ left[t] = Words
  /\ seq_pc' = [seq_pc EXCEPT ![t] = IF sequence = seq1[t] THEN "valid_copy" ELSE "idle"]
  /\ UNCHANGED <<sequence, data, seq1, left, buf, committed>>

\* The caller has finished reading through the reference of get_valid().
UseValid(t) ==
  /\ seq_pc[t] = "valid_copy"
  /\ left[t] = {}
  /\ seq_pc' = [seq_pc EXCEPT ![t] = "valid_ok"]
  /\ UNCHANGED <<sequence, data, seq1, left, buf, committed>>

\* The read guard goes out of scope (it has no Drop).
DropRead(t) ==
  /\ seq_pc[t] \in {"read_ok", "valid_ok"}
  /\ seq_pc' = [seq_pc EXCEPT ![t] = "idle"]
  /\ UNCHANGED <<sequence, data, seq1, left, buf, committed>>

(***************************************************************************)
(* Writers.                                                                *)
(***************************************************************************)

\* The load of write()'s loop; an odd counter spins.
WriteLoad(t) ==
  /\ seq_pc[t] \in {"idle", "write"}
  /\ ~Odd(sequence)
  /\ sequence < MaxSeq
  /\ seq1' = [seq1 EXCEPT ![t] = sequence]
  /\ seq_pc' = [seq_pc EXCEPT ![t] = "write_cas"]
  /\ UNCHANGED <<sequence, data, left, buf, committed>>

\* compare_exchange_weak(current, current + 1): it may also fail spuriously,
\* and a failure goes round the loop.
WriteCas(t) ==
  /\ seq_pc[t] = "write_cas"
  /\ \/ /\ sequence = seq1[t]
        /\ sequence' = sequence + 1
        /\ seq_pc' = [seq_pc EXCEPT ![t] = "writing"]
     \/ /\ UNCHANGED sequence
        /\ seq_pc' = [seq_pc EXCEPT ![t] = "write"]
  /\ UNCHANGED <<data, seq1, left, buf, committed>>

\* Faulty variant: try_write() without the test of the low bit.
TryWriteLoadUnchecked(t) ==
  /\ seq_pc[t] = "idle"
  /\ sequence < MaxSeq
  /\ seq1' = [seq1 EXCEPT ![t] = sequence]
  /\ seq_pc' = [seq_pc EXCEPT ![t] = "try_write_cas"]
  /\ UNCHANGED <<sequence, data, left, buf, committed>>

\* try_write(): an odd counter returns None at once (no step), an even one
\* goes on to the compare_exchange.
TryWriteLoad(t) ==
  /\ seq_pc[t] = "idle"
  /\ ~Odd(sequence)
  /\ sequence < MaxSeq
  /\ seq1' = [seq1 EXCEPT ![t] = sequence]
  /\ seq_pc' = [seq_pc EXCEPT ![t] = "try_write_cas"]
  /\ UNCHANGED <<sequence, data, left, buf, committed>>

\* current | 1
SetLowBit(n) == IF Odd(n) THEN n ELSE n + 1

\* compare_exchange(current, current | 1): a failure returns None.
TryWriteCas(t) ==
  /\ seq_pc[t] = "try_write_cas"
  /\ IF sequence = seq1[t]
     THEN /\ sequence' = SetLowBit(seq1[t])
          /\ seq_pc' = [seq_pc EXCEPT ![t] = "writing"]
     ELSE /\ UNCHANGED sequence
          /\ seq_pc' = [seq_pc EXCEPT ![t] = "idle"]
  /\ UNCHANGED <<data, seq1, left, buf, committed>>

\* One store through the write guard's DerefMut.
WriteWord(t, w, v) ==
  /\ seq_pc[t] = "writing"
  /\ data' = [data EXCEPT ![w] = v]
  /\ UNCHANGED <<sequence, seq_pc, seq1, left, buf, committed>>

\* Faulty variant: the drop clears the low bit instead of advancing the counter.
DropWriteClearsBit(t) ==
  /\ seq_pc[t] = "writing"
  /\ sequence' = sequence - 1
  /\ committed' = [committed EXCEPT ![sequence - 1] = data]
  /\ seq_pc' = [seq_pc EXCEPT ![t] = "idle"]
  /\ UNCHANGED <<data, seq1, left, buf>>

\* Drop for SeqLockWriteGuard: fetch_add(1).
DropWrite(t) ==
  /\ seq_pc[t] = "writing"
  /\ sequence' = sequence + 1
  /\ committed' = [n \in DOMAIN committed \cup {sequence + 1} |->
                     IF n = sequence + 1 THEN data ELSE committed[n]]
  /\ seq_pc' = [seq_pc EXCEPT ![t] = "idle"]
  /\ UNCHANGED <<data, seq1, left, buf>>

SeqNext == \E t \in Threads :
             \/ Read(t) \/ Validate(t) \/ GetValid(t) \/ UseValid(t) \/ DropRead(t)
             \/ \E w \in Words : CopyWord(t, w)
             \/ WriteLoad(t) \/ WriteCas(t) \/ TryWriteLoad(t) \/ TryWriteCas(t)
             \/ \E w \in Words, v \in Values : WriteWord(t, w, v)
             \/ DropWrite(t)

SeqSpec == SeqInit /\ [][SeqNext]_seq_vars

(***************************************************************************)
(* Properties.                                                             *)
(***************************************************************************)

\* Every variable has its type.
SeqTypeOK == /\ sequence \in Nat
             /\ data \in Snapshots
             /\ seq_pc \in [Threads -> SeqLabels]
             /\ seq1 \in [Threads -> Nat]
             /\ left \in [Threads -> SUBSET Words]
             /\ buf \in [Threads -> Snapshots]
             /\ DOMAIN committed \subseteq Nat
             /\ \A n \in DOMAIN committed : committed[n] \in Snapshots

Writers == {t \in Threads : seq_pc[t] = "writing"}

\* seqlock.rs:4 "writers exclude each other": write() and try_write() never
\* hand out two write guards at once, whatever compare-exchange races occur.
WritersExclude == \A t, u \in Writers : t = u

\* A copy taken through read(), get() and a successful is_valid() is exactly
\* the value some completed write left, namely the one current when read()
\* returned: never a mixture of two writes, never a value half written.
ReadIsCommitted ==
  \A t \in Threads : seq_pc[t] = "read_ok" => /\ seq1[t] \in DOMAIN committed
                                              /\ buf[t] = committed[seq1[t]]

\* A published version is never rewritten: the counter only grows, and the
\* data may change only while the counter is odd.
VersionsAreImmutable ==
  [][/\ sequence' >= sequence
     /\ data' # data => Odd(sequence)]_seq_vars
=============================================================================
