---------------------------- MODULE RwLockProofs ----------------------------
(***************************************************************************)
(* Proofs about the read/write lock when write access is released through  *)
(* raw_write_unlock, for any finite set of threads.                        *)
(***************************************************************************)
EXTENDS RwLock, FiniteSetTheorems, TLAPS

\* The inner spin lock is taken exactly while one thread is in a section.
InnerInv ==
  /\ lock = 1 <=> \E t \in Threads : pc[t] \in SectionLabels
  /\ \A t, u \in Threads : pc[t] \in SectionLabels /\ pc[u] \in SectionLabels => t = u

\* The writer flag is set exactly while a thread has write access.
WriterInv == writer = 1 <=> WriteHolders # {}

\* What a thread has tested under the inner lock still holds when it acts.
TestedInv ==
  \A t \in Threads :
    /\ pc[t] \in {"r_pending", "r_add", "w_unpend", "w_set"} => writer = 0
    /\ pc[t] \in {"w_writer", "w_unpend", "w_set"} => ReadGuards = {}

\* What the label of a thread says about its call and its guards.
LabelInv ==
  \A t \in Threads :
    /\ pc[t] \in {"p_lock", "p_add", "p_exit", "w_unpend"} => op[t] = "write"
    /\ pc[t] \in {"r_lock", "r_writer", "r_pending", "r_add", "r_fail"} => held[t] < MaxHold
    /\ pc[t] \in {"ru_lock", "ru_sub"} => held[t] > 0
    /\ pc[t] # "d_force"

\* The inductive invariant.
IndInv == /\ TypeOK
          /\ InnerInv
          /\ WriterInv
          /\ TestedInv
          /\ LabelInv
          /\ ReadersWriters
          /\ CountersExact

\* The sets that the counters count are finite.
LEMMA CountedFinite == IsFiniteSet(ReadGuards) /\ IsFiniteSet(Announced)
<1>1. IsFiniteSet(1..MaxHold)
  BY FS_Interval, ConstantsAssumption
<1>2. IsFiniteSet(Threads \X (1..MaxHold))
  BY <1>1, FS_Product, ConstantsAssumption
<1> QED
  BY <1>2, FS_Subset, ConstantsAssumption DEF ReadGuards, Announced

\* No read guard is alive exactly when the reader count is zero.
LEMMA NoGuards == CountersExact => (readers = 0 <=> ReadGuards = {})
BY CountedFinite, FS_EmptySet DEF CountersExact

\* The initial state has the invariant.
LEMMA InitInv == Init => IndInv
<1> SUFFICES ASSUME Init PROVE IndInv
  OBVIOUS
<1>1. TypeOK
  BY ConstantsAssumption DEF Init, TypeOK, Labels
<1>2. ReadGuards = {} /\ Announced = {} /\ WriteHolders = {}
  BY DEF Init, ReadGuards, Announced, WriteHolders
<1>3. CountersExact
  BY <1>2, FS_EmptySet DEF Init, CountersExact
<1> QED
  BY <1>1, <1>2, <1>3 DEF Init, IndInv, InnerInv, WriterInv, TestedInv, LabelInv,
     ReadersWriters, SectionLabels

\* A step that leaves the two counters and the sets they count alone keeps
\* them exact.
LEMMA CountersKept ==
  ASSUME CountersExact, readers' = readers, pending_writers' = pending_writers,
         ReadGuards' = ReadGuards, Announced' = Announced
  PROVE  CountersExact'
BY DEF CountersExact

\* A new read guard and the increment of the reader count.
LEMMA GuardAdded ==
  ASSUME TypeOK, NEW t \in Threads, held[t] < MaxHold,
         held' = [held EXCEPT ![t] = @ + 1]
  PROVE  Cardinality(ReadGuards') = Cardinality(ReadGuards) + 1
<1>1. ReadGuards' = ReadGuards \cup {<<t, held[t] + 1>>}
  BY ConstantsAssumption DEF TypeOK, ReadGuards
<1>2. <<t, held[t] + 1>> \notin ReadGuards
  BY DEF TypeOK, ReadGuards
<1> QED
  BY <1>1, <1>2, CountedFinite, FS_AddElement

\* A read guard released and the decrement of the reader count.
LEMMA GuardRemoved ==
  ASSUME TypeOK, NEW t \in Threads, held[t] > 0,
         held' = [held EXCEPT ![t] = @ - 1]
  PROVE  /\ Cardinality(ReadGuards') = Cardinality(ReadGuards) - 1
         /\ ReadGuards' \subseteq ReadGuards
         /\ ReadGuards # {}
<1>1. ReadGuards' = ReadGuards \ {<<t, held[t]>>}
  BY ConstantsAssumption DEF TypeOK, ReadGuards
<1>2. <<t, held[t]>> \in ReadGuards
  BY ConstantsAssumption DEF TypeOK, ReadGuards
<1> QED
  BY <1>1, <1>2, CountedFinite, FS_RemoveElement

\* Every step keeps the invariant.
LEMMA NextInv == IndInv /\ [NextRaw]_vars => IndInv'
<1> SUFFICES ASSUME IndInv, [NextRaw]_vars PROVE IndInv'
  OBVIOUS
<1> USE DEF IndInv
<1>1. ASSUME NEW t \in Threads, CallRead(t) PROVE IndInv'
  <2>1. TypeOK'
    BY <1>1, ConstantsAssumption DEF CallRead, Call, Goto, TypeOK, Labels, SectionLabels, AfterLock
  <2>2. ReadGuards' = ReadGuards /\ Announced' = Announced
    BY <1>1 DEF CallRead, Call, Goto, TypeOK, ReadGuards, Announced, LabelInv
  <2>3. InnerInv'
    BY <1>1 DEF CallRead, Call, Goto, TypeOK, InnerInv, SectionLabels
  <2>4. WriterInv' /\ ReadersWriters'
    BY <1>1, <2>2 DEF CallRead, Call, Goto, TypeOK, WriterInv, WriteHolders, ReadersWriters
  <2>5. TestedInv' /\ LabelInv'
    BY <1>1, <2>2, NoGuards DEF CallRead, Call, Goto, TypeOK, TestedInv, LabelInv, WriterInv
  <2> QED
    BY <1>1, <2>1, <2>2, <2>3, <2>4, <2>5, CountersKept DEF CallRead, Call
<1>2. ASSUME NEW t \in Threads, CallTryRead(t) PROVE IndInv'
  <2>1. TypeOK'
    BY <1>2, ConstantsAssumption DEF CallTryRead, Call, Goto, TypeOK, Labels, SectionLabels, AfterLock
  <2>2. ReadGuards' = ReadGuards /\ Announced' = Announced
    BY <1>2 DEF CallTryRead, Call, Goto, TypeOK, ReadGuards, Announced, LabelInv
  <2>3. InnerInv'
    BY <1>2 DEF CallTryRead, Call, Goto, TypeOK, InnerInv, SectionLabels
  <2>4. WriterInv' /\ ReadersWriters'
    BY <1>2, <2>2 DEF CallTryRead, Call, Goto, TypeOK, WriterInv, WriteHolders, ReadersWriters
  <2>5. TestedInv' /\ LabelInv'
    BY <1>2, <2>2, NoGuards DEF CallTryRead, Call, Goto, TypeOK, TestedInv, LabelInv, WriterInv
  <2> QED
    BY <1>2, <2>1, <2>2, <2>3, <2>4, <2>5, CountersKept DEF CallTryRead, Call
<1>3. ASSUME NEW t \in Threads, CallWrite(t) PROVE IndInv'
  <2>1. TypeOK'
    BY <1>3, ConstantsAssumption DEF CallWrite, Call, Goto, TypeOK, Labels, SectionLabels, AfterLock
  <2>2. ReadGuards' = ReadGuards /\ Announced' = Announced
    BY <1>3 DEF CallWrite, Call, Goto, TypeOK, ReadGuards, Announced, LabelInv
  <2>3. InnerInv'
    BY <1>3 DEF CallWrite, Call, Goto, TypeOK, InnerInv, SectionLabels
  <2>4. WriterInv' /\ ReadersWriters'
    BY <1>3, <2>2 DEF CallWrite, Call, Goto, TypeOK, WriterInv, WriteHolders, ReadersWriters
  <2>5. TestedInv' /\ LabelInv'
    BY <1>3, <2>2, NoGuards DEF CallWrite, Call, Goto, TypeOK, TestedInv, LabelInv, WriterInv
  <2> QED
    BY <1>3, <2>1, <2>2, <2>3, <2>4, <2>5, CountersKept DEF CallWrite, Call
<1>4. ASSUME NEW t \in Threads, CallTryWrite(t) PROVE IndInv'
  <2>1. TypeOK'
    BY <1>4, ConstantsAssumption DEF CallTryWrite, Call, Goto, TypeOK, Labels, SectionLabels, AfterLock
  <2>2. ReadGuards' = ReadGuards /\ Announced' = Announced
    BY <1>4 DEF CallTryWrite, Call, Goto, TypeOK, ReadGuards, Announced, LabelInv
  <2>3. InnerInv'
    BY <1>4 DEF CallTryWrite, Call, Goto, TypeOK, InnerInv, SectionLabels
  <2>4. WriterInv' /\ ReadersWriters'
    BY <1>4, <2>2 DEF CallTryWrite, Call, Goto, TypeOK, WriterInv, WriteHolders, ReadersWriters
  <2>5. TestedInv' /\ LabelInv'
    BY <1>4, <2>2, NoGuards DEF CallTryWrite, Call, Goto, TypeOK, TestedInv, LabelInv, WriterInv
  <2> QED
    BY <1>4, <2>1, <2>2, <2>3, <2>4, <2>5, CountersKept DEF CallTryWrite, Call
<1>5. ASSUME NEW t \in Threads, RawLock(t) PROVE IndInv'
  <2>1. TypeOK'
    BY <1>5, ConstantsAssumption DEF RawLock, AfterLock, Goto, TypeOK, Labels, SectionLabels, AfterLock
  <2>2. ReadGuards' = ReadGuards /\ Announced' = Announced
    BY <1>5 DEF RawLock, AfterLock, Goto, TypeOK, ReadGuards, Announced, LabelInv
  <2>3. InnerInv'
    BY <1>5 DEF RawLock, AfterLock, Goto, TypeOK, InnerInv, SectionLabels
  <2>4. WriterInv' /\ ReadersWriters'
    BY <1>5, <2>2 DEF RawLock, AfterLock, Goto, TypeOK, WriterInv, WriteHolders, ReadersWriters
  <2>5. TestedInv' /\ LabelInv'
    BY <1>5, <2>2, NoGuards DEF RawLock, AfterLock, Goto, TypeOK, TestedInv, LabelInv, WriterInv
  <2> QED
    BY <1>5, <2>1, <2>2, <2>3, <2>4, <2>5, CountersKept DEF RawLock, AfterLock
<1>6. ASSUME NEW t \in Threads, RawUnlock(t) PROVE IndInv'
  <2>1. TypeOK'
    BY <1>6, ConstantsAssumption DEF RawUnlock, AfterUnlock, Goto, TypeOK, Labels, SectionLabels, AfterLock
  <2>2. ReadGuards' = ReadGuards /\ Announced' = Announced
    BY <1>6 DEF RawUnlock, AfterUnlock, Goto, TypeOK, ReadGuards, Announced, LabelInv
  <2>3. InnerInv'
    BY <1>6 DEF RawUnlock, AfterUnlock, Goto, TypeOK, InnerInv, SectionLabels
  <2>4. WriterInv' /\ ReadersWriters'
    BY <1>6, <2>2 DEF RawUnlock, AfterUnlock, Goto, TypeOK, WriterInv, WriteHolders, ReadersWriters
  <2>5. TestedInv' /\ LabelInv'
    BY <1>6, <2>2, NoGuards DEF RawUnlock, AfterUnlock, Goto, TypeOK, TestedInv, LabelInv, WriterInv
  <2> QED
    BY <1>6, <2>1, <2>2, <2>3, <2>4, <2>5, CountersKept DEF RawUnlock, AfterUnlock
<1>7. ASSUME NEW t \in Threads, ReadLoadWriter(t) PROVE IndInv'
  <2>1. TypeOK'
    BY <1>7, ConstantsAssumption DEF ReadLoadWriter, Goto, TypeOK, Labels, SectionLabels, AfterLock
  <2>2. ReadGuards' = ReadGuards /\ Announced' = Announced
    BY <1>7 DEF ReadLoadWriter, Goto, TypeOK, ReadGuards, Announced, LabelInv
  <2>3. InnerInv'
    BY <1>7 DEF ReadLoadWriter, Goto, TypeOK, InnerInv, SectionLabels
  <2>4. WriterInv' /\ ReadersWriters'
    BY <1>7, <2>2 DEF ReadLoadWriter, Goto, TypeOK, WriterInv, WriteHolders, ReadersWriters
  <2>5. TestedInv' /\ LabelInv'
    BY <1>7, <2>2, NoGuards DEF ReadLoadWriter, Goto, TypeOK, TestedInv, LabelInv, WriterInv
  <2> QED
    BY <1>7, <2>1, <2>2, <2>3, <2>4, <2>5, CountersKept DEF ReadLoadWriter
<1>8. ASSUME NEW t \in Threads, ReadLoadPending(t) PROVE IndInv'
  <2>1. TypeOK'
    BY <1>8, ConstantsAssumption DEF ReadLoadPending, Goto, TypeOK, Labels, SectionLabels, AfterLock
  <2>2. ReadGuards' = ReadGuards /\ Announced' = Announced
    BY <1>8 DEF ReadLoadPending, Goto, TypeOK, ReadGuards, Announced, LabelInv
  <2>3. InnerInv'
    BY <1>8 DEF ReadLoadPending, Goto, TypeOK, InnerInv, SectionLabels
  <2>4. WriterInv' /\ ReadersWriters'
    BY <1>8, <2>2 DEF ReadLoadPending, Goto, TypeOK, WriterInv, WriteHolders, ReadersWriters
  <2>5. TestedInv' /\ LabelInv'
    BY <1>8, <2>2, NoGuards DEF ReadLoadPending, Goto, TypeOK, TestedInv, LabelInv, WriterInv
  <2> QED
    BY <1>8, <2>1, <2>2, <2>3, <2>4, <2>5, CountersKept DEF ReadLoadPending
<1>9. ASSUME NEW t \in Threads, WriteLoadReaders(t) PROVE IndInv'
  <2>1. TypeOK'
    BY <1>9, ConstantsAssumption DEF WriteLoadReaders, Goto, TypeOK, Labels, SectionLabels, AfterLock
  <2>2. ReadGuards' = ReadGuards /\ Announced' = Announced
    BY <1>9 DEF WriteLoadReaders, Goto, TypeOK, ReadGuards, Announced, LabelInv
  <2>3. InnerInv'
    BY <1>9 DEF WriteLoadReaders, Goto, TypeOK, InnerInv, SectionLabels
  <2>4. WriterInv' /\ ReadersWriters'
    BY <1>9, <2>2 DEF WriteLoadReaders, Goto, TypeOK, WriterInv, WriteHolders, ReadersWriters
  <2>5. TestedInv' /\ LabelInv'
    BY <1>9, <2>2, NoGuards DEF WriteLoadReaders, Goto, TypeOK, TestedInv, LabelInv, WriterInv
  <2> QED
    BY <1>9, <2>1, <2>2, <2>3, <2>4, <2>5, CountersKept DEF WriteLoadReaders
<1>10. ASSUME NEW t \in Threads, WriteLoadWriter(t) PROVE IndInv'
  <2>1. TypeOK'
    BY <1>10, ConstantsAssumption DEF WriteLoadWriter, Goto, TypeOK, Labels, SectionLabels, AfterLock
  <2>2. ReadGuards' = ReadGuards /\ Announced' = Announced
    BY <1>10 DEF WriteLoadWriter, Goto, TypeOK, ReadGuards, Announced, LabelInv
  <2>3. InnerInv'
    BY <1>10 DEF WriteLoadWriter, Goto, TypeOK, InnerInv, SectionLabels
  <2>4. WriterInv' /\ ReadersWriters'
    BY <1>10, <2>2 DEF WriteLoadWriter, Goto, TypeOK, WriterInv, WriteHolders, ReadersWriters
  <2>5. TestedInv' /\ LabelInv'
    <3>1. pc'[t] \in {"w_unpend", "w_set"} => writer = 0
      BY <1>10 DEF WriteLoadWriter, Goto, TypeOK
    <3>2. pc'[t] = "w_unpend" => op[t] = "write"
      BY <1>10 DEF WriteLoadWriter, Goto, TypeOK
    <3>3. pc'[t] \in {"w_fail", "w_unpend", "w_set"}
      BY <1>10 DEF WriteLoadWriter, Goto, TypeOK
    <3>4. pc[t] = "w_writer" /\ \A u \in Threads \ {t} : pc'[u] = pc[u]
      BY <1>10 DEF WriteLoadWriter, Goto, TypeOK
    <3>5. UNCHANGED <<writer, held, op>>
      BY <1>10 DEF WriteLoadWriter
    <3> QED
      BY <2>2, <3>1, <3>2, <3>3, <3>4, <3>5 DEF TestedInv, LabelInv
  <2> QED
    BY <1>10, <2>1, <2>2, <2>3, <2>4, <2>5, CountersKept DEF WriteLoadWriter
<1>11. ASSUME NEW t \in Threads, CallRawReadUnlock(t) PROVE IndInv'
  <2>1. TypeOK'
    BY <1>11, ConstantsAssumption DEF CallRawReadUnlock, Goto, TypeOK, Labels, SectionLabels, AfterLock
  <2>2. ReadGuards' = ReadGuards /\ Announced' = Announced
    BY <1>11 DEF CallRawReadUnlock, Goto, TypeOK, ReadGuards, Announced, LabelInv
  <2>3. InnerInv'
    BY <1>11 DEF CallRawReadUnlock, Goto, TypeOK, InnerInv, SectionLabels
  <2>4. WriterInv' /\ ReadersWriters'
    BY <1>11, <2>2 DEF CallRawReadUnlock, Goto, TypeOK, WriterInv, WriteHolders, ReadersWriters
  <2>5. TestedInv' /\ LabelInv'
    BY <1>11, <2>2, NoGuards DEF CallRawReadUnlock, Goto, TypeOK, TestedInv, LabelInv, WriterInv
  <2> QED
    BY <1>11, <2>1, <2>2, <2>3, <2>4, <2>5, CountersKept DEF CallRawReadUnlock
<1>12. ASSUME NEW t \in Threads, CallRawWriteUnlock(t) PROVE IndInv'
  <2>1. TypeOK'
    BY <1>12, ConstantsAssumption DEF CallRawWriteUnlock, Goto, TypeOK, Labels, SectionLabels, AfterLock
  <2>2. ReadGuards' = ReadGuards /\ Announced' = Announced
    BY <1>12 DEF CallRawWriteUnlock, Goto, TypeOK, ReadGuards, Announced, LabelInv
  <2>3. InnerInv'
    BY <1>12 DEF CallRawWriteUnlock, Goto, TypeOK, InnerInv, SectionLabels
  <2>4. WriterInv' /\ ReadersWriters'
    BY <1>12, <2>2 DEF CallRawWriteUnlock, Goto, TypeOK, WriterInv, WriteHolders, ReadersWriters
  <2>5. TestedInv' /\ LabelInv'
    BY <1>12, <2>2, NoGuards DEF CallRawWriteUnlock, Goto, TypeOK, TestedInv, LabelInv, WriterInv
  <2> QED
    BY <1>12, <2>1, <2>2, <2>3, <2>4, <2>5, CountersKept DEF CallRawWriteUnlock
<1>13. ASSUME NEW t \in Threads, WriteSet(t) PROVE IndInv'
  <2>1. TypeOK'
    BY <1>13, ConstantsAssumption DEF WriteSet, Goto, TypeOK, Labels, SectionLabels, AfterLock
  <2>2. ReadGuards' = ReadGuards /\ Announced' = Announced
    BY <1>13 DEF WriteSet, Goto, TypeOK, ReadGuards, Announced, LabelInv
  <2>3. InnerInv'
    BY <1>13 DEF WriteSet, Goto, TypeOK, InnerInv, SectionLabels
  <2>4. WriterInv' /\ ReadersWriters'
    <3>1. WriteHolders = {} /\ ReadGuards = {}
      BY <1>13 DEF WriteSet, WriterInv, TestedInv
    <3>2. WriteHolders' = {t}
      BY <1>13, <3>1 DEF WriteSet, Goto, TypeOK, WriteHolders
    <3> QED
      BY <1>13, <2>2, <3>1, <3>2 DEF WriteSet, WriterInv, ReadersWriters
  <2>5. TestedInv' /\ LabelInv'
    BY <1>13, <2>2, <2>3 DEF WriteSet, Goto, TypeOK, TestedInv, LabelInv, InnerInv,
       SectionLabels
  <2> QED
    BY <1>13, <2>1, <2>2, <2>3, <2>4, <2>5, CountersKept DEF WriteSet
<1>14. ASSUME NEW t \in Threads, RawWriteUnlockSwap(t) PROVE IndInv'
  <2>1. TypeOK'
    BY <1>14, ConstantsAssumption DEF RawWriteUnlockSwap, Goto, TypeOK, Labels, SectionLabels, AfterLock
  <2>2. ReadGuards' = ReadGuards /\ Announced' = Announced
    BY <1>14 DEF RawWriteUnlockSwap, Goto, TypeOK, ReadGuards, Announced, LabelInv
  <2>3. InnerInv'
    BY <1>14 DEF RawWriteUnlockSwap, Goto, TypeOK, InnerInv, SectionLabels
  <2>4. WriterInv' /\ ReadersWriters'
    BY <1>14, <2>2 DEF RawWriteUnlockSwap, Goto, TypeOK, WriterInv, WriteHolders, ReadersWriters
  <2>5. TestedInv' /\ LabelInv'
    BY <1>14, <2>2, NoGuards DEF RawWriteUnlockSwap, Goto, TypeOK, TestedInv, LabelInv, WriterInv
  <2> QED
    BY <1>14, <2>1, <2>2, <2>3, <2>4, <2>5, CountersKept DEF RawWriteUnlockSwap
<1>15. ASSUME NEW t \in Threads, ReadAdd(t) PROVE IndInv'
  <2>1. TypeOK'
    BY <1>15, ConstantsAssumption DEF ReadAdd, Goto, TypeOK, Labels, SectionLabels, LabelInv
  <2>2. Announced' = Announced /\ WriteHolders' = WriteHolders /\ WriteHolders = {}
    BY <1>15 DEF ReadAdd, Goto, TypeOK, Announced, WriteHolders, TestedInv, WriterInv
  <2>3. InnerInv'
    BY <1>15 DEF ReadAdd, Goto, TypeOK, InnerInv, SectionLabels
  <2>4. WriterInv' /\ ReadersWriters'
    BY <1>15, <2>2 DEF ReadAdd, WriterInv, ReadersWriters
  <2>5. TestedInv' /\ LabelInv'
    BY <1>15 DEF ReadAdd, Goto, TypeOK, TestedInv, LabelInv, InnerInv, SectionLabels
  <2>6. CountersExact'
    BY <1>15, <2>2, GuardAdded DEF ReadAdd, CountersExact, LabelInv
  <2> QED
    BY <2>1, <2>3, <2>4, <2>5, <2>6
<1>16. ASSUME NEW t \in Threads, PendingAdd(t) PROVE IndInv'
  <2>1. TypeOK'
    BY <1>16 DEF PendingAdd, Goto, TypeOK, Labels, SectionLabels
  <2>2. ReadGuards' = ReadGuards /\ WriteHolders' = WriteHolders
    BY <1>16 DEF PendingAdd, Goto, TypeOK, ReadGuards, WriteHolders
  <2>3. InnerInv'
    BY <1>16 DEF PendingAdd, Goto, TypeOK, InnerInv, SectionLabels
  <2>4. WriterInv' /\ ReadersWriters' /\ TestedInv' /\ LabelInv'
    BY <1>16, <2>2 DEF PendingAdd, Goto, TypeOK, WriterInv, ReadersWriters, TestedInv, LabelInv
  <2>5. Announced' = Announced \cup {t} /\ t \notin Announced
    BY <1>16 DEF PendingAdd, Goto, TypeOK, Announced
  <2>6. CountersExact'
    BY <1>16, <2>2, <2>5, CountedFinite, FS_AddElement DEF PendingAdd, CountersExact
  <2> QED
    BY <2>1, <2>3, <2>4, <2>6
<1>17. ASSUME NEW t \in Threads, PendingSub(t) PROVE IndInv'
  <2>1. Announced' = Announced \ {t} /\ t \in Announced
    BY <1>17 DEF PendingSub, Goto, TypeOK, Announced, LabelInv
  <2>2. Cardinality(Announced') = Cardinality(Announced) - 1 /\ Cardinality(Announced') \in Nat
    BY <2>1, CountedFinite, FS_RemoveElement, FS_CardinalityType, FS_Subset
  <2>3. ReadGuards' = ReadGuards /\ WriteHolders' = WriteHolders
    BY <1>17 DEF PendingSub, Goto, TypeOK, ReadGuards, WriteHolders
  <2>4. TypeOK'
    BY <1>17, <2>2 DEF PendingSub, Goto, TypeOK, Labels, SectionLabels, CountersExact
  <2>5. InnerInv'
    BY <1>17 DEF PendingSub, Goto, TypeOK, InnerInv, SectionLabels
  <2>6. WriterInv' /\ ReadersWriters' /\ TestedInv' /\ LabelInv'
    BY <1>17, <2>3 DEF PendingSub, Goto, TypeOK, WriterInv, ReadersWriters, TestedInv, LabelInv
  <2>7. CountersExact'
    BY <1>17, <2>2, <2>3 DEF PendingSub, CountersExact
  <2> QED
    BY <2>4, <2>5, <2>6, <2>7
<1>18. ASSUME NEW t \in Threads, DropReadGuard(t) PROVE IndInv'
  <2>1. /\ Cardinality(ReadGuards') = Cardinality(ReadGuards) - 1
        /\ ReadGuards' \subseteq ReadGuards
        /\ ReadGuards # {}
    BY <1>18, GuardRemoved DEF DropReadGuard
  <2>2. Cardinality(ReadGuards') \in Nat
    BY <2>1, CountedFinite, FS_CardinalityType, FS_Subset
  <2>3. TypeOK'
    BY <1>18, <2>1, <2>2, ConstantsAssumption DEF DropReadGuard, TypeOK, CountersExact
  <2>4. Announced' = Announced /\ WriteHolders' = WriteHolders
    BY <1>18 DEF DropReadGuard, Announced, WriteHolders
  <2>5. InnerInv' /\ WriterInv' /\ ReadersWriters' /\ TestedInv'
    BY <1>18, <2>1, <2>4 DEF DropReadGuard, InnerInv, WriterInv, ReadersWriters, TestedInv
  <2>6. LabelInv'
    BY <1>18, ConstantsAssumption DEF DropReadGuard, TypeOK, LabelInv
  <2>7. CountersExact'
    BY <1>18, <2>1, <2>4 DEF DropReadGuard, CountersExact
  <2> QED
    BY <2>3, <2>5, <2>6, <2>7
<1>19. ASSUME NEW t \in Threads, RawReadUnlockSub(t) PROVE IndInv'
  <2>1. /\ Cardinality(ReadGuards') = Cardinality(ReadGuards) - 1
        /\ ReadGuards' \subseteq ReadGuards
        /\ ReadGuards # {}
    BY <1>19, GuardRemoved DEF RawReadUnlockSub, LabelInv
  <2>2. Cardinality(ReadGuards') \in Nat
    BY <2>1, CountedFinite, FS_CardinalityType, FS_Subset
  <2>3. TypeOK'
    BY <1>19, <2>1, <2>2, ConstantsAssumption DEF RawReadUnlockSub, Goto, TypeOK, Labels,
       SectionLabels, CountersExact, LabelInv
  <2>4. Announced' = Announced /\ WriteHolders' = WriteHolders
    BY <1>19 DEF RawReadUnlockSub, Goto, TypeOK, Announced, WriteHolders
  <2>5. InnerInv'
    BY <1>19 DEF RawReadUnlockSub, Goto, TypeOK, InnerInv, SectionLabels
  <2>6. WriterInv' /\ ReadersWriters'
    BY <1>19, <2>1, <2>4 DEF RawReadUnlockSub, WriterInv, ReadersWriters
  <2>7. TestedInv' /\ LabelInv'
    BY <1>19, <2>1, ConstantsAssumption DEF RawReadUnlockSub, Goto, TypeOK, TestedInv, LabelInv
  <2>8. CountersExact'
    BY <1>19, <2>1, <2>4 DEF RawReadUnlockSub, CountersExact
  <2> QED
    BY <2>3, <2>5, <2>6, <2>7, <2>8
<1>20. CASE UNCHANGED vars
  <2>1. ReadGuards' = ReadGuards /\ Announced' = Announced /\ WriteHolders' = WriteHolders
    BY <1>20 DEF vars, ReadGuards, Announced, WriteHolders
  <2> QED
    BY <1>20, <2>1 DEF vars, TypeOK, InnerInv, WriterInv, TestedInv, LabelInv, ReadersWriters,
       CountersExact
<1> QED
  BY <1>1, <1>2, <1>3, <1>4, <1>5, <1>6, <1>7, <1>8, <1>9, <1>10, <1>11, <1>12, <1>13,
     <1>14, <1>15, <1>16, <1>17, <1>18, <1>19, <1>20
     DEF NextRaw, StepRaw, Acquire, ReleaseRead, ReleaseWriteRaw

\* The invariant holds in every execution.
THEOREM Invariance == SpecRaw => []IndInv
BY InitInv, NextInv, PTL DEF SpecRaw

\* Read guards exclude write access and write access is exclusive
\* (rwlock.rs:136), as long as write access is released through
\* raw_write_unlock.
THEOREM ReadersWritersExclude == SpecRaw => []ReadersWriters
<1>1. IndInv => ReadersWriters
  BY DEF IndInv
<1> QED
  BY <1>1, Invariance, PTL

\* The reader count and the pending-writer count are exact even though the
\* read guard's destructor does not take the inner lock.
THEOREM ExactCounters == SpecRaw => []CountersExact
<1>1. IndInv => CountersExact
  BY DEF IndInv
<1> QED
  BY <1>1, Invariance, PTL

\* A thread that has write access has no read guard, and one that counts a
\* read guard as alive makes the set of read guards nonempty.
LEMMA GuardsSeen ==
  ASSUME TypeOK, NEW t \in Threads, held[t] > 0
  PROVE  ReadGuards # {}
<1>1. <<t, 1>> \in ReadGuards
  BY ConstantsAssumption DEF TypeOK, ReadGuards
<1> QED
  BY <1>1

\* A step of one thread leaves the grants of the others alone.
LEMMA OthersKeepGrant ==
  ASSUME TypeOK, NEW t \in Threads, StepRaw(t), NEW u \in Threads, u # t
  PROVE  Granted'[u] = Granted[u]
<1>1. pc'[u] = pc[u] /\ held'[u] = held[u]
  <2> USE DEF TypeOK, Goto
  <2>1. CASE RawLock(t) \/ RawUnlock(t)
    BY <2>1 DEF RawLock, RawUnlock
  <2>2. CASE Acquire(t)
    BY <2>2 DEF Acquire, CallRead, CallTryRead, CallWrite, CallTryWrite, Call, ReadLoadWriter,
       ReadLoadPending, ReadAdd, PendingAdd, WriteLoadReaders, WriteLoadWriter, PendingSub, WriteSet
  <2>3. CASE ReleaseRead(t) \/ ReleaseWriteRaw(t)
    BY <2>3 DEF ReleaseRead, DropReadGuard, CallRawReadUnlock, RawReadUnlockSub, ReleaseWriteRaw,
       CallRawWriteUnlock, RawWriteUnlockSwap
  <2> QED
    BY <2>1, <2>2, <2>3 DEF StepRaw
<1> QED
  BY <1>1 DEF Granted, WriteHolders

\* No step turns read access into write access or back.
LEMMA NoConversion ==
  ASSUME IndInv, NEW t \in Threads, StepRaw(t)
  PROVE  Granted[t] = "none" \/ Granted'[t] = "none" \/ Granted'[t] = Granted[t]
<1> SUFFICES ASSUME Granted[t] # "none", Granted'[t] # "none" PROVE Granted'[t] = Granted[t]
  OBVIOUS
<1> USE DEF TypeOK, Granted, WriteHolders, Goto
<1>1. CASE held[t] > 0
  <2>1. ReadGuards # {}
    BY <1>1, GuardsSeen DEF IndInv
  <2>2. pc[t] \notin {"w_exit", "writing", "wu_lock", "wu_swap", "w_set"}
    BY <2>1 DEF IndInv, ReadersWriters, TestedInv
  <2>3. pc'[t] \notin {"w_exit", "writing", "wu_lock", "wu_swap"}
    <3>1. CASE RawLock(t) \/ RawUnlock(t)
      BY <2>2, <3>1 DEF RawLock, RawUnlock, AfterLock, AfterUnlock, IndInv, TestedInv, LabelInv,
         Labels, SectionLabels
    <3>2. CASE Acquire(t)
      BY <2>2, <3>2 DEF IndInv, Acquire, CallRead, CallTryRead, CallWrite, CallTryWrite, Call,
         ReadLoadWriter, ReadLoadPending, ReadAdd, PendingAdd, WriteLoadReaders, WriteLoadWriter,
         PendingSub, WriteSet
    <3>3. CASE ReleaseRead(t) \/ ReleaseWriteRaw(t)
      BY <2>2, <3>3 DEF IndInv, ReleaseRead, DropReadGuard, CallRawReadUnlock, RawReadUnlockSub,
         ReleaseWriteRaw, CallRawWriteUnlock, RawWriteUnlockSwap
    <3> QED
      BY <3>1, <3>2, <3>3 DEF StepRaw
  <2> QED
    BY <1>1, <2>2, <2>3
<1>2. CASE ~(held[t] > 0)
  <2>1. pc[t] \in {"w_exit", "writing", "wu_lock", "wu_swap"}
    BY <1>2
  <2>2. held'[t] = held[t]
    BY <2>1, <1>2 DEF StepRaw, RawLock, RawUnlock, Acquire, CallRead, CallTryRead, CallWrite,
       CallTryWrite, Call, ReadLoadWriter, ReadLoadPending, ReadAdd, PendingAdd, WriteLoadReaders,
       WriteLoadWriter, PendingSub, WriteSet, ReleaseRead, DropReadGuard, CallRawReadUnlock,
       RawReadUnlockSub, ReleaseWriteRaw, CallRawWriteUnlock, RawWriteUnlockSwap
  <2> QED
    BY <1>2, <2>1, <2>2
<1> QED
  BY <1>1, <1>2

\* Grants of two threads never conflict.
GrantsCompatible ==
  \A t, u \in Threads : t # u => ~Abstract!Conflict(Granted[t], Granted[u])

LEMMA CompatibleAlways == IndInv => GrantsCompatible
<1> SUFFICES ASSUME TypeOK, ReadersWriters, NEW t \in Threads, NEW u \in Threads, t # u
             PROVE  ~Abstract!Conflict(Granted[t], Granted[u])
  BY DEF IndInv, GrantsCompatible
<1> QED
  BY GuardsSeen DEF ReadersWriters, Granted, WriteHolders, Abstract!Conflict, TypeOK

LEMMA StepImplements == IndInv /\ GrantsCompatible' /\ [NextRaw]_vars => [Abstract!Next]_Granted
<1> SUFFICES ASSUME IndInv, GrantsCompatible', NextRaw, Granted' # Granted PROVE Abstract!Next
  BY DEF vars, Granted, WriteHolders
<1>1. PICK t \in Threads : StepRaw(t)
  BY DEF NextRaw
<1>2. \A u \in Threads : u # t => Granted'[u] = Granted[u]
  BY <1>1, OthersKeepGrant DEF IndInv
<1>3. Granted' = [Granted EXCEPT ![t] = Granted'[t]] /\ Granted'[t] # Granted[t]
  BY <1>2 DEF Granted
<1>4. \A u \in Threads : u # t => ~Abstract!Conflict(Granted'[t], Granted[u])
  <2>1. ASSUME NEW u \in Threads, u # t PROVE ~Abstract!Conflict(Granted'[t], Granted'[u])
    BY <2>1 DEF GrantsCompatible, Abstract!Conflict
  <2> QED
    BY <1>2, <2>1
<1>5. Granted'[t] \in {"none", "shared", "exclusive"}
  BY DEF Granted
<1>6. CASE Granted'[t] = "none"
  BY <1>3, <1>6 DEF Abstract!Next, Abstract!Release
<1>7. CASE Granted'[t] # "none"
  <2>1. Granted[t] = "none"
    BY <1>1, <1>3, <1>7, NoConversion
  <2>2. Abstract!Acquire(t, Granted'[t])
    BY <1>3, <1>4, <2>1 DEF Abstract!Acquire, Abstract!Compatible
  <2> QED
    BY <2>2, <1>5, <1>7 DEF Abstract!Next, Abstract!Grant
<1> QED
  BY <1>6, <1>7

\* The read/write lock, released through raw_write_unlock, implements the
\* abstract lock with shared and exclusive grants (rwlock.rs:136).
THEOREM RwLockImplementsLock == SpecRaw => ImplementsRwLock
<1>1. Init => Abstract!Init
  BY DEF Init, Abstract!Init, Granted, WriteHolders
<1> QED
  BY <1>1, Invariance, CompatibleAlways, StepImplements, PTL DEF SpecRaw, ImplementsRwLock, Abstract!Spec
=============================================================================
