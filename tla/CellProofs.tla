----------------------------- MODULE CellProofs -----------------------------
(***************************************************************************)
(* Proofs about the cells whose readers take no lock: that synchronize_rcu *)
(* protects readers when it never runs into its timeout and callbacks are  *)
(* not used, for any number of CPUs, sets of concurrent updaters, nesting  *)
(* depths and numbers of updates; about the sequence lock, for any threads,*)
(* words, values and numbers of writes; and about the one-time cell, for   *)
(* any threads and values.                                                 *)
(***************************************************************************)
EXTENDS Rcu, SeqLock, OnceLock, TLAPS

-----------------------------------------------------------------------------
(* Read-copy-update.                                                       *)

Waiting == {"own_wait", "reset", "callbacks", "free"}

\* CPU c is in synchronize_rcu, or about to reclaim what it took out.
Syncing(c) == rcu_pc[c] \in {"mark", "own", "wait"} \cup Waiting

\* c has asked CPU i to report, and c has seen the report of CPU i.
Marked(c, i) == rcu_pc[c] \in {"own", "wait"} \cup Waiting \/ (rcu_pc[c] = "mark" /\ i < loop[c])
Passed(c, i) == rcu_pc[c] \in Waiting \/ (rcu_pc[c] = "wait" /\ i < loop[c])

\* Targets are numbered in order, and only replaced ones are reclaimed.
TargetInv ==
  /\ \A f \in freed : f < pointer
  /\ \A c \in CPUs : Syncing(c) => old[c] < pointer
  /\ \A c \in CPUs : \A r \in ref[c] : r <= pointer
  /\ \A c \in CPUs : callbacks[c] = {}

\* Only a CPU in client code is in a read section and holds references; the
\* loop variable starts over after the marking loop.
ReaderInv ==
  \A c \in CPUs : /\ ref[c] # {} => nesting[c] > 0
                  /\ rcu_pc[c] # "idle" => nesting[c] = 0
                  /\ rcu_pc[c] = "own" => loop[c] = 1

\* Once marked, a report says that the CPU has let go of the old target, and
\* it cannot get at it again.
ReportInv ==
  \A c, i \in CPUs :
    Syncing(c) /\ i # c /\ (Passed(c, i) \/ (Marked(c, i) /\ gp_state[i] = "DONE")) =>
      old[c] \notin ref[i]

RcuInv == RcuTypeOK /\ TargetInv /\ ReaderInv /\ ReportInv /\ NoUseAfterFree

\* The loop variable of synchronize_rcu stays a CPU, and 1 is before none.
LEMMA LoopRange ==
  /\ 1 \in CPUs /\ N \in Nat
  /\ \A i \in CPUs : i \in Nat /\ i <= N /\ ~(i < 1) /\ (i # N => i + 1 \in CPUs)
BY ConstantsAssumption DEF CPUs

\* After a pass of a loop either the loop is over or it is one CPU further.
LEMMA AdvanceStep ==
  ASSUME RcuTypeOK, NEW c \in CPUs, NEW next \in RcuLabels, RcuAdvance(c, next)
  PROVE  /\ loop' \in [CPUs -> CPUs]
         /\ rcu_pc' \in [CPUs -> RcuLabels]
         /\ rcu_pc'[c] \in {rcu_pc[c], next}
         /\ rcu_pc'[c] = next \/ (loop[c] # N /\ loop'[c] = loop[c] + 1)
         /\ rcu_pc'[c] = next /\ next # rcu_pc[c] => loop[c] = N /\ loop'[c] = 1
         /\ \A i \in CPUs : i # c => loop'[i] = loop[i] /\ rcu_pc'[i] = rcu_pc[i]
         /\ setting' = setting
<1> USE LoopRange DEF RcuTypeOK
<1>1. CASE loop[c] = N
  BY <1>1 DEF RcuAdvance, RcuGoto
<1>2. CASE loop[c] # N
  BY <1>2 DEF RcuAdvance
<1> QED
  BY <1>1, <1>2

\* No step changes the setting.
LEMMA SettingStays == [RcuNext]_rcu_vars => setting' = setting
<1> SUFFICES ASSUME [RcuNext]_rcu_vars PROVE setting' = setting
  OBVIOUS
<1>1. ASSUME NEW c \in CPUs, NEW next, RcuAdvance(c, next) PROVE setting' = setting
  BY <1>1 DEF RcuAdvance, RcuGoto
<1>2. ASSUME NEW c \in CPUs, Sync(c) PROVE setting' = setting
  BY <1>1, <1>2 DEF Sync, SyncMark, SyncOwn, SyncSeen, SyncTimeout, SyncOwnWait, SyncReset,
     SyncCallbacks, Free, RcuGoto
<1> QED
  BY <1>2 DEF RcuNext, ReadLock, Dereference, ReadUnlock, AssignAndSynchronize, AssignAndCallRcu,
     NoteQuiescentState, Note, NoteDone, NoteCallbacks, RcuGoto, rcu_vars

LEMMA RcuInitInv == RcuInit => RcuInv
BY LoopRange, ConstantsAssumption DEF RcuInit, RcuInv, RcuTypeOK, TargetInv, ReaderInv, ReportInv,
   NoUseAfterFree, Syncing, Waiting, RcuLabels

LEMMA RcuNextInv ==
  ASSUME ~setting.timeouts, ~setting.call_rcu, RcuInv, [RcuNext]_rcu_vars
  PROVE  RcuInv'
<1> USE DEF RcuInv
<1>1. ASSUME NEW c \in CPUs, ReadLock(c) PROVE RcuInv'
  <2>1. RcuTypeOK'
    BY <1>1 DEF ReadLock, RcuTypeOK, RcuLabels
  <2>2. ReaderInv' /\ NoUseAfterFree'
    BY <1>1 DEF ReadLock, RcuTypeOK, ReaderInv, NoUseAfterFree
  <2>3. TargetInv'
    BY <1>1 DEF ReadLock, RcuTypeOK, TargetInv, Syncing, Waiting
  <2>4. ReportInv'
    BY <1>1 DEF ReadLock, RcuTypeOK, TargetInv, ReportInv, Syncing, Marked, Passed, Waiting
  <2> QED
    BY <2>1, <2>2, <2>3, <2>4
<1>2. ASSUME NEW c \in CPUs, Dereference(c) PROVE RcuInv'
  <2>1. RcuTypeOK'
    BY <1>2 DEF Dereference, RcuTypeOK, RcuLabels
  <2>2. ReaderInv' /\ NoUseAfterFree'
    BY <1>2 DEF Dereference, RcuTypeOK, TargetInv, ReaderInv, NoUseAfterFree
  <2>3. TargetInv'
    BY <1>2 DEF Dereference, RcuTypeOK, TargetInv, Syncing, Waiting
  <2>4. ReportInv'
    BY <1>2 DEF Dereference, RcuTypeOK, TargetInv, ReportInv, Syncing, Marked, Passed, Waiting
  <2> QED
    BY <2>1, <2>2, <2>3, <2>4
<1>3. ASSUME NEW c \in CPUs, ReadUnlock(c) PROVE RcuInv'
  <2>1. RcuTypeOK'
    BY <1>3 DEF ReadUnlock, RcuTypeOK, RcuLabels
  <2>2. ReaderInv' /\ NoUseAfterFree'
    BY <1>3 DEF ReadUnlock, RcuTypeOK, ReaderInv, NoUseAfterFree
  <2>3. TargetInv'
    BY <1>3 DEF ReadUnlock, RcuTypeOK, TargetInv, Syncing, Waiting
  <2>4. ReportInv'
    BY <1>3 DEF ReadUnlock, RcuTypeOK, TargetInv, ReportInv, Syncing, Marked, Passed, Waiting
  <2> QED
    BY <2>1, <2>2, <2>3, <2>4
<1>4. ASSUME NEW c \in CPUs, AssignAndSynchronize(c) PROVE RcuInv'
  <2>1. RcuTypeOK'
    BY <1>4, LoopRange DEF AssignAndSynchronize, RcuGoto, RcuTypeOK, RcuLabels
  <2>6. ReaderInv' /\ NoUseAfterFree'
    BY <1>4, LoopRange DEF AssignAndSynchronize, RcuGoto, RcuTypeOK, ReaderInv, NoUseAfterFree
  <2>2. TargetInv'
    BY <1>4 DEF AssignAndSynchronize, RcuGoto, RcuTypeOK, TargetInv, Syncing, Waiting
  <2>3. \A i \in CPUs : ~Marked(c, i)' /\ ~Passed(c, i)'
    BY <1>4, LoopRange DEF AssignAndSynchronize, RcuGoto, RcuTypeOK, Marked, Passed, Waiting
  <2>4. \A d, i \in CPUs : d # c => /\ Marked(d, i)' = Marked(d, i)
                                   /\ Passed(d, i)' = Passed(d, i)
                                   /\ Syncing(d)' = Syncing(d)
                                   /\ old'[d] = old[d]
    BY <1>4 DEF AssignAndSynchronize, RcuGoto, RcuTypeOK, Marked, Passed, Syncing
  <2>5. ReportInv'
    BY <1>4, <2>3, <2>4 DEF AssignAndSynchronize, ReportInv
  <2> QED
    BY <2>1, <2>2, <2>5, <2>6
<1>5. ASSUME NEW c \in CPUs, SyncMark(c) PROVE RcuInv'
  <2>1. RcuAdvance(c, "own") /\ rcu_pc[c] = "mark"
    BY <1>5 DEF SyncMark
  <2>2. "own" \in RcuLabels
    BY DEF RcuLabels
  <2>3. /\ RcuTypeOK'
        /\ ReaderInv' /\ NoUseAfterFree'
        /\ TargetInv'
    <3>1. RcuTypeOK'
      BY <1>5, <2>1, <2>2, AdvanceStep DEF SyncMark, RcuTypeOK
    <3>2. ReaderInv' /\ NoUseAfterFree'
      BY <1>5, <2>1, <2>2, AdvanceStep DEF SyncMark, RcuTypeOK, ReaderInv, NoUseAfterFree
    <3>3. TargetInv'
      BY <1>5, <2>1, <2>2, AdvanceStep DEF SyncMark, RcuTypeOK, TargetInv, Syncing, Waiting
    <3> QED
      BY <3>1, <3>2, <3>3
  <2>4. \A d, i \in CPUs : d # c => /\ Marked(d, i)' = Marked(d, i)
                                   /\ Passed(d, i)' = Passed(d, i)
                                   /\ Syncing(d)' = Syncing(d)
    BY <2>1, <2>2, AdvanceStep DEF Marked, Passed, Syncing
  <2>5. \A i \in CPUs : /\ ~Passed(c, i)'
                        /\ Marked(c, i)' => Marked(c, i) \/ i = loop[c]
    <3>1. loop[c] \in CPUs /\ rcu_pc'[c] \in {"mark", "own"}
      BY <2>1, <2>2, AdvanceStep DEF RcuTypeOK
    <3>2. CASE rcu_pc'[c] = "own"
      <4>1. loop[c] = N
        BY <2>1, <2>2, <3>2, AdvanceStep
      <4> QED
        BY <2>1, <3>2, <4>1, LoopRange DEF Marked, Passed, Waiting
    <3>3. CASE rcu_pc'[c] = "mark"
      <4>1. loop'[c] = loop[c] + 1
        BY <2>1, <2>2, <3>3, AdvanceStep
      <4> QED
        BY <2>1, <3>1, <3>3, <4>1, LoopRange DEF Marked, Passed, Waiting
    <3> QED
      BY <3>1, <3>2, <3>3
  <2>6. \A i \in CPUs : gp_state'[i] = "DONE" => gp_state[i] = "DONE" /\ (i = c \/ i # loop[c])
    BY <1>5 DEF SyncMark, RcuTypeOK
  <2>7. Syncing(c)
    BY <2>1 DEF Syncing
  <2>8. ReportInv'
    BY <1>5, <2>4, <2>5, <2>6, <2>7 DEF SyncMark, ReportInv
  <2> QED
    BY <2>3, <2>8
<1>6. ASSUME NEW c \in CPUs, SyncOwn(c) PROVE RcuInv'
  <2>1. RcuTypeOK'
    BY <1>6 DEF SyncOwn, RcuGoto, RcuTypeOK, RcuLabels
  <2>9. ReaderInv' /\ NoUseAfterFree'
    BY <1>6 DEF SyncOwn, RcuGoto, RcuTypeOK, ReaderInv, NoUseAfterFree
  <2>10. TargetInv'
    BY <1>6 DEF SyncOwn, RcuGoto, RcuTypeOK, TargetInv, Syncing, Waiting
  <2>2. ref[c] = {}
    BY <1>6 DEF SyncOwn, RcuTypeOK, ReaderInv
  <2>3. \A d, i \in CPUs : d # c => /\ Marked(d, i)' = Marked(d, i)
                                   /\ Passed(d, i)' = Passed(d, i)
                                   /\ Syncing(d)' = Syncing(d)
    BY <1>6 DEF SyncOwn, RcuGoto, RcuTypeOK, Marked, Passed, Syncing
  <2>4. loop[c] = 1
    BY <1>6 DEF SyncOwn, ReaderInv
  <2>5. \A i \in CPUs : ~Passed(c, i)' /\ Marked(c, i)
    BY <1>6, <2>4, LoopRange DEF SyncOwn, RcuGoto, RcuTypeOK, Passed, Marked, Waiting
  <2>6. \A i \in CPUs : i # c => gp_state'[i] = gp_state[i]
    BY <1>6 DEF SyncOwn, RcuTypeOK
  <2>7. Syncing(c)
    BY <1>6 DEF SyncOwn, Syncing
  <2>8. ReportInv'
    BY <1>6, <2>2, <2>3, <2>5, <2>6, <2>7 DEF SyncOwn, ReportInv
  <2> QED
    BY <2>1, <2>8, <2>9, <2>10
<1>7. ASSUME NEW c \in CPUs, SyncSeen(c) PROVE RcuInv'
  <2>1. RcuAdvance(c, "own_wait") /\ rcu_pc[c] = "wait"
    BY <1>7 DEF SyncSeen
  <2>2. "own_wait" \in RcuLabels
    BY DEF RcuLabels
  <2>3. /\ RcuTypeOK'
        /\ ReaderInv' /\ NoUseAfterFree'
        /\ TargetInv'
    <3>1. RcuTypeOK'
      BY <1>7, <2>1, <2>2, AdvanceStep DEF SyncSeen, RcuTypeOK
    <3>2. ReaderInv' /\ NoUseAfterFree'
      BY <1>7, <2>1, <2>2, AdvanceStep DEF SyncSeen, RcuTypeOK, ReaderInv, NoUseAfterFree
    <3>3. TargetInv'
      BY <1>7, <2>1, <2>2, AdvanceStep DEF SyncSeen, RcuTypeOK, TargetInv, Syncing, Waiting
    <3> QED
      BY <3>1, <3>2, <3>3
  <2>4. \A d, i \in CPUs : d # c => /\ Marked(d, i)' = Marked(d, i)
                                   /\ Passed(d, i)' = Passed(d, i)
                                   /\ Syncing(d)' = Syncing(d)
    BY <2>1, <2>2, AdvanceStep DEF Marked, Passed, Syncing
  <2>5. \A i \in CPUs : Passed(c, i)' => Passed(c, i) \/ i = loop[c]
    <3>1. loop[c] \in CPUs /\ rcu_pc'[c] \in {"wait", "own_wait"}
      BY <2>1, <2>2, AdvanceStep DEF RcuTypeOK
    <3>2. \A i \in CPUs : i \in Nat /\ i <= N
      BY LoopRange
    <3>3. CASE rcu_pc'[c] = "own_wait"
      <4>1. loop[c] = N
        BY <2>1, <2>2, <3>3, AdvanceStep
      <4>2. \A i \in CPUs : i < loop[c] \/ i = loop[c]
        BY <3>1, <3>2, <4>1
      <4> QED
        BY <2>1, <4>2 DEF Passed
    <3>4. CASE rcu_pc'[c] = "wait"
      <4>1. loop'[c] = loop[c] + 1
        BY <2>1, <2>2, <3>4, AdvanceStep
      <4>2. \A i \in CPUs : i < loop'[c] => i < loop[c] \/ i = loop[c]
        BY <3>1, <3>2, <4>1
      <4> QED
        BY <2>1, <3>4, <4>2 DEF Passed, Waiting
    <3> QED
      BY <3>1, <3>3, <3>4
  <2>6. Syncing(c) /\ \A i \in CPUs : Marked(c, i)
    BY <2>1 DEF Syncing, Marked
  <2>7. loop[c] = c \/ gp_state[loop[c]] = "DONE"
    BY <1>7 DEF SyncSeen
  <2>8. ReportInv'
    BY <1>7, <2>4, <2>5, <2>6, <2>7 DEF SyncSeen, ReportInv
  <2> QED
    BY <2>3, <2>8
<1>8. ASSUME NEW c \in CPUs, SyncOwnWait(c) PROVE RcuInv'
  <2>1. RcuTypeOK'
    BY <1>8 DEF SyncOwnWait, RcuGoto, RcuTypeOK, RcuLabels
  <2>2. ReaderInv' /\ NoUseAfterFree'
    BY <1>8 DEF SyncOwnWait, RcuGoto, RcuTypeOK, ReaderInv, NoUseAfterFree
  <2>3. TargetInv'
    BY <1>8 DEF SyncOwnWait, RcuGoto, RcuTypeOK, TargetInv, Syncing, Waiting
  <2>4. ReportInv'
    BY <1>8 DEF SyncOwnWait, RcuGoto, RcuTypeOK, TargetInv, ReportInv, Syncing, Marked, Passed,
       Waiting
  <2> QED
    BY <2>1, <2>2, <2>3, <2>4
<1>9. ASSUME NEW c \in CPUs, SyncReset(c) PROVE RcuInv'
  <2>1. RcuAdvance(c, "callbacks") /\ rcu_pc[c] = "reset"
    BY <1>9 DEF SyncReset
  <2>2. "callbacks" \in RcuLabels
    BY DEF RcuLabels
  <2>3. /\ RcuTypeOK'
        /\ ReaderInv' /\ NoUseAfterFree'
        /\ TargetInv'
    <3>1. RcuTypeOK'
      BY <1>9, <2>1, <2>2, AdvanceStep DEF SyncReset, RcuTypeOK
    <3>2. ReaderInv' /\ NoUseAfterFree'
      BY <1>9, <2>1, <2>2, AdvanceStep DEF SyncReset, RcuTypeOK, ReaderInv, NoUseAfterFree
    <3>3. TargetInv'
      BY <1>9, <2>1, <2>2, AdvanceStep DEF SyncReset, RcuTypeOK, TargetInv, Syncing, Waiting
    <3> QED
      BY <3>1, <3>2, <3>3
  <2>4. \A d, i \in CPUs : d # c => /\ Marked(d, i)' = Marked(d, i)
                                   /\ Passed(d, i)' = Passed(d, i)
                                   /\ Syncing(d)' = Syncing(d)
    BY <2>1, <2>2, AdvanceStep DEF Marked, Passed, Syncing
  <2>5. \A i \in CPUs : gp_state'[i] = "DONE" => gp_state[i] = "DONE"
    BY <1>9 DEF SyncReset, RcuTypeOK
  <2>6. Syncing(c) /\ \A i \in CPUs : Passed(c, i)
    BY <2>1 DEF Syncing, Passed, Waiting
  <2>7. ReportInv'
    BY <1>9, <2>4, <2>5, <2>6 DEF SyncReset, ReportInv
  <2> QED
    BY <2>3, <2>7
<1>10. ASSUME NEW c \in CPUs, SyncCallbacks(c) PROVE RcuInv'
  <2>1. callbacks' = callbacks /\ freed' = freed
    BY <1>10 DEF SyncCallbacks, ProcessCallbacks, RcuTypeOK, TargetInv
  <2>2. RcuTypeOK'
    BY <1>10, <2>1 DEF SyncCallbacks, RcuGoto, RcuTypeOK, RcuLabels
  <2>3. ReaderInv' /\ NoUseAfterFree'
    BY <1>10, <2>1 DEF SyncCallbacks, RcuGoto, RcuTypeOK, ReaderInv, NoUseAfterFree
  <2>4. TargetInv'
    BY <1>10, <2>1 DEF SyncCallbacks, RcuGoto, RcuTypeOK, TargetInv, Syncing, Waiting
  <2>5. ReportInv'
    BY <1>10, <2>1 DEF SyncCallbacks, RcuGoto, RcuTypeOK, TargetInv, ReportInv, Syncing, Marked,
       Passed, Waiting
  <2> QED
    BY <2>2, <2>3, <2>4, <2>5
<1>11. ASSUME NEW c \in CPUs, Free(c) PROVE RcuInv'
  <2>1. \A i \in CPUs : old[c] \notin ref[i]
    BY <1>11 DEF Free, RcuTypeOK, ReaderInv, ReportInv, Syncing, Passed, Waiting
  <2>2. RcuTypeOK'
    BY <1>11 DEF Free, RcuGoto, RcuTypeOK, RcuLabels
  <2>3. ReaderInv' /\ NoUseAfterFree'
    BY <1>11, <2>1 DEF Free, RcuGoto, RcuTypeOK, ReaderInv, NoUseAfterFree
  <2>4. old[c] < pointer
    BY <1>11 DEF Free, TargetInv, Syncing, Waiting
  <2>5. TargetInv'
    BY <1>11, <2>4 DEF Free, RcuGoto, RcuTypeOK, TargetInv, Syncing
  <2>6. ReportInv'
    BY <1>11 DEF Free, RcuGoto, RcuTypeOK, ReportInv, Syncing, Marked, Passed, Waiting
  <2> QED
    BY <2>2, <2>3, <2>5, <2>6
<1>12. ASSUME NEW c \in CPUs, NoteQuiescentState(c) PROVE RcuInv'
  <2>1. RcuTypeOK'
    BY <1>12 DEF NoteQuiescentState, RcuGoto, RcuTypeOK, RcuLabels
  <2>2. ReaderInv' /\ NoUseAfterFree'
    BY <1>12 DEF NoteQuiescentState, RcuGoto, RcuTypeOK, ReaderInv, NoUseAfterFree
  <2>3. TargetInv'
    BY <1>12 DEF NoteQuiescentState, RcuGoto, RcuTypeOK, TargetInv, Syncing, Waiting
  <2>4. ReportInv'
    BY <1>12 DEF NoteQuiescentState, RcuGoto, RcuTypeOK, TargetInv, ReportInv, Syncing, Marked,
       Passed, Waiting
  <2> QED
    BY <2>1, <2>2, <2>3, <2>4
<1>13. ASSUME NEW c \in CPUs, NoteDone(c) PROVE RcuInv'
  <2>1. ref[c] = {}
    BY <1>13 DEF NoteDone, RcuTypeOK, ReaderInv
  <2>2. RcuTypeOK'
    BY <1>13, <2>1 DEF NoteDone, RcuGoto, RcuTypeOK, RcuLabels
  <2>3. ReaderInv' /\ NoUseAfterFree'
    BY <1>13, <2>1 DEF NoteDone, RcuGoto, RcuTypeOK, ReaderInv, NoUseAfterFree
  <2>4. TargetInv'
    BY <1>13, <2>1 DEF NoteDone, RcuGoto, RcuTypeOK, TargetInv, Syncing, Waiting
  <2>5. ReportInv'
    BY <1>13, <2>1 DEF NoteDone, RcuGoto, RcuTypeOK, TargetInv, ReportInv, Syncing, Marked, Passed,
       Waiting
  <2> QED
    BY <2>2, <2>3, <2>4, <2>5
<1>14. ASSUME NEW c \in CPUs, NoteCallbacks(c) PROVE RcuInv'
  <2>1. callbacks' = callbacks /\ freed' = freed
    BY <1>14 DEF NoteCallbacks, ProcessCallbacks, RcuTypeOK, TargetInv
  <2>2. RcuTypeOK'
    BY <1>14, <2>1 DEF NoteCallbacks, RcuGoto, RcuTypeOK, RcuLabels
  <2>3. ReaderInv' /\ NoUseAfterFree'
    BY <1>14, <2>1 DEF NoteCallbacks, RcuGoto, RcuTypeOK, ReaderInv, NoUseAfterFree
  <2>4. TargetInv'
    BY <1>14, <2>1 DEF NoteCallbacks, RcuGoto, RcuTypeOK, TargetInv, Syncing, Waiting
  <2>5. ReportInv'
    BY <1>14, <2>1 DEF NoteCallbacks, RcuGoto, RcuTypeOK, TargetInv, ReportInv, Syncing, Marked,
       Passed, Waiting
  <2> QED
    BY <2>2, <2>3, <2>4, <2>5
<1>15. CASE UNCHANGED rcu_vars
  BY <1>15 DEF rcu_vars, RcuTypeOK, TargetInv, ReaderInv, ReportInv, NoUseAfterFree, Syncing,
     Marked,
     Passed
<1> QED
  BY <1>1, <1>2, <1>3, <1>4, <1>5, <1>6, <1>7, <1>8, <1>9, <1>10, <1>11, <1>12, <1>13, <1>14,
     <1>15 DEF RcuNext, Sync, Note, SyncTimeout, AssignAndCallRcu

\* Without timeouts and callbacks, nothing is reclaimed under a reader
\* (rcu.rs:157), however many CPUs update at once.
THEOREM GracePeriodProtects ==
  RcuSpec => []NoUseAfterFree
<1> DEFINE Inv == ~setting.timeouts /\ ~setting.call_rcu => RcuInv
<1>1. RcuInit => Inv
  BY RcuInitInv
<1>2. Inv /\ [RcuNext]_rcu_vars => Inv'
  BY RcuNextInv, SettingStays
<1>3. Inv => NoUseAfterFree
  BY DEF RcuInv, NoUseAfterFree
<1> QED
  BY <1>1, <1>2, <1>3, PTL DEF RcuSpec

-----------------------------------------------------------------------------
(* The sequence lock.                                                      *)

\* The counter is odd exactly while a write guard exists; a compare-exchange
\* only ever expects an even counter.
CounterInv ==
  /\ Odd(sequence) <=> \E t \in Threads : seq_pc[t] = "writing"
  /\ \A t \in Threads : seq_pc[t] \in {"write_cas", "try_write_cas"} => ~Odd(seq1[t])

\* While the counter is even the data in place is the version it names.
VersionInv ==
  /\ \A n \in DOMAIN committed : n <= sequence /\ ~Odd(n)
  /\ ~Odd(sequence) => sequence \in DOMAIN committed /\ data = committed[sequence]

\* As long as the counter still has the value a reader loaded, every word the
\* reader has copied belongs to that version.
SeqReaders ==
  \A t \in Threads :
    seq_pc[t] = "guard" =>
      /\ seq1[t] \in DOMAIN committed
      /\ sequence = seq1[t] =>
           \A w \in Words \ left[t] : buf[t][w] = committed[seq1[t]][w]

\* The inductive invariant behind ReadIsCommitted.
SeqInv == /\ SeqTypeOK
          /\ WritersExclude
          /\ CounterInv
          /\ VersionInv
          /\ SeqReaders
          /\ ReadIsCommitted

\* Parity of the successor.
LEMMA OddSucc == \A n \in Nat : Odd(n + 1) <=> ~Odd(n)
BY DEF Odd

\* The initial state has the invariant.
LEMMA SeqInitInv == SeqInit => SeqInv
<1> SUFFICES ASSUME SeqInit PROVE SeqInv
  OBVIOUS
<1>1. SeqTypeOK
  BY DEF SeqInit, SeqTypeOK, Snapshots, SeqLabels
<1>2. ~Odd(sequence)
  BY DEF SeqInit, Odd
<1> QED
  BY <1>1, <1>2 DEF SeqInit, SeqInv, WritersExclude, Writers, CounterInv, VersionInv,
     SeqReaders, ReadIsCommitted

\* Every step keeps the invariant.
LEMMA SeqNextInv == SeqInv /\ [SeqNext]_seq_vars => SeqInv'
<1> SUFFICES ASSUME SeqInv, [SeqNext]_seq_vars PROVE SeqInv'
  OBVIOUS
<1> USE DEF SeqInv
<1>1. ASSUME NEW t \in Threads, Read(t) PROVE SeqInv'
  <2>1. SeqTypeOK'
    BY <1>1 DEF Read, SeqTypeOK, SeqLabels
  <2> QED
    <3>1. WritersExclude' /\ CounterInv' /\ VersionInv'
      BY <1>1 DEF Read, SeqTypeOK, WritersExclude, Writers, CounterInv, VersionInv
    <3>2. SeqReaders'
      BY <1>1 DEF Read, SeqTypeOK, VersionInv, SeqReaders
    <3>3. ReadIsCommitted'
      BY <1>1 DEF Read, SeqTypeOK, ReadIsCommitted
    <3> QED
      BY <2>1, <3>1, <3>2, <3>3
<1>2. ASSUME NEW t \in Threads, NEW w \in Words, CopyWord(t, w) PROVE SeqInv'
  <2>1. SeqTypeOK'
    BY <1>2 DEF CopyWord, SeqTypeOK, Snapshots
  <2>2. SeqReaders'
    <3> SUFFICES ASSUME NEW u \in Threads, seq_pc[u] = "guard", sequence = seq1[u],
                        NEW x \in Words \ left'[u]
                 PROVE  buf'[u][x] = committed[seq1[u]][x]
      BY <1>2 DEF CopyWord, SeqReaders
    <3>1. ~Odd(sequence)
      BY <1>2 DEF SeqReaders, VersionInv, CopyWord, SeqTypeOK
    <3>2. CASE u = t /\ x = w
      BY <1>2, <3>1, <3>2 DEF CopyWord, VersionInv, SeqTypeOK, Snapshots
    <3>3. CASE u # t
      BY <1>2, <3>3 DEF CopyWord, SeqReaders, SeqTypeOK, Snapshots
    <3>4. CASE u = t /\ x # w
      BY <1>2, <3>4 DEF CopyWord, SeqReaders, SeqTypeOK, Snapshots
    <3> QED
      BY <3>2, <3>3, <3>4
  <2>3. WritersExclude' /\ CounterInv' /\ VersionInv'
    BY <1>2 DEF CopyWord, WritersExclude, Writers, CounterInv, VersionInv
  <2>4. ReadIsCommitted'
    BY <1>2 DEF CopyWord, SeqTypeOK, ReadIsCommitted
  <2> QED
    BY <2>1, <2>2, <2>3, <2>4
<1>3. ASSUME NEW t \in Threads, Validate(t) PROVE SeqInv'
  <2>1. SeqTypeOK'
    BY <1>3 DEF Validate, SeqTypeOK, SeqLabels
  <2>2. ReadIsCommitted'
    <3> SUFFICES ASSUME NEW u \in Threads, seq_pc'[u] = "read_ok"
                 PROVE  seq1[u] \in DOMAIN committed /\ buf[u] = committed[seq1[u]]
      BY <1>3 DEF Validate, ReadIsCommitted
    <3>1. CASE u # t
      BY <1>3, <3>1 DEF Validate, ReadIsCommitted, SeqTypeOK
    <3>2. CASE u = t
      <4>1. /\ seq1[u] \in DOMAIN committed
            /\ \A w \in Words : buf[u][w] = committed[seq1[u]][w]
        BY <1>3, <3>2 DEF Validate, SeqReaders, SeqTypeOK
      <4>2. buf[u] \in Snapshots /\ committed[seq1[u]] \in Snapshots
        BY <4>1 DEF SeqTypeOK
      <4> QED
        BY <4>1, <4>2 DEF Snapshots
    <3> QED
      BY <3>1, <3>2
  <2>3. WritersExclude' /\ CounterInv' /\ VersionInv'
    BY <1>3 DEF Validate, SeqTypeOK, WritersExclude, Writers, CounterInv, VersionInv
  <2>4. SeqReaders'
    BY <1>3 DEF Validate, SeqTypeOK, SeqReaders
  <2> QED
    BY <2>1, <2>2, <2>3, <2>4
<1>4. ASSUME NEW t \in Threads, GetValid(t) \/ UseValid(t) \/ DropRead(t) PROVE SeqInv'
  <2>1. /\ seq_pc[t] # "writing" /\ UNCHANGED <<sequence, data, seq1, left, buf, committed>>
        /\ \E l \in {"valid_copy", "valid_ok", "idle"} : seq_pc' = [seq_pc EXCEPT ![t] = l]
    BY <1>4 DEF GetValid, UseValid, DropRead
  <2>2. PICK l \in {"valid_copy", "valid_ok", "idle"} : seq_pc' = [seq_pc EXCEPT ![t] = l]
    BY <2>1
  <2>3. SeqTypeOK'
    BY <2>1, <2>2 DEF SeqTypeOK, SeqLabels
  <2>4. WritersExclude' /\ CounterInv' /\ VersionInv'
    BY <2>1, <2>2 DEF SeqTypeOK, WritersExclude, Writers, CounterInv, VersionInv
  <2>5. SeqReaders' /\ ReadIsCommitted'
    BY <2>1, <2>2 DEF SeqTypeOK, SeqReaders, ReadIsCommitted
  <2> QED
    BY <2>3, <2>4, <2>5
<1>5. ASSUME NEW t \in Threads, WriteLoad(t) \/ TryWriteLoad(t) PROVE SeqInv'
  <2>1. /\ seq_pc[t] # "writing" /\ ~Odd(sequence) /\ UNCHANGED <<sequence, data, left, buf, committed>>
        /\ seq1' = [seq1 EXCEPT ![t] = sequence]
        /\ \E l \in {"write_cas", "try_write_cas"} : seq_pc' = [seq_pc EXCEPT ![t] = l]
    BY <1>5 DEF WriteLoad, TryWriteLoad
  <2>2. PICK l \in {"write_cas", "try_write_cas"} : seq_pc' = [seq_pc EXCEPT ![t] = l]
    BY <2>1
  <2>3. SeqTypeOK'
    BY <2>1, <2>2 DEF SeqTypeOK, SeqLabels
  <2>4. WritersExclude' /\ CounterInv' /\ VersionInv'
    BY <2>1, <2>2 DEF SeqTypeOK, WritersExclude, Writers, CounterInv, VersionInv
  <2>5. SeqReaders'
    BY <2>1, <2>2 DEF SeqTypeOK, SeqReaders
  <2>6. ReadIsCommitted'
    BY <2>1, <2>2 DEF SeqTypeOK, ReadIsCommitted
  <2> QED
    BY <2>3, <2>4, <2>5, <2>6
<1>6. ASSUME NEW t \in Threads, WriteCas(t) \/ TryWriteCas(t) PROVE SeqInv'
  <2>1. CASE /\ sequence = seq1[t]
             /\ sequence' = sequence + 1
             /\ seq_pc' = [seq_pc EXCEPT ![t] = "writing"]
    <3>1. ~Odd(sequence) /\ Odd(sequence')
      BY <1>6, <2>1, OddSucc DEF WriteCas, TryWriteCas, CounterInv, SeqTypeOK
    <3>2. SeqTypeOK'
      BY <1>6, <2>1 DEF WriteCas, TryWriteCas, SeqTypeOK, SeqLabels
    <3>3. WritersExclude' /\ CounterInv'
      BY <1>6, <2>1, <3>1 DEF WriteCas, TryWriteCas, SeqTypeOK, WritersExclude, Writers,
         CounterInv
    <3>4. VersionInv'
      BY <1>6, <2>1, <3>1 DEF WriteCas, TryWriteCas, SeqTypeOK, VersionInv
    <3>5. SeqReaders' /\ ReadIsCommitted'
      BY <1>6, <2>1, <3>1 DEF WriteCas, TryWriteCas, SeqTypeOK, SeqReaders, ReadIsCommitted,
         VersionInv
    <3> QED
      BY <3>2, <3>3, <3>4, <3>5
  <2>2. CASE /\ UNCHANGED sequence
             /\ seq_pc' \in {[seq_pc EXCEPT ![t] = "write"], [seq_pc EXCEPT ![t] = "idle"]}
    <3>1. /\ seq_pc[t] # "writing" /\ UNCHANGED <<sequence, data, seq1, left, buf, committed>>
          /\ \E l \in {"write", "idle"} : seq_pc' = [seq_pc EXCEPT ![t] = l]
      BY <1>6, <2>2 DEF WriteCas, TryWriteCas
    <3>2. PICK l \in {"write", "idle"} : seq_pc' = [seq_pc EXCEPT ![t] = l]
      BY <3>1
    <3>3. SeqTypeOK'
      BY <3>1, <3>2 DEF SeqTypeOK, SeqLabels
    <3>4. WritersExclude' /\ CounterInv' /\ VersionInv'
      BY <3>1, <3>2 DEF SeqTypeOK, WritersExclude, Writers, CounterInv, VersionInv
    <3>5. SeqReaders' /\ ReadIsCommitted'
      BY <3>1, <3>2 DEF SeqTypeOK, SeqReaders, ReadIsCommitted
    <3> QED
      BY <3>3, <3>4, <3>5
  <2> QED
    BY <1>6, <2>1, <2>2 DEF WriteCas, TryWriteCas, SetLowBit, CounterInv
<1>7. ASSUME NEW t \in Threads, NEW w \in Words, NEW v \in Values, WriteWord(t, w, v)
      PROVE SeqInv'
  <2>1. Odd(sequence)
    BY <1>7 DEF WriteWord, CounterInv
  <2>2. SeqTypeOK'
    BY <1>7 DEF WriteWord, SeqTypeOK, Snapshots
  <2> QED
    <3>1. WritersExclude' /\ CounterInv'
      BY <1>7 DEF WriteWord, WritersExclude, Writers, CounterInv
    <3>2. VersionInv' /\ SeqReaders'
      BY <1>7, <2>1 DEF WriteWord, SeqTypeOK, VersionInv, SeqReaders
    <3>3. ReadIsCommitted'
      BY <1>7 DEF WriteWord, ReadIsCommitted
    <3> QED
      BY <2>2, <3>1, <3>2, <3>3
<1>8. ASSUME NEW t \in Threads, DropWrite(t) PROVE SeqInv'
  <2>1. Odd(sequence) /\ ~Odd(sequence + 1) /\ sequence' = sequence + 1
    BY <1>8, OddSucc DEF DropWrite, CounterInv, SeqTypeOK
  <2>2. /\ DOMAIN committed' = DOMAIN committed \cup {sequence + 1}
        /\ committed'[sequence + 1] = data
        /\ sequence + 1 \notin DOMAIN committed
        /\ \A n \in DOMAIN committed : committed'[n] = committed[n]
    BY <1>8 DEF DropWrite, VersionInv, SeqTypeOK
  <2>3. SeqTypeOK'
    BY <1>8, <2>2 DEF DropWrite, SeqTypeOK, SeqLabels
  <2>4. WritersExclude' /\ CounterInv'
    BY <1>8, <2>1 DEF DropWrite, SeqTypeOK, WritersExclude, Writers, CounterInv
  <2>5. VersionInv'
    BY <1>8, <2>1, <2>2 DEF DropWrite, SeqTypeOK, VersionInv
  <2>6. SeqReaders' /\ ReadIsCommitted'
    BY <1>8, <2>1, <2>2 DEF DropWrite, SeqTypeOK, VersionInv, SeqReaders, ReadIsCommitted
  <2> QED
    BY <2>3, <2>4, <2>5, <2>6
<1>9. CASE UNCHANGED seq_vars
  BY <1>9 DEF seq_vars, SeqTypeOK, WritersExclude, Writers, CounterInv, VersionInv, SeqReaders,
     ReadIsCommitted
<1> QED
  BY <1>1, <1>2, <1>3, <1>4, <1>5, <1>6, <1>7, <1>8, <1>9 DEF SeqNext

\* The inductive invariant holds throughout every behaviour.
THEOREM SeqInvariance == SeqSpec => []SeqInv
BY SeqInitInv, SeqNextInv, PTL DEF SeqSpec

\* A validated read returns exactly the version current when read() returned:
\* no execution of seqlock.rs hands a torn value to a caller that copies first
\* and calls is_valid() afterwards.
THEOREM ValidatedReadIsCommitted == SeqSpec => []ReadIsCommitted
BY SeqInvariance, PTL DEF SeqInv

\* write() and try_write() never hand out two write guards at once.
THEOREM WriterExclusion == SeqSpec => []WritersExclude
BY SeqInvariance, PTL DEF SeqInv

\* Published data changes only inside a write section, and the counter never
\* goes back.
THEOREM PublishedVersionsStay == SeqSpec => VersionsAreImmutable
<1>1. SeqInv /\ [SeqNext]_seq_vars
        => [sequence' >= sequence /\ (data' # data => Odd(sequence))]_seq_vars
  <2> SUFFICES ASSUME SeqInv, SeqNext
               PROVE  sequence' >= sequence /\ (data' # data => Odd(sequence))
    OBVIOUS
  <2>1. sequence \in Nat
    BY DEF SeqInv, SeqTypeOK
  <2>2. PICK t \in Threads :
          \/ Read(t) \/ Validate(t) \/ GetValid(t) \/ UseValid(t) \/ DropRead(t)
          \/ \E w \in Words : CopyWord(t, w)
          \/ WriteLoad(t) \/ WriteCas(t) \/ TryWriteLoad(t) \/ TryWriteCas(t)
          \/ \E w \in Words, v \in Values : WriteWord(t, w, v)
          \/ DropWrite(t)
    BY DEF SeqNext
  <2>3. data' # data => Odd(sequence)
    BY <2>2 DEF Read, Validate, GetValid, UseValid, DropRead, CopyWord, WriteLoad,
       WriteCas, TryWriteLoad, TryWriteCas, WriteWord, DropWrite, SeqInv, CounterInv
  <2>4. sequence' \in {sequence, sequence + 1}
    BY <2>2 DEF Read, Validate, GetValid, UseValid, DropRead, CopyWord, WriteLoad,
       WriteCas, TryWriteLoad, TryWriteCas, SetLowBit, WriteWord, DropWrite
  <2> QED
    BY <2>1, <2>3, <2>4
<1> QED
  BY <1>1, SeqInvariance, PTL DEF SeqSpec, VersionsAreImmutable

-----------------------------------------------------------------------------
(* The one-time cell.                                                      *)

\* At most one thread is running a closure, exactly while IN_PROGRESS is
\* set.  This much holds even when closures unwind.
WinnerInv ==
  /\ \A t, u \in Threads :
       once_pc[t] \in {"run", "finish"} /\ once_pc[u] \in {"run", "finish"} => t = u
  /\ once_state = "IN_PROGRESS" <=> \E t \in Threads : once_pc[t] \in {"run", "finish"}

\* What a thread inside a call brings and has done.
CallInv ==
  \A t \in Threads :
    /\ once_pc[t] # "idle" => op[t] \in {"get_or_init", "set"} /\ arg[t] \in Values
    /\ once_pc[t] \in {"load", "cas", "run", "spin", "recheck"} => ~ran[t]
    /\ once_pc[t] = "finish" => value = arg[t] /\ ran[t]

BaseInv == /\ OnceTypeOK
           /\ WinnerInv
           /\ CallInv
           /\ once_state = "DONE" => value \in Values

\* Without unwinding a thread that has stopped waiting finds the cell
\* complete, and the winner finds its own value in it.
ReturnInv ==
  ~unwinds => \A t \in Threads :
    /\ once_pc[t] = "spin" => once_state # "UNINITIALIZED"
    /\ once_pc[t] \in {"recheck", "return"} => once_state = "DONE"
    /\ once_pc[t] = "return" /\ ran[t] => value = arg[t]

LEMMA InitBase == OnceInit => BaseInv
BY DEF OnceInit, BaseInv, OnceTypeOK, WinnerInv, CallInv, States, OnceLabels, None

\* Every step keeps the part that unwinding cannot break.
LEMMA NextBase == BaseInv /\ [OnceNext]_once_vars => BaseInv'
<1> SUFFICES ASSUME BaseInv, [OnceNext]_once_vars PROVE BaseInv'
  OBVIOUS
<1> USE DEF BaseInv
<1>1. ASSUME NEW t \in Threads, NEW call \in {"get_or_init", "set"}, NEW v \in Values,
             Call(t, call, v)
      PROVE  BaseInv'
  <2>1. OnceTypeOK'
    BY <1>1 DEF Call, OnceGoto, OnceTypeOK, CallInv, States, OnceLabels, None
  <2>2. WinnerInv'
    BY <1>1 DEF Call, OnceGoto, OnceTypeOK, WinnerInv
  <2>3. CallInv'
    BY <1>1 DEF Call, OnceGoto, OnceTypeOK, CallInv, None
  <2>4. (once_state = "DONE" => value \in Values)'
    BY <1>1 DEF Call, OnceGoto, OnceTypeOK, CallInv, WinnerInv
  <2> QED
    BY <2>1, <2>2, <2>3, <2>4
<1>2. ASSUME NEW t \in Threads, Get(t) PROVE BaseInv'
  BY <1>2 DEF Get, OnceTypeOK, WinnerInv, CallInv, States, OnceLabels, None
<1>3. ASSUME NEW t \in Threads, FastPath(t) PROVE BaseInv'
  <2>1. OnceTypeOK'
    BY <1>3 DEF FastPath, OnceGoto, OnceTypeOK, CallInv, States, OnceLabels, None
  <2>2. WinnerInv'
    BY <1>3 DEF FastPath, OnceGoto, OnceTypeOK, WinnerInv
  <2>3. CallInv'
    BY <1>3 DEF FastPath, OnceGoto, OnceTypeOK, CallInv, None
  <2>4. (once_state = "DONE" => value \in Values)'
    BY <1>3 DEF FastPath, OnceGoto, OnceTypeOK, CallInv, WinnerInv
  <2> QED
    BY <2>1, <2>2, <2>3, <2>4
<1>4. ASSUME NEW t \in Threads, CompareExchange(t) PROVE BaseInv'
  <2>1. OnceTypeOK'
    BY <1>4 DEF CompareExchange, OnceGoto, OnceTypeOK, States, OnceLabels
  <2>2. once_state \in {"UNINITIALIZED", "IN_PROGRESS", "DONE"}
    BY DEF OnceTypeOK, States
  <2>3. WinnerInv'
    BY <1>4, <2>2 DEF CompareExchange, OnceGoto, OnceTypeOK, WinnerInv
  <2>4. CallInv'
    BY <1>4, <2>2 DEF CompareExchange, OnceGoto, OnceTypeOK, CallInv
  <2>5. (once_state = "DONE" => value \in Values)'
    BY <1>4 DEF CompareExchange
  <2> QED
    BY <2>1, <2>3, <2>4, <2>5
<1>5. ASSUME NEW t \in Threads, RunClosure(t) PROVE BaseInv'
  <2>1. OnceTypeOK'
    BY <1>5 DEF RunClosure, OnceGoto, OnceTypeOK, CallInv, States, OnceLabels, None
  <2>2. WinnerInv'
    BY <1>5 DEF RunClosure, OnceGoto, OnceTypeOK, WinnerInv
  <2>3. CallInv'
    BY <1>5 DEF RunClosure, OnceGoto, OnceTypeOK, CallInv, None, WinnerInv
  <2>4. (once_state = "DONE" => value \in Values)'
    BY <1>5 DEF RunClosure, OnceGoto, OnceTypeOK, CallInv, WinnerInv
  <2> QED
    BY <2>1, <2>2, <2>3, <2>4
<1>6. ASSUME NEW t \in Threads, OnceFinish(t) PROVE BaseInv'
  <2>1. OnceTypeOK'
    BY <1>6 DEF OnceFinish, OnceGoto, OnceTypeOK, CallInv, States, OnceLabels, None
  <2>2. WinnerInv'
    BY <1>6 DEF OnceFinish, OnceGoto, OnceTypeOK, WinnerInv
  <2>3. CallInv'
    BY <1>6 DEF OnceFinish, OnceGoto, OnceTypeOK, CallInv, None
  <2>4. (once_state = "DONE" => value \in Values)'
    BY <1>6 DEF OnceFinish, OnceGoto, OnceTypeOK, CallInv, WinnerInv
  <2> QED
    BY <2>1, <2>2, <2>3, <2>4
<1>7. ASSUME NEW t \in Threads, Panic(t) PROVE BaseInv'
  <2>1. OnceTypeOK'
    BY <1>7 DEF Panic, OnceGoto, OnceTypeOK, CallInv, States, OnceLabels, None
  <2>2. WinnerInv'
    BY <1>7 DEF Panic, OnceGoto, OnceTypeOK, WinnerInv
  <2>3. CallInv'
    BY <1>7 DEF Panic, OnceGoto, OnceTypeOK, CallInv, None
  <2>4. (once_state = "DONE" => value \in Values)'
    BY <1>7 DEF Panic, OnceGoto, OnceTypeOK, CallInv, WinnerInv
  <2> QED
    BY <2>1, <2>2, <2>3, <2>4
<1>8. ASSUME NEW t \in Threads, SpinEnds(t) PROVE BaseInv'
  <2>1. OnceTypeOK'
    BY <1>8 DEF SpinEnds, OnceGoto, OnceTypeOK, CallInv, States, OnceLabels, None
  <2>2. WinnerInv'
    BY <1>8 DEF SpinEnds, OnceGoto, OnceTypeOK, WinnerInv
  <2>3. CallInv'
    BY <1>8 DEF SpinEnds, OnceGoto, OnceTypeOK, CallInv, None
  <2>4. (once_state = "DONE" => value \in Values)'
    BY <1>8 DEF SpinEnds, OnceGoto, OnceTypeOK, CallInv, WinnerInv
  <2> QED
    BY <2>1, <2>2, <2>3, <2>4
<1>9. ASSUME NEW t \in Threads, Recheck(t) PROVE BaseInv'
  <2>1. OnceTypeOK'
    BY <1>9 DEF Recheck, OnceGoto, OnceTypeOK, CallInv, States, OnceLabels, None
  <2>2. WinnerInv'
    BY <1>9 DEF Recheck, OnceGoto, OnceTypeOK, WinnerInv
  <2>3. CallInv'
    BY <1>9 DEF Recheck, OnceGoto, OnceTypeOK, CallInv, None
  <2>4. (once_state = "DONE" => value \in Values)'
    BY <1>9 DEF Recheck, OnceGoto, OnceTypeOK, CallInv, WinnerInv
  <2> QED
    BY <2>1, <2>2, <2>3, <2>4
<1>10. ASSUME NEW t \in Threads, Return(t) PROVE BaseInv'
  <2>1. OnceTypeOK'
    BY <1>10 DEF Return, OnceGoto, OnceTypeOK, CallInv, States, OnceLabels, None
  <2>2. WinnerInv'
    BY <1>10 DEF Return, OnceGoto, OnceTypeOK, WinnerInv
  <2>3. CallInv'
    BY <1>10 DEF Return, OnceGoto, OnceTypeOK, CallInv, None
  <2>4. (once_state = "DONE" => value \in Values)'
    BY <1>10 DEF Return, OnceGoto, OnceTypeOK, CallInv, WinnerInv
  <2> QED
    BY <2>1, <2>2, <2>3, <2>4
<1>11. CASE UNCHANGED once_vars
  BY <1>11 DEF once_vars, OnceTypeOK, WinnerInv, CallInv, States, OnceLabels, None
<1> QED
  BY <1>1, <1>2, <1>3, <1>4, <1>5, <1>6, <1>7, <1>8, <1>9, <1>10, <1>11 DEF OnceNext, OnceStep

\* A complete cell stays complete and is never written again, whether or not
\* closures unwind (once_lock.rs:14-16).
THEOREM CompleteCellIsFinal == OnceSpec => CompleteIsFinal
<1>1. BaseInv /\ [OnceNext]_once_vars =>
        [once_state = "DONE" => UNCHANGED <<once_state, value>>]_once_vars
  <2> SUFFICES ASSUME BaseInv, OnceNext, once_state = "DONE" PROVE UNCHANGED <<once_state, value>>
    BY DEF once_vars
  <2> QED
    BY DEF BaseInv, WinnerInv, OnceNext, OnceStep, Call, Get, FastPath, CompareExchange,
       RunClosure, OnceFinish, Panic, SpinEnds, Recheck, Return
<1> QED
  BY <1>1, InitBase, NextBase, PTL DEF OnceSpec, CompleteIsFinal

\* Where closures do not unwind, what calls return is right.
Returned == ReturnInv /\ ReadsComplete /\ SetTellsTruth

FullInv == BaseInv /\ Returned

LEMMA InitFull == OnceInit => FullInv
BY InitBase DEF OnceInit, FullInv, Returned, ReturnInv, ReadsComplete, SetTellsTruth, None

LEMMA NextFull == FullInv /\ [OnceNext]_once_vars => FullInv'
<1> SUFFICES ASSUME FullInv, [OnceNext]_once_vars PROVE FullInv'
  OBVIOUS
<1>1. BaseInv'
  BY NextBase DEF FullInv
<1> USE DEF Returned, FullInv, BaseInv
<1>2. ASSUME NEW t \in Threads, NEW call \in {"get_or_init", "set"}, NEW v \in Values,
             Call(t, call, v)
      PROVE  Returned'
  <2>1. ReturnInv'
    BY <1>2 DEF Call, OnceGoto, OnceTypeOK, WinnerInv, CallInv, ReturnInv
  <2>2. ReadsComplete'
    BY <1>2 DEF Call, OnceGoto, OnceTypeOK, WinnerInv, CallInv, ReturnInv, ReadsComplete, None
  <2>3. SetTellsTruth'
    BY <1>2 DEF Call, OnceGoto, OnceTypeOK, WinnerInv, CallInv, ReturnInv, SetTellsTruth, None
  <2> QED
    BY <2>1, <2>2, <2>3
<1>3. ASSUME NEW t \in Threads, Get(t) PROVE Returned'
  <2>1. ReturnInv'
    BY <1>3 DEF Get, OnceTypeOK, WinnerInv, CallInv, ReturnInv
  <2>2. ReadsComplete'
    BY <1>3, UninitAssumption DEF Get, OnceTypeOK, WinnerInv, CallInv, ReturnInv, ReadsComplete,
       None
  <2>3. SetTellsTruth'
    BY <1>3 DEF Get, OnceTypeOK, WinnerInv, CallInv, ReturnInv, SetTellsTruth, None
  <2> QED
    BY <2>1, <2>2, <2>3
<1>4. ASSUME NEW t \in Threads, FastPath(t) PROVE Returned'
  <2>1. ReturnInv'
    BY <1>4 DEF FastPath, OnceGoto, OnceTypeOK, WinnerInv, CallInv, ReturnInv
  <2>2. ReadsComplete'
    BY <1>4 DEF FastPath, OnceGoto, OnceTypeOK, WinnerInv, CallInv, ReturnInv, ReadsComplete, None
  <2>3. SetTellsTruth'
    BY <1>4 DEF FastPath, OnceGoto, OnceTypeOK, WinnerInv, CallInv, ReturnInv, SetTellsTruth, None
  <2> QED
    BY <2>1, <2>2, <2>3
<1>5. ASSUME NEW t \in Threads, CompareExchange(t) PROVE Returned'
  <2>1. ReturnInv'
    BY <1>5 DEF CompareExchange, OnceGoto, OnceTypeOK, WinnerInv, CallInv, ReturnInv, States
  <2>2. ReadsComplete'
    BY <1>5 DEF CompareExchange, OnceGoto, OnceTypeOK, States, WinnerInv, CallInv, ReadsComplete,
       None
  <2>3. SetTellsTruth'
    BY <1>5 DEF CompareExchange, OnceGoto, OnceTypeOK, States, WinnerInv, CallInv, SetTellsTruth,
       None
  <2> QED
    BY <2>1, <2>2, <2>3
<1>6. ASSUME NEW t \in Threads, RunClosure(t) PROVE Returned'
  <2>1. ReturnInv'
    BY <1>6 DEF RunClosure, OnceGoto, OnceTypeOK, WinnerInv, CallInv, ReturnInv
  <2>2. ReadsComplete'
    BY <1>6 DEF RunClosure, OnceGoto, OnceTypeOK, WinnerInv, CallInv, ReturnInv, ReadsComplete, None
  <2>3. SetTellsTruth'
    BY <1>6 DEF RunClosure, OnceGoto, OnceTypeOK, WinnerInv, CallInv, ReturnInv, SetTellsTruth, None
  <2> QED
    BY <2>1, <2>2, <2>3
<1>7. ASSUME NEW t \in Threads, OnceFinish(t) PROVE Returned'
  <2>1. ReturnInv'
    BY <1>7 DEF OnceFinish, OnceGoto, OnceTypeOK, WinnerInv, CallInv, ReturnInv
  <2>2. ReadsComplete'
    BY <1>7 DEF OnceFinish, OnceGoto, OnceTypeOK, WinnerInv, CallInv, ReturnInv, ReadsComplete, None
  <2>3. SetTellsTruth'
    BY <1>7 DEF OnceFinish, OnceGoto, OnceTypeOK, WinnerInv, CallInv, ReturnInv, SetTellsTruth, None
  <2> QED
    BY <2>1, <2>2, <2>3
<1>8. ASSUME NEW t \in Threads, SpinEnds(t) PROVE Returned'
  <2>1. ReturnInv'
    BY <1>8 DEF SpinEnds, OnceGoto, OnceTypeOK, WinnerInv, CallInv, ReturnInv, States
  <2>2. ReadsComplete'
    BY <1>8 DEF SpinEnds, OnceGoto, OnceTypeOK, WinnerInv, CallInv, ReturnInv, ReadsComplete, None
  <2>3. SetTellsTruth'
    BY <1>8 DEF SpinEnds, OnceGoto, OnceTypeOK, WinnerInv, CallInv, ReturnInv, SetTellsTruth, None
  <2> QED
    BY <2>1, <2>2, <2>3
<1>9. ASSUME NEW t \in Threads, Recheck(t) PROVE Returned'
  <2>1. ReturnInv'
    BY <1>9 DEF Recheck, OnceGoto, OnceTypeOK, WinnerInv, CallInv, ReturnInv
  <2>2. ReadsComplete'
    BY <1>9 DEF Recheck, OnceGoto, OnceTypeOK, WinnerInv, CallInv, ReturnInv, ReadsComplete, None
  <2>3. SetTellsTruth'
    BY <1>9 DEF Recheck, OnceGoto, OnceTypeOK, WinnerInv, CallInv, ReturnInv, SetTellsTruth, None
  <2> QED
    BY <2>1, <2>2, <2>3
<1>10. ASSUME NEW t \in Threads, Return(t) PROVE Returned'
  <2>1. ReturnInv'
    BY <1>10 DEF Return, OnceGoto, OnceTypeOK, WinnerInv, CallInv, ReturnInv
  <2>2. ReadsComplete'
    BY <1>10, UninitAssumption DEF Return, OnceGoto, OnceTypeOK, WinnerInv, CallInv, ReturnInv,
       ReadsComplete, None
  <2>3. SetTellsTruth'
    BY <1>10 DEF Return, OnceGoto, OnceTypeOK, WinnerInv, CallInv, ReturnInv, SetTellsTruth, None
  <2> QED
    BY <2>1, <2>2, <2>3
<1>11. ASSUME NEW t \in Threads, Panic(t) PROVE Returned'
  <2>1. ReturnInv'
    BY <1>11 DEF Panic, OnceGoto, OnceTypeOK, WinnerInv, CallInv, ReturnInv
  <2>2. ReadsComplete'
    BY <1>11 DEF Panic, OnceGoto, OnceTypeOK, WinnerInv, CallInv, ReturnInv, ReadsComplete, None
  <2>3. SetTellsTruth'
    BY <1>11 DEF Panic, OnceGoto, OnceTypeOK, WinnerInv, CallInv, ReturnInv, SetTellsTruth, None
  <2> QED
    BY <2>1, <2>2, <2>3
<1>12. CASE UNCHANGED once_vars
  BY <1>1, <1>12 DEF once_vars, ReturnInv, ReadsComplete, SetTellsTruth, None
<1> HIDE DEF Returned, BaseInv
<1>13. Returned'
  BY <1>2, <1>3, <1>4, <1>5, <1>6, <1>7, <1>8, <1>9, <1>10, <1>11, <1>12 DEF OnceNext, OnceStep
<1> QED
  BY <1>1, <1>13 DEF Returned

\* In a build that aborts on panic, get_or_init and get only ever return a
\* complete cell with its one value (once_lock.rs:178).
THEOREM ReadsAreComplete ==
  OnceSpec => []ReadsComplete
<1>1. FullInv => ReadsComplete
  BY DEF FullInv, Returned
<1>2. FullInv /\ [OnceNext]_once_vars => FullInv'
  BY NextFull
<1> QED
  BY <1>1, <1>2, InitFull, PTL DEF OnceSpec

\* In such a build set() returns Ok exactly for the value in the cell, and
\* Err only for a complete cell.
THEOREM SetIsTruthful ==
  OnceSpec => []SetTellsTruth
<1>1. FullInv => SetTellsTruth
  BY DEF FullInv, Returned
<1>2. FullInv /\ [OnceNext]_once_vars => FullInv'
  BY NextFull
<1> QED
  BY <1>1, <1>2, InitFull, PTL DEF OnceSpec

=============================================================================
