-------------------------- MODULE OpenFilesProofs --------------------------
(***************************************************************************)
(* Proofs for any number of threads and any sizes of the tables: no open   *)
(* file is released under a holder until the numbers of open files wrap,   *)
(* and a deadlock goes through a write.                                    *)
(***************************************************************************)
EXTENDS OpenFiles, FiniteSetTheorems, TLAPS

\* The leaves are first-order facts about functions and sets; the ones that need
\* arithmetic cite SMT.
USE Zenon

Labels == {"user", "stat", "insert", "alloc_fd", "set_fd", "undo", "memfd_insert",
           "memfd_open", "memfd_set", "memfd_undo", "dec", "inc", "dup2_close",
           "with_file", "fstat", "append", "write", "notify", "check_ready"}

Inserting == {"insert", "memfd_insert"}
CallHolds == {"alloc_fd", "set_fd", "undo", "dec"}
InFile == {"with_file", "fstat", "append", "write"}

TypeOK ==
  /\ used \in [Fd -> BOOLEAN] /\ handle \in [Fd -> Handle \cup {NoHandle}]
  /\ live \in [Handle -> BOOLEAN] /\ refcount \in [Handle -> Int]
  /\ next_id \in 1 .. ID_SPAN
  /\ at \in [Threads -> Labels]
  /\ hd \in [Threads -> Handle \cup {NoHandle}] /\ memfd \in [Threads -> Handle \cup {NoHandle}]
  /\ fd \in [Threads -> Fd]

\* A call that will use its registers has something in them.
RegisterInv ==
  \A t \in Threads :
    /\ at[t] \in Inserting \cup CallHolds \cup InFile \cup {"inc"} => hd[t] \in Handle
    /\ at[t] \in {"memfd_set", "memfd_undo"} => memfd[t] \in Handle

\* Numbers given out are below next_id. One that is being inserted is not in the
\* table, belongs to one thread and is held by nobody.
FreshInv ==
  /\ \A h \in Handle : live[h] => h < next_id
  /\ \A t \in Threads : at[t] \in Inserting => hd[t] < next_id /\ ~live[hd[t]]
  /\ \A s, t \in Threads : s # t /\ at[s] \in Inserting /\ at[t] \in Inserting => hd[s] # hd[t]

\* dup and dup2 keep the descriptor table locked until the copy is counted; the
\* slot they copy still has the handle, and the one dup2 closes has its own.
DupInv ==
  \A t \in Threads :
    /\ at[t] \in {"inc", "dup2_close"} =>
         /\ fd_lock = t
         /\ hd[t] # NoHandle => \E f \in Fd \ {fd[t]} : handle[f] = hd[t]
    /\ at[t] = "inc" => handle[fd[t]] = hd[t]
    /\ at[t] = "dup2_close" => handle[fd[t]] \in Handle

IndInv == TypeOK /\ RegisterInv /\ FreshInv /\ DupInv /\ Covered

---------------------------------------------------------------------------
(* Counting holders.                                                       *)

LEMMA ConstantFacts ==
  /\ NoHandle \notin Handle /\ 0 \in Fd /\ Nobody \notin Threads
  /\ MAX_OPEN_FILES \in Nat \ {0}
  /\ \A n \in 1 .. ID_SPAN : n < MAX_OPEN_FILES => n \in Handle
BY FileClientsAssumption, SMT DEF NoHandle, Handle, Fd

LEMMA SmallModulo ==
  ASSUME NEW n \in Nat, NEW m \in Nat, n < m
  PROVE  n % m = n
BY SMT

\* Until the counter wraps, alloc hands out the number that is in it.
LEMMA NumberFacts ==
  ASSUME TypeOK, TakeNumber, next_id' <= ID_SPAN
  PROVE  /\ next_id' = next_id + 1 /\ next_id' \in 1 .. ID_SPAN /\ handle_id = next_id
         /\ handle_id < MAX_OPEN_FILES => next_id \in Handle
<1>1. /\ next_id \in Nat /\ ID_SPAN \in Nat /\ next_id < ID_SPAN /\ MAX_OPEN_FILES \in Nat
      /\ next_id' = next_id + 1 /\ next_id' \in 1 .. ID_SPAN
  BY FileClientsAssumption, SMT DEF TypeOK, TakeNumber
<1>2. handle_id = next_id
  BY <1>1, SmallModulo DEF handle_id
<1> QED
  BY <1>1, <1>2, SMT DEF Handle

LEMMA PlacesFinite == IsFiniteSet(Place)
<1>1. IsFiniteSet(Fd) /\ IsFiniteSet(Threads)
  BY FS_Interval, FileClientsAssumption, SMT DEF Fd
<1>2. IsFiniteSet({"fd"}) /\ IsFiniteSet({"call", "memfd"})
  <2>1. IsFiniteSet({"fd"}) /\ IsFiniteSet({"call"}) /\ IsFiniteSet({"memfd"})
    BY FS_Singleton
  <2>2. IsFiniteSet({"call"} \cup {"memfd"})
    BY <2>1, FS_Union
  <2>3. {"call"} \cup {"memfd"} = {"call", "memfd"}
    OBVIOUS
  <2> QED
    BY <2>1, <2>2, <2>3
<1>3. IsFiniteSet({"fd"} \X Fd) /\ IsFiniteSet({"call", "memfd"} \X Threads)
  BY <1>1, <1>2, FS_Product
<1> QED
  BY <1>3, FS_Union DEF Place

\* Sets of slots are counted, and a set whose members are those of another but
\* one, or are joined by one more, is smaller or larger by at most one.
LEMMA Counting ==
  \A A, B \in SUBSET Place :
    /\ Cardinality(A) \in Nat
    /\ B \subseteq A => Cardinality(B) <= Cardinality(A)
    /\ \A x \in A : B \subseteq A \ {x} => Cardinality(B) <= Cardinality(A) - 1
    /\ \A x \in A : \A y : B \subseteq (A \ {x}) \cup {y} => Cardinality(B) <= Cardinality(A)
    /\ \A y : B \subseteq A \cup {y} => Cardinality(B) <= Cardinality(A) + 1
    /\ \A x \in A : Cardinality(A) > 0
    /\ \A y : B \subseteq {y} => Cardinality(B) <= 1
<1> SUFFICES ASSUME NEW A \in SUBSET Place, NEW B \in SUBSET Place
             PROVE  /\ Cardinality(A) \in Nat
                    /\ B \subseteq A => Cardinality(B) <= Cardinality(A)
                    /\ \A x \in A : B \subseteq A \ {x} => Cardinality(B) <= Cardinality(A) - 1
                    /\ \A x \in A : \A y : B \subseteq (A \ {x}) \cup {y} =>
                         Cardinality(B) <= Cardinality(A)
                    /\ \A y : B \subseteq A \cup {y} => Cardinality(B) <= Cardinality(A) + 1
                    /\ \A x \in A : Cardinality(A) > 0
                    /\ \A y : B \subseteq {y} => Cardinality(B) <= 1
  OBVIOUS
<1>1. IsFiniteSet(A) /\ IsFiniteSet(B) /\ Cardinality(A) \in Nat /\ Cardinality(B) \in Nat
  BY PlacesFinite, FS_Subset, FS_CardinalityType
<1>2. B \subseteq A => Cardinality(B) <= Cardinality(A)
  BY <1>1, FS_Subset
<1>3. ASSUME NEW x \in A, NEW y, B \subseteq (A \ {x}) \cup {y}
      PROVE  Cardinality(B) <= Cardinality(A)
  <2>1. IsFiniteSet(A \ {x}) /\ Cardinality(A \ {x}) = Cardinality(A) - 1
    BY <1>1, FS_RemoveElement
  <2>2. /\ IsFiniteSet((A \ {x}) \cup {y})
        /\ Cardinality((A \ {x}) \cup {y}) \in {Cardinality(A) - 1, Cardinality(A)}
    BY <1>1, <2>1, FS_AddElement, SMT
  <2>3. Cardinality(B) <= Cardinality((A \ {x}) \cup {y})
    BY <1>3, <2>2, FS_Subset
  <2> QED
    BY <1>1, <2>2, <2>3, SMT
<1>4. ASSUME NEW x \in A, B \subseteq A \ {x} PROVE Cardinality(B) <= Cardinality(A) - 1
  <2>1. IsFiniteSet(A \ {x}) /\ Cardinality(A \ {x}) = Cardinality(A) - 1
    BY <1>1, FS_RemoveElement
  <2> QED
    BY <1>4, <2>1, FS_Subset, SMT
<1>5. ASSUME NEW y, B \subseteq A \cup {y} PROVE Cardinality(B) <= Cardinality(A) + 1
  <2>1. /\ IsFiniteSet(A \cup {y})
        /\ Cardinality(A \cup {y}) \in {Cardinality(A), Cardinality(A) + 1}
    BY <1>1, FS_AddElement
  <2>2. Cardinality(B) <= Cardinality(A \cup {y})
    BY <1>5, <2>1, FS_Subset
  <2> QED
    BY <1>1, <2>1, <2>2, SMT
<1>6. ASSUME NEW x \in A PROVE Cardinality(A) > 0
  BY <1>1, FS_EmptySet, SMT
<1>7. ASSUME NEW y, B \subseteq {y} PROVE Cardinality(B) <= 1
  <2>1. IsFiniteSet({y}) /\ Cardinality({y}) = 1
    BY FS_Singleton
  <2> QED
    BY <1>7, <2>1, FS_Subset
<1> QED
  BY <1>1, <1>2, <1>3, <1>4, <1>5, <1>6, <1>7

---------------------------------------------------------------------------
(* What a step may do to the slots without releasing a file under one.     *)

LEMMA HoldersArePlaces == \A h : Holders(h) \in SUBSET Place /\ Holders(h)' \in SUBSET Place
BY DEF Holders

\* References only go away.
LEMMA Forgetting ==
  ASSUME TypeOK, Covered,
         \A x \in Place : Ref(x)' \in {Ref(x), NoHandle},
         live' = live, refcount' = refcount
  PROVE  Covered'
<1> SUFFICES ASSUME NEW h \in Handle, Holders(h)' # {}
             PROVE  live'[h] /\ Cardinality(Holders(h)') <= refcount'[h]
  BY DEF Covered
<1>1. Holders(h)' \subseteq Holders(h)
  BY ConstantFacts DEF Holders
<1>2. live[h] /\ Cardinality(Holders(h)) <= refcount[h]
  BY <1>1 DEF Covered
<1>3. /\ Cardinality(Holders(h)) \in Nat /\ Cardinality(Holders(h)') \in Nat
      /\ Cardinality(Holders(h)') <= Cardinality(Holders(h))
  BY <1>1, Counting, HoldersArePlaces
<1> QED
  BY <1>2, <1>3, SMT DEF TypeOK

\* A reference moves from slot p to slot q.
LEMMA Moving ==
  ASSUME TypeOK, Covered, NEW p \in Place, NEW q \in Place,
         \A x \in Place \ {p, q} : Ref(x)' = Ref(x),
         p # q, Ref(p)' = NoHandle, Ref(q)' = Ref(p),
         live' = live, refcount' = refcount
  PROVE  Covered'
<1> SUFFICES ASSUME NEW h \in Handle, Holders(h)' # {}
             PROVE  live'[h] /\ Cardinality(Holders(h)') <= refcount'[h]
  BY DEF Covered
<1>1. CASE Ref(p) = h
  <2>1. p \in Holders(h) /\ Holders(h)' \subseteq (Holders(h) \ {p}) \cup {q}
    BY <1>1, ConstantFacts DEF Holders
  <2>2. live[h] /\ Cardinality(Holders(h)) <= refcount[h]
    BY <2>1 DEF Covered
  <2>3. /\ Cardinality(Holders(h)) \in Nat /\ Cardinality(Holders(h)') \in Nat
        /\ Cardinality(Holders(h)') <= Cardinality(Holders(h))
    BY <2>1, Counting, HoldersArePlaces
  <2> QED
    BY <2>2, <2>3, SMT DEF TypeOK
<1>2. CASE Ref(p) # h
  <2>1. Holders(h)' \subseteq Holders(h)
    BY <1>2, ConstantFacts DEF Holders
  <2>2. live[h] /\ Cardinality(Holders(h)) <= refcount[h]
    BY <2>1 DEF Covered
  <2>3. /\ Cardinality(Holders(h)) \in Nat /\ Cardinality(Holders(h)') \in Nat
        /\ Cardinality(Holders(h)') <= Cardinality(Holders(h))
    BY <2>1, Counting, HoldersArePlaces
  <2> QED
    BY <2>2, <2>3, SMT DEF TypeOK
<1> QED
  BY <1>1, <1>2

\* dec_ref of a file that has a holder lowers its count and leaves its entry.
LEMMA DecRefHeld ==
  ASSUME TypeOK, Covered, NEW p \in Place, NEW g \in Handle, Ref(p) = g, DecRef(g)
  PROVE  /\ live' = live /\ refcount' = [refcount EXCEPT ![g] = @ - 1]
         /\ refcount' \in [Handle -> Int]
         /\ live[g] /\ Cardinality(Holders(g)) <= refcount[g]
<1>1. p \in Holders(g)
  BY DEF Holders
<1>2. live[g] /\ Cardinality(Holders(g)) <= refcount[g]
  BY <1>1 DEF Covered
<1>3. Cardinality(Holders(g)) \in Nat /\ Cardinality(Holders(g)) > 0
  BY <1>1, Counting, HoldersArePlaces
<1>4. refcount \in [Handle -> Int] /\ live \in [Handle -> BOOLEAN]
  BY DEF TypeOK
<1>5. refcount[g] # 0
  BY <1>2, <1>3, <1>4, SMT
<1>6. refcount' = [refcount EXCEPT ![g] = @ - 1]
  BY <1>2 DEF DecRef
<1>7. live' = live
  BY <1>2, <1>4, <1>5 DEF DecRef
<1>8. refcount' \in [Handle -> Int]
  BY <1>4, <1>6, SMT
<1> QED
  BY <1>2, <1>6, <1>7, <1>8 DEF DecRef

\* Slot p gives its reference up with dec_ref.
LEMMA Releasing ==
  ASSUME TypeOK, Covered, NEW p \in Place, Ref(p) \in Handle,
         \A x \in Place \ {p} : Ref(x)' = Ref(x), Ref(p)' = NoHandle, DecRef(Ref(p))
  PROVE  Covered' /\ live' = live
<1> DEFINE g == Ref(p)
<1>1. p \in Holders(g)
  BY DEF Holders
<1>2. live[g] /\ Cardinality(Holders(g)) <= refcount[g]
  BY DecRefHeld
<1>3. Cardinality(Holders(g)) \in Nat /\ Cardinality(Holders(g)) > 0
  BY <1>1, Counting, HoldersArePlaces
<1>5. live' = live /\ refcount' = [refcount EXCEPT ![g] = @ - 1]
  BY DecRefHeld
<1> SUFFICES ASSUME NEW h \in Handle, Holders(h)' # {}
             PROVE  live'[h] /\ Cardinality(Holders(h)') <= refcount'[h]
  BY <1>5 DEF Covered
<1>6. CASE h = g
  <2>1. Holders(h)' \subseteq Holders(h) \ {p}
    BY <1>6, ConstantFacts DEF Holders
  <2>2. Cardinality(Holders(h)') \in Nat /\ Cardinality(Holders(h)') <= Cardinality(Holders(h)) - 1
    BY <1>1, <1>6, <2>1, Counting, HoldersArePlaces
  <2> QED
    BY <1>2, <1>3, <1>5, <1>6, <2>2, SMT DEF TypeOK
<1>7. CASE h # g
  <2>1. Holders(h)' \subseteq Holders(h)
    BY <1>7, ConstantFacts DEF Holders
  <2>2. live[h] /\ Cardinality(Holders(h)) <= refcount[h]
    BY <2>1 DEF Covered
  <2>3. /\ Cardinality(Holders(h)) \in Nat /\ Cardinality(Holders(h)') \in Nat
        /\ Cardinality(Holders(h)') <= Cardinality(Holders(h))
    BY <2>1, Counting, HoldersArePlaces
  <2> QED
    BY <1>5, <1>7, <2>2, <2>3, SMT DEF TypeOK
<1> QED
  BY <1>6, <1>7

\* alloc puts a file in an entry that was empty, and slot q holds it.
LEMMA Inserted ==
  ASSUME TypeOK, Covered, NEW q \in Place, NEW t \in Threads, NEW g \in Handle, g = hd[t], ~live[g],
         \A x \in Place \ {q} : Ref(x)' = Ref(x), Ref(q)' = g, Insert(t)
  PROVE  Covered'
<1> SUFFICES ASSUME NEW h \in Handle, Holders(h)' # {}
             PROVE  live'[h] /\ Cardinality(Holders(h)') <= refcount'[h]
  BY DEF Covered
<1>1. CASE h = g
  <2>1. Holders(g) = {}
    BY DEF Covered
  <2>2. Holders(h)' \subseteq {q}
    BY <1>1, <2>1 DEF Holders
  <2>3. Cardinality(Holders(h)') <= 1
    BY <2>2, Counting, HoldersArePlaces
  <2> QED
    BY <1>1, <2>3 DEF Insert, TypeOK
<1>2. CASE h # g
  <2>1. Holders(h)' \subseteq Holders(h)
    BY <1>2 DEF Holders
  <2>2. live[h] /\ Cardinality(Holders(h)) <= refcount[h]
    BY <2>1 DEF Covered
  <2>3. /\ Cardinality(Holders(h)) \in Nat /\ Cardinality(Holders(h)') \in Nat
        /\ Cardinality(Holders(h)') <= Cardinality(Holders(h))
    BY <2>1, Counting, HoldersArePlaces
  <2> QED
    BY <1>2, <2>2, <2>3, SMT DEF Insert, TypeOK
<1> QED
  BY <1>1, <1>2

\* inc_ref counts slot q, which joins another holder p of the same file.
LEMMA Sharing ==
  ASSUME TypeOK, Covered, NEW p \in Place, NEW q \in Place, Ref(p) \in Handle,
         \A x \in Place \ {q} : Ref(x)' = Ref(x), Ref(q)' = Ref(p), live' = live,
         refcount' = [refcount EXCEPT ![Ref(p)] = IF live[Ref(p)] THEN @ + 1 ELSE @]
  PROVE  Covered'
<1> DEFINE g == Ref(p)
<1>1. live[g] /\ Cardinality(Holders(g)) <= refcount[g]
  BY DEF Covered, Holders
<1> SUFFICES ASSUME NEW h \in Handle, Holders(h)' # {}
             PROVE  live'[h] /\ Cardinality(Holders(h)') <= refcount'[h]
  BY DEF Covered
<1>2. CASE h = g
  <2>1. Holders(h)' \subseteq Holders(h) \cup {q}
    BY DEF Holders
  <2>2. /\ Cardinality(Holders(h)) \in Nat /\ Cardinality(Holders(h)') \in Nat
        /\ Cardinality(Holders(h)') <= Cardinality(Holders(h)) + 1
    BY <2>1, Counting, HoldersArePlaces
  <2> QED
    BY <1>1, <1>2, <2>2, SMT DEF TypeOK
<1>3. CASE h # g
  <2>1. Holders(h)' \subseteq Holders(h)
    BY <1>3 DEF Holders
  <2>2. live[h] /\ Cardinality(Holders(h)) <= refcount[h]
    BY <2>1 DEF Covered
  <2>3. /\ Cardinality(Holders(h)) \in Nat /\ Cardinality(Holders(h)') \in Nat
        /\ Cardinality(Holders(h)') <= Cardinality(Holders(h))
    BY <2>1, Counting, HoldersArePlaces
  <2> QED
    BY <1>3, <2>2, <2>3, SMT DEF TypeOK
<1> QED
  BY <1>2, <1>3

---------------------------------------------------------------------------
(* The three kinds of slots.                                               *)

FdRef(f) == IF Filling(f) THEN NoHandle ELSE handle[f]
CallRef(t) == IF at[t] \in CallHolds THEN hd[t] ELSE NoHandle

LEMMA PlaceKinds ==
  /\ \A x \in Place : \/ \E f \in Fd : x = <<"fd", f>>
                      \/ \E t \in Threads : x = <<"call", t>> \/ x = <<"memfd", t>>
  /\ \A f \in Fd : /\ <<"fd", f>> \in Place
                   /\ Ref(<<"fd", f>>) = FdRef(f) /\ Ref(<<"fd", f>>)' = FdRef(f)'
  /\ \A t \in Threads : /\ <<"call", t>> \in Place /\ <<"memfd", t>> \in Place
                        /\ Ref(<<"call", t>>) = CallRef(t)
                        /\ Ref(<<"call", t>>)' = CallRef(t)'
                        /\ Ref(<<"memfd", t>>) = memfd[t]
                        /\ Ref(<<"memfd", t>>)' = memfd'[t]
BY SMT DEF Place, Ref, FdRef, CallRef, CallHolds

\* Forgetting, kind by kind.
LEMMA ForgettingKinds ==
  ASSUME TypeOK, Covered, live' = live, refcount' = refcount,
         \A f \in Fd : FdRef(f)' \in {FdRef(f), NoHandle},
         \A t \in Threads : CallRef(t)' \in {CallRef(t), NoHandle},
         \A t \in Threads : memfd'[t] \in {memfd[t], NoHandle}
  PROVE  Covered'
<1>1. ASSUME NEW x \in Place PROVE Ref(x)' \in {Ref(x), NoHandle}
  BY PlaceKinds
<1> QED
  BY <1>1, Forgetting

\* The slots outside P keep what they refer to.
LEMMA OtherPlaces ==
  ASSUME NEW P,
         \A f \in Fd : <<"fd", f>> \notin P => FdRef(f)' = FdRef(f),
         \A t \in Threads : <<"call", t>> \notin P => CallRef(t)' = CallRef(t),
         \A t \in Threads : <<"memfd", t>> \notin P => memfd'[t] = memfd[t]
  PROVE  \A x \in Place \ P : Ref(x)' = Ref(x)
<1> SUFFICES ASSUME NEW x \in Place, x \notin P PROVE Ref(x)' = Ref(x)
  OBVIOUS
<1>1. CASE \E f \in Fd : x = <<"fd", f>>
  <2>1. PICK f \in Fd : x = <<"fd", f>>
    BY <1>1
  <2>2. FdRef(f)' = FdRef(f)
    BY <2>1
  <2> QED
    BY <2>1, <2>2, PlaceKinds, SMT
<1>2. CASE \E t \in Threads : x = <<"call", t>>
  <2>1. PICK t \in Threads : x = <<"call", t>>
    BY <1>2
  <2>2. CallRef(t)' = CallRef(t)
    BY <2>1
  <2>3. Ref(<<"call", t>>) = CallRef(t) /\ Ref(<<"call", t>>)' = CallRef(t)'
    BY PlaceKinds
  <2> QED
    BY <2>1, <2>2, <2>3
<1>3. CASE \E t \in Threads : x = <<"memfd", t>>
  <2>1. PICK t \in Threads : x = <<"memfd", t>>
    BY <1>3
  <2>2. memfd'[t] = memfd[t]
    BY <2>1
  <2> QED
    BY <2>1, <2>2, PlaceKinds
<1> QED
  BY <1>1, <1>2, <1>3, PlaceKinds

---------------------------------------------------------------------------
(* The calls that leave the tables alone.                                  *)

Calm == {"user", "stat", "notify", "check_ready"} \cup InFile

LEMMA CalmStep ==
  ASSUME IndInv, NEW t \in Threads, at[t] \in Calm,
         NEW l \in Calm, at' = [at EXCEPT ![t] = l],
         NEW x \in Handle \cup {NoHandle}, hd' = [hd EXCEPT ![t] = x],
         l \in InFile => x \in Handle,
         NEW y \in Fd, fd' = [fd EXCEPT ![t] = y],
         UNCHANGED <<fds, files, next_id, memfd, fd_lock>>
  PROVE  IndInv'
<1> USE DEF IndInv
<1>1. TypeOK'
  BY DEF TypeOK, Calm, InFile, Labels, fds, files
<1>2. RegisterInv' /\ FreshInv'
  BY DEF TypeOK, RegisterInv, FreshInv, Calm, Inserting, CallHolds, InFile, fds, files
<1>3. DupInv'
  BY DEF TypeOK, DupInv, Calm, InFile, fds
<1>4. \A f \in Fd : Filling(f)' = Filling(f)
  BY DEF TypeOK, Filling, Calm, InFile
<1>5. Covered'
  BY <1>4, ForgettingKinds DEF FdRef, CallRef, TypeOK, Calm, InFile, CallHolds, fds, files
<1> QED
  BY <1>1, <1>2, <1>3, <1>5

\* A call that returns.
LEMMA ReturnStep ==
  ASSUME IndInv, NEW t \in Threads, at[t] \in Calm, Return(t),
         UNCHANGED <<fds, files, next_id, memfd, fd_lock>>
  PROVE  IndInv'
<1>1. /\ at' = [at EXCEPT ![t] = "user"]
      /\ hd' = [hd EXCEPT ![t] = NoHandle] /\ fd' = [fd EXCEPT ![t] = 0]
  BY DEF Return, Move
<1>2. "user" \in Calm /\ "user" \notin InFile /\ NoHandle \in Handle \cup {NoHandle} /\ 0 \in Fd
  BY ConstantFacts DEF Calm, InFile
<1> QED
  BY <1>1, <1>2, CalmStep

\* A call that goes on with the registers it has.
LEMMA StayStep ==
  ASSUME IndInv, NEW t \in Threads, at[t] \in Calm,
         NEW l \in Calm, at' = [at EXCEPT ![t] = l],
         l \in InFile => hd[t] \in Handle,
         UNCHANGED <<hd, fd, fds, files, next_id, memfd, fd_lock>>
  PROVE  IndInv'
<1>1. /\ hd' = [hd EXCEPT ![t] = hd[t]] /\ fd' = [fd EXCEPT ![t] = fd[t]]
      /\ hd[t] \in Handle \cup {NoHandle} /\ fd[t] \in Fd
  BY DEF IndInv, TypeOK
<1> QED
  BY <1>1, CalmStep

LEMMA IOStep ==
  ASSUME IndInv, NEW t \in Threads,
         \/ Access(t) \/ FileMisses(t) \/ Fstat(t) \/ WriteData(t) \/ WriteFails(t)
         \/ Notify(t) \/ EpollWait(t) \/ CheckFdReady(t) \/ DupPanics(t) \/ OpenMisses(t)
         \/ \E f \in Fd : Lookup(t, f) \/ EpollCtl(t, f)
         \/ \E n \in 0 .. MaxSize : Truncate(t, n) \/ Write(t, n)
         \/ \E i \in Inodes, a \in BOOLEAN : OpenPath(t, i, a)
  PROVE  IndInv'
<1> USE DEF Calm, InFile
<1> DEFINE Tables == UNCHANGED <<fds, files, next_id, memfd, fd_lock>>
<1>1. CASE Access(t) \/ Fstat(t) \/ WriteFails(t) \/ CheckFdReady(t)
           \/ \E n \in 0 .. MaxSize : Truncate(t, n)
  BY <1>1, ReturnStep DEF Access, Fstat, WriteFails, CheckFdReady, Finish, Truncate, WithFile,
     locks
<1>2. CASE WriteData(t) \/ EpollWait(t) \/ DupPanics(t) \/ \E f \in Fd : EpollCtl(t, f)
  <2>1. /\ Tables /\ hd' = hd /\ fd' = fd
        /\ at[t] \in {"user", "write"}
        /\ \E l \in {"user", "notify", "check_ready"} : at' = [at EXCEPT ![t] = l]
    BY <1>2 DEF WriteData, EpollWait, DupPanics, EpollCtl, Move, locks, regs, IndInv, TypeOK
  <2> QED
    BY <2>1, StayStep
<1>3. CASE Notify(t)
  <2>1. CASE fd[t] \in interest
    BY <1>3, <2>1, StayStep DEF Notify, Move, regs
  <2>2. CASE fd[t] \notin interest
    BY <1>3, <2>2, ReturnStep DEF Notify, Finish
  <2> QED
    BY <2>1, <2>2
<1>4. CASE \E f \in Fd : Lookup(t, f)
  <2>1. PICK f \in Fd : Lookup(t, f)
    BY <1>4
  <2>2. handle[f] \in Handle /\ at[t] = "user"
    BY <2>1 DEF Lookup, IndInv, TypeOK
  <2>3. Tables
    BY <2>1 DEF Lookup, locks
  <2>4. /\ at' = [at EXCEPT ![t] = "with_file"]
        /\ hd' = [hd EXCEPT ![t] = handle[f]] /\ fd' = [fd EXCEPT ![t] = f]
    BY <2>1 DEF Lookup, Move
  <2> QED
    BY <2>2, <2>3, <2>4, CalmStep
<1>5. CASE FileMisses(t) \/ \E n \in 0 .. MaxSize : Write(t, n)
  <2>1. /\ Tables /\ hd' = hd /\ fd' = fd /\ hd[t] \in Handle
        /\ at[t] \in {"with_file", "append"}
        /\ \E l \in {"fstat", "append", "write"} : at' = [at EXCEPT ![t] = l]
    BY <1>5 DEF FileMisses, Write, WithFile, Move, regs, IndInv, RegisterInv
  <2> QED
    BY <2>1, StayStep
<1>6. CASE OpenMisses(t) \/ \E i \in Inodes, a \in BOOLEAN : OpenPath(t, i, a)
  <2>1. /\ Tables /\ hd' = hd /\ fd' = fd
        /\ at[t] \in {"user", "stat"} /\ at' = [at EXCEPT ![t] = "stat"]
    BY <1>6 DEF OpenMisses, OpenPath, Move, locks, regs, IndInv, TypeOK
  <2> QED
    BY <2>1, StayStep
<1> QED
  BY <1>1, <1>2, <1>3, <1>4, <1>5, <1>6

---------------------------------------------------------------------------
(* open and memfd_create.                                                  *)

\* A thread that dup does not involve leaves the slots being filled as they are.
LEMMA FillingStays ==
  ASSUME TypeOK, NEW t \in Threads, at[t] # "inc", NEW l \in Labels \ {"inc"},
         at' = [at EXCEPT ![t] = l], \A s \in Threads : s # t => fd'[s] = fd[s]
  PROVE  \A f \in Fd : Filling(f)' = Filling(f)
BY DEF TypeOK, Filling

\* alloc takes a number, which a thread will insert or finds too large.
LEMMA NumberStep ==
  ASSUME IndInv, NEW t \in Threads, at[t] \in {"user", "stat", "memfd_open"},
         TakeNumber, next_id' <= ID_SPAN,
         NEW l \in {"insert", "memfd_insert", "user", "memfd_undo"},
         at' = [at EXCEPT ![t] = l],
         l \in Inserting => next_id \in Handle /\ hd' = [hd EXCEPT ![t] = next_id],
         l \notin Inserting => hd' = hd,
         l = "memfd_undo" => memfd[t] # NoHandle,
         UNCHANGED <<used, handle, live, refcount, fd, memfd, fd_lock>>
  PROVE  IndInv'
<1> USE ConstantFacts DEF IndInv
<1>1. next_id' = next_id + 1 /\ next_id' \in 1 .. ID_SPAN /\ next_id \in Nat
  BY NumberFacts, SMT DEF TypeOK
<1>2. TypeOK'
  <2>1. at' \in [Threads -> Labels]
    BY DEF TypeOK, Labels
  <2>2. hd' \in [Threads -> Handle \cup {NoHandle}]
    BY DEF TypeOK
  <2> QED
    BY <1>1, <2>1, <2>2 DEF TypeOK
<1>3. RegisterInv'
  BY DEF RegisterInv, TypeOK, Inserting, CallHolds, InFile
<1>4. FreshInv'
  BY <1>1, SMT DEF FreshInv, RegisterInv, TypeOK, Inserting, Handle
<1>5. DupInv'
  BY SMT DEF DupInv, TypeOK, Inserting
<1>6. \A f \in Fd : FdRef(f)' = FdRef(f)
  BY FillingStays DEF FdRef, Labels
<1>7. Covered'
  BY <1>6, ForgettingKinds DEF CallRef, TypeOK, CallHolds
<1> QED
  BY <1>2, <1>3, <1>4, <1>5, <1>7

LEMMA OpenStep ==
  ASSUME IndInv, NEW t \in Threads, Open(t), next_id' <= ID_SPAN
  PROVE  IndInv'
<1>1. handle_id = next_id /\ (handle_id < MAX_OPEN_FILES => next_id \in Handle)
  BY NumberFacts DEF Open, IndInv
<1>2. /\ at[t] \in {"user", "stat", "memfd_open"} /\ TakeNumber
      /\ UNCHANGED <<used, handle, live, refcount, fd, memfd, fd_lock>>
  BY DEF Open, fds, files, locks
<1>3. CASE handle_id < MAX_OPEN_FILES
  BY <1>1, <1>2, <1>3, NumberStep DEF Open, Move, Inserting
<1>4. CASE ~(handle_id < MAX_OPEN_FILES)
  <2>1. PICK l \in {"user", "memfd_undo"} : /\ at' = [at EXCEPT ![t] = l]
                                            /\ l = "memfd_undo" => memfd[t] # NoHandle
    BY <1>4 DEF Open, AfterOpen, Move
  <2>2. hd' = hd
    BY <1>4 DEF Open
  <2> QED
    BY <1>2, <2>1, <2>2, NumberStep DEF Inserting
<1> QED
  BY <1>3, <1>4

LEMMA MemfdCreateStep ==
  ASSUME IndInv, NEW t \in Threads, MemfdCreate(t), next_id' <= ID_SPAN
  PROVE  IndInv'
<1>1. handle_id = next_id /\ (handle_id < MAX_OPEN_FILES => next_id \in Handle)
  BY NumberFacts DEF MemfdCreate, IndInv
<1>2. /\ at[t] = "user" /\ TakeNumber
      /\ UNCHANGED <<used, handle, live, refcount, fd, memfd, fd_lock>>
  BY DEF MemfdCreate, fds, files, locks
<1>3. CASE handle_id < MAX_OPEN_FILES
  BY <1>1, <1>2, <1>3, NumberStep DEF MemfdCreate, Move, Inserting
<1>4. CASE ~(handle_id < MAX_OPEN_FILES)
  <2>1. hd' = hd /\ at' = [at EXCEPT ![t] = "user"]
    BY <1>2, <1>4 DEF MemfdCreate, IndInv, TypeOK
  <2> QED
    BY <1>2, <2>1, NumberStep DEF Inserting
<1> QED
  BY <1>3, <1>4

LEMMA InsertStep ==
  ASSUME IndInv, NEW t \in Threads, OpenInsert(t) \/ MemfdInsert(t)
  PROVE  IndInv'
<1> USE ConstantFacts DEF IndInv
<1> DEFINE g == hd[t]
<1>1. /\ at[t] \in Inserting /\ g \in Handle /\ ~live[g] /\ g < next_id /\ Insert(t)
      /\ UNCHANGED <<used, handle, next_id, fd, fd_lock>>
  BY DEF OpenInsert, MemfdInsert, Inserting, Insert, RegisterInv, FreshInv, fds, regs, locks
<1>2. \/ at[t] = "insert" /\ at' = [at EXCEPT ![t] = "alloc_fd"] /\ UNCHANGED <<hd, memfd>>
      \/ /\ at[t] = "memfd_insert" /\ at' = [at EXCEPT ![t] = "memfd_open"]
         /\ hd' = [hd EXCEPT ![t] = NoHandle] /\ memfd' = [memfd EXCEPT ![t] = g]
  BY DEF OpenInsert, MemfdInsert, Move, regs
<1>3. TypeOK'
  BY <1>1, <1>2, SMT DEF Insert, TypeOK, Labels
<1>4. RegisterInv'
  BY <1>1, <1>2, SMT DEF RegisterInv, TypeOK, Inserting, CallHolds, InFile
<1>5. FreshInv'
  BY <1>1, <1>2, SMT DEF Insert, FreshInv, RegisterInv, TypeOK, Inserting
<1>6. DupInv'
  BY <1>1, <1>2, SMT DEF DupInv, TypeOK
<1>7. \A f \in Fd : FdRef(f)' = FdRef(f)
  BY <1>1, <1>2, FillingStays DEF FdRef, Labels
<1>8. CASE at[t] = "insert"
  <2> DEFINE q == <<"call", t>>
  <2>1. /\ CallRef(t)' = g /\ memfd' = memfd
        /\ \A s \in Threads : s # t => CallRef(s)' = CallRef(s)
    BY <1>1, <1>2, <1>8 DEF CallRef, TypeOK, CallHolds
  <2>2. \A x \in Place \ {q} : Ref(x)' = Ref(x)
    BY <1>7, <2>1, OtherPlaces
  <2>3. q \in Place /\ Ref(q)' = g
    BY <2>1, PlaceKinds
  <2>4. Covered'
    BY <1>1, <2>2, <2>3, Inserted
  <2> QED
    BY <1>3, <1>4, <1>5, <1>6, <2>4
<1>9. CASE at[t] = "memfd_insert"
  <2> DEFINE q == <<"memfd", t>>
  <2>1. /\ memfd'[t] = g /\ \A s \in Threads : s # t => memfd'[s] = memfd[s]
        /\ \A s \in Threads : CallRef(s)' = CallRef(s)
    BY <1>1, <1>2, <1>9 DEF CallRef, TypeOK, CallHolds
  <2>2. \A x \in Place \ {q} : Ref(x)' = Ref(x)
    BY <1>7, <2>1, OtherPlaces
  <2>3. q \in Place /\ Ref(q)' = g
    BY <2>1, PlaceKinds
  <2>4. Covered'
    BY <1>1, <2>2, <2>3, Inserted
  <2> QED
    BY <1>3, <1>4, <1>5, <1>6, <2>4
<1> QED
  BY <1>2, <1>8, <1>9

LEMMA AllocFdStep ==
  ASSUME IndInv, NEW t \in Threads, AllocFdFails(t) \/ \E f \in Fd : AllocFd(t, f)
  PROVE  IndInv'
<1> USE ConstantFacts DEF IndInv
<1>1. PICK l \in {"set_fd", "undo", "user"} :
        /\ at[t] = "alloc_fd" /\ at' = [at EXCEPT ![t] = l]
        /\ fd_lock = Nobody
        /\ l # "user" => hd' = hd
        /\ l = "user" => hd' = [hd EXCEPT ![t] = NoHandle]
  BY DEF AllocFdFails, AllocFd, Move, Return, regs
<1>2. /\ used' \in [Fd -> BOOLEAN] /\ fd' \in [Threads -> Fd]
      /\ \A s \in Threads : s # t => fd'[s] = fd[s]
      /\ UNCHANGED <<handle, live, refcount, next_id, memfd, fd_lock>>
  <2>1. CASE AllocFdFails(t)
    <3>1. /\ fd' = fd \/ fd' = [fd EXCEPT ![t] = 0]
          /\ UNCHANGED <<used, handle, live, refcount, next_id, memfd,
                         fd_lock>>
      BY <2>1 DEF AllocFdFails, Return, fds, files, locks, regs
    <3> QED
      BY <3>1 DEF TypeOK
  <2>2. CASE \E f \in Fd : AllocFd(t, f)
    <3>1. PICK f \in Fd : AllocFd(t, f)
      BY <2>2
    <3>2. /\ used' = [used EXCEPT ![f] = TRUE] /\ fd' = [fd EXCEPT ![t] = f]
          /\ UNCHANGED <<handle, live, refcount, next_id, memfd, fd_lock>>
      BY <3>1 DEF AllocFd, files, locks
    <3> QED
      BY <3>2 DEF TypeOK
  <2> QED
    BY <2>1, <2>2
<1>3. TypeOK'
  BY <1>1, <1>2 DEF TypeOK, Labels
<1>4. RegisterInv'
  BY <1>1, <1>2 DEF RegisterInv, TypeOK, Inserting, CallHolds, InFile
<1>5. FreshInv'
  BY <1>1, <1>2, SMT DEF FreshInv, TypeOK, Inserting
<1>6. DupInv'
  BY <1>1, <1>2 DEF DupInv, TypeOK
<1>7. \A f \in Fd : FdRef(f)' = FdRef(f)
  BY <1>1, <1>2, FillingStays DEF FdRef, Labels
<1>8. \A s \in Threads : CallRef(s)' \in {CallRef(s), NoHandle}
  BY <1>1, <1>2 DEF CallRef, TypeOK, CallHolds
<1>9. Covered'
  BY <1>2, <1>7, <1>8, ForgettingKinds
<1> QED
  BY <1>3, <1>4, <1>5, <1>6, <1>9

\* The calls that give the handle in their register up: open that found no
\* descriptor, and close.
LEMMA DecRefStep ==
  ASSUME IndInv, NEW t \in Threads, OpenUndo(t) \/ CloseDecRef(t)
  PROVE  IndInv' /\ live' = live
<1> USE ConstantFacts DEF IndInv
<1> DEFINE p == <<"call", t>>
<1>1. PICK l \in {"user", "memfd_undo", "notify"} :
        /\ at[t] \in {"undo", "dec"} /\ at' = [at EXCEPT ![t] = l]
        /\ l = "memfd_undo" => memfd[t] # NoHandle
  BY DEF OpenUndo, CloseDecRef, AfterOpen, Move
<1>2. /\ hd' = [hd EXCEPT ![t] = NoHandle] /\ DecRef(hd[t]) /\ hd[t] \in Handle
      /\ UNCHANGED <<used, handle, next_id, fd, memfd, fd_lock>>
  BY <1>1 DEF OpenUndo, CloseDecRef, DecRef, RegisterInv, CallHolds, fds, locks
<1>3. /\ CallRef(t) = hd[t] /\ CallRef(t)' = NoHandle
      /\ \A s \in Threads : s # t => CallRef(s)' = CallRef(s)
  BY <1>1, <1>2 DEF CallRef, TypeOK, CallHolds
<1>4. \A f \in Fd : FdRef(f)' = FdRef(f)
  BY <1>1, <1>2, FillingStays DEF FdRef, Labels
<1>5. \A x \in Place \ {p} : Ref(x)' = Ref(x)
  BY <1>2, <1>3, <1>4, OtherPlaces
<1>6. p \in Place /\ Ref(p) = hd[t] /\ Ref(p)' = NoHandle
  BY <1>3, PlaceKinds
<1>7. Covered' /\ live' = live
  BY <1>2, <1>5, <1>6, Releasing
<1>8. TypeOK'
  BY <1>1, <1>2, <1>7, SMT DEF DecRef, TypeOK, Labels
<1>9. RegisterInv' /\ FreshInv' /\ DupInv'
  BY <1>1, <1>2, <1>7, SMT DEF RegisterInv, FreshInv, DupInv, TypeOK, Inserting, CallHolds, InFile
<1> QED
  BY <1>7, <1>8, <1>9

LEMMA MemfdUndoStep ==
  ASSUME IndInv, NEW t \in Threads, MemfdUndo(t)
  PROVE  IndInv' /\ live' = live
<1> USE ConstantFacts DEF IndInv
<1> DEFINE p == <<"memfd", t>>
<1>1. /\ at[t] = "memfd_undo" /\ at' = [at EXCEPT ![t] = "user"]
      /\ hd' = [hd EXCEPT ![t] = NoHandle] /\ fd' = [fd EXCEPT ![t] = 0]
      /\ memfd' = [memfd EXCEPT ![t] = NoHandle] /\ DecRef(memfd[t]) /\ memfd[t] \in Handle
      /\ UNCHANGED <<used, handle, next_id, fd_lock>>
  BY DEF MemfdUndo, Return, Move, DecRef, RegisterInv, fds, locks
<1>2. \A s \in Threads : CallRef(s)' = CallRef(s)
  BY <1>1 DEF CallRef, TypeOK, CallHolds
<1>3. \A f \in Fd : FdRef(f)' = FdRef(f)
  <2>1. \A s \in Threads : s # t => fd'[s] = fd[s]
    BY <1>1 DEF TypeOK
  <2> QED
    BY <1>1, <2>1, FillingStays DEF FdRef, Labels
<1>4. memfd'[t] = NoHandle /\ \A s \in Threads : s # t => memfd'[s] = memfd[s]
  BY <1>1 DEF TypeOK
<1>5. \A x \in Place \ {p} : Ref(x)' = Ref(x)
  BY <1>2, <1>3, <1>4, OtherPlaces
<1>6. p \in Place /\ Ref(p) = memfd[t] /\ Ref(p)' = NoHandle
  BY <1>4, PlaceKinds
<1>7. Covered' /\ live' = live
  BY <1>1, <1>5, <1>6, Releasing
<1>8. TypeOK'
  BY <1>1, <1>7, SMT DEF DecRef, TypeOK, Labels
<1>9. RegisterInv' /\ FreshInv' /\ DupInv'
  <2>1. RegisterInv'
    BY <1>1, <1>7 DEF RegisterInv, TypeOK, Inserting, CallHolds, InFile
  <2>2. FreshInv'
    BY <1>1, <1>7 DEF FreshInv, TypeOK, Inserting
  <2>3. DupInv'
    BY <1>1, <1>7 DEF DupInv, TypeOK
  <2> QED
    BY <2>1, <2>2, <2>3
<1> QED
  BY <1>7, <1>8, <1>9

---------------------------------------------------------------------------
(* Handles that move between a call and a slot.                            *)

\* With the descriptor table unlocked no slot is being filled.
LEMMA NoneFilling ==
  ASSUME DupInv, fd_lock = Nobody
  PROVE  /\ \A s \in Threads : at[s] \notin {"inc", "dup2_close"}
         /\ \A f \in Fd : ~Filling(f) /\ FdRef(f) = handle[f]
BY ConstantFacts DEF DupInv, Filling, FdRef

LEMMA SetFdHandleStep ==
  ASSUME IndInv, NEW t \in Threads, SetFdHandle(t)
  PROVE  IndInv'
<1> USE ConstantFacts DEF IndInv
<1>0. PICK g \in Fd : g = fd[t]
  BY DEF TypeOK
<1> DEFINE p == <<"call", t>>
           q == <<"fd", g>>
<1>1. PICK l \in {"user", "memfd_set"} :
        /\ at[t] = "set_fd" /\ at' = [at EXCEPT ![t] = l]
        /\ l = "memfd_set" => memfd[t] # NoHandle
  BY DEF SetFdHandle, AfterOpen, Move
<1>2. /\ hd' = [hd EXCEPT ![t] = NoHandle] /\ hd[t] \in Handle
      /\ handle' = [handle EXCEPT ![g] = hd[t]] /\ fd_lock = Nobody
      /\ fd' \in [Threads -> Fd] /\ \A s \in Threads : s # t => fd'[s] = fd[s]
      /\ UNCHANGED <<used, live, refcount, next_id, memfd, fd_lock>>
  BY <1>0, <1>1 DEF SetFdHandle, RegisterInv, TypeOK, CallHolds, files, locks
<1>3. TypeOK'
  BY <1>1, <1>2 DEF TypeOK, Labels
<1>4. RegisterInv' /\ FreshInv' /\ DupInv'
  <2>1. RegisterInv'
    BY <1>1, <1>2, NoneFilling DEF RegisterInv, TypeOK, Inserting, CallHolds, InFile
  <2>2. FreshInv'
    BY <1>1, <1>2, NoneFilling DEF FreshInv, TypeOK, Inserting
  <2>3. DupInv'
    BY <1>1, <1>2, NoneFilling DEF DupInv, TypeOK
  <2> QED
    BY <2>1, <2>2, <2>3
<1>5. /\ CallRef(t) = hd[t] /\ CallRef(t)' = NoHandle
      /\ \A s \in Threads : s # t => CallRef(s)' = CallRef(s)
  BY <1>1, <1>2 DEF CallRef, TypeOK, CallHolds
<1>6. FdRef(g)' = hd[t] /\ \A f \in Fd : f # g => FdRef(f)' = FdRef(f)
  <2>1. \A f \in Fd : Filling(f)' = Filling(f)
    BY <1>1, <1>2, FillingStays DEF Labels
  <2> QED
    BY <1>2, <2>1, NoneFilling DEF FdRef, TypeOK
<1>7. \A x \in Place \ {p, q} : Ref(x)' = Ref(x)
  BY <1>2, <1>5, <1>6, OtherPlaces
<1>8. p \in Place /\ q \in Place /\ p # q /\ Ref(p)' = NoHandle /\ Ref(q)' = Ref(p)
  BY <1>2, <1>5, <1>6, PlaceKinds
<1>9. Covered'
  BY <1>2, <1>7, <1>8, Moving
<1> QED
  BY <1>3, <1>4, <1>9

LEMMA MemfdSetStep ==
  ASSUME IndInv, NEW t \in Threads, MemfdSet(t)
  PROVE  IndInv'
<1> USE ConstantFacts DEF IndInv
<1>0. PICK g \in Fd : g = fd[t]
  BY DEF TypeOK
<1> DEFINE p == <<"memfd", t>>
           q == <<"fd", g>>
<1>1. /\ at[t] = "memfd_set" /\ at' = [at EXCEPT ![t] = "user"] /\ fd_lock = Nobody
      /\ hd' = [hd EXCEPT ![t] = NoHandle] /\ fd' = [fd EXCEPT ![t] = 0]
      /\ memfd' = [memfd EXCEPT ![t] = NoHandle] /\ memfd[t] \in Handle
      /\ handle' = [handle EXCEPT ![g] = memfd[t]]
      /\ UNCHANGED <<used, live, refcount, next_id, fd_lock>>
  BY <1>0 DEF MemfdSet, Return, Move, RegisterInv, TypeOK, files, locks
<1>2. TypeOK'
  BY <1>1 DEF TypeOK, Labels
<1>3. RegisterInv' /\ FreshInv' /\ DupInv'
  BY <1>1, NoneFilling, SMT DEF RegisterInv, FreshInv, DupInv, TypeOK, Inserting, CallHolds, InFile
<1>4. \A s \in Threads : CallRef(s)' = CallRef(s)
  BY <1>1 DEF CallRef, TypeOK, CallHolds
<1>5. memfd'[t] = NoHandle /\ \A s \in Threads : s # t => memfd'[s] = memfd[s]
  BY <1>1 DEF TypeOK
<1>6. FdRef(g)' = memfd[t] /\ \A f \in Fd : f # g => FdRef(f)' = FdRef(f)
  <2>1. \A s \in Threads : s # t => fd'[s] = fd[s]
    BY <1>1 DEF TypeOK
  <2>2. \A f \in Fd : Filling(f)' = Filling(f)
    BY <1>1, <2>1, FillingStays DEF Labels
  <2> QED
    BY <1>1, <2>2, NoneFilling DEF FdRef, TypeOK
<1>7. \A x \in Place \ {p, q} : Ref(x)' = Ref(x)
  BY <1>4, <1>5, <1>6, OtherPlaces
<1>8. p \in Place /\ q \in Place /\ p # q /\ Ref(p)' = NoHandle /\ Ref(q)' = Ref(p)
  BY <1>1, <1>5, <1>6, PlaceKinds
<1>9. Covered'
  BY <1>1, <1>7, <1>8, Moving
<1> QED
  BY <1>2, <1>3, <1>9

LEMMA CloseStep ==
  ASSUME IndInv, NEW t \in Threads, NEW f \in Fd, Close(t, f)
  PROVE  IndInv'
<1> USE ConstantFacts DEF IndInv
<1> DEFINE p == <<"fd", f>>
           q == <<"call", t>>
<1>1. PICK l \in {"notify", "dec"} :
        /\ at[t] = "user" /\ at' = [at EXCEPT ![t] = l]
        /\ l = "dec" <=> handle[f] # NoHandle
  BY DEF Close, Move
<1>2. /\ hd' = [hd EXCEPT ![t] = handle[f]] /\ fd' = [fd EXCEPT ![t] = f]
      /\ handle' = [handle EXCEPT ![f] = NoHandle] /\ fd_lock = Nobody
      /\ used' \in [Fd -> BOOLEAN] /\ handle[f] \in Handle \cup {NoHandle}
      /\ UNCHANGED <<live, refcount, next_id, memfd, fd_lock>>
  BY DEF Close, TypeOK, files, locks
<1>3. TypeOK'
  BY <1>1, <1>2 DEF TypeOK, Labels
<1>4. RegisterInv' /\ FreshInv' /\ DupInv'
  <2>1. RegisterInv'
    BY <1>1, <1>2, NoneFilling, SMT DEF RegisterInv, TypeOK, Inserting, CallHolds, InFile
  <2>2. FreshInv'
    BY <1>1, <1>2, NoneFilling, SMT DEF FreshInv, TypeOK, Inserting, CallHolds, InFile
  <2>3. DupInv'
    BY <1>1, <1>2, NoneFilling, SMT DEF DupInv, TypeOK, Inserting, CallHolds, InFile
  <2> QED
    BY <2>1, <2>2, <2>3
<1>5. /\ CallRef(t)' = handle[f]
      /\ \A s \in Threads : s # t => CallRef(s)' = CallRef(s)
  BY <1>1, <1>2 DEF CallRef, TypeOK, CallHolds
<1>6. /\ FdRef(f)' = NoHandle /\ FdRef(f) = handle[f]
      /\ \A g \in Fd : g # f => FdRef(g)' = FdRef(g)
  <2>1. \A s \in Threads : s # t => fd'[s] = fd[s]
    BY <1>2 DEF TypeOK
  <2>2. \A g \in Fd : Filling(g)' = Filling(g)
    BY <1>1, <2>1, FillingStays DEF Labels
  <2> QED
    BY <1>2, <2>2, NoneFilling DEF FdRef, TypeOK
<1>7. \A x \in Place \ {p, q} : Ref(x)' = Ref(x)
  BY <1>2, <1>5, <1>6, OtherPlaces
<1>8. p \in Place /\ q \in Place /\ p # q /\ Ref(p)' = NoHandle /\ Ref(q)' = Ref(p)
  BY <1>5, <1>6, PlaceKinds
<1>9. Covered'
  BY <1>2, <1>7, <1>8, Moving
<1> QED
  BY <1>3, <1>4, <1>9

---------------------------------------------------------------------------
(* dup and dup2.                                                           *)

\* A slot that becomes a copy holds nothing until the copy is counted.
LEMMA CloneEffect ==
  ASSUME IndInv, NEW t \in Threads, at[t] \in {"user", "dup2_close"}, NEW g \in Fd,
         NEW h \in Handle \cup {NoHandle}, Clone(t, h, g),
         h # NoHandle => \E f \in Fd \ {g} : handle[f] = h,
         \A s \in Threads \ {t} : at[s] \notin {"inc", "dup2_close"},
         live' = live, refcount' \in [Handle -> Int], next_id' = next_id
  PROVE  /\ TypeOK' /\ RegisterInv' /\ FreshInv' /\ DupInv'
         /\ FdRef(g)' = NoHandle /\ \A f \in Fd : f # g => FdRef(f)' = FdRef(f)
         /\ \A s \in Threads : CallRef(s)' = CallRef(s)
         /\ memfd' = memfd
<1> USE ConstantFacts DEF IndInv
<1>1. /\ used' = [used EXCEPT ![g] = TRUE] /\ handle' = [handle EXCEPT ![g] = h]
      /\ memfd' = memfd
  BY DEF Clone
<1>2. PICK l \in {"user", "inc"} :
        /\ at' = [at EXCEPT ![t] = l] /\ hd' = [hd EXCEPT ![t] = h]
        /\ l = "inc" <=> h # NoHandle
        /\ fd_lock' = IF l = "inc" THEN t ELSE Nobody
        /\ fd' = [fd EXCEPT ![t] = IF l = "inc" THEN g ELSE 0]
  <2>1. CASE h = NoHandle
    BY <2>1 DEF Clone, Return, Move
  <2>2. CASE h # NoHandle
    BY <2>2 DEF Clone, Move
  <2> QED
    BY <2>1, <2>2
<1>3. TypeOK'
  BY <1>1, <1>2 DEF TypeOK, Labels
<1>4. RegisterInv' /\ FreshInv'
  BY <1>1, <1>2, SMT DEF RegisterInv, FreshInv, TypeOK, Inserting, CallHolds, InFile
<1>5. DupInv'
  <2>1. ASSUME NEW s \in Threads, s # t PROVE at'[s] \notin {"inc", "dup2_close"}
    BY <1>2, <2>1 DEF TypeOK
  <2>2. /\ at'[t] = l /\ hd'[t] = h /\ (l = "inc" => fd'[t] = g)
        /\ handle'[g] = h /\ \A f \in Fd \ {g} : handle'[f] = handle[f]
    BY <1>1, <1>2 DEF TypeOK
  <2> QED
    BY <1>2, <2>1, <2>2 DEF DupInv
<1>6. \A s \in Threads : CallRef(s)' = CallRef(s)
  BY <1>1, <1>2 DEF CallRef, TypeOK, CallHolds
<1>7. \A f \in Fd : ~Filling(f) /\ (Filling(f)' <=> f = g /\ h # NoHandle)
  BY <1>2 DEF Filling, TypeOK
<1>8. FdRef(g)' = NoHandle /\ \A f \in Fd : f # g => FdRef(f)' = FdRef(f)
  BY <1>1, <1>7 DEF FdRef, TypeOK
<1> QED
  BY <1>1, <1>3, <1>4, <1>5, <1>6, <1>8

LEMMA DupStep ==
  ASSUME IndInv, NEW t \in Threads, NEW f \in Fd, NEW g \in Fd, Dup(t, f, g) \/ Dup2(t, f, g)
  PROVE  IndInv'
<1> USE ConstantFacts DEF IndInv
<1>1. PICK h \in Handle \cup {NoHandle} : h = handle[f]
  BY DEF TypeOK
<1>2. /\ at[t] = "user" /\ fd_lock = Nobody /\ f # g
      /\ UNCHANGED <<live, refcount, next_id>>
  BY DEF Dup, Dup2, FirstFree, files
<1>3. \A s \in Threads : at[s] \notin {"inc", "dup2_close"}
  BY <1>2, NoneFilling
<1>4. CASE Clone(t, h, g)
  <2>1. refcount' \in [Handle -> Int] /\ (h # NoHandle => \E e \in Fd \ {g} : handle[e] = h)
    BY <1>1, <1>2 DEF TypeOK
  <2>2. /\ TypeOK' /\ RegisterInv' /\ FreshInv' /\ DupInv'
        /\ \A e \in Fd : FdRef(e)' \in {FdRef(e), NoHandle}
        /\ \A s \in Threads : CallRef(s)' = CallRef(s)
        /\ memfd' = memfd
    BY <1>2, <1>3, <1>4, <2>1, CloneEffect
  <2>3. Covered'
    BY <1>2, <2>2, ForgettingKinds
  <2> QED
    BY <2>2, <2>3
<1>5. CASE ~Clone(t, h, g)
  <2>1. /\ at' = [at EXCEPT ![t] = "dup2_close"] /\ fd_lock' = t
        /\ hd' = [hd EXCEPT ![t] = h] /\ fd' = [fd EXCEPT ![t] = g]
        /\ handle[g] # NoHandle /\ UNCHANGED <<used, handle, memfd>>
    BY <1>1, <1>5 DEF Dup, Dup2, Move, fds
  <2>2. TypeOK'
    BY <1>2, <2>1 DEF TypeOK, Labels
  <2>3. RegisterInv' /\ FreshInv'
    BY <1>2, <2>1 DEF RegisterInv, FreshInv, TypeOK, Inserting, CallHolds, InFile
  <2>4. DupInv'
    BY <1>1, <1>2, <1>3, <2>1 DEF DupInv, TypeOK
  <2>5. \A e \in Fd : FdRef(e)' = FdRef(e)
    <3>1. \A e \in Fd : ~Filling(e) /\ ~Filling(e)'
      BY <1>3, <2>1 DEF Filling, TypeOK
    <3> QED
      BY <2>1, <3>1 DEF FdRef
  <2>6. Covered'
    BY <1>2, <2>1, <2>5, ForgettingKinds DEF CallRef, TypeOK, CallHolds
  <2> QED
    BY <2>2, <2>3, <2>4, <2>6
<1> QED
  BY <1>4, <1>5

LEMMA Dup2CloseStep ==
  ASSUME IndInv, NEW t \in Threads, Dup2Close(t)
  PROVE  IndInv' /\ live' = live
<1> USE ConstantFacts DEF IndInv
<1>1. PICK g \in Fd : g = fd[t]
  BY DEF TypeOK
<1>2. PICK h \in Handle \cup {NoHandle} : h = hd[t]
  BY DEF TypeOK
<1>3. /\ at[t] = "dup2_close" /\ DecRef(handle[g]) /\ Clone(t, h, g) /\ next_id' = next_id
      /\ handle[g] \in Handle /\ (h # NoHandle => \E f \in Fd \ {g} : handle[f] = h)
      /\ \A s \in Threads \ {t} : at[s] \notin {"inc", "dup2_close"}
  BY <1>1, <1>2 DEF Dup2Close, DupInv
<1> DEFINE p == <<"fd", g>>
<1>4. FdRef(g) = handle[g]
  BY <1>3 DEF FdRef, Filling
<1>5. p \in Place /\ Ref(p) = handle[g]
  BY <1>4, PlaceKinds
<1>6. live' = live /\ refcount' \in [Handle -> Int]
  BY <1>3, <1>5, DecRefHeld
<1>7. /\ TypeOK' /\ RegisterInv' /\ FreshInv' /\ DupInv'
      /\ FdRef(g)' = NoHandle /\ \A f \in Fd : f # g => FdRef(f)' = FdRef(f)
      /\ \A s \in Threads : CallRef(s)' = CallRef(s)
      /\ memfd' = memfd
  BY <1>3, <1>6, CloneEffect
<1>8. \A x \in Place \ {p} : Ref(x)' = Ref(x)
  BY <1>7, OtherPlaces
<1>9. Ref(p)' = NoHandle
  BY <1>7, PlaceKinds
<1>10. Covered'
  BY <1>3, <1>5, <1>8, <1>9, Releasing
<1> QED
  BY <1>6, <1>7, <1>10

LEMMA DupIncRefStep ==
  ASSUME IndInv, NEW t \in Threads, DupIncRef(t)
  PROVE  IndInv'
<1> USE ConstantFacts DEF IndInv
<1>1. PICK g \in Fd : g = fd[t]
  BY DEF TypeOK
<1>2. PICK f \in Fd \ {g} : handle[f] = hd[t]
  BY <1>1 DEF DupIncRef, DupInv, RegisterInv
<1>3. /\ at[t] = "inc" /\ at' = [at EXCEPT ![t] = "user"] /\ hd[t] \in Handle
      /\ hd' = [hd EXCEPT ![t] = NoHandle] /\ fd' = [fd EXCEPT ![t] = 0]
      /\ refcount' = [refcount EXCEPT ![hd[t]] = IF live[hd[t]] THEN @ + 1 ELSE @]
      /\ UNCHANGED <<used, handle, live, next_id, memfd>>
      /\ handle[g] = hd[t] /\ fd_lock' = Nobody
      /\ \A s \in Threads \ {t} : at[s] \notin {"inc", "dup2_close"}
  BY <1>1 DEF DupIncRef, Return, Move, DupInv, RegisterInv, fds
<1>4. TypeOK'
  <2>1. refcount' \in [Handle -> Int]
    <3>1. refcount \in [Handle -> Int]
      BY DEF TypeOK
    <3> QED
      BY <1>3, <3>1, SMT
  <2>2. hd' \in [Threads -> Handle \cup {NoHandle}] /\ fd' \in [Threads -> Fd]
    BY <1>3 DEF TypeOK
  <2>3. at' \in [Threads -> Labels]
    BY <1>3 DEF TypeOK, Labels
  <2> QED
    BY <1>3, <2>1, <2>2, <2>3 DEF TypeOK
<1>5. RegisterInv' /\ FreshInv' /\ DupInv'
  <2>1. RegisterInv'
    BY <1>3 DEF RegisterInv, TypeOK, Inserting, CallHolds, InFile
  <2>2. FreshInv'
    BY <1>3 DEF FreshInv, TypeOK, Inserting
  <2>3. DupInv'
    BY <1>3 DEF DupInv, TypeOK
  <2> QED
    BY <2>1, <2>2, <2>3
<1>6. \A e \in Fd : ~Filling(e)' /\ (Filling(e) <=> e = g)
  BY <1>1, <1>3 DEF Filling, TypeOK
<1>7. /\ FdRef(g)' = hd[t] /\ FdRef(f) = hd[t]
      /\ \A e \in Fd : e # g => FdRef(e)' = FdRef(e)
  BY <1>2, <1>3, <1>6 DEF FdRef
<1>8. \A s \in Threads : CallRef(s)' = CallRef(s)
  BY <1>3 DEF CallRef, TypeOK, CallHolds
<1> DEFINE p == <<"fd", f>>
           q == <<"fd", g>>
<1>9. \A x \in Place \ {q} : Ref(x)' = Ref(x)
  BY <1>3, <1>7, <1>8, OtherPlaces
<1>10. p \in Place /\ q \in Place /\ Ref(p) = hd[t] /\ Ref(q)' = hd[t]
  BY <1>7, PlaceKinds
<1>11. Covered'
  BY <1>3, <1>9, <1>10, Sharing
<1> QED
  BY <1>4, <1>5, <1>11

---------------------------------------------------------------------------
LEMMA InitInv == FilesInit => IndInv
<1> SUFFICES ASSUME FilesInit PROVE IndInv
  OBVIOUS
<1> USE ConstantFacts DEF FilesInit
<1>1. TypeOK
  <2>1. 1 \in 1 .. ID_SPAN
    BY FileClientsAssumption, SMT
  <2> QED
    BY <2>1, SMT DEF TypeOK, Labels
<1>2. RegisterInv /\ FreshInv /\ DupInv
  BY DEF RegisterInv, FreshInv, DupInv, Inserting, CallHolds, InFile
<1>3. ASSUME NEW x \in Place PROVE Ref(x) = NoHandle
  <2>1. \A f \in Fd : FdRef(f) = NoHandle
    BY DEF FdRef
  <2>2. \A t \in Threads : CallRef(t) = NoHandle /\ memfd[t] = NoHandle
    BY DEF CallRef, CallHolds
  <2>3. CASE \E f \in Fd : x = <<"fd", f>>
    BY <2>1, <2>3, PlaceKinds
  <2>4. CASE \E t \in Threads : x = <<"call", t>>
    BY <2>2, <2>4, PlaceKinds
  <2>5. CASE \E t \in Threads : x = <<"memfd", t>>
    BY <2>2, <2>5, PlaceKinds
  <2> QED
    BY <2>3, <2>4, <2>5, PlaceKinds
<1>4. Covered
  BY <1>3 DEF Covered, Holders
<1> QED
  BY <1>1, <1>2, <1>4 DEF IndInv

\* The counter does not go back, and a step that leaves it unwrapped keeps the
\* invariant.
LEMMA NextInv ==
  ASSUME IndInv, [FilesNext]_file_vars, next_id' <= ID_SPAN
  PROVE  IndInv'
<1>1. ASSUME NEW t \in Threads, Open(t) PROVE IndInv'
  BY <1>1, OpenStep
<1>2. ASSUME NEW t \in Threads, MemfdCreate(t) PROVE IndInv'
  BY <1>2, MemfdCreateStep
<1>3. ASSUME NEW t \in Threads,
             \/ Access(t) \/ FileMisses(t) \/ Fstat(t) \/ WriteData(t) \/ WriteFails(t)
             \/ Notify(t) \/ EpollWait(t) \/ CheckFdReady(t) \/ DupPanics(t) \/ OpenMisses(t)
             \/ \E f \in Fd : Lookup(t, f) \/ EpollCtl(t, f)
             \/ \E n \in 0 .. MaxSize : Truncate(t, n) \/ Write(t, n)
             \/ \E i \in Inodes, a \in BOOLEAN : OpenPath(t, i, a)
      PROVE  IndInv'
  BY <1>3, IOStep
<1>4. ASSUME NEW t \in Threads,
             \/ OpenInsert(t) \/ MemfdInsert(t) \/ AllocFdFails(t) \/ \E f \in Fd : AllocFd(t, f)
             \/ OpenUndo(t) \/ CloseDecRef(t) \/ MemfdUndo(t) \/ SetFdHandle(t) \/ MemfdSet(t)
      PROVE  IndInv'
  BY <1>4, InsertStep, AllocFdStep, DecRefStep, MemfdUndoStep, SetFdHandleStep, MemfdSetStep
<1>5. ASSUME NEW t \in Threads,
             \/ Dup2Close(t) \/ DupIncRef(t) \/ \E f \in Fd : Close(t, f)
             \/ \E f, g \in Fd : Dup(t, f, g) \/ Dup2(t, f, g)
      PROVE  IndInv'
  BY <1>5, Dup2CloseStep, DupIncRefStep, CloseStep, DupStep
<1>6. CASE UNCHANGED file_vars
  <2>1. TypeOK' /\ RegisterInv' /\ FreshInv' /\ DupInv'
    BY <1>6 DEF IndInv, TypeOK, RegisterInv, FreshInv, DupInv, file_vars
  <2>2. Covered'
    BY <1>6 DEF IndInv, Covered, Holders, Ref, Filling, file_vars
  <2> QED
    BY <2>1, <2>2 DEF IndInv
<1> QED
  BY <1>1, <1>2, <1>3, <1>4, <1>5, <1>6 DEF FilesNext

LEMMA CounterGrows ==
  ASSUME next_id \in Nat, [FilesNext]_file_vars
  PROVE  next_id' \in Nat /\ next_id <= next_id'
<1>1. ASSUME NEW t \in Threads, Open(t) \/ MemfdCreate(t) PROVE next_id' = next_id + 1
  BY <1>1 DEF Open, MemfdCreate, TakeNumber
<1>2. ASSUME NEW t \in Threads,
             \/ Access(t) \/ FileMisses(t) \/ Fstat(t) \/ WriteData(t) \/ WriteFails(t)
             \/ Notify(t) \/ EpollWait(t) \/ CheckFdReady(t) \/ DupPanics(t) \/ OpenMisses(t)
             \/ \E f \in Fd : Lookup(t, f) \/ EpollCtl(t, f)
             \/ \E n \in 0 .. MaxSize : Truncate(t, n) \/ Write(t, n)
             \/ \E i \in Inodes, a \in BOOLEAN : OpenPath(t, i, a)
      PROVE  next_id' = next_id
  BY <1>2 DEF Access, FileMisses, Fstat, WriteData, WriteFails, Notify, EpollWait, CheckFdReady,
     Finish, DupPanics, OpenMisses, Lookup, EpollCtl, Truncate, Write, OpenPath
<1>3. ASSUME NEW t \in Threads,
             \/ OpenInsert(t) \/ MemfdInsert(t) \/ AllocFdFails(t) \/ \E f \in Fd : AllocFd(t, f)
             \/ OpenUndo(t) \/ CloseDecRef(t) \/ MemfdUndo(t) \/ SetFdHandle(t) \/ MemfdSet(t)
             \/ Dup2Close(t) \/ DupIncRef(t) \/ \E f \in Fd : Close(t, f)
             \/ \E f, g \in Fd : Dup(t, f, g) \/ Dup2(t, f, g)
      PROVE  next_id' = next_id
  BY <1>3 DEF OpenInsert, MemfdInsert, AllocFdFails, AllocFd, OpenUndo, CloseDecRef, MemfdUndo,
     SetFdHandle, MemfdSet, Dup2Close, DupIncRef, Close, Dup, Dup2
<1>4. next_id' \in {next_id, next_id + 1}
  BY <1>1, <1>2, <1>3 DEF FilesNext, file_vars
<1> QED
  BY <1>4, SMT

\* The invariant holds for as long as the counter has not wrapped.
UnwrappedInv == next_id \in Nat /\ (next_id <= ID_SPAN => IndInv)

\* Open files are never released under a holder before 2^32 numbers of open files
\* are used up: for any number of threads and any table sizes, the entry of every
\* open file a slot or a call refers to is in the table and counts all of them.
THEOREM NoReleaseUnderHolder == FilesSpec => []RefsCovered
<1>1. UnwrappedInv => RefsCovered
  BY DEF UnwrappedInv, IndInv, RefsCovered
<1>2. FilesInit => UnwrappedInv
  BY InitInv, SMT DEF UnwrappedInv, FilesInit
<1>3. ASSUME UnwrappedInv, [FilesNext]_file_vars PROVE UnwrappedInv'
  <2>1. next_id' \in Nat /\ next_id <= next_id' /\ next_id \in Nat
    BY <1>3, CounterGrows DEF UnwrappedInv
  <2>2. ASSUME next_id' <= ID_SPAN PROVE next_id <= ID_SPAN
    BY <2>1, <2>2, FileClientsAssumption, SMT
  <2>3. ASSUME next_id' <= ID_SPAN PROVE IndInv'
    BY <1>3, <2>2, <2>3, NextInv DEF UnwrappedInv
  <2> QED
    BY <2>1, <2>3 DEF UnwrappedInv
<1> QED
  BY <1>1, <1>2, <1>3, PTL DEF FilesSpec

---------------------------------------------------------------------------
(* Deadlock.                                                               *)

\* Who holds the descriptor table and the epoll instances while it waits.
LockInv ==
  /\ DOMAIN at = Threads
  /\ \A t \in Threads : fd_lock = t => at[t] \in {"inc", "dup2_close"}
  /\ \A t \in Threads : epoll_lock = t => at[t] = "check_ready"

\* A step that leaves the two locks alone is not one of their holders'.
LEMMA LockFrame ==
  ASSUME LockInv, NEW t \in Threads, at[t] \notin {"inc", "dup2_close", "check_ready"},
         at' = at \/ \E l : at' = [at EXCEPT ![t] = l], UNCHANGED <<fd_lock, epoll_lock>>
  PROVE  LockInv'
BY DEF LockInv

\* A step that takes the descriptor table or gives it back.
LEMMA FdLockStep ==
  ASSUME LockInv, NEW t \in Threads, at[t] # "check_ready",
         NEW l, at' = [at EXCEPT ![t] = l], fd_lock' \in {t, Nobody},
         fd_lock' = t => l \in {"inc", "dup2_close"},
         epoll_lock' = epoll_lock
  PROVE  LockInv'
BY ConstantFacts DEF LockInv

LEMMA NextLockInv ==
  ASSUME LockInv, [FilesNext]_file_vars
  PROVE  LockInv'
<1> USE ConstantFacts DEF locks
<1>1. ASSUME NEW t \in Threads,
             \/ OpenMisses(t) \/ Open(t) \/ OpenInsert(t) \/ AllocFdFails(t) \/ OpenUndo(t)
             \/ SetFdHandle(t) \/ MemfdCreate(t) \/ MemfdInsert(t) \/ MemfdSet(t) \/ MemfdUndo(t)
             \/ CloseDecRef(t) \/ DupPanics(t)
             \/ \E f \in Fd : AllocFd(t, f) \/ Close(t, f)
             \/ \E i \in Inodes, a \in BOOLEAN : OpenPath(t, i, a)
      PROVE  LockInv'
  BY <1>1, LockFrame DEF OpenMisses, Open, OpenInsert, AllocFdFails, OpenUndo, SetFdHandle,
     MemfdCreate, MemfdInsert, MemfdSet, MemfdUndo, CloseDecRef, DupPanics, AllocFd, Close,
     OpenPath, Move, Return
<1>2. ASSUME NEW t \in Threads,
             \/ Access(t) \/ FileMisses(t) \/ Fstat(t) \/ WriteData(t) \/ WriteFails(t)
             \/ \E f \in Fd : Lookup(t, f) \/ EpollCtl(t, f)
             \/ \E n \in 0 .. MaxSize : Truncate(t, n) \/ Write(t, n)
      PROVE  LockInv'
  BY <1>2, LockFrame DEF Access, FileMisses, Fstat, WriteData, WriteFails, Lookup, EpollCtl,
     Truncate, Write, WithFile, Move, Return
<1>3. ASSUME NEW t \in Threads, Notify(t) \/ EpollWait(t) \/ CheckFdReady(t) PROVE LockInv'
  BY <1>3 DEF LockInv, Notify, EpollWait, CheckFdReady, Finish, Move, Return
<1>4. ASSUME NEW t \in Threads,
             \/ Dup2Close(t) \/ DupIncRef(t)
             \/ \E f, g \in Fd : Dup(t, f, g) \/ Dup2(t, f, g)
      PROVE  LockInv'
  <2>1. ASSUME NEW h, NEW g, Clone(t, h, g), at[t] # "check_ready" PROVE LockInv'
    <3>1. CASE h = NoHandle
      <4>1. at' = [at EXCEPT ![t] = "user"] /\ fd_lock' = Nobody /\ epoll_lock' = epoll_lock
        BY <2>1, <3>1 DEF Clone, Return, Move
      <4> QED
        BY <2>1, <4>1, FdLockStep
    <3>2. CASE h # NoHandle
      <4>1. at' = [at EXCEPT ![t] = "inc"] /\ fd_lock' = t /\ epoll_lock' = epoll_lock
        BY <2>1, <3>2 DEF Clone, Move
      <4> QED
        BY <2>1, <4>1, FdLockStep
    <3> QED
      BY <3>1, <3>2
  <2>2. CASE Dup2Close(t)
    BY <2>1, <2>2 DEF Dup2Close
  <2>3. CASE DupIncRef(t)
    BY <2>3, FdLockStep DEF DupIncRef, Move, Return
  <2>4. ASSUME NEW f, NEW g, Dup(t, f, g) PROVE LockInv'
    BY <2>1, <2>4 DEF Dup
  <2>5. ASSUME NEW f, NEW g, Dup2(t, f, g) PROVE LockInv'
    <3>1. CASE used[g] /\ handle[g] # NoHandle
      <4>1. /\ at' = [at EXCEPT ![t] = "dup2_close"] /\ at[t] = "user"
            /\ fd_lock' = t /\ epoll_lock' = epoll_lock
        BY <2>5, <3>1 DEF Dup2, Move
      <4> QED
        BY <4>1, FdLockStep
    <3>2. CASE ~(used[g] /\ handle[g] # NoHandle)
      BY <2>1, <2>5, <3>2 DEF Dup2
    <3> QED
      BY <3>1, <3>2
  <2> QED
    BY <1>4, <2>2, <2>3, <2>4, <2>5
<1>5. CASE UNCHANGED file_vars
  BY <1>5 DEF LockInv, file_vars
<1> QED
  BY <1>1, <1>2, <1>3, <1>4, <1>5 DEF FilesNext

\* For any number of threads, a circle of threads that wait for one another goes
\* through the lock of the open-file table, which is held across a wait only by a
\* write that sends the wake-up of epoll: follow the waiting from any of them.
THEOREM DeadlocksGoThroughWrite == FilesSpec => []DeadlockNeedsWrite
<1>1. ASSUME LockInv PROVE DeadlockNeedsWrite
  <2> SUFFICES ASSUME NEW S \in SUBSET Threads, NEW r \in S,
                      \A t \in S : WaitsFor(t) \in S
               PROVE  files_lock \in S
    BY DEF DeadlockNeedsWrite
  <2>1. ASSUME fd_lock \in S PROVE files_lock \in S
    BY <1>1, <2>1 DEF LockInv, WaitsFor
  <2>2. ASSUME epoll_lock \in S PROVE files_lock \in S
    BY <1>1, <2>1, <2>2 DEF LockInv, WaitsFor
  <2>3. WaitsFor(r) \in {epoll_lock, fd_lock, files_lock, Nobody}
    BY DEF WaitsFor
  <2>4. Nobody \notin S
    BY ConstantFacts
  <2> QED
    BY <2>1, <2>2, <2>3, <2>4
<1>2. FilesInit => LockInv
  BY ConstantFacts, SMT DEF FilesInit, LockInv
<1>3. LockInv /\ [FilesNext]_file_vars => LockInv'
  BY NextLockInv
<1> QED
  BY <1>1, <1>2, <1>3, PTL DEF FilesSpec

=============================================================================
