----------------------------- MODULE InodeCache -----------------------------
(***************************************************************************)
(* The inode cache (framework/fs/vfs/dcache.rs): a hash table with open    *)
(* addressing and Robin Hood displacement that keeps the sizes of RAM      *)
(* files for stat.  A stat looks its inode up and, after a miss, reads the *)
(* file and inserts what it has read in a second lock section.  A write or *)
(* a truncation gives a reference back and empties the slot when none is   *)
(* left; path resolution counts a reference when the directory cache has   *)
(* missed.                                                                 *)
(*                                                                         *)
(* An entry's flag `valid` says the same as its inode number: both are set *)
(* by insert and cleared together.                                         *)
(***************************************************************************)
EXTENDS FileClients

VARIABLES
  size,     \* the size of each RAM file
  icache,   \* ICACHE: its entries and their number
  missed    \* per thread: the inode that a stat has missed and will insert

icache_vars == <<size, icache, missed>>

EMPTY_INO == 0   \* u32::MAX, which is no inode either

EmptyEntry == [ino |-> EMPTY_INO, size |-> 0, ref_count |-> 0, probe_distance |-> 0]

EmptyCache == [entries |-> [x \in IcacheSlot |-> EmptyEntry], count |-> 0]

IcacheInit ==
  /\ size = [i \in Inodes |-> 0]
  /\ icache = EmptyCache
  /\ missed = [t \in Threads |-> NotRam]

---------------------------------------------------------------------------
(* The table.                                                              *)

\* The slot at distance d from the one that inode i hashes to.
Probe(i, d) == (hash_key[i] + d) % ICACHE_SIZE

\* A search for inode i goes past an entry of another inode, unless that is
\* nearer to its own slot than i would be here.
Passes(e, i, d) == e.ino \notin {i, EMPTY_INO} /\ e.probe_distance >= d

\* The slot of inode i, as a set of at most one.
lookup_index(c, i) ==
  {Probe(i, d) : d \in {d \in IcacheSlot :
     /\ c.entries[Probe(i, d)].ino = i
     /\ c.entries[Probe(i, d)].probe_distance >= d
     /\ \A k \in 0 .. d - 1 : Passes(c.entries[Probe(i, k)], i, k)}}

ref_inc(c, i) ==
  LET found == lookup_index(c, i)
  IN [c EXCEPT !.entries = [x \in IcacheSlot |->
        IF x \in found THEN [@[x] EXCEPT !.ref_count = @ + 1] ELSE @[x]]]

ref_dec(c, i) ==
  LET found == {x \in lookup_index(c, i) : c.entries[x].ref_count > 0}
  IN [c EXCEPT !.entries = [x \in IcacheSlot |->
        IF x \in found THEN [@[x] EXCEPT !.ref_count = @ - 1] ELSE @[x]]]

is_ref_zero(c, i) == \A x \in lookup_index(c, i) : c.entries[x].ref_count = 0

\* Faulty variant: the number of entries is left alone.
InvalidateUncounted(c, i) ==
  LET found == lookup_index(c, i)
  IN [c EXCEPT !.entries = [x \in IcacheSlot |-> IF x \in found THEN EmptyEntry ELSE @[x]]]

\* Empties the slot: entries that were inserted behind it stay where they are.
invalidate(c, i) ==
  LET found == lookup_index(c, i)
  IN [c EXCEPT !.entries = [x \in IcacheSlot |-> IF x \in found THEN EmptyEntry ELSE @[x]],
               !.count = @ - Cardinality(found)]

\* Gives a reference back, and invalidates when none is left.
icache_invalidate(c, i) ==
  LET lowered == ref_dec(c, i)
  IN IF is_ref_zero(lowered, i) THEN invalidate(lowered, i) ELSE lowered

---------------------------------------------------------------------------
(* insert, as the state w of its loop: the table, the entry to be placed,  *)
(* its distance from its own slot, and whether the loop has returned.      *)

\* An empty slot takes the entry, with the reference count that is found there.
Settle(w, x) ==
  [w EXCEPT !.entries[x] = [w.new EXCEPT !.probe_distance = w.distance,
                                         !.ref_count = w.entries[x].ref_count],
            !.count = @ + 1, !.done = TRUE]

\* Faulty variant: the entry that displaces another keeps its old distance.
DisplaceUnmeasured(w, x) ==
  [w EXCEPT !.entries[x] = w.new, !.new = w.entries[x],
            !.distance = w.entries[x].probe_distance + 1]

\* The entry takes the slot of one that is nearer to its own, which is carried on.
Displace(w, x) ==
  [w EXCEPT !.entries[x] = [w.new EXCEPT !.probe_distance = w.distance],
            !.new = w.entries[x],
            !.distance = w.entries[x].probe_distance + 1]

InsertAt(w, x, i, n) ==
  IF w.done THEN w
  ELSE IF w.entries[x].ino = EMPTY_INO THEN Settle(w, x)
  ELSE IF w.entries[x].ino = i THEN [w EXCEPT !.entries[x].size = n, !.done = TRUE]
  ELSE IF w.entries[x].probe_distance < w.distance THEN Displace(w, x)
  ELSE [w EXCEPT !.distance = @ + 1]

\* loop[k]: after k slots.  What is still carried when all have been visited is
\* dropped.
insert(c, i, n) ==
  LET new == [ino |-> i, size |-> n, ref_count |-> 0, probe_distance |-> 0]
      loop[k \in 0 .. ICACHE_SIZE] ==
        IF k = 0 THEN [entries |-> c.entries, count |-> c.count, new |-> new,
                       distance |-> 0, done |-> FALSE]
        ELSE InsertAt(loop[k - 1], Probe(i, k - 1), i, n)
      end == loop[ICACHE_SIZE]
  IN [entries |-> end.entries, count |-> end.count]

---------------------------------------------------------------------------
(* What the calls do to the cache.                                         *)

Cached(i) == lookup_index(icache, i) # {}

\* The bound on reference counts leaves room for one more.
Countable(i) == \A x \in lookup_index(icache, i) : icache.entries[x].ref_count < MaxIref

\* A hit reports the cached size n and takes a reference nobody gives back.
StatHits(i, n) ==
  /\ Cached(i) /\ Countable(i)
  /\ \A x \in lookup_index(icache, i) : n = icache.entries[x].size
  /\ icache' = ref_inc(icache, i)

\* After a miss the size of the file is reported and inserted.
StatFills(i, n) == n = size[i] /\ icache' = insert(icache, i, n)

\* The file gets size n, and its cached copy is invalidated.
SetSize(c, i, n) ==
  /\ size' = [size EXCEPT ![i] = n]
  /\ icache' = icache_invalidate(c, i)

---------------------------------------------------------------------------
(* The calls that name a file by its path.                                 *)

IcacheLookup(t, i) ==
  /\ missed[t] = NotRam
  /\ \/ \E n \in 0 .. MaxSize : StatHits(i, n) /\ UNCHANGED missed
     \/ ~Cached(i) /\ missed' = [missed EXCEPT ![t] = i] /\ UNCHANGED icache
  /\ UNCHANGED size

IcacheFill(t) ==
  /\ missed[t] # NotRam
  /\ StatFills(missed[t], size[missed[t]])
  /\ missed' = [missed EXCEPT ![t] = NotRam]
  /\ UNCHANGED size

\* resolve_path has missed in the directory cache: dcache_insert.
Resolve(i) ==
  /\ Cached(i) /\ Countable(i)
  /\ icache' = ref_inc(icache, i)
  /\ UNCHANGED <<size, missed>>

Resize(i, n) == SetSize(icache, i, n) /\ UNCHANGED missed

\* unmount: icache_flush.
IcacheFlush == icache' = EmptyCache /\ UNCHANGED <<size, missed>>

IcacheNext ==
  \/ \E i \in Inodes : \/ \E t \in Threads : IcacheLookup(t, i)
                       \/ Resolve(i)
                       \/ \E n \in 0 .. MaxSize : Resize(i, n)
  \/ \E t \in Threads : IcacheFill(t)
  \/ IcacheFlush

---------------------------------------------------------------------------
(* Properties.                                                             *)

\* Every entry is as far from the slot its inode hashes to as its probe distance
\* says, also after it was displaced: lookups stop early on the strength of that.
\* The number of entries is exact, so taking one away never goes below zero.
SlotsExact ==
  /\ icache.count = Cardinality({x \in IcacheSlot : icache.entries[x].ino # EMPTY_INO})
  /\ \A x \in IcacheSlot :
       LET e == icache.entries[x] IN
       e.ino # EMPTY_INO => Probe(e.ino, e.probe_distance) = x

\* What a stat has inserted, the next stat of the file finds, with the size the
\* file has: in a table with gaps that invalidations have left and with second
\* entries of the same inode behind them, unless there was no empty slot.
FillIsFound ==
  [][\A t \in Threads : IcacheFill(t) =>
       \/ \E x \in lookup_index(icache', missed[t]) : icache'.entries[x].size = size[missed[t]]
       \/ \A x \in IcacheSlot : icache.entries[x].ino # EMPTY_INO]_icache_vars
=============================================================================
