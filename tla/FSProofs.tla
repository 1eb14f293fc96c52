----------------------------- MODULE FSProofs ------------------------------
(***************************************************************************)
(* What holds of three parts of the file system, the block cache           *)
(* (BufCache), the pipes (PipeFS) and the contents of files (Zones),       *)
(* whatever the sizes of their tables.                                     *)
(*                                                                         *)
(* The cache, for every number of buffers, hash chains, devices and        *)
(* blocks, and every way transfers fail.                                   *)
(* That no write is lost hangs on no block being in two buffers, and that  *)
(* on the hash chains: get_block() takes a buffer for a block only if the  *)
(* chain of the block does not have it.  So the inductive invariant has    *)
(* three parts: the chains are complete, a block has one buffer, and each  *)
(* block, by itself, is sound.  The contents of a block are touched by the *)
(* few procedures that touch its buffer: for all the others two states     *)
(* agree on the block.                                                     *)
(*                                                                         *)
(* The pipes, for every number of processes, descriptors, filp slots and   *)
(* i-nodes and every size of a pipe.  The second part of the module says   *)
(* how the counts, the positions and susp_count fit together.              *)
(*                                                                         *)
(* The files, for every number of them and every geometry.  The third part *)
(* goes from the arithmetic of positions to the places of pointers, to     *)
(* what each procedure of read.c and write.c does with these and with the  *)
(* blocks, and to the loop of read_write(): a file, taken to end where the *)
(* loop is, always reads as it was written.                                *)
(***************************************************************************)
EXTENDS BufCache, PipeFS, Zones, SeqLemmas, FiniteSetTheorems

Cache == [dev : [Buf -> Dev \cup {NO_DEV}], blk : [Buf -> Block \cup {NO_BLOCK}],
          count : [Buf -> Nat], dirt : [Buf -> BOOLEAN],
          lru : Seq(Buf), hash : [0 .. NR_BUF_HASH - 1 -> Seq(Buf)],
          in_use : Nat, fresh : SUBSET Buf, stored : SUBSET BlockAt,
          spoilt : SUBSET BlockAt]

\* A buffer with a device has a block of it.
Typed(c) == c \in Cache /\ \A b \in Buf : c.dev[b] # NO_DEV => KeyOf(c, b) \in BlockAt

Hashed(c) == \A h \in DOMAIN c.hash :
               /\ IsInjective(c.hash[h])
               /\ ToSet(c.hash[h]) = {b \in Buf : Chain(c.blk[b]) = h}
Chained(c) == IsInjective(c.lru) /\ ToSet(c.lru) = Buf
Counting(c) == c.in_use = Cardinality(Used(c))

\* No block is in two buffers.
OneEach(c) == \A b, x \in Buf : b # x /\ c.dev[b] # NO_DEV => KeyOf(c, b) # KeyOf(c, x)

\* Of block k: whoever gets it gets what was last written to it, and a clean
\* buffer agrees with the disk.
Sound(c, k) ==
  k \notin c.spoilt =>
    /\ (\A b \in Buf : KeyOf(c, b) # k) => k \in c.stored
    /\ \A b \in Buf : KeyOf(c, b) = k => b \in c.fresh /\ (c.dirt[b] \/ k \in c.stored)

\* The blocks that a crash must not lose; and k is on disk if nobody uses it.
Safe == {m \in Meta : m[1] \notin Special}
OnDisk(c, k) ==
  k \notin c.spoilt /\ (\A b \in Buf : KeyOf(c, b) = k => b \notin Used(c)) => k \in c.stored

Good(c, k) == Sound(c, k) /\ (k \in Safe => OnDisk(c, k))

\* The inductive invariant.
Inv(c) == /\ Typed(c) /\ Hashed(c) /\ Chained(c) /\ Counting(c)
          /\ OneEach(c) /\ \A k \in BlockAt : Good(c, k)

\* The two states say the same of block k.
Agree(c, r, k) ==
  /\ \A b \in Buf : KeyOf(r, b) = k <=> KeyOf(c, b) = k
  /\ \A b \in Buf : KeyOf(c, b) = k =>
       /\ b \in r.fresh <=> b \in c.fresh
       /\ r.dirt[b] = c.dirt[b] /\ r.count[b] = c.count[b]
  /\ k \in r.stored <=> k \in c.stored
  /\ k \in r.spoilt <=> k \in c.spoilt

LEMMA AgreeFacts ==
  ASSUME NEW c, NEW r, NEW k, Agree(c, r, k), Good(c, k)
  PROVE  Good(r, k)
BY DEF Agree, Good, Sound, OnDisk, Used

\* The fields of a state of the cache.
LEMMA Fields ==
  ASSUME NEW c \in Cache
  PROVE  /\ c.dev \in [Buf -> Dev \cup {NO_DEV}] /\ c.blk \in [Buf -> Block \cup {NO_BLOCK}]
         /\ c.count \in [Buf -> Nat] /\ c.dirt \in [Buf -> BOOLEAN]
         /\ c.lru \in Seq(Buf) /\ c.hash \in [0 .. NR_BUF_HASH - 1 -> Seq(Buf)]
         /\ c.in_use \in Nat /\ c.fresh \in SUBSET Buf /\ c.stored \in SUBSET BlockAt
         /\ c.spoilt \in SUBSET BlockAt
BY DEF Cache

\* What rw_block() leaves alone.
Kept(c, r) == /\ r.blk = c.blk /\ r.count = c.count /\ r.lru = c.lru
              /\ r.hash = c.hash /\ r.in_use = c.in_use

\* rw_block(): a transfer concerns one buffer and one block.  If it fails the
\* block is spoilt, and at the end of the device the buffer loses it.
LEMMA TransferFacts ==
  ASSUME NEW c, Typed(c), NEW b \in Buf, c.dev[b] # NO_DEV,
         NEW flag, NEW r \in rw_block(c, b, flag)
  PROVE  /\ Typed(r) /\ Kept(c, r)
         /\ r.dirt = [c.dirt EXCEPT ![b] = FALSE]
         /\ \A x \in Buf : x # b => r.dev[x] = c.dev[x] /\ (x \in r.fresh <=> x \in c.fresh)
         /\ \A k : k # KeyOf(c, b) => /\ k \in r.stored <=> k \in c.stored
                                      /\ k \in r.spoilt <=> k \in c.spoilt
         /\ KeyOf(c, b) \in c.spoilt => KeyOf(c, b) \in r.spoilt
         /\ \/ KeyOf(c, b) \in r.spoilt /\ r.dev[b] \in {c.dev[b], NO_DEV}
            \/ /\ r.dev[b] = c.dev[b]
               /\ IF flag = "READING"
                  THEN r.stored = c.stored /\ (b \in r.fresh <=> KeyOf(c, b) \in c.stored)
                  ELSE r.fresh = c.fresh /\ (KeyOf(c, b) \in r.stored <=> b \in c.fresh)
<1> DEFINE k0    == KeyOf(c, b)
           clean == [c EXCEPT !.dirt[b] = FALSE]
<1>1. c \in Cache /\ k0 \in BlockAt
  BY DEF Typed
<1>2. /\ clean \in Cache /\ clean.dirt = [c.dirt EXCEPT ![b] = FALSE]
      /\ clean.dev = c.dev /\ clean.fresh = c.fresh /\ clean.stored = c.stored
      /\ clean.spoilt = c.spoilt /\ Kept(c, clean)
  BY <1>1, Fields DEF Cache, Kept
<1>3. KeyOf(clean, b) = k0
  BY <1>2 DEF KeyOf, Kept
<1>4. \/ r = DiskDone(clean, b, flag)
      \/ r = Spoil(clean, k0)
      \/ r = [Spoil(clean, k0) EXCEPT !.dev[b] = NO_DEV]
  BY <1>3 DEF rw_block
<1> HIDE DEF clean, k0
<1>5. \A x \in Buf : c.dev[x] # NO_DEV => KeyOf(c, x) \in BlockAt
  BY DEF Typed
<1>6. CASE r = DiskDone(clean, b, flag)
  <2>1. CASE flag = "READING"
    <3>1. r = [clean EXCEPT !.fresh = IF k0 \in clean.stored THEN @ \cup {b} ELSE @ \ {b}]
      BY <1>3, <1>6, <2>1 DEF DiskDone
    <3>2. /\ r \in Cache /\ Kept(c, r) /\ r.dirt = clean.dirt /\ r.dev = c.dev
          /\ r.stored = c.stored /\ r.spoilt = c.spoilt
          /\ r.fresh = IF k0 \in c.stored THEN c.fresh \cup {b} ELSE c.fresh \ {b}
      BY <1>2, <3>1, Fields DEF Cache, Kept
    <3>3. Typed(r)
      BY <1>5, <3>2 DEF Typed, KeyOf, Kept
    <3> QED BY <1>2, <2>1, <3>2, <3>3 DEF k0
  <2>2. CASE flag # "READING"
    <3>1. r = [clean EXCEPT !.stored = IF b \in clean.fresh THEN @ \cup {k0} ELSE @ \ {k0}]
      BY <1>3, <1>6, <2>2 DEF DiskDone
    <3>2. /\ r \in Cache /\ Kept(c, r) /\ r.dirt = clean.dirt /\ r.dev = c.dev
          /\ r.fresh = c.fresh /\ r.spoilt = c.spoilt
          /\ r.stored = IF b \in c.fresh THEN c.stored \cup {k0} ELSE c.stored \ {k0}
      BY <1>1, <1>2, <3>1, Fields DEF Cache, Kept
    <3>3. Typed(r)
      BY <1>5, <3>2 DEF Typed, KeyOf, Kept
    <3> QED BY <1>2, <2>2, <3>2, <3>3 DEF k0
  <2> QED BY <2>1, <2>2
<1>7. CASE r = Spoil(clean, k0) \/ r = [Spoil(clean, k0) EXCEPT !.dev[b] = NO_DEV]
  <2>1. PICK e \in {c.dev[b], NO_DEV} :
          r = [clean EXCEPT !.spoilt = @ \cup {k0}, !.dev[b] = e]
    <3>1. CASE r = Spoil(clean, k0)
      <4>1. r = [clean EXCEPT !.spoilt = @ \cup {k0}, !.dev[b] = c.dev[b]]
        <5>1. [clean.dev EXCEPT ![b] = c.dev[b]] = clean.dev
          BY <1>2, Fields
        <5> QED BY <1>2, <3>1, <5>1 DEF Spoil, Cache
      <4> QED BY <4>1
    <3>2. CASE r = [Spoil(clean, k0) EXCEPT !.dev[b] = NO_DEV]
      <4>1. r = [clean EXCEPT !.spoilt = @ \cup {k0}, !.dev[b] = NO_DEV]
        BY <1>2, <3>2 DEF Spoil, Cache
      <4> QED BY <4>1
    <3> QED BY <1>7, <3>1, <3>2
  <2>2. e \in Dev \cup {NO_DEV}
    BY <1>1, Fields
  <2>3. /\ r \in Cache /\ Kept(c, r) /\ r.dirt = clean.dirt
        /\ r.fresh = c.fresh /\ r.stored = c.stored /\ r.spoilt = c.spoilt \cup {k0}
        /\ r.dev = [c.dev EXCEPT ![b] = e]
    BY <1>1, <1>2, <2>1, <2>2, Fields DEF Cache, Kept
  <2>4. r.dev[b] = e /\ \A x \in Buf : x # b => r.dev[x] = c.dev[x]
    BY <1>1, <2>3, Fields
  <2>5. Typed(r)
    <3> SUFFICES ASSUME NEW x \in Buf, r.dev[x] # NO_DEV PROVE KeyOf(r, x) \in BlockAt
      BY <2>3 DEF Typed
    <3>1. r.dev[x] = c.dev[x]
      BY <2>1, <2>4
    <3> QED BY <1>5, <2>3, <3>1 DEF KeyOf, Kept
  <2> QED BY <1>2, <2>1, <2>3, <2>4, <2>5 DEF k0
<1> QED BY <1>4, <1>6, <1>7
-----------------------------------------------------------------------------
(* get_block() *)

\* A block, or the buffer of zeros that has no block, is asked for.
Askable(d, n) == <<d, n>> \in BlockAt \/ (d = NO_DEV /\ n = NO_BLOCK)

LEMMA AskFacts ==
  ASSUME NEW d, NEW n, Askable(d, n)
  PROVE  /\ d \in Dev \cup {NO_DEV} /\ n \in Block \cup {NO_BLOCK}
         /\ d # NO_DEV <=> <<d, n>> \in BlockAt
BY CacheAssumption DEF Askable, BlockAt

\* Block numbers select hash chains.
LEMMA ChainFacts ==
  ASSUME NEW n \in Block \cup {NO_BLOCK}
  PROVE  Chain(n) \in 0 .. NR_BUF_HASH - 1
<1>1. n \in Nat /\ NR_BUF_HASH \in Nat \ {0}
  BY CacheAssumption DEF NO_BLOCK
<1> QED BY <1>1 DEF Chain

LEMMA BufFinite ==
  /\ IsFiniteSet(Buf) /\ Cardinality(Buf) = NR_BUFS
  /\ \A c : IsFiniteSet(Used(c)) /\ Cardinality(Used(c)) \in Nat /\ Cardinality(Used(c)) <= NR_BUFS
<1>1. IsFiniteSet(Buf) /\ Cardinality(Buf) = NR_BUFS
  BY CacheAssumption, FS_Interval DEF Buf
<1>2. \A c : Used(c) \subseteq Buf
  BY DEF Used
<1> QED BY <1>1, <1>2, FS_Subset, FS_CardinalityType

\* Found: the buffer of the block, if there is one at all.
LEMMA FoundFacts ==
  ASSUME NEW c, Typed(c), Hashed(c), NEW d, NEW n, Askable(d, n)
  PROVE  /\ Found(c, d, n) \subseteq Buf
         /\ \A b \in Buf : d # NO_DEV => (b \in Found(c, d, n) <=> KeyOf(c, b) = <<d, n>>)
         /\ \A b \in Found(c, d, n) : d # NO_DEV
<1>1. /\ Chain(n) \in DOMAIN c.hash
      /\ ToSet(c.hash[Chain(n)]) = {b \in Buf : Chain(c.blk[b]) = Chain(n)}
  BY AskFacts, ChainFacts DEF Hashed, Typed, Cache
<1>2. \A b \in Buf : KeyOf(c, b) = <<d, n>> => Chain(c.blk[b]) = Chain(n)
  BY DEF KeyOf
<1> QED BY <1>1, <1>2 DEF Found

\* A block that is in the cache is used once more.
LEMMA HitFacts ==
  ASSUME NEW c, Inv(c), NEW d, NEW n, Askable(d, n), NEW b \in Found(c, d, n)
  PROVE  LET r == [c EXCEPT !.count[b] = @ + 1,
                            !.in_use = IF c.count[b] = 0 THEN @ + 1 ELSE @]
         IN  Inv(r) /\ KeyOf(r, b) = <<d, n>> /\ b \in Used(r)
<1> DEFINE u == IF c.count[b] = 0 THEN c.in_use + 1 ELSE c.in_use
           r == [c EXCEPT !.count[b] = @ + 1, !.in_use = u]
<1>1. /\ c \in Cache /\ b \in Buf /\ KeyOf(c, b) = <<d, n>>
      /\ c.count[b] \in Nat /\ c.in_use \in Nat
  BY FoundFacts, Fields DEF Inv, Typed
<1>0. u \in Nat
  BY <1>1
<1> HIDE DEF u
<1>2. /\ r \in Cache /\ r.count = [c.count EXCEPT ![b] = @ + 1]
      /\ r.dev = c.dev /\ r.blk = c.blk /\ r.dirt = c.dirt /\ r.lru = c.lru /\ r.hash = c.hash
      /\ r.fresh = c.fresh /\ r.stored = c.stored /\ r.spoilt = c.spoilt
      /\ r.in_use = u
  <2>1. [c.count EXCEPT ![b] = @ + 1] \in [Buf -> Nat]
    BY <1>1, Fields
  <2>2. r = [c EXCEPT !.count = [c.count EXCEPT ![b] = @ + 1], !.in_use = u]
    BY DEF r
  <2> HIDE DEF r
  <2> DEFINE g == [c.count EXCEPT ![b] = @ + 1]
  <2>3. g \in [Buf -> Nat] /\ r = [c EXCEPT !.count = g, !.in_use = u]
    BY <2>1, <2>2
  <2> HIDE DEF g
  <2>4. r \in Cache /\ r.count = g
    BY <1>0, <1>1, <2>3 DEF Cache
  <2> QED BY <1>1, <2>3, <2>4 DEF Cache, g
<1> HIDE DEF r
<1>3. \A x \in Buf : r.count[x] = IF x = b THEN c.count[b] + 1 ELSE c.count[x]
  BY <1>1, <1>2, Fields
<1>4. \A x : KeyOf(r, x) = KeyOf(c, x)
  BY <1>2 DEF KeyOf
<1>5. Typed(r) /\ Hashed(r) /\ Chained(r) /\ OneEach(r)
  BY <1>2, <1>4 DEF Inv, Typed, Hashed, Chained, OneEach
<1>6. Used(r) = Used(c) \cup {b} /\ (b \in Used(c) <=> c.count[b] # 0)
  BY <1>1, <1>3, Fields DEF Used
<1>7. Counting(r)
  <2>1. CASE c.count[b] = 0
    <3>1. Cardinality(Used(c) \cup {b}) = Cardinality(Used(c)) + 1
      BY <1>6, <2>1, BufFinite, FS_AddElement
    <3> QED BY <1>2, <1>6, <2>1, <3>1 DEF Inv, Counting, u
  <2>2. CASE c.count[b] # 0
    <3>1. Used(r) = Used(c)
      BY <1>6, <2>2
    <3> QED BY <1>2, <2>2, <3>1 DEF Inv, Counting, u
  <2> QED BY <2>1, <2>2
<1>8. ASSUME NEW k \in BlockAt PROVE Good(r, k)
  <2>1. Good(c, k)
    BY DEF Inv
  <2>2. Sound(r, k)
    BY <1>2, <1>4, <2>1 DEF Good, Sound
  <2>3. k \in Safe => OnDisk(r, k)
    BY <1>2, <1>4, <1>6, <2>1 DEF Good, OnDisk
  <2> QED BY <2>2, <2>3 DEF Good
<1>9. KeyOf(r, b) = <<d, n>> /\ b \in Used(r)
  BY <1>1, <1>4, <1>6
<1> QED BY <1>5, <1>7, <1>8, <1>9 DEF Inv, r, u

\* The chain of all buffers has one that nobody uses, unless all are in use.
LEMMA VictimFacts ==
  ASSUME NEW c, Typed(c), Chained(c), Used(c) # Buf
  PROVE  Victim(c) \in Buf /\ Victim(c) \notin Used(c)
<1> DEFINE T == {i \in DOMAIN c.lru : c.lru[i] \notin Used(c)}
<1>1. c.lru \in Seq(Buf) /\ DOMAIN c.lru = 1 .. Len(c.lru) /\ Len(c.lru) \in Nat
  BY Fields, LenProperties DEF Typed
<1>2. T # {}
  <2>1. PICK b \in Buf : b \notin Used(c)
    BY DEF Used
  <2>2. PICK i \in DOMAIN c.lru : c.lru[i] = b
    BY <2>1 DEF Chained, ToSet
  <2> QED BY <2>1, <2>2
<1>3. T \in SUBSET Nat
  BY <1>1
<1>4. PICK m \in T : \A y \in T : m <= y
  <2> HIDE DEF T
  <2> QED BY <1>2, <1>3, LeastIndex
<1>5. /\ m \in DOMAIN c.lru /\ c.lru[m] \notin Used(c)
      /\ \A j \in 1 .. m - 1 : c.lru[j] \in Used(c)
  BY <1>1, <1>4
<1> DEFINE v == CHOOSE i \in DOMAIN c.lru :
                  /\ c.lru[i] \notin Used(c)
                  /\ \A j \in 1 .. i - 1 : c.lru[j] \in Used(c)
<1>6. v \in DOMAIN c.lru /\ c.lru[v] \notin Used(c)
  BY <1>5
<1>7. Victim(c) = c.lru[v]
  BY DEF Victim
<1> HIDE DEF v
<1> QED BY <1>1, <1>6, <1>7

\* The victim is written back if it is dirty: what it held is on disk or spoilt.
LEMMA EvictFacts ==
  ASSUME NEW c, Typed(c), NEW b \in Buf, NEW e \in Evicted(c, b),
         c.dev[b] # NO_DEV => Sound(c, KeyOf(c, b))
  PROVE  /\ Typed(e) /\ Kept(c, e)
         /\ \A x \in Buf : x # b => /\ e.dev[x] = c.dev[x] /\ e.dirt[x] = c.dirt[x]
                                    /\ x \in e.fresh <=> x \in c.fresh
         /\ \A k : k # KeyOf(c, b) => /\ k \in e.stored <=> k \in c.stored
                                      /\ k \in e.spoilt <=> k \in c.spoilt
         /\ c.dev[b] # NO_DEV => KeyOf(c, b) \in e.stored \cup e.spoilt
<1>1. c \in Cache
  BY DEF Typed
<1>2. CASE c.dirt[b] /\ c.dev[b] # NO_DEV
  <2>1. e \in rw_block(c, b, "WRITING")
    BY <1>2 DEF Evicted
  <2>2. /\ Typed(e) /\ Kept(c, e)
        /\ e.dirt = [c.dirt EXCEPT ![b] = FALSE]
        /\ \A x \in Buf : x # b => e.dev[x] = c.dev[x] /\ (x \in e.fresh <=> x \in c.fresh)
        /\ \A k : k # KeyOf(c, b) => /\ k \in e.stored <=> k \in c.stored
                                     /\ k \in e.spoilt <=> k \in c.spoilt
        /\ KeyOf(c, b) \in c.spoilt => KeyOf(c, b) \in e.spoilt
        /\ \/ KeyOf(c, b) \in e.spoilt /\ e.dev[b] \in {c.dev[b], NO_DEV}
           \/ /\ e.dev[b] = c.dev[b]
              /\ IF "WRITING" = "READING"
                 THEN e.stored = c.stored /\ (b \in e.fresh <=> KeyOf(c, b) \in c.stored)
                 ELSE e.fresh = c.fresh /\ (KeyOf(c, b) \in e.stored <=> b \in c.fresh)
    BY <1>2, <2>1, TransferFacts
  <2>3. \A x \in Buf : x # b => e.dirt[x] = c.dirt[x]
    BY <1>1, <2>2, Fields
  <2>4. KeyOf(c, b) \in e.stored \cup e.spoilt
    BY <1>2, <2>2 DEF Sound
  <2> QED BY <2>2, <2>3, <2>4
<1>3. CASE ~(c.dirt[b] /\ c.dev[b] # NO_DEV)
  <2>1. e = c
    BY <1>3 DEF Evicted
  <2>2. c.dev[b] # NO_DEV => KeyOf(c, b) \in e.stored \cup e.spoilt
    BY <1>3, <2>1 DEF Sound
  <2> QED BY <2>1, <2>2 DEF Kept
<1> QED BY <1>2, <1>3

\* The hash chains without buffer b, and with b at the front of the chain of block n.
Unhashed(c, b) == [c.hash EXCEPT ![Chain(c.blk[b])] = RemoveFirst(@, b)]
Rehashed(c, b, n) == [Unhashed(c, b) EXCEPT ![Chain(n)] = <<b>> \o @]

LEMMA RechainFacts ==
  ASSUME NEW c, Typed(c), Hashed(c), NEW d, NEW n, Askable(d, n), NEW b \in Buf
  PROVE  /\ Unhashed(c, b) \in [0 .. NR_BUF_HASH - 1 -> Seq(Buf)]
         /\ Rehashed(c, b, n) \in [0 .. NR_BUF_HASH - 1 -> Seq(Buf)]
         /\ \A i \in 0 .. NR_BUF_HASH - 1 :
              /\ IsInjective(Rehashed(c, b, n)[i])
              /\ ToSet(Rehashed(c, b, n)[i]) = {x \in Buf : Chain(IF x = b THEN n ELSE c.blk[x]) = i}
<1> DEFINE h == Unhashed(c, b)
           g == Rehashed(c, b, n)
           H == 0 .. NR_BUF_HASH - 1
           o == Chain(c.blk[b])
           m == Chain(n)
<1>1. c.hash \in [H -> Seq(Buf)] /\ c.blk[b] \in Block \cup {NO_BLOCK}
  BY Fields DEF Typed
<1>2. o \in H /\ m \in H
  BY <1>1, AskFacts, ChainFacts
<1> HIDE DEF o, m, H
<1>3. \A i \in H : /\ c.hash[i] \in Seq(Buf) /\ IsInjective(c.hash[i])
                   /\ ToSet(c.hash[i]) = {x \in Buf : Chain(c.blk[x]) = i}
  BY <1>1 DEF Hashed
<1>4. /\ RemoveFirst(c.hash[o], b) \in Seq(Buf)
      /\ ToSet(RemoveFirst(c.hash[o], b)) = ToSet(c.hash[o]) \ {b}
      /\ IsInjective(RemoveFirst(c.hash[o], b))
  BY <1>2, <1>3, RemoveFirstFacts
<1>5. h = [c.hash EXCEPT ![o] = RemoveFirst(@, b)]
  BY DEF o, Unhashed
<1> HIDE DEF h
<1>6. h \in [H -> Seq(Buf)]
  BY <1>1, <1>2, <1>4, <1>5
<1>7. \A i \in H : /\ h[i] \in Seq(Buf) /\ IsInjective(h[i])
                   /\ ToSet(h[i]) = {x \in Buf : x # b /\ Chain(c.blk[x]) = i}
  <2> SUFFICES ASSUME NEW i \in H
               PROVE  /\ IsInjective(h[i])
                      /\ ToSet(h[i]) = {x \in Buf : x # b /\ Chain(c.blk[x]) = i}
    BY <1>6
  <2>1. CASE i = o
    <3>1. h[i] = RemoveFirst(c.hash[o], b)
      BY <1>1, <1>2, <1>5, <2>1
    <3> QED BY <1>3, <1>4, <2>1, <3>1
  <2>2. CASE i # o
    <3>1. h[i] = c.hash[i]
      BY <1>1, <1>5, <2>2
    <3>2. Chain(c.blk[b]) # i
      BY <2>2 DEF o
    <3> QED BY <1>3, <3>1, <3>2
  <2> QED BY <2>1, <2>2
<1>10. g = [h EXCEPT ![m] = <<b>> \o @]
  BY DEF m, h, Rehashed
<1> HIDE DEF g
<1>9. /\ <<b>> \o h[m] \in Seq(Buf)
      /\ ToSet(<<b>> \o h[m]) = {b} \cup ToSet(h[m])
      /\ IsInjective(<<b>> \o h[m])
  <2>1. h[m] \in Seq(Buf) /\ IsInjective(h[m]) /\ b \notin ToSet(h[m])
    BY <1>2, <1>7
  <2> QED BY <2>1, PushFacts
<1>11. g \in [H -> Seq(Buf)]
  BY <1>2, <1>6, <1>9, <1>10
<1>12. ASSUME NEW i \in H
       PROVE  /\ IsInjective(g[i])
              /\ ToSet(g[i]) = {x \in Buf : Chain(IF x = b THEN n ELSE c.blk[x]) = i}
  <2>1. CASE i = m
    <3>1. g[i] = <<b>> \o h[m]
      BY <1>2, <1>6, <1>10, <2>1
    <3>2. {b} \cup {x \in Buf : x # b /\ Chain(c.blk[x]) = i}
            = {x \in Buf : Chain(IF x = b THEN n ELSE c.blk[x]) = i}
      BY <2>1 DEF m
    <3> QED BY <1>2, <1>7, <1>9, <2>1, <3>1, <3>2
  <2>2. CASE i # m
    <3>1. g[i] = h[i]
      BY <1>6, <1>10, <2>2
    <3>2. {x \in Buf : x # b /\ Chain(c.blk[x]) = i}
            = {x \in Buf : Chain(IF x = b THEN n ELSE c.blk[x]) = i}
      BY <2>2 DEF m
    <3> QED BY <1>7, <3>1, <3>2
  <2> QED BY <2>1, <2>2
<1> QED BY <1>6, <1>11, <1>12 DEF H, h, g

\* What holds of the chains and buffers, whatever is in the blocks.
Linked(c) == Typed(c) /\ Hashed(c) /\ Chained(c) /\ Counting(c) /\ OneEach(c)

\* The state of a cache in which buffer b has been taken for block n of d, and not
\* yet been read into.
TakenFor(c, b, d, n) ==
  /\ Linked(c) /\ b \in Used(c) /\ KeyOf(c, b) = <<d, n>> /\ b \notin c.fresh
  /\ \A k \in BlockAt : k # <<d, n>> => Good(c, k)
  /\ <<d, n>> \in BlockAt => <<d, n>> \in c.stored \cup c.spoilt

\* Buffer b is taken off its hash chain and counted as used.
Detached(c, b) ==
  [c EXCEPT !.in_use = @ + 1, !.hash[Chain(c.blk[b])] = RemoveFirst(@, b)]

\* A block that is not in the cache gets a buffer that nobody uses.
LEMMA MissFacts ==
  ASSUME NEW c, Inv(c), Used(c) # Buf, NEW d, NEW n, Askable(d, n), Found(c, d, n) = {},
         NEW b, b = Victim(c), NEW e \in Evicted(Detached(c, b), b)
  PROVE  TakenFor(Rekeyed(e, b, d, n), b, d, n)
<1> DEFINE h == Unhashed(c, b)
           g == Rehashed(c, b, n)
           t == Detached(c, b)
           q == Rekeyed(e, b, d, n)
           k0 == KeyOf(c, b)
<1>1. c \in Cache /\ Typed(c) /\ Hashed(c) /\ Chained(c) /\ Counting(c) /\ OneEach(c)
  BY DEF Inv, Typed
<1>2. b \in Buf /\ b \notin Used(c) /\ c.count[b] = 0
  <2>1. b \in Buf /\ b \notin Used(c)
    BY <1>1, VictimFacts
  <2> QED BY <1>1, <2>1, Fields DEF Used
<1>3. /\ h \in [0 .. NR_BUF_HASH - 1 -> Seq(Buf)] /\ g \in [0 .. NR_BUF_HASH - 1 -> Seq(Buf)]
      /\ \A i \in 0 .. NR_BUF_HASH - 1 :
           /\ IsInjective(g[i])
           /\ ToSet(g[i]) = {x \in Buf : Chain(IF x = b THEN n ELSE c.blk[x]) = i}
  BY <1>1, <1>2, RechainFacts
<1>4. t = [c EXCEPT !.in_use = c.in_use + 1, !.hash = h]
  BY DEF Detached, Unhashed
<1>0. g = [h EXCEPT ![Chain(n)] = <<b>> \o @]
  BY DEF Rehashed
<1> HIDE DEF h, t, g
<1>5. /\ t \in Cache /\ t.in_use = c.in_use + 1 /\ t.hash = h /\ t.lru = c.lru
      /\ t.dev = c.dev /\ t.blk = c.blk /\ t.count = c.count /\ t.dirt = c.dirt
      /\ t.fresh = c.fresh /\ t.stored = c.stored /\ t.spoilt = c.spoilt
  <2>1. c.in_use + 1 \in Nat
    BY <1>1, Fields
  <2> QED BY <1>1, <1>3, <1>4, <2>1 DEF Cache
<1>6. Typed(t) /\ \A x : KeyOf(t, x) = KeyOf(c, x)
  BY <1>1, <1>5 DEF Typed, KeyOf
<1>7. c.dev[b] # NO_DEV => k0 \in BlockAt /\ Sound(t, k0)
  BY <1>1, <1>2, <1>5, <1>6 DEF Typed, Inv, Good, Sound
<1>8. /\ Typed(e) /\ Kept(t, e)
      /\ \A x \in Buf : x # b => /\ e.dev[x] = c.dev[x] /\ e.dirt[x] = c.dirt[x]
                                 /\ x \in e.fresh <=> x \in c.fresh
      /\ \A k : k # k0 => /\ k \in e.stored <=> k \in c.stored
                          /\ k \in e.spoilt <=> k \in c.spoilt
      /\ c.dev[b] # NO_DEV => k0 \in e.stored \cup e.spoilt
  <2>1. Typed(t) /\ (t.dev[b] # NO_DEV => Sound(t, KeyOf(t, b)))
    BY <1>5, <1>6, <1>7
  <2>2. /\ Typed(e) /\ Kept(t, e)
        /\ \A x \in Buf : x # b => /\ e.dev[x] = t.dev[x] /\ e.dirt[x] = t.dirt[x]
                                   /\ x \in e.fresh <=> x \in t.fresh
        /\ \A k : k # KeyOf(t, b) => /\ k \in e.stored <=> k \in t.stored
                                     /\ k \in e.spoilt <=> k \in t.spoilt
        /\ t.dev[b] # NO_DEV => KeyOf(t, b) \in e.stored \cup e.spoilt
    <3>1. e \in Evicted(t, b)
      BY DEF t
    <3> QED BY <1>2, <2>1, <3>1, EvictFacts
  <2> QED BY <1>5, <1>6, <2>2
<1>9. /\ q \in Cache /\ q.hash = g /\ q.lru = c.lru /\ q.in_use = c.in_use + 1
      /\ q.dev = [e.dev EXCEPT ![b] = d] /\ q.blk = [c.blk EXCEPT ![b] = n]
      /\ q.count = [c.count EXCEPT ![b] = 1] /\ q.dirt = e.dirt
      /\ q.fresh = e.fresh \ {b} /\ q.stored = e.stored /\ q.spoilt = e.spoilt
  <2>1. e \in Cache /\ e.hash = h /\ e.count = c.count /\ e.blk = c.blk /\ e.lru = c.lru
        /\ e.in_use = c.in_use + 1
    BY <1>5, <1>8 DEF Typed, Kept
  <2> DEFINE dv == [e.dev EXCEPT ![b] = d]
             bk == [c.blk EXCEPT ![b] = n]
             ct == [c.count EXCEPT ![b] = 1]
             fr == e.fresh \ {b}
  <2>2. /\ dv \in [Buf -> Dev \cup {NO_DEV}] /\ bk \in [Buf -> Block \cup {NO_BLOCK}]
        /\ ct \in [Buf -> Nat] /\ fr \in SUBSET Buf
    BY <1>1, <1>2, <2>1, AskFacts, Fields
  <2>3. [c.count EXCEPT ![b] = @ + 1] = ct
    BY <1>1, <1>2, Fields
  <2>4. q = [e EXCEPT !.dev = dv, !.blk = bk, !.count = ct, !.hash = g, !.fresh = fr]
    BY <1>0, <2>1, <2>3 DEF Rekeyed
  <2> HIDE DEF q, dv, bk, ct, fr, g
  <2>5. /\ q \in Cache /\ q.hash = g /\ q.lru = e.lru /\ q.in_use = e.in_use
        /\ q.dev = dv /\ q.blk = bk /\ q.count = ct /\ q.dirt = e.dirt
        /\ q.fresh = fr /\ q.stored = e.stored /\ q.spoilt = e.spoilt
    BY <1>3, <2>1, <2>2, <2>4 DEF Cache
  <2> QED BY <2>1, <2>5 DEF dv, bk, ct, fr
<1> HIDE DEF q, g
<1>10. KeyOf(q, b) = <<d, n>> /\ \A x \in Buf : x # b => KeyOf(q, x) = KeyOf(c, x)
  <2>1. e \in Cache
    BY <1>8 DEF Typed
  <2> QED BY <1>1, <1>2, <1>8, <1>9, <2>1, Fields DEF KeyOf
<1>11. \A x \in Buf : /\ q.dev[x] = IF x = b THEN d ELSE c.dev[x]
                      /\ q.blk[x] = IF x = b THEN n ELSE c.blk[x]
                      /\ q.count[x] = IF x = b THEN 1 ELSE c.count[x]
  <2>1. e \in Cache
    BY <1>8 DEF Typed
  <2> QED BY <1>1, <1>2, <1>8, <1>9, <2>1, Fields
<1>12. Typed(q)
  BY <1>1, <1>9, <1>10, <1>11, AskFacts DEF Typed
<1>13. Hashed(q)
  <2>1. DOMAIN q.hash = 0 .. NR_BUF_HASH - 1
    BY <1>3, <1>9
  <2>2. ASSUME NEW i \in DOMAIN q.hash
        PROVE  {x \in Buf : Chain(IF x = b THEN n ELSE c.blk[x]) = i} = {x \in Buf : Chain(q.blk[x]) = i}
    BY <1>11
  <2> QED BY <1>3, <1>9, <2>1, <2>2 DEF Hashed
<1>14. Chained(q)
  BY <1>1, <1>9 DEF Chained
<1>15. Used(q) = Used(c) \cup {b}
  BY <1>2, <1>11 DEF Used
<1>16. Counting(q)
  <2>1. Cardinality(Used(c) \cup {b}) = Cardinality(Used(c)) + 1
    BY <1>2, BufFinite, FS_AddElement
  <2> QED BY <1>1, <1>9, <1>15, <2>1 DEF Counting
<1>17. \A x \in Buf : d # NO_DEV => KeyOf(c, x) # <<d, n>>
  BY <1>1, FoundFacts
<1>18. OneEach(q)
  <2> SUFFICES ASSUME NEW x \in Buf, NEW y \in Buf, x # y, q.dev[x] # NO_DEV
               PROVE  KeyOf(q, x) # KeyOf(q, y)
    BY DEF OneEach
  <2>1. CASE x = b
    BY <1>10, <1>11, <1>17, <2>1
  <2>2. CASE y = b
    <3>1. d = NO_DEV => c.dev[x] # d
      BY <1>11, <2>2
    <3> QED BY <1>10, <1>17, <2>2, <3>1 DEF KeyOf
  <2>3. CASE x # b /\ y # b
    BY <1>1, <1>10, <1>11, <2>3 DEF OneEach
  <2> QED BY <2>1, <2>2, <2>3
<1>19. <<d, n>> \in BlockAt => <<d, n>> \in q.stored \cup q.spoilt
  <2> SUFFICES ASSUME <<d, n>> \in BlockAt PROVE <<d, n>> \in q.stored \cup q.spoilt
    OBVIOUS
  <2>1. \A x \in Buf : KeyOf(c, x) # <<d, n>>
    BY <1>17, AskFacts
  <2>2. <<d, n>> \in c.stored \cup c.spoilt
    BY <2>1 DEF Inv, Good, Sound
  <2> QED BY <1>2, <1>8, <1>9, <2>1, <2>2
<1>20. ASSUME NEW k \in BlockAt, k # <<d, n>> PROVE Good(q, k)
  <2>1. Good(c, k)
    BY DEF Inv
  <2>2. CASE k = k0
    <3>1. c.dev[b] # NO_DEV
      BY <2>2, CacheAssumption DEF KeyOf, BlockAt
    <3>2. k \in q.stored \cup q.spoilt
      BY <1>8, <1>9, <2>2, <3>1
    <3>3. \A x \in Buf : KeyOf(q, x) # k
      BY <1>1, <1>2, <1>10, <1>20, <2>2, <3>1 DEF OneEach
    <3> QED BY <3>2, <3>3 DEF Good, Sound, OnDisk
  <2>3. CASE k # k0
    <3>1. \A x \in Buf : KeyOf(q, x) = k <=> KeyOf(c, x) = k
      BY <1>2, <1>10, <1>20, <2>3
    <3>2. \A x \in Buf : KeyOf(c, x) = k => x # b
      BY <2>3
    <3>3. Agree(c, q, k)
      BY <1>8, <1>9, <1>11, <2>3, <3>1, <3>2 DEF Agree
    <3> QED BY <2>1, <3>3, AgreeFacts
  <2> QED BY <2>2, <2>3
<1>21. b \in Used(q) /\ b \notin q.fresh
  BY <1>9, <1>15
<1> QED BY <1>10, <1>12, <1>13, <1>14, <1>16, <1>18, <1>19, <1>20, <1>21 DEF TakenFor, Linked, q

\* Buffers may lose their device: nothing else links them.
LEMMA LinkedFacts ==
  ASSUME NEW c, Linked(c), NEW r, Typed(r), Kept(c, r),
         \A x \in Buf : r.dev[x] \in {c.dev[x], NO_DEV}
  PROVE  Linked(r)
<1>1. Hashed(r) /\ Chained(r) /\ Counting(r)
  BY DEF Linked, Hashed, Chained, Counting, Used, Kept
<1>2. OneEach(r)
  <2> SUFFICES ASSUME NEW x \in Buf, NEW y \in Buf, x # y, r.dev[x] # NO_DEV,
                      KeyOf(r, x) = KeyOf(r, y)
               PROVE  FALSE
    BY DEF OneEach
  <2>1. r.dev[x] = c.dev[x] /\ r.dev[y] = c.dev[y]
    BY DEF KeyOf
  <2> QED BY <2>1 DEF Linked, OneEach, KeyOf, Kept
<1> QED BY <1>1, <1>2 DEF Linked

\* A transfer of one buffer says nothing of other blocks.
LEMMA OthersAgree ==
  ASSUME NEW c, Typed(c), NEW b \in Buf, NEW r, Typed(r), Kept(c, r),
         r.dirt = [c.dirt EXCEPT ![b] = FALSE], r.dev[b] \in {c.dev[b], NO_DEV},
         \A x \in Buf : x # b => r.dev[x] = c.dev[x] /\ (x \in r.fresh <=> x \in c.fresh),
         NEW k \in BlockAt, k # KeyOf(c, b),
         k \in r.stored <=> k \in c.stored, k \in r.spoilt <=> k \in c.spoilt
  PROVE  Agree(c, r, k)
<1>1. NO_DEV \notin Dev /\ c.dirt \in [Buf -> BOOLEAN]
  BY CacheAssumption, Fields DEF Typed
<1>2. \A x \in Buf : x # b => r.dirt[x] = c.dirt[x]
  BY <1>1
<1>3. \A x \in Buf : KeyOf(r, x) = k <=> KeyOf(c, x) = k
  <2> SUFFICES ASSUME NEW x \in Buf PROVE KeyOf(r, x) = k <=> KeyOf(c, x) = k
    OBVIOUS
  <2>1. CASE x = b
    BY <1>1, <2>1 DEF KeyOf, Kept, BlockAt
  <2>2. CASE x # b
    BY <2>2 DEF KeyOf, Kept
  <2> QED BY <2>1, <2>2
<1> QED BY <1>2, <1>3 DEF Agree, Kept

\* A block is read into the buffer taken for it.
LEMMA ReadFacts ==
  ASSUME NEW c, NEW b \in Buf, NEW d, NEW n, TakenFor(c, b, d, n), Askable(d, n), d # NO_DEV,
         NEW r \in rw_block(c, b, "READING")
  PROVE  Inv(r)
<1>1. /\ Linked(c) /\ Typed(c) /\ KeyOf(c, b) = <<d, n>> /\ c.dev[b] # NO_DEV
      /\ <<d, n>> \in BlockAt /\ <<d, n>> \in c.stored \cup c.spoilt
  BY AskFacts DEF TakenFor, Linked, KeyOf
<1>2. /\ Typed(r) /\ Kept(c, r)
      /\ r.dirt = [c.dirt EXCEPT ![b] = FALSE]
      /\ \A x \in Buf : x # b => r.dev[x] = c.dev[x] /\ (x \in r.fresh <=> x \in c.fresh)
      /\ \A k : k # KeyOf(c, b) => /\ k \in r.stored <=> k \in c.stored
                                   /\ k \in r.spoilt <=> k \in c.spoilt
      /\ KeyOf(c, b) \in c.spoilt => KeyOf(c, b) \in r.spoilt
      /\ \/ KeyOf(c, b) \in r.spoilt /\ r.dev[b] \in {c.dev[b], NO_DEV}
         \/ /\ r.dev[b] = c.dev[b]
            /\ IF "READING" = "READING"
               THEN r.stored = c.stored /\ (b \in r.fresh <=> KeyOf(c, b) \in c.stored)
               ELSE r.fresh = c.fresh /\ (KeyOf(c, b) \in r.stored <=> b \in c.fresh)
  BY <1>1, TransferFacts
<1>3. r.dev[b] \in {c.dev[b], NO_DEV} /\ \A x \in Buf : r.dev[x] \in {c.dev[x], NO_DEV}
  BY <1>2
<1>4. Linked(r)
  BY <1>1, <1>2, <1>3, LinkedFacts
<1>5. ASSUME NEW k \in BlockAt PROVE Good(r, k)
  <2>1. CASE k # <<d, n>>
    <3>1. Agree(c, r, k)
      BY <1>1, <1>2, <1>3, <2>1, OthersAgree
    <3> QED BY <2>1, <3>1, AgreeFacts DEF TakenFor
  <2>2. CASE k = <<d, n>> /\ k \in r.spoilt
    BY <2>2 DEF Good, Sound, OnDisk
  <2>3. CASE k = <<d, n>> /\ k \notin r.spoilt
    <3>1. k \in r.stored /\ b \in r.fresh
      BY <1>1, <1>2, <2>3
    <3>2. \A x \in Buf : KeyOf(r, x) = k => x = b
      <4>1. KeyOf(r, b) = k /\ r.dev[b] # NO_DEV
        BY <1>1, <1>2, <2>3 DEF KeyOf, Kept
      <4> QED BY <1>4, <4>1 DEF Linked, OneEach
    <3> QED BY <3>1, <3>2 DEF Good, Sound, OnDisk
  <2> QED BY <2>1, <2>2, <2>3
<1> QED BY <1>4, <1>5 DEF Inv, Linked

\* A buffer is written: its block is on disk, or spoilt.
LEMMA WriteFacts ==
  ASSUME NEW c, Linked(c), NEW b \in Buf, c.dev[b] # NO_DEV,
         \A k \in BlockAt : Sound(c, k) /\ (k \in Safe /\ k # KeyOf(c, b) => OnDisk(c, k)),
         NEW r \in rw_block(c, b, "WRITING")
  PROVE  /\ Inv(r) /\ KeyOf(c, b) \in r.stored \cup r.spoilt
         /\ r.blk = c.blk /\ r.dev[b] \in {c.dev[b], NO_DEV}
<1>1. Typed(c) /\ KeyOf(c, b) \in BlockAt
  BY DEF Linked, Typed
<1>2. /\ Typed(r) /\ Kept(c, r)
      /\ r.dirt = [c.dirt EXCEPT ![b] = FALSE]
      /\ \A x \in Buf : x # b => r.dev[x] = c.dev[x] /\ (x \in r.fresh <=> x \in c.fresh)
      /\ \A k : k # KeyOf(c, b) => /\ k \in r.stored <=> k \in c.stored
                                   /\ k \in r.spoilt <=> k \in c.spoilt
      /\ KeyOf(c, b) \in c.spoilt => KeyOf(c, b) \in r.spoilt
      /\ \/ KeyOf(c, b) \in r.spoilt /\ r.dev[b] \in {c.dev[b], NO_DEV}
         \/ /\ r.dev[b] = c.dev[b]
            /\ IF "WRITING" = "READING"
               THEN r.stored = c.stored /\ (b \in r.fresh <=> KeyOf(c, b) \in c.stored)
               ELSE r.fresh = c.fresh /\ (KeyOf(c, b) \in r.stored <=> b \in c.fresh)
  BY <1>1, TransferFacts
<1>3. r.dev[b] \in {c.dev[b], NO_DEV} /\ \A x \in Buf : r.dev[x] \in {c.dev[x], NO_DEV}
  BY <1>2
<1>4. Linked(r)
  BY <1>2, <1>3, LinkedFacts
<1>5. \/ KeyOf(c, b) \in r.spoilt
      \/ KeyOf(c, b) \in r.stored /\ r.dev[b] = c.dev[b] /\ b \in r.fresh
  BY <1>1, <1>2 DEF Sound
<1>6. ASSUME NEW k \in BlockAt PROVE Good(r, k)
  <2>1. CASE k # KeyOf(c, b)
    <3>1. Agree(c, r, k)
      BY <1>1, <1>2, <1>3, <2>1, OthersAgree
    <3>2. Good(c, k)
      BY <2>1 DEF Good
    <3> QED BY <3>1, <3>2, AgreeFacts
  <2>2. CASE k = KeyOf(c, b) /\ k \in r.spoilt
    BY <2>2 DEF Good, Sound, OnDisk
  <2>3. CASE k = KeyOf(c, b) /\ k \notin r.spoilt
    <3>1. k \in r.stored /\ b \in r.fresh /\ r.dev[b] = c.dev[b]
      BY <1>5, <2>3
    <3>2. \A x \in Buf : KeyOf(r, x) = k => x = b
      <4>1. KeyOf(r, b) = k /\ r.dev[b] # NO_DEV
        BY <1>2, <2>3, <3>1 DEF KeyOf, Kept
      <4> QED BY <1>4, <4>1 DEF Linked, OneEach
    <3> QED BY <3>1, <3>2 DEF Good, Sound, OnDisk
  <2> QED BY <2>1, <2>2, <2>3
<1>7. KeyOf(c, b) \in r.stored \cup r.spoilt
  BY <1>5
<1> QED BY <1>2, <1>3, <1>4, <1>6, <1>7 DEF Inv, Linked, Kept

\* get_block() that reads keeps the invariant.
LEMMA GetKeeps ==
  ASSUME NEW c, Inv(c), Used(c) # Buf, NEW d, NEW n, Askable(d, n),
         NEW x \in get_block(c, d, n, TRUE)
  PROVE  /\ Inv(x.c) /\ x.b \in Buf
         /\ d = NO_DEV => x.b \in Used(x.c) /\ KeyOf(x.c, x.b) = <<d, n>>
<1> DEFINE b == Victim(c)
<1>1. Typed(c) /\ Hashed(c) /\ Chained(c)
  BY DEF Inv
<1>2. CASE Found(c, d, n) # {}
  <2>1. PICK e \in Found(c, d, n) :
          x = [c |-> [c EXCEPT !.count[e] = @ + 1,
                               !.in_use = IF c.count[e] = 0 THEN @ + 1 ELSE @],
               b |-> e]
    BY <1>2 DEF get_block
  <2>2. e \in Buf /\ d # NO_DEV
    BY <1>1, FoundFacts
  <2>3. Inv([c EXCEPT !.count[e] = @ + 1, !.in_use = IF c.count[e] = 0 THEN @ + 1 ELSE @])
    BY HitFacts
  <2> QED BY <2>1, <2>2, <2>3
<1>3. CASE Found(c, d, n) = {}
  <2>0. PICK e \in Evicted(Detached(c, b), b) :
          \E r \in IF d # NO_DEV THEN rw_block(Rekeyed(e, b, d, n), b, "READING")
                                 ELSE {Rekeyed(e, b, d, n)} :
            x = [c |-> r, b |-> b]
    BY <1>3 DEF get_block, Detached
  <2>1. PICK r \in IF d # NO_DEV THEN rw_block(Rekeyed(e, b, d, n), b, "READING")
                                 ELSE {Rekeyed(e, b, d, n)} :
          x = [c |-> r, b |-> b]
    BY <2>0
  <2> HIDE DEF b
  <2>2. b \in Buf
    BY <1>1, VictimFacts DEF b
  <2>3. TakenFor(Rekeyed(e, b, d, n), b, d, n)
    BY <1>3, MissFacts DEF b
  <2>4. CASE d # NO_DEV
    <3>1. r \in rw_block(Rekeyed(e, b, d, n), b, "READING")
      BY <2>4
    <3>2. Inv(r)
      BY <2>2, <2>3, <2>4, <3>1, ReadFacts
    <3> QED BY <2>1, <2>2, <2>4, <3>2
  <2>5. CASE d = NO_DEV
    <3>1. r = Rekeyed(e, b, d, n)
      BY <2>5
    <3>2. <<d, n>> \notin BlockAt
      BY <2>5, AskFacts
    <3>3. Inv(r) /\ b \in Used(r) /\ KeyOf(r, b) = <<d, n>>
      BY <2>3, <3>1, <3>2 DEF TakenFor, Inv, Linked
    <3> QED BY <2>1, <2>2, <3>3
  <2> QED BY <2>4, <2>5
<1> QED BY <1>2, <1>3

\* get_block() that does not read leaves the one block to be filled.
LEMMA GetUnread ==
  ASSUME NEW c, Inv(c), Used(c) # Buf, NEW d, NEW n, Askable(d, n),
         NEW x \in get_block(c, d, n, FALSE)
  PROVE  /\ Linked(x.c) /\ x.b \in Used(x.c) /\ KeyOf(x.c, x.b) = <<d, n>>
         /\ \A k \in BlockAt : k # <<d, n>> => Good(x.c, k)
<1> DEFINE b == Victim(c)
<1>1. CASE Found(c, d, n) # {}
  <2>1. PICK e \in Found(c, d, n) :
          x = [c |-> [c EXCEPT !.count[e] = @ + 1,
                               !.in_use = IF c.count[e] = 0 THEN @ + 1 ELSE @],
               b |-> e]
    BY <1>1 DEF get_block
  <2> DEFINE r == [c EXCEPT !.count[e] = @ + 1,
                            !.in_use = IF c.count[e] = 0 THEN @ + 1 ELSE @]
  <2>2. Inv(r) /\ KeyOf(r, e) = <<d, n>> /\ e \in Used(r)
    BY HitFacts
  <2>3. x.c = r /\ x.b = e
    BY <2>1
  <2> HIDE DEF r
  <2> QED BY <2>2, <2>3 DEF Inv, Linked
<1>2. CASE Found(c, d, n) = {}
  <2>1. PICK e \in Evicted(Detached(c, b), b) : x = [c |-> Rekeyed(e, b, d, n), b |-> b]
    BY <1>2 DEF get_block, Detached
  <2> HIDE DEF b
  <2>2. TakenFor(Rekeyed(e, b, d, n), b, d, n)
    BY <1>2, MissFacts DEF b
  <2> QED BY <2>1, <2>2 DEF TakenFor
<1> QED BY <1>1, <1>2

\* A buffer in use is written into: wholly, or where it holds the rest of the
\* block, or where the block is known to be spoilt.
LEMMA FilledFacts ==
  ASSUME NEW c, Linked(c), NEW b \in Used(c), NEW whole \in BOOLEAN,
         \A k \in BlockAt : k # KeyOf(c, b) => Good(c, k),
         KeyOf(c, b) \in BlockAt => whole \/ b \in c.fresh \/ KeyOf(c, b) \in c.spoilt
  PROVE  LET r == Filled(c, b, whole)
         IN  Inv(r) /\ b \in Used(r) /\ \A x : KeyOf(r, x) = KeyOf(c, x)
<1> DEFINE k0 == KeyOf(c, b)
           st == c.stored \ {k0}
           sp == IF whole THEN c.spoilt \ {k0} ELSE c.spoilt
           fr == {x \in c.fresh : KeyOf(c, x) # k0}
                   \cup {x \in {b} : c.dev[b] # NO_DEV /\ (whole \/ b \in c.fresh)}
           dt == [c.dirt EXCEPT ![b] = TRUE]
           r  == Filled(c, b, whole)
<1>1. c \in Cache /\ b \in Buf /\ Typed(c)
  BY DEF Linked, Typed, Used
<1>2. /\ st \in SUBSET BlockAt /\ sp \in SUBSET BlockAt /\ fr \in SUBSET Buf
      /\ dt \in [Buf -> BOOLEAN]
  BY <1>1, Fields
<1>3. r = [c EXCEPT !.dirt = dt, !.stored = st, !.spoilt = sp, !.fresh = fr]
  BY DEF Filled
<1>4. \A k : /\ k \in st <=> k \in c.stored /\ k # k0
             /\ k \in sp <=> k \in c.spoilt /\ ~(whole /\ k = k0)
  OBVIOUS
<1>5. \A x \in Buf : /\ x # b => (x \in fr <=> x \in c.fresh /\ KeyOf(c, x) # k0)
                     /\ k0 \in BlockAt /\ (whole \/ b \in c.fresh) => b \in fr
                     /\ dt[x] = (x = b \/ c.dirt[x])
  <2>1. k0 \in BlockAt => c.dev[b] # NO_DEV
    BY CacheAssumption DEF KeyOf, BlockAt
  <2> QED BY <1>1, <2>1, Fields
<1> HIDE DEF st, sp, fr, dt, r
<1>6. /\ r \in Cache /\ Kept(c, r) /\ r.dev = c.dev
      /\ r.dirt = dt /\ r.stored = st /\ r.spoilt = sp /\ r.fresh = fr
  BY <1>1, <1>2, <1>3 DEF Cache, Kept
<1>7. \A x : KeyOf(r, x) = KeyOf(c, x)
  BY <1>6 DEF KeyOf, Kept
<1>8. Used(r) = Used(c)
  BY <1>6 DEF Used, Kept
<1>9. Typed(r)
  BY <1>1, <1>6, <1>7 DEF Typed
<1>10. Linked(r)
  <2>1. \A x \in Buf : r.dev[x] \in {c.dev[x], NO_DEV}
    BY <1>6
  <2> QED BY <1>6, <1>9, <2>1, LinkedFacts
<1>11. ASSUME NEW k \in BlockAt PROVE Good(r, k)
  <2>1. CASE k # k0
    <3>1. \A x \in Buf : KeyOf(c, x) = k => x # b
      BY <2>1
    <3>2. Agree(c, r, k)
      BY <1>1, <1>4, <1>5, <1>6, <1>7, <2>1, <3>1, Fields DEF Agree, Kept
    <3> QED BY <2>1, <3>2, AgreeFacts
  <2>2. CASE k = k0
    <3>1. \A x \in Buf : KeyOf(c, x) = k0 => x = b
      <4>1. c.dev[b] # NO_DEV
        BY <2>2, CacheAssumption DEF KeyOf, BlockAt
      <4> QED BY <1>1, <4>1 DEF Linked, OneEach
    <3>2. Sound(r, k)
      BY <1>1, <1>4, <1>5, <1>6, <1>7, <2>2, <3>1 DEF Sound
    <3>3. OnDisk(r, k)
      BY <1>1, <1>7, <1>8, <2>2 DEF OnDisk
    <3> QED BY <3>2, <3>3 DEF Good
  <2> QED BY <2>1, <2>2
<1> QED BY <1>7, <1>8, <1>10, <1>11 DEF Inv, Linked, r
-----------------------------------------------------------------------------
(* put_block(), do_sync() and invalidate() *)

\* Buffers lose their device when what they hold is on disk or spoilt.
LEMMA LoseFacts ==
  ASSUME NEW c, Inv(c), NEW g \in [Buf -> Dev \cup {NO_DEV}],
         \A x \in Buf : \/ g[x] = c.dev[x]
                        \/ /\ g[x] = NO_DEV
                           /\ c.dev[x] # NO_DEV => KeyOf(c, x) \in c.stored \cup c.spoilt
  PROVE  Inv([c EXCEPT !.dev = g])
<1> DEFINE r == [c EXCEPT !.dev = g]
<1>1. c \in Cache /\ Typed(c) /\ Linked(c)
  BY DEF Inv, Linked, Typed
<1>2. /\ r \in Cache /\ Kept(c, r) /\ r.dev = g /\ r.dirt = c.dirt
      /\ r.fresh = c.fresh /\ r.stored = c.stored /\ r.spoilt = c.spoilt
  BY <1>1 DEF Cache, Kept
<1> HIDE DEF r
<1>3. Typed(r)
  BY <1>1, <1>2 DEF Typed, KeyOf, Kept
<1>4. Linked(r)
  BY <1>1, <1>2, <1>3, LinkedFacts
<1>5. ASSUME NEW k \in BlockAt PROVE Good(r, k)
  <2>1. Good(c, k)
    BY DEF Inv
  <2>2. k[1] # NO_DEV
    BY CacheAssumption DEF BlockAt
  <2>3. \A x \in Buf : KeyOf(r, x) = k => KeyOf(c, x) = k /\ c.dev[x] # NO_DEV
    <3> SUFFICES ASSUME NEW x \in Buf, KeyOf(r, x) = k
                 PROVE  KeyOf(c, x) = k /\ c.dev[x] # NO_DEV
      OBVIOUS
    <3>1. g[x] # NO_DEV /\ k = <<g[x], c.blk[x]>>
      BY <1>2, <2>2 DEF KeyOf, Kept
    <3>2. c.dev[x] = g[x]
      BY <3>1
    <3> QED BY <3>1, <3>2 DEF KeyOf
  <2>4. CASE \E x \in Buf : KeyOf(c, x) = k /\ KeyOf(r, x) # k
    <3>1. PICK x \in Buf : KeyOf(c, x) = k /\ KeyOf(r, x) # k
      BY <2>4
    <3>2. k \in c.stored \cup c.spoilt
      BY <1>2, <2>2, <3>1 DEF KeyOf, Kept
    <3>3. \A y \in Buf : KeyOf(r, y) # k
      BY <1>1, <2>3, <3>1 DEF Linked, OneEach
    <3> QED BY <1>2, <3>2, <3>3 DEF Good, Sound, OnDisk
  <2>5. CASE \A x \in Buf : KeyOf(c, x) = k => KeyOf(r, x) = k
    <3>1. Agree(c, r, k)
      BY <1>2, <2>3, <2>5 DEF Agree, Kept
    <3> QED BY <2>1, <3>1, AgreeFacts
  <2> QED BY <2>4, <2>5
<1> QED BY <1>4, <1>5 DEF Inv, Linked, r

\* The last user of buffer b puts it back: it is left on the LRU chain.
Idle(c, b, one_shot) ==
  [c EXCEPT !.count[b] = 0, !.in_use = @ - 1,
            !.lru = IF one_shot THEN <<b>> \o RemoveFirst(c.lru, b)
                    ELSE Append(RemoveFirst(c.lru, b), b)]

LEMMA IdleFacts ==
  ASSUME NEW c, Inv(c), NEW b \in Used(c), c.count[b] = 1, NEW one_shot
  PROVE  LET r == Idle(c, b, one_shot)
         IN  /\ Linked(r) /\ \A k \in BlockAt : Sound(r, k) /\ (k \in Safe /\ k # KeyOf(c, b) => OnDisk(r, k))
             /\ KeyOf(r, b) = KeyOf(c, b) /\ r.dev = c.dev /\ r.dirt = c.dirt
<1> DEFINE rest == RemoveFirst(c.lru, b)
           lru  == IF one_shot THEN <<b>> \o RemoveFirst(c.lru, b)
                   ELSE Append(RemoveFirst(c.lru, b), b)
           ct   == [c.count EXCEPT ![b] = 0]
           u    == c.in_use - 1
           r    == Idle(c, b, one_shot)
<1>1. c \in Cache /\ b \in Buf /\ Typed(c) /\ Hashed(c) /\ Chained(c) /\ Counting(c) /\ OneEach(c)
  BY DEF Inv, Typed, Used
<1>2. rest \in Seq(Buf) /\ ToSet(rest) = Buf \ {b} /\ IsInjective(rest)
  BY <1>1, Fields, RemoveFirstFacts DEF Chained
<1>3. lru \in Seq(Buf) /\ ToSet(lru) = Buf /\ IsInjective(lru)
  <2> HIDE DEF rest
  <2>1. b \notin ToSet(rest) /\ (Buf \ {b}) \cup {b} = Buf /\ {b} \cup (Buf \ {b}) = Buf
    BY <1>1, <1>2
  <2>2. CASE one_shot
    <3>1. lru = <<b>> \o rest
      BY <2>2 DEF rest
    <3> HIDE DEF lru
    <3> QED BY <1>1, <1>2, <2>1, <3>1, PushFacts
  <2>3. CASE ~one_shot
    <3>1. lru = Append(rest, b)
      BY <2>3 DEF rest
    <3> HIDE DEF lru
    <3>2. /\ Append(rest, b) \in Seq(Buf)
          /\ ToSet(Append(rest, b)) = ToSet(rest) \cup {b}
          /\ IsInjective(rest) /\ b \notin ToSet(rest) => IsInjective(Append(rest, b))
      BY <1>1, <1>2, AppendFacts
    <3> QED BY <1>2, <2>1, <3>1, <3>2
  <2> QED BY <2>2, <2>3
<1>4. ct \in [Buf -> Nat] /\ \A x \in Buf : ct[x] = IF x = b THEN 0 ELSE c.count[x]
  BY <1>1, Fields
<1>5. Cardinality(Used(c) \ {b}) = Cardinality(Used(c)) - 1 /\ Cardinality(Used(c) \ {b}) \in Nat
  BY BufFinite, FS_RemoveElement, FS_CardinalityType
<1>6. u \in Nat /\ u = Cardinality(Used(c) \ {b})
  BY <1>1, <1>5 DEF Counting
<1>7. r = [c EXCEPT !.count = ct, !.in_use = u, !.lru = lru]
  BY DEF Idle
<1> HIDE DEF ct, u, lru, r
<1>8. /\ r \in Cache /\ r.count = ct /\ r.in_use = u /\ r.lru = lru /\ r.hash = c.hash
      /\ r.dev = c.dev /\ r.blk = c.blk /\ r.dirt = c.dirt
      /\ r.fresh = c.fresh /\ r.stored = c.stored /\ r.spoilt = c.spoilt
  BY <1>1, <1>3, <1>4, <1>6, <1>7 DEF Cache
<1>9. \A x : KeyOf(r, x) = KeyOf(c, x)
  BY <1>8 DEF KeyOf
<1>10. Used(r) = Used(c) \ {b}
  BY <1>4, <1>8 DEF Used
<1>11. Linked(r)
  BY <1>1, <1>3, <1>6, <1>8, <1>9, <1>10 DEF Linked, Typed, Hashed, Chained, Counting, OneEach
<1>12. ASSUME NEW k \in BlockAt
       PROVE  Sound(r, k) /\ (k \in Safe /\ k # KeyOf(c, b) => OnDisk(r, k))
  <2>1. Good(c, k)
    BY DEF Inv
  <2>2. Sound(r, k)
    BY <1>8, <1>9, <2>1 DEF Good, Sound
  <2>3. ASSUME k # KeyOf(c, b) PROVE Good(r, k)
    <3>1. Agree(c, r, k)
      BY <1>4, <1>8, <1>9, <2>3 DEF Agree
    <3> QED BY <2>1, <3>1, AgreeFacts
  <2> QED BY <2>2, <2>3 DEF Good
<1> QED BY <1>8, <1>9, <1>11, <1>12 DEF r

\* One use less of a buffer that has several.
LEMMA LessUsedFacts ==
  ASSUME NEW c, Inv(c), NEW b \in Used(c), c.count[b] > 1
  PROVE  Inv([c EXCEPT !.count[b] = @ - 1])
<1> DEFINE ct == [c.count EXCEPT ![b] = @ - 1]
           r  == [c EXCEPT !.count[b] = @ - 1]
<1>1. c \in Cache /\ b \in Buf /\ Typed(c) /\ c.count[b] \in Nat
  BY Fields DEF Inv, Typed, Used
<1>2. ct \in [Buf -> Nat] /\ \A x \in Buf : ct[x] = IF x = b THEN c.count[b] - 1 ELSE c.count[x]
  BY <1>1, Fields
<1>3. r = [c EXCEPT !.count = ct]
  OBVIOUS
<1> HIDE DEF ct, r
<1>4. /\ r \in Cache /\ r.count = ct /\ r.in_use = c.in_use /\ r.lru = c.lru /\ r.hash = c.hash
      /\ r.dev = c.dev /\ r.blk = c.blk /\ r.dirt = c.dirt
      /\ r.fresh = c.fresh /\ r.stored = c.stored /\ r.spoilt = c.spoilt
  BY <1>1, <1>2, <1>3 DEF Cache
<1>5. Used(r) = Used(c) /\ \A x : KeyOf(r, x) = KeyOf(c, x)
  BY <1>1, <1>2, <1>4 DEF Used, KeyOf
<1>6. Typed(r) /\ Hashed(r) /\ Chained(r) /\ Counting(r) /\ OneEach(r)
  BY <1>4, <1>5 DEF Inv, Typed, Hashed, Chained, Counting, OneEach
<1>7. ASSUME NEW k \in BlockAt PROVE Good(r, k)
  BY <1>4, <1>5 DEF Inv, Good, Sound, OnDisk
<1> QED BY <1>6, <1>7 DEF Inv, r

\* put_block(): a block that must not be lost is put back with WRITE_IMMED.
LEMMA PutFacts ==
  ASSUME NEW c, Inv(c), NEW b \in Used(c),
         NEW immed \in BOOLEAN, NEW one_shot, NEW super \in BOOLEAN,
         KeyOf(c, b) \in Safe \/ super => immed,
         NEW r \in put_block(c, b, immed, one_shot, super)
  PROVE  Inv(r)
<1>1. b \in Buf /\ Typed(c) /\ c.count[b] \in Nat \ {0} /\ NO_DEV \notin Dev
  BY Fields, CacheAssumption DEF Inv, Typed, Used
<1>2. CASE c.count[b] > 1
  <2>1. r = [c EXCEPT !.count[b] = @ - 1]
    BY <1>2 DEF put_block
  <2> QED BY <1>2, <2>1, LessUsedFacts
<1>3. CASE ~(c.count[b] > 1)
  <2> DEFINE i == Idle(c, b, one_shot)
  <2>1. c.count[b] = 1
    BY <1>1, <1>3
  <2>2. PICK e \in IF immed /\ c.dirt[b] /\ c.dev[b] # NO_DEV
                   THEN rw_block(i, b, "WRITING") ELSE {i} :
          r = IF super THEN [e EXCEPT !.dev[b] = NO_DEV] ELSE e
    BY <1>3 DEF put_block, Idle
  <2>3. /\ Linked(i)
        /\ \A k \in BlockAt : Sound(i, k) /\ (k \in Safe /\ k # KeyOf(c, b) => OnDisk(i, k))
        /\ KeyOf(i, b) = KeyOf(c, b) /\ i.dev = c.dev /\ i.dirt = c.dirt
    BY <2>1, IdleFacts
  <2> HIDE DEF i
  <2>4. Inv(e) /\ (super /\ e.dev[b] # NO_DEV => KeyOf(e, b) \in e.stored \cup e.spoilt)
    <3>1. CASE immed /\ c.dirt[b] /\ c.dev[b] # NO_DEV
      <4>1. e \in rw_block(i, b, "WRITING")
        BY <2>2, <3>1
      <4>2. /\ Inv(e) /\ KeyOf(i, b) \in e.stored \cup e.spoilt
            /\ e.blk = i.blk /\ e.dev[b] \in {i.dev[b], NO_DEV}
        BY <1>1, <2>3, <3>1, <4>1, WriteFacts
      <4> QED BY <4>2 DEF KeyOf
    <3>2. CASE ~(immed /\ c.dirt[b] /\ c.dev[b] # NO_DEV)
      <4>1. e = i
        BY <2>2, <3>2
      <4>2. KeyOf(i, b) \in BlockAt /\ immed => KeyOf(i, b) \in i.stored \cup i.spoilt
        <5>1. KeyOf(i, b) \in BlockAt => c.dev[b] # NO_DEV
          BY <1>1, <2>3 DEF KeyOf, BlockAt
        <5> QED BY <1>1, <2>3, <3>2, <5>1 DEF Sound
      <4>3. ASSUME NEW k \in BlockAt PROVE Good(i, k)
        <5>1. CASE k # KeyOf(c, b)
          BY <2>3, <5>1 DEF Good
        <5>2. CASE k = KeyOf(c, b)
          BY <2>3, <4>2, <5>2 DEF Good, OnDisk
        <5> QED BY <5>1, <5>2
      <4>4. i.dev[b] # NO_DEV => KeyOf(i, b) \in BlockAt
        BY <1>1, <2>3 DEF Linked, Typed
      <4> QED BY <2>3, <4>1, <4>2, <4>3, <4>4 DEF Inv, Linked
    <3> QED BY <3>1, <3>2
  <2>5. CASE super
    <3> DEFINE g == [e.dev EXCEPT ![b] = NO_DEV]
    <3>1. e.dev \in [Buf -> Dev \cup {NO_DEV}]
      BY <2>4, Fields DEF Inv, Typed
    <3>2. /\ g \in [Buf -> Dev \cup {NO_DEV}]
          /\ \A x \in Buf : g[x] = IF x = b THEN NO_DEV ELSE e.dev[x]
      BY <3>1
    <3>3. r = [e EXCEPT !.dev = g]
      BY <2>2, <2>5
    <3> HIDE DEF g
    <3> QED BY <2>4, <2>5, <3>2, <3>3, LoseFacts
  <2>6. CASE ~super
    BY <2>2, <2>4, <2>6
  <2> QED BY <2>5, <2>6
<1> QED BY <1>2, <1>3

\* do_sync(): every block is on disk then, or spoilt.
LEMMA FlushFacts ==
  ASSUME NEW c, Inv(c), NEW r \in Flushed(c)
  PROVE  Inv(r) /\ BlockAt \subseteq r.stored \cup r.spoilt
<1> DEFINE B == {b \in Buf : c.dirt[b] /\ c.dev[b] # NO_DEV}
<1>1. PICK o \in [B -> {"done"} \cup Failure] : r = BufsWritten(c, B, o)
  BY DEF Flushed, WriteAll
<1> DEFINE done == {b \in B : o[b] = "done"}
           lost == {b \in B : o[b] = "EOF"}
           Keys(S) == {KeyOf(c, b) : b \in S}
           dt == [b \in Buf |-> c.dirt[b] /\ b \notin B]
           dv == [b \in Buf |-> IF b \in lost THEN NO_DEV ELSE c.dev[b]]
           st == (c.stored \ Keys(done)) \cup Keys(done \cap c.fresh)
           sp == c.spoilt \cup Keys(B \ done)
<1>2. c \in Cache /\ Typed(c) /\ Linked(c)
  BY DEF Inv, Linked, Typed
<1>3. r = [c EXCEPT !.dirt = dt, !.dev = dv, !.stored = st, !.spoilt = sp]
  <2>1. dv = [b \in Buf |-> IF b \in B /\ o[b] = "EOF" THEN NO_DEV ELSE c.dev[b]]
    OBVIOUS
  <2> QED BY <1>1, <2>1 DEF BufsWritten
<1>4. /\ dt \in [Buf -> BOOLEAN] /\ dv \in [Buf -> Dev \cup {NO_DEV}]
      /\ st \in SUBSET BlockAt /\ sp \in SUBSET BlockAt
  <2>1. dt \in [Buf -> BOOLEAN]
    BY <1>2, Fields
  <2>2. dv \in [Buf -> Dev \cup {NO_DEV}]
    BY <1>2, Fields
  <2>3. \A b \in B : KeyOf(c, b) \in BlockAt
    BY <1>2 DEF Typed
  <2> QED BY <1>2, <2>1, <2>2, <2>3, Fields
<1>5. \A b \in Buf : dv[b] \in {c.dev[b], NO_DEV}
  OBVIOUS
<1>6. \A b \in B : b \in Buf /\ c.dirt[b] /\ (o[b] = "done" \/ KeyOf(c, b) \in sp)
  OBVIOUS
<1>7. ASSUME NEW k \in BlockAt PROVE k \in st \cup sp
  <2>1. Sound(c, k)
    BY DEF Inv, Good
  <2>2. CASE k \in c.spoilt
    BY <2>2
  <2>3. CASE k \notin c.spoilt /\ \E b \in B : KeyOf(c, b) = k
    <3>1. PICK b \in B : KeyOf(c, b) = k
      BY <2>3
    <3>2. b \in c.fresh
      BY <2>1, <2>3, <3>1 DEF Sound
    <3> QED BY <3>1, <3>2
  <2>4. CASE k \notin c.spoilt /\ \A b \in B : KeyOf(c, b) # k
    <3>1. \A b \in Buf : KeyOf(c, b) = k => ~c.dirt[b]
      BY <2>4, CacheAssumption DEF KeyOf, BlockAt
    <3>2. k \in c.stored
      BY <2>1, <2>4, <3>1 DEF Sound
    <3> QED BY <2>4, <3>2
  <2> QED BY <2>2, <2>3, <2>4
<1>8. c.spoilt \subseteq sp
  OBVIOUS
<1> HIDE DEF dt, dv, st, sp
<1>9. /\ r \in Cache /\ Kept(c, r) /\ r.dev = dv /\ r.fresh = c.fresh
      /\ r.stored = st /\ r.spoilt = sp
  BY <1>2, <1>3, <1>4 DEF Cache, Kept
<1>10. Typed(r)
  <2> SUFFICES ASSUME NEW b \in Buf, r.dev[b] # NO_DEV PROVE KeyOf(r, b) \in BlockAt
    BY <1>9 DEF Typed
  <2>1. r.dev[b] = c.dev[b]
    BY <1>5, <1>9
  <2> QED BY <1>2, <1>9, <2>1 DEF Typed, KeyOf, Kept
<1>11. Linked(r)
  BY <1>2, <1>5, <1>9, <1>10, LinkedFacts
<1>12. ASSUME NEW k \in BlockAt PROVE Good(r, k)
  <2>1. Sound(c, k)
    BY DEF Inv, Good
  <2>2. k[1] # NO_DEV
    BY CacheAssumption DEF BlockAt
  <2>3. \A b \in Buf : KeyOf(r, b) = k => KeyOf(c, b) = k
    BY <1>5, <1>9, <2>2 DEF KeyOf, Kept
  <2> QED BY <1>7, <1>8, <1>9, <2>1, <2>3 DEF Good, Sound, OnDisk
<1> QED BY <1>7, <1>9, <1>11, <1>12 DEF Inv, Linked
-----------------------------------------------------------------------------
(* The specification *)

\* Identity sequences, as the chains are at the start.
LEMMA IdentityFacts ==
  LET s == [i \in Buf |-> i] IN s \in Seq(Buf) /\ IsInjective(s) /\ ToSet(s) = Buf
<1>1. NR_BUFS \in Nat
  BY CacheAssumption
<1>2. [i \in 1 .. NR_BUFS |-> i] \in Seq(1 .. NR_BUFS)
  BY <1>1
<1> QED BY <1>2 DEF Buf, IsInjective, ToSet

LEMMA InitHolds ==
  ASSUME CacheInit
  PROVE  Inv(cache)
<1> DEFINE id == [i \in Buf |-> i]
           hs == [h \in 0 .. NR_BUF_HASH - 1 |-> IF h = Chain(NO_BLOCK) THEN id ELSE <<>>]
           dv == [b \in Buf |-> NO_DEV]
           bk == [b \in Buf |-> NO_BLOCK]
           ct == [b \in Buf |-> 0]
           dt == [b \in Buf |-> FALSE]
<1>1. cache = [dev |-> dv, blk |-> bk, count |-> ct, dirt |-> dt, lru |-> id, hash |-> hs,
               in_use |-> 0, fresh |-> {}, stored |-> BlockAt, spoilt |-> {}]
  BY DEF CacheInit
<1>2. id \in Seq(Buf) /\ IsInjective(id) /\ ToSet(id) = Buf
  BY IdentityFacts
<1>3. /\ dv \in [Buf -> Dev \cup {NO_DEV}] /\ bk \in [Buf -> Block \cup {NO_BLOCK}]
      /\ ct \in [Buf -> Nat] /\ dt \in [Buf -> BOOLEAN]
      /\ \A b \in Buf : dv[b] = NO_DEV /\ bk[b] = NO_BLOCK /\ ct[b] = 0
  OBVIOUS
<1>4. <<>> \in Seq(Buf) /\ IsInjective(<<>>) /\ ToSet(<<>>) = {}
  BY DEF IsInjective, ToSet
<1> HIDE DEF id
<1>5. /\ hs \in [0 .. NR_BUF_HASH - 1 -> Seq(Buf)]
      /\ \A h \in 0 .. NR_BUF_HASH - 1 : hs[h] = IF h = Chain(NO_BLOCK) THEN id ELSE <<>>
  BY <1>2, <1>4
<1> HIDE DEF hs, dv, bk, ct, dt
<1>6. /\ cache \in Cache
      /\ cache.dev = dv /\ cache.blk = bk /\ cache.count = ct /\ cache.lru = id /\ cache.hash = hs
      /\ cache.in_use = 0 /\ cache.stored = BlockAt
  BY <1>1, <1>2, <1>3, <1>5 DEF Cache
<1>7. Typed(cache) /\ OneEach(cache)
  BY <1>3, <1>6 DEF Typed, OneEach
<1>8. Hashed(cache)
  BY <1>2, <1>3, <1>4, <1>5, <1>6 DEF Hashed
<1>9. Chained(cache)
  BY <1>2, <1>6 DEF Chained
<1>10. Counting(cache)
  <2>1. Used(cache) = {}
    BY <1>3, <1>6 DEF Used
  <2> QED BY <1>6, <2>1, FS_EmptySet DEF Counting
<1>11. ASSUME NEW k \in BlockAt PROVE Good(cache, k)
  <2>1. \A b \in Buf : KeyOf(cache, b) # k
    BY <1>3, <1>6, CacheAssumption DEF KeyOf, BlockAt
  <2> QED BY <1>6, <2>1 DEF Good, Sound, OnDisk
<1> QED BY <1>7, <1>8, <1>9, <1>10, <1>11 DEF Inv

\* A block got from the cache for its own use, or zeros.
LEMMA GetStep ==
  ASSUME Inv(cache), Room, NEW d, NEW n, Askable(d, n), NEW r \in get_block(cache, d, n, TRUE)
  PROVE  Inv(r.c)
BY GetKeeps DEF Room

\* A block overwritten as a whole.
LEMMA OverwriteStep ==
  ASSUME Inv(cache), Room, NEW d, NEW n, Askable(d, n), NEW r \in get_block(cache, d, n, FALSE)
  PROVE  Inv(Filled(r.c, r.b, TRUE))
<1>1. /\ Linked(r.c) /\ r.b \in Used(r.c) /\ KeyOf(r.c, r.b) = <<d, n>>
      /\ \A k \in BlockAt : k # <<d, n>> => Good(r.c, k)
  BY GetUnread DEF Room
<1> QED BY <1>1, FilledFacts

LEMMA ZerosStep ==
  ASSUME Inv(cache), Room, NEW r \in get_block(cache, NO_DEV, NO_BLOCK, TRUE)
  PROVE  Inv(Filled(r.c, r.b, TRUE))
<1>1. Inv(r.c) /\ r.b \in Used(r.c)
  BY GetKeeps DEF Room, Askable
<1> QED BY <1>1, FilledFacts DEF Inv, Linked

LEMMA ModifyStep ==
  ASSUME Inv(cache), NEW b \in Used(cache)
  PROVE  Inv(Filled(cache, b, FALSE))
<1>1. Linked(cache) /\ \A k \in BlockAt : Good(cache, k)
  BY DEF Inv, Linked
<1>2. KeyOf(cache, b) \in BlockAt => FALSE \/ b \in cache.fresh \/ KeyOf(cache, b) \in cache.spoilt
  BY <1>1 DEF Good, Sound, Used
<1> QED BY <1>1, <1>2, FilledFacts

\* A block of which something may be lost.
LEMMA SpoilFacts ==
  ASSUME NEW c, Linked(c), NEW k0 \in BlockAt,
         \A k \in BlockAt : k # k0 => Good(c, k)
  PROVE  LET r == Spoil(c, k0)
         IN  /\ Linked(r) /\ k0 \in r.spoilt /\ r.fresh = c.fresh /\ Used(r) = Used(c)
             /\ \A x : KeyOf(r, x) = KeyOf(c, x)
             /\ \A k \in BlockAt : k # k0 => Good(r, k)
<1> DEFINE sp == c.spoilt \cup {k0}
           r  == Spoil(c, k0)
<1>1. c \in Cache /\ Typed(c)
  BY DEF Linked, Typed
<1>2. sp \in SUBSET BlockAt /\ k0 \in sp /\ \A k : k # k0 => (k \in sp <=> k \in c.spoilt)
  BY <1>1, Fields
<1>3. r = [c EXCEPT !.spoilt = sp]
  BY DEF Spoil
<1> HIDE DEF sp, r
<1>4. /\ r \in Cache /\ Kept(c, r) /\ r.dev = c.dev /\ r.dirt = c.dirt
      /\ r.fresh = c.fresh /\ r.stored = c.stored /\ r.spoilt = sp
  BY <1>1, <1>2, <1>3 DEF Cache, Kept
<1>5. Used(r) = Used(c) /\ \A x : KeyOf(r, x) = KeyOf(c, x)
  BY <1>4 DEF Used, KeyOf, Kept
<1>6. Typed(r)
  BY <1>1, <1>4, <1>5 DEF Typed
<1>7. Linked(r)
  BY <1>4, <1>6, LinkedFacts
<1>8. ASSUME NEW k \in BlockAt, k # k0 PROVE Good(r, k)
  <2>1. Agree(c, r, k)
    BY <1>2, <1>4, <1>5, <1>8 DEF Agree, Kept
  <2> QED BY <1>8, <2>1, AgreeFacts
<1> QED BY <1>2, <1>4, <1>5, <1>7, <1>8 DEF r

\* Part of a block written through the special file of a device that is not Safe.
LEMMA SpecialStep ==
  ASSUME Inv(cache), Room, NEW d \in Special, NEW n \in Block,
         NEW r \in get_block(cache, d, n, FALSE),
         NEW c \in put_block(Filled(IF r.b \in r.c.fresh THEN r.c ELSE Spoil(r.c, <<d, n>>), r.b, FALSE),
                             r.b, FALSE, FALSE, FALSE)
  PROVE  Inv(c)
<1> DEFINE e == IF r.b \in r.c.fresh THEN r.c ELSE Spoil(r.c, <<d, n>>)
           f == Filled(e, r.b, FALSE)
<1>1. <<d, n>> \in BlockAt /\ Askable(d, n) /\ <<d, n>> \notin Safe
  BY CacheAssumption DEF BlockAt, Askable, Safe
<1>2. /\ Linked(r.c) /\ r.b \in Used(r.c) /\ KeyOf(r.c, r.b) = <<d, n>>
      /\ \A k \in BlockAt : k # <<d, n>> => Good(r.c, k)
  BY <1>1, GetUnread DEF Room
<1>3. /\ Linked(e) /\ r.b \in Used(e) /\ KeyOf(e, r.b) = <<d, n>>
      /\ \A k \in BlockAt : k # <<d, n>> => Good(e, k)
      /\ r.b \in e.fresh \/ <<d, n>> \in e.spoilt
  <2>1. CASE r.b \in r.c.fresh
    BY <1>2, <2>1
  <2>2. CASE r.b \notin r.c.fresh
    <3>1. e = Spoil(r.c, <<d, n>>)
      BY <2>2
    <3> HIDE DEF e
    <3> QED BY <1>1, <1>2, <3>1, SpoilFacts
  <2> QED BY <2>1, <2>2
<1>4. c \in put_block(f, r.b, FALSE, FALSE, FALSE)
  OBVIOUS
<1> HIDE DEF e
<1>5. Inv(f) /\ r.b \in Used(f) /\ KeyOf(f, r.b) = <<d, n>>
  BY <1>3, FilledFacts
<1> HIDE DEF f
<1> QED BY <1>1, <1>4, <1>5, PutFacts

LEMMA FlushStep ==
  ASSUME Inv(cache), NEW d, NEW c \in Flushed(cache)
  PROVE  Inv([c EXCEPT !.dev = [b \in Buf |-> IF @[b] = d THEN NO_DEV ELSE @[b]]])
<1> DEFINE g == [b \in Buf |-> IF c.dev[b] = d THEN NO_DEV ELSE c.dev[b]]
<1>1. Inv(c) /\ BlockAt \subseteq c.stored \cup c.spoilt
  BY FlushFacts
<1>2. Typed(c) /\ c.dev \in [Buf -> Dev \cup {NO_DEV}]
  BY <1>1, Fields DEF Inv, Typed
<1>3. /\ g \in [Buf -> Dev \cup {NO_DEV}]
      /\ \A b \in Buf : g[b] = IF c.dev[b] = d THEN NO_DEV ELSE c.dev[b]
  BY <1>2
<1>4. [c EXCEPT !.dev = [b \in Buf |-> IF @[b] = d THEN NO_DEV ELSE @[b]]] = [c EXCEPT !.dev = g]
  OBVIOUS
<1> HIDE DEF g
<1>5. \A b \in Buf : \/ g[b] = c.dev[b]
                     \/ /\ g[b] = NO_DEV
                        /\ c.dev[b] # NO_DEV => KeyOf(c, b) \in c.stored \cup c.spoilt
  BY <1>1, <1>2, <1>3 DEF Typed
<1> QED BY <1>1, <1>3, <1>4, <1>5, LoseFacts

\* Every step of the cache keeps the invariant.
LEMMA NextKeeps ==
  ASSUME Inv(cache), [CacheNext]_cache
  PROVE  Inv(cache')
<1>1. ASSUME NEW d \in Dev, NEW n \in Block, Get(d, n) PROVE Inv(cache')
  BY <1>1, GetStep DEF Get, Askable, BlockAt
<1>2. ASSUME NEW d \in Dev, NEW n \in Block, Overwrite(d, n) PROVE Inv(cache')
  BY <1>2, OverwriteStep DEF Overwrite, Askable, BlockAt
<1>3. ASSUME NEW d \in Dev, NEW n \in Block, WriteSpecial(d, n) PROVE Inv(cache')
  BY <1>3, SpecialStep DEF WriteSpecial
<1>4. CASE GetZeros
  BY <1>4, ZerosStep DEF GetZeros
<1>5. ASSUME NEW b \in Buf, Modify(b) PROVE Inv(cache')
  BY <1>5, ModifyStep DEF Modify
<1>6. ASSUME NEW b \in Buf, PutSuper(b) PROVE Inv(cache')
  BY <1>6, PutFacts DEF PutSuper
<1>7. ASSUME NEW b \in Buf, NEW one_shot \in BOOLEAN, PutBlock(b, one_shot) PROVE Inv(cache')
  <2> DEFINE immed == KeyOf(cache, b) \in Meta
  <2>1. b \in Used(cache)
    BY <1>7 DEF PutBlock
  <2>2. PICK c \in put_block(cache, b, immed, one_shot, FALSE) : cache' = c
    BY <1>7 DEF PutBlock
  <2>3. immed \in BOOLEAN /\ (KeyOf(cache, b) \in Safe \/ FALSE => immed)
    BY DEF Safe
  <2> HIDE DEF immed
  <2> QED BY <2>1, <2>2, <2>3, PutFacts
<1>8. CASE Sync
  BY <1>8, FlushFacts DEF Sync
<1>9. ASSUME NEW d \in Dev, Invalidate(d) PROVE Inv(cache')
  BY <1>9, FlushStep DEF Invalidate
<1>10. CASE UNCHANGED cache
  BY <1>10
<1> QED BY <1>1, <1>2, <1>3, <1>4, <1>5, <1>6, <1>7, <1>8, <1>9, <1>10 DEF CacheNext

\* The inductive invariant of the cache.
THEOREM CacheInvariant == CacheSpec => []Inv(cache)
<1>1. CacheInit => Inv(cache)
  BY InitHolds
<1>2. Inv(cache) /\ [CacheNext]_cache => Inv(cache)'
  BY NextKeeps
<1> QED BY <1>1, <1>2, PTL DEF CacheSpec

\* No write is lost, unless by a transfer of the block itself: whoever gets a
\* block gets what was last written to it, and a clean buffer agrees with the
\* disk; and the chains get_block() searches are complete, however many buffers,
\* chains and devices there are.
THEOREM WritesAreKept == CacheSpec => []Coherent
<1>1. ASSUME Inv(cache) PROVE Coherent
  <2>1. CacheTypeOK
    <3>1. cache \in Cache /\ cache.in_use = Cardinality(Used(cache))
      BY <1>1 DEF Inv, Typed, Counting
    <3>2. NR_BUFS \in Nat /\ cache.in_use \in 0 .. NR_BUFS
      BY <3>1, BufFinite, CacheAssumption
    <3> QED BY <3>1, <3>2 DEF CacheTypeOK, Cache
  <2>2. ChainsComplete
    BY <1>1, <2>1 DEF Inv, Hashed, Chained, Counting, ChainsComplete
  <2>3. ASSUME NEW k \in BlockAt \ cache.spoilt
        PROVE  /\ Cached(k) = {} => k \in cache.stored
               /\ \A b \in Cached(k) : b \in cache.fresh /\ (cache.dirt[b] \/ k \in cache.stored)
    BY <1>1 DEF Inv, Good, Sound, Cached
  <2> QED BY <2>2, <2>3 DEF Coherent
<1> QED BY <1>1, CacheInvariant, PTL

\* A crash finds on disk what was last written to a metadata block that nobody
\* uses, since put_block() writes those at once, whoever used them before.
THEOREM MetadataSurvives == CacheSpec => []MetaOnDisk
<1>1. ASSUME Inv(cache) PROVE MetaOnDisk
  <2> SUFFICES ASSUME NEW k \in Safe, k \notin cache.spoilt,
                      \A b \in Cached(k) : b \notin Used(cache)
               PROVE  k \in cache.stored
    BY DEF MetaOnDisk, Safe
  <2>1. k \in BlockAt
    BY CacheAssumption DEF Safe
  <2> QED BY <1>1, <2>1 DEF Inv, Good, OnDisk, Cached
<1> QED BY <1>1, CacheInvariant, PTL

\* do_sync() leaves on disk everything that it does not fail to write, whatever
\* is dirty and whoever uses it.
THEOREM SyncReachesDisk == CacheSpec => SyncFlushes
<1>1. ASSUME Inv(cache)
      PROVE  [cache' # cache /\ Sync => BlockAt \subseteq cache'.stored \cup cache'.spoilt]_cache
  BY <1>1, FlushFacts DEF Sync
<1> QED BY <1>1, CacheInvariant, PTL DEF SyncFlushes

-----------------------------------------------------------------------------
(***************************************************************************)
(* Pipes.  A writer that puts something into an empty pipe wakes a reader; *)
(* a reader that comes to hang wakes a writer, but only while susp_count   *)
(* is above 0; and who closes an end wakes all that hang for it.           *)
(* susp_count never exceeds the number of those that hang, but it may fall *)
(* below, and does not come back: from then on a reader and a writer may   *)
(* wait for each other, which is why PairsMeet speaks of the states in     *)
(* which it is right.  The invariant says                                  *)
(*  - that slots and i-nodes count the descriptors and the open ends that  *)
(*    refer to them, so that an end is seen to be open as long as it is;   *)
(*  - that who hangs has its own end open, and somebody has the other;     *)
(*  - that the positions say whether there is something in the pipe, so    *)
(*    that a reader hangs only at an empty one, and a writer only at one   *)
(*    with something in it: a writer cannot come to hang where a reader    *)
(*    does, and a reader that does where a writer hangs wakes it.          *)
(* A reader and a writer wake one other process, the first in the table;   *)
(* that this is enough takes one process at each end at most, and the      *)
(* history variable crowded remembers the pipes at which there were more.  *)
(***************************************************************************)

\* The type of the state of FS.
PipeState ==
  [fd : [Proc -> [Fd -> Filp \cup {NIL}]], saved : [Proc -> Call \cup {NONE}],
   revived : SUBSET Proc,
   filp : [Filp -> [count : Nat, mode : {"R", "W"}, ino : Inode, pos : 0 .. PIPE_SIZE]],
   inode : [Inode -> [count : 0 .. 2, size : 0 .. PIPE_SIZE]],
   susp_count : Int, reviving : Nat, answered : BOOLEAN]

\* The descriptors that refer to a slot of the filp table, and the open ends of a pipe.
Refs(s, f) == {x \in Proc \X Fd : s.fd[x[1]][x[2]] = f}
Ends(s, n) == {f \in Filp : s.filp[f].count # 0 /\ s.filp[f].ino = n}

\* The end at which a call hangs, and the one it hangs for.
Own(fn)   == IF fn = "READ" THEN "R" ELSE "W"
Other(fn) == IF fn = "READ" THEN "W" ELSE "R"

\* Counts are exact.
Counted(s)  == \A f \in Filp : s.filp[f].count = Cardinality(Refs(s, f))
UsedEnds(s) == \A n \in Inode : s.inode[n].count = Cardinality(Ends(s, n))

\* However often it is shared, each end of a pipe is one slot of the filp table.
OnePerEnd(s) ==
  \A f, g \in Filp :
    s.filp[f].count # 0 /\ s.filp[g].count # 0 /\ s.filp[f].ino = s.filp[g].ino
      /\ s.filp[f].mode = s.filp[g].mode => f = g

\* What is written next goes to the end; a reader is before the end, or both are at 0.
Fits(r, size) ==
  IF r.mode = "W" THEN r.pos = size ELSE r.pos < size \/ (r.pos = 0 /\ size = 0)
Positions(s) ==
  \A f \in Filp : s.filp[f].count # 0 => Fits(s.filp[f], s.inode[s.filp[f].ino].size)

\* Who hangs has the end open at which it hangs.
AtEnd(s) ==
  \A p \in Suspended(s) :
    Open(s, p, s.saved[p].fd) /\ FilpOf(s, p, s.saved[p].fd).mode = Own(s.saved[p].fn)

\* RevivingCounts and NobodyOrphaned, of one state.
Revives(s) ==
  /\ s.reviving = Cardinality(s.revived) /\ s.revived \subseteq Suspended(s)
  /\ s.susp_count <= Cardinality(Stuck(s))
Peopled(s) ==
  \A p \in Stuck(s) :
    find_filp(s, FilpOf(s, p, s.saved[p].fd).ino, Other(s.saved[p].fn))

\* What is so of FS between two calls, and between the parts of one.
Ended(s) == s \in PipeState /\ Counted(s) /\ UsedEnds(s) /\ OnePerEnd(s)
Orderly(s)  == Ended(s) /\ Positions(s) /\ AtEnd(s) /\ Revives(s) /\ Peopled(s)

\* Of a pipe at which one process hangs at each end at most: who hangs in a read does
\* so because there are no data; and two do not hang for each other.
Lone(s, n)  == \A fn \in {"READ", "WRITE"} : \A p, q \in Hanging(s, n, fn) : p = q
Empty(s, n) == Stuck(s) \cap Hanging(s, n, "READ") # {} => s.inode[n].size = 0
Meet(s, n)  ==
  s.susp_count = Cardinality(Stuck(s)) =>
    Stuck(s) \cap Hanging(s, n, "READ") = {} \/ Stuck(s) \cap Hanging(s, n, "WRITE") = {}
Paired(s, n) == Lone(s, n) /\ Empty(s, n) /\ Meet(s, n)
-----------------------------------------------------------------------------
\* Everything is finite.
LEMMA Finite ==
  /\ IsFiniteSet(Proc) /\ IsFiniteSet(Fd) /\ IsFiniteSet(Filp) /\ IsFiniteSet(Inode)
  /\ Cardinality(Proc) = NR_PROCS /\ Cardinality(Fd) = NR_FDS
  /\ IsFiniteSet(Proc \X Fd) /\ Cardinality(Proc \X Fd) = NR_PROCS * NR_FDS
<1>1. /\ 0 \in Int /\ 1 \in Int /\ NR_PROCS - 1 \in Int /\ NR_FDS - 1 \in Int
      /\ NR_FILPS \in Int /\ NR_PIPES \in Int /\ NR_PROCS > 0 /\ NR_FDS > 0
      /\ NR_PROCS \in Nat /\ NR_FDS \in Nat
  BY PipeAssumption
<1>2. IsFiniteSet(0 .. NR_PROCS - 1) /\ Cardinality(0 .. NR_PROCS - 1) = NR_PROCS
  <2>1. Cardinality(0 .. NR_PROCS - 1) = IF 0 > NR_PROCS - 1 THEN 0 ELSE (NR_PROCS - 1) - 0 + 1
    BY <1>1, FS_Interval
  <2> QED BY <1>1, <2>1, FS_Interval
<1>3. IsFiniteSet(0 .. NR_FDS - 1) /\ Cardinality(0 .. NR_FDS - 1) = NR_FDS
  <2>1. Cardinality(0 .. NR_FDS - 1) = IF 0 > NR_FDS - 1 THEN 0 ELSE (NR_FDS - 1) - 0 + 1
    BY <1>1, FS_Interval
  <2> QED BY <1>1, <2>1, FS_Interval
<1>4. IsFiniteSet(1 .. NR_FILPS) /\ IsFiniteSet(1 .. NR_PIPES)
  BY <1>1, FS_Interval
<1>5. /\ IsFiniteSet(Proc \X Fd)
      /\ Cardinality(Proc \X Fd) = Cardinality(Proc) * Cardinality(Fd)
  BY <1>2, <1>3, FS_Product DEF Proc, Fd
<1> QED BY <1>2, <1>3, <1>4, <1>5 DEF Proc, Fd, Filp, Inode

\* Sets of processes, of descriptors and of slots.
LEMMA FiniteParts ==
  ASSUME NEW s
  PROVE  /\ \A f : IsFiniteSet(Refs(s, f)) /\ Cardinality(Refs(s, f)) \in 0 .. NR_PROCS * NR_FDS
         /\ \A n : IsFiniteSet(Ends(s, n)) /\ Cardinality(Ends(s, n)) \in Nat
         /\ \A P \in SUBSET Proc : IsFiniteSet(P) /\ Cardinality(P) \in Nat
         /\ \A D \in SUBSET Fd : IsFiniteSet(D) /\ Cardinality(D) \in Nat
<1>1. ASSUME NEW f
      PROVE  IsFiniteSet(Refs(s, f)) /\ Cardinality(Refs(s, f)) \in 0 .. NR_PROCS * NR_FDS
  <2>1. Refs(s, f) \in SUBSET (Proc \X Fd)
    BY DEF Refs
  <2>2. IsFiniteSet(Refs(s, f)) /\ Cardinality(Refs(s, f)) <= NR_PROCS * NR_FDS
    BY <2>1, Finite, FS_Subset
  <2>3. Cardinality(Refs(s, f)) \in Nat
    BY <2>2, FS_CardinalityType
  <2>4. NR_PROCS * NR_FDS \in Nat
    BY Finite, FS_CardinalityType
  <2> QED BY <2>2, <2>3, <2>4
<1>2. ASSUME NEW n
      PROVE  IsFiniteSet(Ends(s, n)) /\ Cardinality(Ends(s, n)) \in Nat
  <2>1. Ends(s, n) \in SUBSET Filp
    BY DEF Ends
  <2> QED BY <2>1, Finite, FS_Subset, FS_CardinalityType
<1>3. ASSUME NEW P \in SUBSET Proc
      PROVE  IsFiniteSet(P) /\ Cardinality(P) \in Nat
  BY Finite, FS_Subset, FS_CardinalityType
<1>4. ASSUME NEW D \in SUBSET Fd
      PROVE  IsFiniteSet(D) /\ Cardinality(D) \in Nat
  BY Finite, FS_Subset, FS_CardinalityType
<1> QED BY <1>1, <1>2, <1>3, <1>4

\* The first of some numbers, as get_fd(), release() and alloc_inode() look for it.
LEMMA FirstOne ==
  ASSUME NEW S \in SUBSET Nat, S # {}
  PROVE  Min(S) \in S /\ \A y \in S : Min(S) <= y
<1>1. LET m == CHOOSE x \in S : \A y \in S : x <= y
      IN  m \in S /\ \A y \in S : m <= y
  BY LeastIndex
<1> QED BY <1>1, Zenon DEF Min

\* A slot with a count is one that a descriptor refers to.
LEMMA CountMeansRef ==
  ASSUME NEW s, Ended(s), NEW f \in Filp
  PROVE  s.filp[f].count # 0 <=> \E p \in Proc, d \in Fd : s.fd[p][d] = f
<1>1. IsFiniteSet(Refs(s, f)) /\ s.filp[f].count = Cardinality(Refs(s, f))
  BY FiniteParts DEF Ended, Counted
<1>2. s.filp[f].count = 0 <=> Refs(s, f) = {}
  BY <1>1, FS_EmptySet
<1>3. Refs(s, f) # {} <=> \E p \in Proc, d \in Fd : s.fd[p][d] = f
  <2>1. ASSUME NEW p \in Proc, NEW d \in Fd, s.fd[p][d] = f
        PROVE  Refs(s, f) # {}
    <3>1. <<p, d>> \in Refs(s, f)
      BY <2>1 DEF Refs
    <3> QED BY <3>1
  <2>2. ASSUME NEW x \in Refs(s, f)
        PROVE  \E p \in Proc, d \in Fd : s.fd[p][d] = f
    <3>1. x[1] \in Proc /\ x[2] \in Fd /\ s.fd[x[1]][x[2]] = f
      BY DEF Refs
    <3> QED BY <3>1
  <2> QED BY <2>1, <2>2
<1> QED BY <1>2, <1>3

\* What a descriptor is set to refers to one more, what it referred to, to one less.
LEMMA RefsSet ==
  ASSUME NEW s \in PipeState, NEW u \in PipeState, NEW p \in Proc, NEW d \in Fd,
         NEW g \in Filp \cup {NIL}, u.fd = [s.fd EXCEPT ![p][d] = g], s.fd[p][d] # g
  PROVE  /\ g # NIL => Cardinality(Refs(u, g)) = Cardinality(Refs(s, g)) + 1
         /\ \A f \in Filp : f # g => Cardinality(Refs(u, f)) =
              IF f = s.fd[p][d] THEN Cardinality(Refs(s, f)) - 1 ELSE Cardinality(Refs(s, f))
<1> DEFINE x == <<p, d>>
<1>1. s.fd \in [Proc -> [Fd -> Filp \cup {NIL}]]
  BY DEF PipeState
<1>2. \A a \in Proc, b \in Fd : u.fd[a][b] = IF a = p /\ b = d THEN g ELSE s.fd[a][b]
  BY <1>1
<1>3. x \in Proc \X Fd /\ x[1] = p /\ x[2] = d
  OBVIOUS
<1>4. \A y \in Proc \X Fd : y[1] \in Proc /\ y[2] \in Fd /\ (y[1] = p /\ y[2] = d <=> y = x)
  OBVIOUS
<1> HIDE DEF x
<1>5. ASSUME NEW y \in Proc \X Fd
      PROVE  u.fd[y[1]][y[2]] = IF y = x THEN g ELSE s.fd[y[1]][y[2]]
  BY <1>2, <1>4
<1>6. Refs(u, g) = Refs(s, g) \cup {x} /\ x \notin Refs(s, g)
  <2>1. x \notin Refs(s, g)
    BY <1>3 DEF Refs
  <2>2. \A y \in Proc \X Fd : y \in Refs(u, g) <=> y \in Refs(s, g) \/ y = x
    BY <1>5 DEF Refs
  <2>3. Refs(u, g) \subseteq Proc \X Fd /\ Refs(s, g) \subseteq Proc \X Fd
    BY DEF Refs
  <2> QED BY <1>3, <2>1, <2>2, <2>3
<1>7. ASSUME NEW f \in Filp, f # g
      PROVE  /\ Refs(u, f) = Refs(s, f) \ {x}
             /\ x \in Refs(s, f) <=> f = s.fd[p][d]
  <2>1. x \in Refs(s, f) <=> f = s.fd[p][d]
    BY <1>3 DEF Refs
  <2>2. \A y \in Proc \X Fd : y \in Refs(u, f) <=> y \in Refs(s, f) /\ y # x
    BY <1>5, <1>7 DEF Refs
  <2>3. Refs(u, f) \subseteq Proc \X Fd /\ Refs(s, f) \subseteq Proc \X Fd
    BY DEF Refs
  <2> QED BY <2>1, <2>2, <2>3
<1>8. Cardinality(Refs(u, g)) = Cardinality(Refs(s, g)) + 1
  BY <1>6, FiniteParts, FS_AddElement
<1>9. ASSUME NEW f \in Filp, f # g
      PROVE  Cardinality(Refs(u, f)) =
               IF f = s.fd[p][d] THEN Cardinality(Refs(s, f)) - 1 ELSE Cardinality(Refs(s, f))
  <2>1. IsFiniteSet(Refs(s, f))
    BY FiniteParts
  <2>2. Cardinality(Refs(s, f) \ {x}) =
          IF x \in Refs(s, f) THEN Cardinality(Refs(s, f)) - 1 ELSE Cardinality(Refs(s, f))
    BY <2>1, FS_RemoveElement
  <2> QED BY <1>7, <1>9, <2>2
<1> QED BY <1>8, <1>9
-----------------------------------------------------------------------------
(* Suspending, releasing, reading and writing. *)

\* What changes no end of a pipe.
SameEnds(s, u) ==
  /\ u \in PipeState /\ u.fd = s.fd
  /\ \A f \in Filp : u.filp[f].count = s.filp[f].count /\ u.filp[f].mode = s.filp[f].mode
                     /\ u.filp[f].ino = s.filp[f].ino
  /\ \A n \in Inode : u.inode[n].count = s.inode[n].count

\* The counts stay exact.
LEMMA SameEndsKeep ==
  ASSUME NEW s, Ended(s), NEW u, SameEnds(s, u)
  PROVE  /\ Ended(u)
         /\ \A n, mode : find_filp(u, n, mode) <=> find_filp(s, n, mode)
         /\ \A p \in Proc, d \in Fd : Open(u, p, d) <=> Open(s, p, d)
         /\ \A p \in Proc, d \in Fd : Open(s, p, d) =>
              /\ FilpOf(u, p, d).ino = FilpOf(s, p, d).ino
              /\ FilpOf(u, p, d).mode = FilpOf(s, p, d).mode
<1>1. \A f : Refs(u, f) = Refs(s, f)
  BY DEF Refs, SameEnds
<1>2. Counted(u)
  BY <1>1 DEF Counted, Ended, SameEnds
<1>3. \A n : Ends(u, n) = Ends(s, n)
  BY DEF Ends, SameEnds
<1>4. UsedEnds(u)
  BY <1>3 DEF UsedEnds, Ended, SameEnds
<1>5. OnePerEnd(u)
  BY DEF OnePerEnd, Ended, SameEnds
<1>6. \A n, mode : find_filp(u, n, mode) <=> find_filp(s, n, mode)
  BY DEF find_filp, SameEnds
<1>7. ASSUME NEW p \in Proc, NEW d \in Fd, Open(s, p, d)
      PROVE  /\ FilpOf(u, p, d).ino = FilpOf(s, p, d).ino
             /\ FilpOf(u, p, d).mode = FilpOf(s, p, d).mode
  <2>1. s.fd[p][d] \in Filp
    BY <1>7 DEF Open, Ended, PipeState
  <2> QED BY <2>1 DEF FilpOf, SameEnds
<1> QED BY <1>2, <1>4, <1>5, <1>6, <1>7 DEF Ended, Open, SameEnds

\* A call that hangs has its descriptor open, and that refers to a slot in use.
LEMMA HungFacts ==
  ASSUME NEW s \in PipeState, AtEnd(s), NEW p \in Suspended(s)
  PROVE  /\ p \in Proc /\ s.saved[p] \in Call /\ s.saved[p].fd \in Fd
         /\ s.saved[p].fn \in {"READ", "WRITE"} /\ s.saved[p].bytes \in 1 .. PIPE_SIZE
         /\ Open(s, p, s.saved[p].fd) /\ s.fd[p][s.saved[p].fd] \in Filp
         /\ FilpOf(s, p, s.saved[p].fd).ino \in Inode
<1>1. p \in Proc /\ s.saved[p] # NONE
  BY DEF Suspended
<1>2. s.saved[p] \in Call
  BY <1>1 DEF PipeState
<1>3. /\ s.saved[p].fd \in Fd /\ s.saved[p].fn \in {"READ", "WRITE"}
      /\ s.saved[p].bytes \in 1 .. PIPE_SIZE
  BY <1>2 DEF Call
<1>4. Open(s, p, s.saved[p].fd)
  BY DEF AtEnd
<1>5. s.fd[p][s.saved[p].fd] \in Filp
  BY <1>1, <1>3, <1>4 DEF Open, PipeState
<1> QED BY <1>1, <1>2, <1>3, <1>4, <1>5 DEF FilpOf, PipeState

\* What changes neither the ends of pipes nor who hangs.
SameHung(s, u) ==
  /\ SameEnds(s, u)
  /\ u.saved = s.saved /\ u.revived = s.revived /\ u.susp_count = s.susp_count
  /\ u.reviving = s.reviving /\ u.answered = s.answered

\* It leaves who hangs where.
LEMMA SameHungKeep ==
  ASSUME NEW s, Orderly(s), NEW u, SameHung(s, u)
  PROVE  /\ Ended(u) /\ AtEnd(u) /\ Revives(u) /\ Peopled(u)
         /\ Suspended(u) = Suspended(s) /\ Stuck(u) = Stuck(s)
         /\ \A n, fn : Hanging(u, n, fn) = Hanging(s, n, fn)
<1>1. /\ Ended(u)
      /\ \A n, mode : find_filp(u, n, mode) <=> find_filp(s, n, mode)
      /\ \A p \in Proc, d \in Fd : Open(u, p, d) <=> Open(s, p, d)
      /\ \A p \in Proc, d \in Fd : Open(s, p, d) =>
           /\ FilpOf(u, p, d).ino = FilpOf(s, p, d).ino
           /\ FilpOf(u, p, d).mode = FilpOf(s, p, d).mode
  BY SameEndsKeep DEF Orderly, SameHung
<1>2. Suspended(u) = Suspended(s) /\ Stuck(u) = Stuck(s)
  BY DEF SameHung, Suspended, Stuck
<1>3. ASSUME NEW p \in Suspended(s)
      PROVE  /\ p \in Proc /\ s.saved[p].fd \in Fd /\ Open(s, p, s.saved[p].fd)
             /\ FilpOf(u, p, u.saved[p].fd).ino = FilpOf(s, p, s.saved[p].fd).ino
             /\ FilpOf(u, p, u.saved[p].fd).mode = FilpOf(s, p, s.saved[p].fd).mode
             /\ Open(u, p, u.saved[p].fd) /\ u.saved[p] = s.saved[p]
  BY <1>1, HungFacts DEF Orderly, Ended, SameHung
<1>4. AtEnd(u)
  BY <1>2, <1>3 DEF AtEnd, Orderly
<1>5. Revives(u)
  BY <1>2 DEF Revives, Orderly, SameHung
<1>6. Stuck(s) \subseteq Suspended(s)
  BY DEF Stuck
<1>7. Peopled(u)
  BY <1>1, <1>2, <1>3, <1>6 DEF Peopled, Orderly
<1>8. \A n, fn : Hanging(u, n, fn) = Hanging(s, n, fn)
  BY <1>2, <1>3 DEF Hanging
<1> QED BY <1>1, <1>2, <1>4, <1>5, <1>7, <1>8

\* Processes that hang are released: they hang no more, and nothing else changes.
LEMMA ReleasedKeeps ==
  ASSUME NEW s, Orderly(s), NEW who, who \subseteq Suspended(s), NEW u, u = Released(s, who)
  PROVE  /\ Orderly(u) /\ Suspended(u) = Suspended(s) /\ Stuck(u) = Stuck(s) \ who
         /\ u.fd = s.fd /\ u.filp = s.filp /\ u.inode = s.inode /\ u.saved = s.saved
         /\ u.answered = s.answered /\ u.revived = s.revived \cup who
         /\ \A n, fn : Hanging(u, n, fn) = Hanging(s, n, fn)
         /\ u.susp_count = Cardinality(Stuck(u)) => s.susp_count = Cardinality(Stuck(s))
         /\ \A n : /\ Lone(s, n) => Lone(u, n)
                   /\ Empty(s, n) => Empty(u, n)
                   /\ Meet(s, n) => Meet(u, n)
<1> DEFINE fresh == who \ s.revived
<1>1. /\ s \in PipeState /\ Ended(s) /\ Suspended(s) \subseteq Proc /\ s.revived \subseteq Proc
      /\ s.reviving = Cardinality(s.revived) /\ s.revived \subseteq Suspended(s)
      /\ s.susp_count \in Int /\ s.susp_count <= Cardinality(Stuck(s))
  BY DEF Orderly, Ended, Revives, PipeState, Suspended
<1>2. /\ IsFiniteSet(who) /\ IsFiniteSet(fresh) /\ IsFiniteSet(s.revived)
      /\ IsFiniteSet(Stuck(s)) /\ IsFiniteSet(Stuck(s) \ who)
      /\ Cardinality(who) \in Nat /\ Cardinality(fresh) \in Nat /\ Cardinality(s.revived) \in Nat
      /\ Cardinality(Stuck(s)) \in Nat /\ Cardinality(Stuck(s) \ who) \in Nat
  <2>1. /\ who \in SUBSET Proc /\ fresh \in SUBSET Proc /\ s.revived \in SUBSET Proc
        /\ Stuck(s) \in SUBSET Proc /\ Stuck(s) \ who \in SUBSET Proc
    BY <1>1 DEF Stuck
  <2> QED BY <2>1, FiniteParts
<1>3. Cardinality(s.revived \cup who) = Cardinality(s.revived) + Cardinality(fresh)
  <2>1. s.revived \cup who = s.revived \cup fresh /\ s.revived \cap fresh = {}
    OBVIOUS
  <2> HIDE DEF fresh
  <2>2. Cardinality(s.revived \cup fresh) =
          Cardinality(s.revived) + Cardinality(fresh) - Cardinality(s.revived \cap fresh)
    BY <1>2, FS_Union
  <2>3. Cardinality(s.revived \cap fresh) = 0
    BY <2>1, FS_EmptySet
  <2> QED BY <1>2, <2>1, <2>2, <2>3
<1>4. /\ Cardinality(Stuck(s)) = Cardinality(Stuck(s) \ who) + Cardinality(fresh)
      /\ Cardinality(fresh) <= Cardinality(who)
  <2>1. fresh = Stuck(s) \cap who
    BY DEF Stuck
  <2>2. Cardinality(Stuck(s) \ who) = Cardinality(Stuck(s)) - Cardinality(Stuck(s) \cap who)
    BY <1>2, FS_Difference
  <2>3. Cardinality(fresh) <= Cardinality(who)
    BY <1>2, FS_Subset
  <2> HIDE DEF fresh
  <2> QED BY <1>2, <2>1, <2>2, <2>3
<1>5. u = [s EXCEPT !.susp_count = s.susp_count - Cardinality(who),
                    !.reviving = s.reviving + Cardinality(fresh),
                    !.revived = s.revived \cup who]
  BY DEF Released
<1> HIDE DEF fresh
<1>6. /\ u \in PipeState /\ u.fd = s.fd /\ u.filp = s.filp /\ u.inode = s.inode
      /\ u.saved = s.saved /\ u.answered = s.answered /\ u.revived = s.revived \cup who
      /\ u.susp_count = s.susp_count - Cardinality(who)
      /\ u.reviving = s.reviving + Cardinality(fresh)
  <2>1. /\ s.susp_count - Cardinality(who) \in Int
        /\ s.reviving + Cardinality(fresh) \in Nat /\ s.revived \cup who \in SUBSET Proc
    BY <1>1, <1>2
  <2> QED BY <1>1, <1>5, <2>1 DEF PipeState
<1>7. SameEnds(s, u)
  BY <1>6 DEF SameEnds
<1>8. Suspended(u) = Suspended(s) /\ Stuck(u) = Stuck(s) \ who
  BY <1>6 DEF Suspended, Stuck
<1>9. /\ \A n, fn : Hanging(u, n, fn) = Hanging(s, n, fn)
      /\ \A p, d : FilpOf(u, p, d) = FilpOf(s, p, d)
      /\ \A p, d : Open(u, p, d) <=> Open(s, p, d)
      /\ \A n, mode : find_filp(u, n, mode) <=> find_filp(s, n, mode)
  BY <1>6, <1>8 DEF Hanging, FilpOf, Open, find_filp
<1>10. Ended(u)
  BY <1>1, <1>7, SameEndsKeep
<1>11. Positions(u)
  BY <1>6 DEF Positions, Orderly
<1>12. AtEnd(u)
  BY <1>6, <1>8, <1>9 DEF AtEnd, Orderly
<1>13. Revives(u)
  BY <1>1, <1>2, <1>3, <1>4, <1>6, <1>8 DEF Revives
<1>14. Peopled(u)
  BY <1>6, <1>8, <1>9 DEF Peopled, Orderly
<1>15. u.susp_count = Cardinality(Stuck(u)) => s.susp_count = Cardinality(Stuck(s))
  BY <1>1, <1>2, <1>4, <1>6, <1>8
<1>16. ASSUME NEW n
       PROVE  /\ Lone(s, n) => Lone(u, n)
              /\ Empty(s, n) => Empty(u, n)
              /\ Meet(s, n) => Meet(u, n)
  <2>1. Lone(s, n) => Lone(u, n)
    BY <1>9 DEF Lone
  <2>2. Stuck(u) \subseteq Stuck(s)
    BY <1>8
  <2>3. Empty(s, n) => Empty(u, n)
    BY <1>6, <1>9, <2>2 DEF Empty
  <2>4. Meet(s, n) => Meet(u, n)
    BY <1>9, <1>15, <2>2 DEF Meet
  <2> QED BY <2>1, <2>3, <2>4
<1> QED BY <1>6, <1>8, <1>9, <1>10, <1>11, <1>12, <1>13, <1>14, <1>15, <1>16 DEF Orderly

\* release() of one process: nobody is left hanging where one hung.
LEMMA ReleaseOneKeeps ==
  ASSUME NEW s, Orderly(s), NEW n, NEW fn, NEW u, u = releaseOne(s, n, fn)
  PROVE  \E who \in SUBSET Hanging(s, n, fn) :
           /\ who \subseteq Suspended(s) /\ u = Released(s, who)
           /\ \A p \in Hanging(s, n, fn) : (\A q \in Hanging(s, n, fn) : p = q) => p \in who
<1> DEFINE H == Hanging(s, n, fn)
<1>1. H \subseteq Suspended(s) /\ H \in SUBSET Nat
  BY DEF Hanging, Suspended, Proc
<1>2. u = Released(s, IF H = {} THEN {} ELSE {Min(H)})
  BY DEF releaseOne
<1> HIDE DEF H
<1>3. CASE H = {}
  BY <1>1, <1>2, <1>3 DEF H
<1>4. CASE H # {}
  <2>1. Min(H) \in H
    BY <1>1, <1>4, FirstOne
  <2> HIDE DEF H
  <2>2. u = Released(s, {Min(H)}) /\ {Min(H)} \in SUBSET H
    BY <1>2, <1>4, <2>1
  <2>3. \A p \in H : (\A q \in H : p = q) => p \in {Min(H)}
    BY <2>1
  <2> QED BY <1>1, <2>2, <2>3 DEF H
<1> QED BY <1>3, <1>4

\* Whether p hangs by its call at one end of pipe n.
At(s, p, call, n, fn) == IF call.fn = fn /\ FilpOf(s, p, call.fd).ino = n THEN {p} ELSE {}

\* suspend().
LEMMA SuspendKeeps ==
  ASSUME NEW s, Orderly(s), NEW p \in Proc, p \notin Suspended(s), NEW call \in Call,
         Open(s, p, call.fd), FilpOf(s, p, call.fd).mode = Own(call.fn),
         find_filp(s, FilpOf(s, p, call.fd).ino, Other(call.fn)),
         NEW u, u = suspend(s, p, call)
  PROVE  /\ Orderly(u) /\ Suspended(u) = Suspended(s) \cup {p} /\ p \notin Stuck(s)
         /\ Stuck(u) = Stuck(s) \cup {p} /\ ~u.answered
         /\ u.fd = s.fd /\ u.filp = s.filp /\ u.inode = s.inode
         /\ \A n, fn : Hanging(u, n, fn) = Hanging(s, n, fn) \cup At(s, p, call, n, fn)
         /\ u.susp_count = s.susp_count + 1
         /\ Cardinality(Stuck(u)) = Cardinality(Stuck(s)) + 1
<1>1. /\ s \in PipeState /\ Ended(s) /\ Suspended(s) \subseteq Proc
      /\ s.reviving = Cardinality(s.revived) /\ s.revived \subseteq Suspended(s)
      /\ s.susp_count \in Int /\ s.susp_count <= Cardinality(Stuck(s))
      /\ s.saved \in [Proc -> Call \cup {NONE}]
  BY DEF Orderly, Ended, Revives, PipeState, Suspended
<1>2. call # NONE /\ call.fd \in Fd
  BY DEF Call, NONE
<1>3. u = [s EXCEPT !.susp_count = s.susp_count + 1, !.saved = [s.saved EXCEPT ![p] = call],
                    !.answered = FALSE]
  BY DEF suspend
<1>4. /\ u \in PipeState /\ u.fd = s.fd /\ u.filp = s.filp /\ u.inode = s.inode
      /\ ~u.answered /\ u.revived = s.revived /\ u.reviving = s.reviving
      /\ u.susp_count = s.susp_count + 1 /\ u.saved = [s.saved EXCEPT ![p] = call]
  <2>1. s.susp_count + 1 \in Int /\ [s.saved EXCEPT ![p] = call] \in [Proc -> Call \cup {NONE}]
    BY <1>1
  <2> QED BY <1>1, <1>3, <2>1 DEF PipeState
<1>5. \A q \in Proc : u.saved[q] = IF q = p THEN call ELSE s.saved[q]
  BY <1>1, <1>4
<1>6. /\ Suspended(u) = Suspended(s) \cup {p} /\ Stuck(u) = Stuck(s) \cup {p}
      /\ p \notin Stuck(s)
  BY <1>1, <1>2, <1>4, <1>5 DEF Suspended, Stuck
<1>7. /\ \A q, d : FilpOf(u, q, d) = FilpOf(s, q, d)
      /\ \A q, d : Open(u, q, d) <=> Open(s, q, d)
      /\ \A n, mode : find_filp(u, n, mode) <=> find_filp(s, n, mode)
  BY <1>4 DEF FilpOf, Open, find_filp
<1>8. ASSUME NEW n, NEW fn
      PROVE  Hanging(u, n, fn) = Hanging(s, n, fn) \cup At(s, p, call, n, fn)
  BY <1>1, <1>5, <1>6, <1>7 DEF Hanging, At
<1>9. Ended(u)
  <2>1. SameEnds(s, u)
    BY <1>4 DEF SameEnds
  <2> QED BY <1>1, <2>1, SameEndsKeep
<1>10. Positions(u)
  BY <1>4 DEF Positions, Orderly
<1>11. AtEnd(u)
  BY <1>1, <1>5, <1>6, <1>7 DEF AtEnd, Orderly
<1>12. /\ Cardinality(Stuck(u)) = Cardinality(Stuck(s)) + 1
       /\ Cardinality(Stuck(s)) \in Nat
  <2>1. Stuck(s) \in SUBSET Proc
    BY <1>1 DEF Stuck
  <2>2. IsFiniteSet(Stuck(s)) /\ Cardinality(Stuck(s)) \in Nat
    BY <2>1, FiniteParts
  <2> QED BY <1>6, <2>2, FS_AddElement
<1>13. Revives(u)
  BY <1>1, <1>4, <1>6, <1>12 DEF Revives
<1>14. Peopled(u)
  <2>1. Stuck(s) \subseteq Proc
    BY <1>1 DEF Stuck
  <2> QED BY <1>5, <1>6, <1>7, <2>1 DEF Peopled, Orderly
<1> QED BY <1>4, <1>6, <1>8, <1>9, <1>10, <1>11, <1>12, <1>13, <1>14 DEF Orderly

\* What p's call leaves: what is so between two calls, p hanging if and only if it has no
\* answer, and nobody else hanging, or with other descriptors, than before.
Done(s, p, u) ==
  /\ Orderly(u)
  /\ \/ Suspended(u) = Suspended(s) /\ u.answered
     \/ Suspended(u) = Suspended(s) \cup {p} /\ ~u.answered
  /\ \A q \in Proc \ {p} : u.fd[q] = s.fd[q]
  /\ \A n \in Inode : Paired(s, n) /\ Lone(u, n) => Paired(u, n)

\* At a pipe where a process is not suspended nothing changes by that.
LEMMA ElsewhereKeeps ==
  ASSUME NEW s, Orderly(s), NEW p \in Proc, p \notin Suspended(s), NEW call \in Call,
         Open(s, p, call.fd), FilpOf(s, p, call.fd).mode = Own(call.fn),
         find_filp(s, FilpOf(s, p, call.fd).ino, Other(call.fn)),
         NEW u, u = suspend(s, p, call),
         NEW m \in Inode, m # FilpOf(s, p, call.fd).ino, Paired(s, m)
  PROVE  Empty(u, m) /\ Meet(u, m)
<1>1. /\ Stuck(u) = Stuck(s) \cup {p} /\ u.inode = s.inode
      /\ \A fn : Hanging(u, m, fn) = Hanging(s, m, fn)
      /\ u.susp_count = s.susp_count + 1
      /\ Cardinality(Stuck(u)) = Cardinality(Stuck(s)) + 1
  <2>1. /\ Stuck(u) = Stuck(s) \cup {p} /\ u.inode = s.inode
        /\ u.susp_count = s.susp_count + 1
        /\ Cardinality(Stuck(u)) = Cardinality(Stuck(s)) + 1
        /\ \A n, fn : Hanging(u, n, fn) = Hanging(s, n, fn) \cup At(s, p, call, n, fn)
    BY SuspendKeeps
  <2>2. \A fn : At(s, p, call, m, fn) = {}
    BY DEF At
  <2> QED BY <2>1, <2>2
<1>2. \A fn : p \notin Hanging(s, m, fn)
  BY DEF Hanging
<1>3. Empty(u, m)
  BY <1>1, <1>2 DEF Empty, Paired
<1>4. /\ s.susp_count \in Int /\ Cardinality(Stuck(s)) \in Nat
  <2>1. Stuck(s) \in SUBSET Proc
    BY DEF Stuck, Suspended
  <2> QED BY <2>1, FiniteParts DEF Orderly, Ended, PipeState
<1>5. u.susp_count = Cardinality(Stuck(u)) => s.susp_count = Cardinality(Stuck(s))
  BY <1>1, <1>4
<1>6. Meet(u, m)
  BY <1>1, <1>2, <1>5 DEF Meet, Paired
<1> QED BY <1>3, <1>6

\* The slot that an open descriptor refers to.
InUse(s, f, n) ==
  /\ f \in Filp /\ s.filp[f].count # 0 /\ s.filp[f].count \in Nat
  /\ n \in Inode /\ s.filp[f].mode \in {"R", "W"}
  /\ s.filp[f].pos \in 0 .. PIPE_SIZE
  /\ s.inode[n].size \in 0 .. PIPE_SIZE /\ s.inode[n].count \in 0 .. 2
LEMMA OpenFacts ==
  ASSUME NEW s, Ended(s), NEW p \in Proc, NEW d \in Fd, Open(s, p, d)
  PROVE  InUse(s, s.fd[p][d], FilpOf(s, p, d).ino)
<1> DEFINE f == s.fd[p][d]
           n == FilpOf(s, p, d).ino
<1>1. s \in PipeState
  BY DEF Ended
<1>2. f \in Filp
  BY <1>1 DEF Open, PipeState
<1>3. s.filp[f].count # 0
  BY <1>2, CountMeansRef
<1>4. s.filp[f] \in [count : Nat, mode : {"R", "W"}, ino : Inode, pos : 0 .. PIPE_SIZE]
  BY <1>1, <1>2 DEF PipeState
<1>5. s.inode[n] \in [count : 0 .. 2, size : 0 .. PIPE_SIZE]
  BY <1>1, <1>4 DEF PipeState, FilpOf
<1> QED BY <1>2, <1>3, <1>4, <1>5 DEF FilpOf, InUse

\* The tables of filp slots and of i-nodes, and a state with other tables.
Slot       == [count : Nat, mode : {"R", "W"}, ino : Inode, pos : 0 .. PIPE_SIZE]
Node       == [count : 0 .. 2, size : 0 .. PIPE_SIZE]
Tables(s, t, i, u) ==
  /\ u \in PipeState /\ u.filp = t /\ u.inode = i
  /\ u.fd = s.fd /\ u.saved = s.saved /\ u.revived = s.revived
  /\ u.susp_count = s.susp_count /\ u.reviving = s.reviving /\ u.answered = s.answered

\* The tables have their types.
LEMMA TableTypes ==
  ASSUME NEW s \in PipeState
  PROVE  /\ s.filp \in [Filp -> Slot] /\ s.inode \in [Inode -> Node]
         /\ s.fd \in [Proc -> [Fd -> Filp \cup {NIL}]] /\ s.saved \in [Proc -> Call \cup {NONE}]
         /\ s.revived \subseteq Proc /\ s.susp_count \in Int /\ s.reviving \in Nat
         /\ s.answered \in BOOLEAN
BY DEF PipeState, Slot, Node

\* Other tables, with the rest as it is.
LEMMA TablesSet ==
  ASSUME NEW s \in PipeState, NEW t \in [Filp -> Slot], NEW i \in [Inode -> Node]
  PROVE  Tables(s, t, i, [s EXCEPT !.filp = t, !.inode = i])
BY DEF PipeState, Tables, Slot, Node

\* One position.
AtPos(t, f, x, v) ==
  /\ v \in [Filp -> Slot]
  /\ \A g \in Filp : /\ v[g].count = t[g].count /\ v[g].mode = t[g].mode /\ v[g].ino = t[g].ino
                     /\ v[g].pos = IF g = f THEN x ELSE t[g].pos

\* The position of one slot is set.
LEMMA PosSet ==
  ASSUME NEW t \in [Filp -> Slot], NEW f \in Filp, NEW x \in 0 .. PIPE_SIZE
  PROVE  AtPos(t, f, x, [t EXCEPT ![f].pos = x])
<1> DEFINE z == [t[f] EXCEPT !.pos = x]
           v == [t EXCEPT ![f] = z]
<1>1. /\ z \in Slot
      /\ z.count = t[f].count /\ z.mode = t[f].mode /\ z.ino = t[f].ino /\ z.pos = x
  BY DEF Slot
<1> HIDE DEF z
<1>2. v \in [Filp -> Slot] /\ \A g \in Filp : v[g] = IF g = f THEN z ELSE t[g]
  BY <1>1
<1> HIDE DEF v
<1>3. AtPos(t, f, x, v)
  BY <1>1, <1>2 DEF AtPos
<1> QED BY <1>3 DEF v, z

\* One size.
AtSize(i, n, x, v) ==
  /\ v \in [Inode -> Node]
  /\ \A m \in Inode : /\ v[m].count = i[m].count
                      /\ v[m].size = IF m = n THEN x ELSE i[m].size

\* The size of one i-node is set.
LEMMA SizeSet ==
  ASSUME NEW i \in [Inode -> Node], NEW n \in Inode, NEW x \in 0 .. PIPE_SIZE
  PROVE  AtSize(i, n, x, [i EXCEPT ![n].size = x])
<1> DEFINE z == [i[n] EXCEPT !.size = x]
           v == [i EXCEPT ![n] = z]
<1>1. z \in Node /\ z.count = i[n].count /\ z.size = x
  BY DEF Node
<1> HIDE DEF z
<1>2. v \in [Inode -> Node] /\ \A m \in Inode : v[m] = IF m = n THEN z ELSE i[m]
  BY <1>1
<1> HIDE DEF v
<1>3. AtSize(i, n, x, v)
  BY <1>1, <1>2 DEF AtSize
<1> QED BY <1>3 DEF v, z

\* An emptied pipe: everyone is at its start.
AtStart(t, n, v) ==
  /\ v \in [Filp -> Slot]
  /\ \A g \in Filp : /\ v[g].count = t[g].count /\ v[g].mode = t[g].mode /\ v[g].ino = t[g].ino
                     /\ v[g].pos = IF t[g].count # 0 /\ t[g].ino = n THEN 0 ELSE t[g].pos

\* What emptying a pipe makes of the tables.
LEMMA DrainedTables ==
  ASSUME NEW s \in PipeState, NEW n \in Inode
  PROVE  \E t, i : /\ AtStart(s.filp, n, t) /\ AtSize(s.inode, n, 0, i)
                   /\ Tables(s, t, i, Drained(s, n))
<1>1. s.filp \in [Filp -> Slot] /\ s.inode \in [Inode -> Node] /\ 0 \in 0 .. PIPE_SIZE
  BY PipeAssumption, TableTypes
<1> DEFINE at0(g) == [s.filp[g] EXCEPT !.pos = 0]
           t == [g \in Filp |-> IF s.filp[g].count # 0 /\ s.filp[g].ino = n
                                THEN at0(g) ELSE s.filp[g]]
           i == [s.inode EXCEPT ![n].size = 0]
<1>2. \A g \in Filp : /\ at0(g) \in Slot
                      /\ at0(g).count = s.filp[g].count /\ at0(g).mode = s.filp[g].mode
                      /\ at0(g).ino = s.filp[g].ino /\ at0(g).pos = 0
  BY <1>1 DEF Slot
<1>3. Drained(s, n) = [s EXCEPT !.inode = i, !.filp = t]
  BY DEF Drained
<1> HIDE DEF at0
<1>4. /\ t \in [Filp -> Slot]
      /\ \A g \in Filp : t[g] = IF s.filp[g].count # 0 /\ s.filp[g].ino = n
                                THEN at0(g) ELSE s.filp[g]
  BY <1>1, <1>2
<1> HIDE DEF t
<1>5. AtStart(s.filp, n, t)
  BY <1>2, <1>4 DEF AtStart
<1>6. AtSize(s.inode, n, 0, i)
  BY <1>1, SizeSet
<1> HIDE DEF i
<1>7. Drained(s, n) = [s EXCEPT !.filp = t, !.inode = i]
  BY <1>3 DEF PipeState
<1>8. i \in [Inode -> Node]
  BY <1>6 DEF AtSize
<1>9. Tables(s, t, i, [s EXCEPT !.filp = t, !.inode = i])
  BY <1>4, <1>8, TablesSet
<1>10. Tables(s, t, i, Drained(s, n))
  BY <1>7, <1>9
<1> QED BY <1>5, <1>6, <1>10

\* A read of data that are there.
ReadTo(s, f, to, n, moved, u) ==
  moved = [s EXCEPT !.filp[f].pos = to]
    /\ u = IF to = s.inode[n].size THEN Drained(moved, n) ELSE moved

\* A read of data that are there, or a write that fits.
Got(s, u) == SameHung(s, u) /\ Positions(u) /\ \A m \in Inode : Empty(s, m) => Empty(u, m)

\* The reader's position stays within the pipe, and starts over with it when it is empty.
LEMMA GotKeeps ==
  ASSUME NEW s, Orderly(s), NEW f \in Filp, s.filp[f].count # 0, s.filp[f].mode = "R",
         NEW to \in 0 .. PIPE_SIZE,
         NEW n \in Inode, n = s.filp[f].ino, to <= s.inode[n].size, NEW moved, NEW u,
         ReadTo(s, f, to, n, moved, u)
  PROVE  Got(s, u)
<1>0. u = IF to = s.inode[n].size THEN Drained(moved, n) ELSE moved
  BY DEF ReadTo
<1>1. /\ s \in PipeState /\ Positions(s)
      /\ s.filp \in [Filp -> Slot] /\ s.inode \in [Inode -> Node] /\ PIPE_SIZE \in Nat
  BY PipeAssumption, TableTypes DEF Orderly, Ended
<1>2. /\ \A m \in Inode : s.inode[m].size \in 0 .. PIPE_SIZE
      /\ \A g \in Filp : s.filp[g].ino \in Inode /\ s.filp[g].mode \in {"R", "W"}
  BY <1>1 DEF Slot, Node
<1> DEFINE t == [s.filp EXCEPT ![f].pos = to]
<1>3. AtPos(s.filp, f, to, t)
  BY <1>1, PosSet
<1>4. moved = [s EXCEPT !.filp = t, !.inode = s.inode]
  BY <1>1 DEF PipeState, ReadTo
<1> HIDE DEF t
<1>5. Tables(s, t, s.inode, moved)
  <2>1. t \in [Filp -> Slot]
    BY <1>3 DEF AtPos
  <2>2. Tables(s, t, s.inode, [s EXCEPT !.filp = t, !.inode = s.inode])
    BY <1>1, <2>1, TablesSet
  <2> QED BY <1>4, <2>2
<1>6. CASE to = s.inode[n].size
  <2>1. u = Drained(moved, n) /\ moved \in PipeState
    BY <1>0, <1>5, <1>6 DEF Tables
  <2>2. PICK v, i : AtStart(moved.filp, n, v) /\ AtSize(moved.inode, n, 0, i)
                    /\ Tables(moved, v, i, Drained(moved, n))
    BY <2>1, DrainedTables
  <2>3. \A g \in Filp : /\ v[g].count = s.filp[g].count /\ v[g].mode = s.filp[g].mode
                        /\ v[g].ino = s.filp[g].ino
                        /\ v[g].pos = IF s.filp[g].count # 0 /\ s.filp[g].ino = n THEN 0
                                      ELSE t[g].pos
    BY <1>3, <1>5, <2>2 DEF AtStart, AtPos, Tables
  <2>4. \A m \in Inode : /\ i[m].count = s.inode[m].count
                         /\ i[m].size = IF m = n THEN 0 ELSE s.inode[m].size
    BY <1>5, <2>2 DEF AtSize, Tables
  <2>5. Tables(s, v, i, u)
    BY <1>5, <2>1, <2>2 DEF Tables
  <2>6. SameHung(s, u)
    <3>1. /\ u \in PipeState /\ u.filp = v /\ u.inode = i
          /\ u.fd = s.fd /\ u.saved = s.saved /\ u.revived = s.revived
          /\ u.susp_count = s.susp_count /\ u.reviving = s.reviving /\ u.answered = s.answered
      BY <2>5 DEF Tables
    <3>2. SameEnds(s, u)
      BY <2>3, <2>4, <3>1 DEF SameEnds
    <3> QED BY <3>1, <3>2 DEF SameHung
  <2>7. Positions(u)
    <3>0. u.filp = v /\ u.inode = i
      BY <2>5 DEF Tables
    <3> SUFFICES ASSUME NEW g \in Filp, v[g].count # 0, NEW m, m = v[g].ino
                 PROVE  Fits(v[g], i[m].size)
      BY <3>0 DEF Positions
    <3>1. s.filp[g].count # 0 /\ m = s.filp[g].ino /\ m \in Inode /\ s.filp[g].mode = v[g].mode
      BY <1>2, <2>3
    <3>2. i[m].size = IF m = n THEN 0 ELSE s.inode[m].size
      BY <2>4, <3>1
    <3>3. v[g].pos = IF m = n THEN 0 ELSE s.filp[g].pos
      BY <1>3, <2>3, <3>1 DEF AtPos
    <3>4. Fits(s.filp[g], s.inode[m].size)
      BY <1>1, <3>1 DEF Positions
    <3> QED BY <3>1, <3>2, <3>3, <3>4 DEF Fits
  <2>8. Stuck(u) = Stuck(s) /\ \A m, fn : Hanging(u, m, fn) = Hanging(s, m, fn)
    BY <2>6, SameHungKeep
  <2>9. \A m \in Inode : s.inode[m].size = 0 => u.inode[m].size = 0
    BY <2>4, <2>5 DEF Tables
  <2>10. \A m \in Inode : Empty(s, m) => Empty(u, m)
    BY <2>8, <2>9 DEF Empty
  <2> QED BY <2>6, <2>7, <2>10 DEF Got
<1>7. CASE to # s.inode[n].size
  <2>1. u = moved
    BY <1>0, <1>7
  <2>2. \A g \in Filp : /\ t[g].count = s.filp[g].count /\ t[g].mode = s.filp[g].mode
                        /\ t[g].ino = s.filp[g].ino
    BY <1>3 DEF AtPos
  <2>3. SameHung(s, u)
    <3>1. /\ u \in PipeState /\ u.filp = t /\ u.inode = s.inode
          /\ u.fd = s.fd /\ u.saved = s.saved /\ u.revived = s.revived
          /\ u.susp_count = s.susp_count /\ u.reviving = s.reviving /\ u.answered = s.answered
      BY <1>5, <2>1 DEF Tables
    <3>2. SameEnds(s, u)
      BY <2>2, <3>1 DEF SameEnds
    <3> QED BY <3>1, <3>2 DEF SameHung
  <2>4. Positions(u)
    <3>0. u.filp = t /\ u.inode = s.inode
      BY <1>5, <2>1 DEF Tables
    <3> SUFFICES ASSUME NEW g \in Filp, t[g].count # 0, NEW m, m = t[g].ino
                 PROVE  Fits(t[g], s.inode[m].size)
      BY <3>0 DEF Positions
    <3>1. s.filp[g].count # 0 /\ m = s.filp[g].ino /\ m \in Inode /\ s.filp[g].mode = t[g].mode
      BY <1>2, <2>2
    <3>2. t[g].pos = IF g = f THEN to ELSE s.filp[g].pos
      BY <1>3 DEF AtPos
    <3>3. Fits(s.filp[g], s.inode[m].size)
      BY <1>1, <3>1 DEF Positions
    <3>4. to < s.inode[n].size
      <4>1. s.inode[n].size \in 0 .. PIPE_SIZE /\ PIPE_SIZE \in Nat
        BY <1>1, <1>2
      <4> QED BY <1>7, <4>1
    <3>5. CASE g = f
      BY <3>1, <3>2, <3>4, <3>5 DEF Fits
    <3>6. CASE g # f
      BY <3>1, <3>2, <3>3, <3>6 DEF Fits
    <3> QED BY <3>5, <3>6
  <2>5. Stuck(u) = Stuck(s) /\ \A m, fn : Hanging(u, m, fn) = Hanging(s, m, fn)
    BY <2>3, SameHungKeep
  <2>6. u.inode = s.inode
    BY <1>5, <2>1 DEF Tables
  <2>7. \A m \in Inode : Empty(s, m) => Empty(u, m)
    BY <2>5, <2>6 DEF Empty
  <2> QED BY <2>3, <2>4, <2>7 DEF Got
<1> QED BY <1>6, <1>7

\* Who is released hangs no more, and if that was the only one, nobody does; the rest of
\* the state is the same.
Woken(s, n, fn, u) ==
  /\ Orderly(u) /\ Suspended(u) = Suspended(s) /\ Stuck(u) \subseteq Stuck(s)
  /\ u.fd = s.fd /\ u.filp = s.filp /\ u.inode = s.inode /\ u.saved = s.saved
  /\ u.answered = s.answered
  /\ \A m, g : Hanging(u, m, g) = Hanging(s, m, g)
  /\ \A m : /\ Lone(s, m) <=> Lone(u, m)
            /\ Empty(s, m) => Empty(u, m)
            /\ Meet(s, m) => Meet(u, m)
  /\ Lone(s, n) => Stuck(u) \cap Hanging(u, n, fn) = {}

\* releaseOne() leaves nobody hanging at the end, if it was one process at most.
LEMMA WokenFacts ==
  ASSUME NEW s, Orderly(s), NEW n, NEW fn \in {"READ", "WRITE"}
  PROVE  Woken(s, n, fn, releaseOne(s, n, fn))
<1> DEFINE u == releaseOne(s, n, fn)
<1> HIDE DEF u
<1>1. PICK who \in SUBSET Hanging(s, n, fn) :
           /\ who \subseteq Suspended(s) /\ u = Released(s, who)
           /\ \A p \in Hanging(s, n, fn) : (\A q \in Hanging(s, n, fn) : p = q) => p \in who
  BY ReleaseOneKeeps DEF u
<1>2. /\ Orderly(u) /\ Suspended(u) = Suspended(s) /\ Stuck(u) = Stuck(s) \ who
      /\ u.fd = s.fd /\ u.filp = s.filp /\ u.inode = s.inode /\ u.saved = s.saved
      /\ u.answered = s.answered
      /\ \A m, g : Hanging(u, m, g) = Hanging(s, m, g)
      /\ \A m : /\ Empty(s, m) => Empty(u, m)
                /\ Meet(s, m) => Meet(u, m)
  BY <1>1, ReleasedKeeps
<1>3. \A m : Lone(s, m) <=> Lone(u, m)
  BY <1>2 DEF Lone
<1>4. Lone(s, n) => Stuck(u) \cap Hanging(u, n, fn) = {}
  BY <1>1, <1>2 DEF Lone
<1>5. Woken(s, n, fn, u)
  BY <1>2, <1>3, <1>4 DEF Woken
<1> QED BY <1>5 DEF u

\* Suspension, as a relation.
Hung(s, p, call, u) ==
  /\ Orderly(u) /\ Suspended(u) = Suspended(s) \cup {p} /\ p \notin Stuck(s)
  /\ Stuck(u) = Stuck(s) \cup {p} /\ ~u.answered
  /\ u.fd = s.fd /\ u.filp = s.filp /\ u.inode = s.inode
  /\ u.susp_count = s.susp_count + 1
  /\ Cardinality(Stuck(u)) = Cardinality(Stuck(s)) + 1
  /\ \A n, fn : Hanging(u, n, fn) = Hanging(s, n, fn) \cup At(s, p, call, n, fn)

\* suspend() is such a step.
LEMMA HungBy ==
  ASSUME NEW s, Orderly(s), NEW p \in Proc, p \notin Suspended(s), NEW call \in Call,
         Open(s, p, call.fd), FilpOf(s, p, call.fd).mode = Own(call.fn),
         find_filp(s, FilpOf(s, p, call.fd).ino, Other(call.fn))
  PROVE  Hung(s, p, call, suspend(s, p, call))
BY SuspendKeeps DEF Hung

\* read_write(READING) on a pipe.
LEMMA ReadKeeps ==
  ASSUME NEW s, Orderly(s), s.answered, NEW p \in Proc, p \notin Suspended(s), NEW call \in Call,
         Open(s, p, call.fd), FilpOf(s, p, call.fd).mode = "R", call.fn = "READ"
  PROVE  Done(s, p, Read(s, p, call))
<1> DEFINE f == s.fd[p][call.fd]
           n == s.filp[f].ino
           to == Min({s.filp[f].pos + call.bytes, s.inode[n].size})
           moved == [s EXCEPT !.filp[f].pos = to]
           u == Read(s, p, call)
           hung == suspend(s, p, call)
<1>1. call.fd \in Fd /\ call.bytes \in Nat /\ PIPE_SIZE \in Nat
  BY PipeAssumption DEF Call
<1>2. u = IF s.filp[f].pos < s.inode[n].size
          THEN IF to = s.inode[n].size THEN Drained(moved, n) ELSE moved
          ELSE IF ~find_filp(s, n, "W") THEN s
          ELSE IF hung.susp_count > 0 THEN releaseOne(hung, n, "WRITE") ELSE hung
  BY DEF Read
<1>3. s.filp[f] = FilpOf(s, p, call.fd)
  BY DEF FilpOf
<1>4. moved = [s EXCEPT !.filp[f].pos = to]
  OBVIOUS
<1>5. f = s.fd[p][call.fd] /\ n = s.filp[f].ino
  OBVIOUS
<1> HIDE DEF u, moved, n, f
<1>6. /\ f \in Filp /\ s.filp[f].count # 0 /\ n \in Inode /\ s.filp[f].mode = "R"
      /\ s.filp[f].pos \in 0 .. PIPE_SIZE /\ s.inode[n].size \in 0 .. PIPE_SIZE
  <2>1. InUse(s, s.fd[p][call.fd], FilpOf(s, p, call.fd).ino)
    BY <1>1, OpenFacts DEF Orderly
  <2>2. InUse(s, f, n)
    BY <1>3, <1>5, <2>1
  <2> QED BY <1>3, <2>2 DEF InUse
<1>7. CASE s.filp[f].pos < s.inode[n].size
  <2>1. to \in 0 .. PIPE_SIZE /\ to <= s.inode[n].size
    <3> DEFINE S == {s.filp[f].pos + call.bytes, s.inode[n].size}
    <3>1. S \in SUBSET Nat /\ S # {} /\ to = Min(S)
      BY <1>1, <1>6
    <3> HIDE DEF to
    <3>2. Min(S) \in S /\ \A y \in S : Min(S) <= y
      BY <3>1, FirstOne
    <3>3. to \in Nat /\ to <= s.inode[n].size
      BY <3>1, <3>2
    <3> QED BY <1>1, <1>6, <3>3
  <2>2. u = IF to = s.inode[n].size THEN Drained(moved, n) ELSE moved
    BY <1>2, <1>7
  <2> HIDE DEF to
  <2>3. SameHung(s, u) /\ Positions(u) /\ \A m \in Inode : Empty(s, m) => Empty(u, m)
    <3>1. Got(s, u)
      <4>1. ReadTo(s, f, to, n, moved, u)
        BY <1>4, <2>2 DEF ReadTo
      <4> QED BY <1>5, <1>6, <2>1, <4>1, GotKeeps
    <3> QED BY <3>1 DEF Got
  <2>4. /\ Ended(u) /\ AtEnd(u) /\ Revives(u) /\ Peopled(u)
        /\ Suspended(u) = Suspended(s) /\ Stuck(u) = Stuck(s)
        /\ \A m, fn : Hanging(u, m, fn) = Hanging(s, m, fn)
    BY <2>3, SameHungKeep
  <2>5. u.susp_count = s.susp_count /\ u.answered = s.answered /\ u.fd = s.fd
    BY <2>3 DEF SameHung, SameEnds
  <2>6. ASSUME NEW m \in Inode, Paired(s, m)
        PROVE  Paired(u, m)
    <3>1. Lone(u, m)
      BY <2>4, <2>6 DEF Paired, Lone
    <3>2. Meet(u, m)
      BY <2>4, <2>5, <2>6 DEF Paired, Meet
    <3> QED BY <2>3, <2>6, <3>1, <3>2 DEF Paired
  <2>7. Orderly(u)
    BY <2>3, <2>4 DEF Orderly
  <2>8. Done(s, p, u)
    BY <2>4, <2>5, <2>6, <2>7 DEF Done
  <2> QED BY <2>8 DEF u
<1>8. CASE ~(s.filp[f].pos < s.inode[n].size) /\ ~find_filp(s, n, "W")
  <2>1. u = s
    BY <1>2, <1>8
  <2>2. Done(s, p, s)
    BY DEF Done
  <2> QED BY <2>1, <2>2 DEF u
<1>9. CASE ~(s.filp[f].pos < s.inode[n].size) /\ find_filp(s, n, "W")
  <2>1. u = IF hung.susp_count > 0 THEN releaseOne(hung, n, "WRITE") ELSE hung
    BY <1>2, <1>9
  <2>2. s.inode[n].size = 0
    <3>1. Fits(s.filp[f], s.inode[n].size)
      BY <1>5, <1>6 DEF Positions, Orderly
    <3> QED BY <1>6, <1>9, <3>1 DEF Fits
  <2>3. /\ FilpOf(s, p, call.fd).mode = Own(call.fn) /\ FilpOf(s, p, call.fd).ino = n
        /\ find_filp(s, FilpOf(s, p, call.fd).ino, Other(call.fn))
    BY <1>3, <1>5, <1>9 DEF Own, Other
  <2>4. Hung(s, p, call, hung)
    BY <2>3, HungBy
  <2> HIDE DEF hung
  <2>5. Cardinality(Stuck(s)) \in Nat /\ s.susp_count \in Int
    <3>1. Stuck(s) \in SUBSET Proc
      BY DEF Stuck, Suspended
    <3> QED BY <3>1, FiniteParts, TableTypes DEF Orderly, Ended
  <2>6. ASSUME NEW m \in Inode, Paired(s, m)
        PROVE  Empty(hung, m)
    <3>1. CASE m = n
      BY <2>2, <2>4, <3>1 DEF Empty, Hung
    <3>2. CASE m # n
      BY <2>3, <2>6, <3>2, ElsewhereKeeps DEF hung
    <3> QED BY <3>1, <3>2
  <2>7. ASSUME NEW m \in Inode, Paired(s, m), m # n
        PROVE  Meet(hung, m)
    BY <2>3, <2>7, ElsewhereKeeps DEF hung
  <2>8. CASE hung.susp_count > 0
    <3>1. u = releaseOne(hung, n, "WRITE")
      BY <2>1, <2>8
    <3>2. Woken(hung, n, "WRITE", u)
      BY <2>4, <3>1, WokenFacts DEF Hung
    <3>3. ASSUME NEW m \in Inode, Paired(s, m), Lone(u, m)
          PROVE  Paired(u, m)
      <4>1. Empty(u, m)
        BY <2>6, <3>2, <3>3 DEF Woken
      <4>2. Meet(u, m)
        <5>1. CASE m = n
          <6>1. Stuck(u) \cap Hanging(u, m, "WRITE") = {}
            BY <3>2, <3>3, <5>1 DEF Woken
          <6> QED BY <6>1 DEF Meet
        <5>2. CASE m # n
          BY <2>7, <3>2, <3>3, <5>2 DEF Woken
        <5> QED BY <5>1, <5>2
      <4> QED BY <3>3, <4>1, <4>2 DEF Paired
    <3>4. Orderly(u) /\ Suspended(u) = Suspended(s) \cup {p} /\ ~u.answered /\ u.fd = s.fd
      BY <2>4, <3>2 DEF Woken, Hung
    <3>5. Done(s, p, u)
      BY <3>3, <3>4 DEF Done
    <3> QED BY <3>5 DEF u
  <2>9. CASE ~(hung.susp_count > 0)
    <3>1. u = hung
      BY <2>1, <2>9
    <3>2. hung.susp_count # Cardinality(Stuck(hung))
      <4>1. /\ hung.susp_count = s.susp_count + 1
            /\ Cardinality(Stuck(hung)) = Cardinality(Stuck(s)) + 1
        BY <2>4 DEF Hung
      <4> QED BY <2>5, <2>9, <4>1
    <3>3. \A m \in Inode : Paired(s, m) /\ Lone(u, m) => Paired(u, m)
      BY <2>6, <3>1, <3>2 DEF Paired, Meet
    <3>4. Orderly(u) /\ Suspended(u) = Suspended(s) \cup {p} /\ ~u.answered /\ u.fd = s.fd
      BY <2>4, <3>1 DEF Hung
    <3>5. Done(s, p, u)
      BY <3>3, <3>4 DEF Done
    <3> QED BY <3>5 DEF u
  <2> QED BY <2>8, <2>9
<1> QED BY <1>7, <1>8, <1>9

\* The greater of two.
LEMMA GreaterOf ==
  ASSUME NEW a \in Nat, NEW b \in Nat, a <= b
  PROVE  Max({a, b}) = b
<1>1. \E x \in {a, b} : \A y \in {a, b} : x >= y
  OBVIOUS
<1>2. Max({a, b}) \in {a, b} /\ \A y \in {a, b} : Max({a, b}) >= y
  BY <1>1 DEF Max
<1> QED BY <1>2

\* A write that fits.
Put(s, n, u) ==
  SameHung(s, u) /\ Positions(u) /\ \A m \in Inode : m # n => u.inode[m].size = s.inode[m].size
LEMMA PutKeeps ==
  ASSUME NEW s, Orderly(s), NEW f \in Filp, s.filp[f].count # 0, s.filp[f].mode = "W",
         NEW to \in 0 .. PIPE_SIZE,
         NEW n \in Inode, n = s.filp[f].ino, s.filp[f].pos < to
  PROVE  Put(s, n, [s EXCEPT !.filp[f].pos = to, !.inode[n].size = Max({@, to})])
<1> DEFINE t == [s.filp EXCEPT ![f].pos = to]
           i == [s.inode EXCEPT ![n].size = to]
           u == [s EXCEPT !.filp[f].pos = to, !.inode[n].size = Max({@, to})]
           v == [s EXCEPT !.filp = t, !.inode = i]
<1>1. /\ s \in PipeState /\ Positions(s) /\ OnePerEnd(s)
      /\ s.filp \in [Filp -> Slot] /\ s.inode \in [Inode -> Node] /\ PIPE_SIZE \in Nat
  BY PipeAssumption, TableTypes DEF Orderly, Ended
<1>2. /\ \A m \in Inode : s.inode[m].size \in 0 .. PIPE_SIZE
      /\ \A g \in Filp : s.filp[g].ino \in Inode /\ s.filp[g].mode \in {"R", "W"}
  BY <1>1 DEF Slot, Node
<1>3. s.inode[n].size = s.filp[f].pos
  BY <1>1 DEF Positions, Fits
<1>4. Max({s.inode[n].size, to}) = to
  BY <1>1, <1>2, <1>3, GreaterOf
<1>5. u = v
  BY <1>4
<1>6. AtPos(s.filp, f, to, t) /\ AtSize(s.inode, n, to, i)
  BY <1>1, PosSet, SizeSet
<1> HIDE DEF t, i
<1>7. Tables(s, t, i, v)
  <2>1. t \in [Filp -> Slot] /\ i \in [Inode -> Node]
    BY <1>6 DEF AtPos, AtSize
  <2> QED BY <1>1, <2>1, TablesSet
<1> HIDE DEF u, v
<1>8. /\ u \in PipeState /\ u.filp = t /\ u.inode = i
      /\ u.fd = s.fd /\ u.saved = s.saved /\ u.revived = s.revived
      /\ u.susp_count = s.susp_count /\ u.reviving = s.reviving /\ u.answered = s.answered
  BY <1>5, <1>7 DEF Tables
<1>9. \A g \in Filp : /\ t[g].count = s.filp[g].count /\ t[g].mode = s.filp[g].mode
                      /\ t[g].ino = s.filp[g].ino
                      /\ t[g].pos = IF g = f THEN to ELSE s.filp[g].pos
  BY <1>6 DEF AtPos
<1>10. \A m \in Inode : /\ i[m].count = s.inode[m].count
                        /\ i[m].size = IF m = n THEN to ELSE s.inode[m].size
  BY <1>6 DEF AtSize
<1>11. SameHung(s, u)
  <2>1. SameEnds(s, u)
    BY <1>8, <1>9, <1>10 DEF SameEnds
  <2> QED BY <1>8, <2>1 DEF SameHung
<1>12. Positions(u)
  <2> SUFFICES ASSUME NEW g \in Filp, t[g].count # 0, NEW m, m = t[g].ino
               PROVE  Fits(t[g], i[m].size)
    BY <1>8 DEF Positions
  <2>1. s.filp[g].count # 0 /\ m = s.filp[g].ino /\ m \in Inode /\ s.filp[g].mode = t[g].mode
    BY <1>2, <1>9
  <2>2. i[m].size = IF m = n THEN to ELSE s.inode[m].size
    BY <1>10, <2>1
  <2>3. t[g].pos = IF g = f THEN to ELSE s.filp[g].pos
    BY <1>9
  <2>4. Fits(s.filp[g], s.inode[m].size)
    BY <1>1, <2>1 DEF Positions
  <2>5. CASE g = f
    BY <2>1, <2>2, <2>3, <2>5 DEF Fits
  <2>6. CASE g # f /\ m # n
    BY <2>1, <2>2, <2>3, <2>4, <2>6 DEF Fits
  <2>7. CASE g # f /\ m = n
    <3>1. s.filp[g].mode # "W"
      BY <1>1, <2>1, <2>7 DEF OnePerEnd
    <3>2. s.filp[g].pos < s.inode[n].size \/ (s.filp[g].pos = 0 /\ s.inode[n].size = 0)
      BY <2>4, <2>7, <3>1 DEF Fits
    <3>3. /\ s.inode[n].size \in Nat /\ s.filp[g].pos \in Nat /\ to \in Nat
          /\ s.inode[n].size < to
      <4>1. s.filp[g].pos \in 0 .. PIPE_SIZE
        BY <1>1 DEF Slot
      <4> QED BY <1>1, <1>2, <1>3, <4>1
    <3>4. s.filp[g].pos < to
      BY <3>2, <3>3
    <3> QED BY <2>1, <2>2, <2>3, <2>7, <3>1, <3>4 DEF Fits
  <2> QED BY <2>5, <2>6, <2>7
<1>13. \A m \in Inode : m # n => u.inode[m].size = s.inode[m].size
  BY <1>8, <1>10
<1>14. Put(s, n, u)
  BY <1>11, <1>12, <1>13 DEF Put
<1> QED BY <1>14 DEF u

\* read_write(WRITING) on a pipe.
LEMMA WriteKeeps ==
  ASSUME NEW s, Orderly(s), s.answered, NEW p \in Proc, p \notin Suspended(s), NEW call \in Call,
         Open(s, p, call.fd), FilpOf(s, p, call.fd).mode = "W", call.fn = "WRITE"
  PROVE  Done(s, p, Write(s, p, call))
<1> DEFINE f == s.fd[p][call.fd]
           n == s.filp[f].ino
           to == s.filp[f].pos + call.bytes
           woken == IF s.filp[f].pos = 0 THEN releaseOne(s, n, "READ") ELSE s
           put == [woken EXCEPT !.filp[f].pos = to, !.inode[n].size = Max({@, to})]
           hung == suspend(s, p, call)
           u == Write(s, p, call)
<1>1. call.fd \in Fd /\ call.bytes \in 1 .. PIPE_SIZE /\ PIPE_SIZE \in Nat
  BY PipeAssumption DEF Call
<1>2. u = IF ~find_filp(s, n, "R") THEN s ELSE IF to > PIPE_SIZE THEN hung ELSE put
  BY DEF Write
<1>3. s.filp[f] = FilpOf(s, p, call.fd)
  BY DEF FilpOf
<1>4. woken = (IF s.filp[f].pos = 0 THEN releaseOne(s, n, "READ") ELSE s)
  OBVIOUS
<1>5. f = s.fd[p][call.fd] /\ n = s.filp[f].ino
  OBVIOUS
<1>6. to = s.filp[f].pos + call.bytes
  OBVIOUS
<1> HIDE DEF u, to, n, f
<1>7. /\ f \in Filp /\ s.filp[f].count # 0 /\ n \in Inode /\ s.filp[f].mode = "W"
      /\ s.filp[f].pos \in 0 .. PIPE_SIZE /\ s.inode[n].size \in 0 .. PIPE_SIZE
  <2>1. InUse(s, s.fd[p][call.fd], FilpOf(s, p, call.fd).ino)
    BY <1>1, OpenFacts DEF Orderly
  <2>2. InUse(s, f, n)
    BY <1>3, <1>5, <2>1
  <2> QED BY <1>3, <2>2 DEF InUse
<1>8. s.filp[f].pos = s.inode[n].size
  <2>1. Fits(s.filp[f], s.inode[n].size)
    BY <1>5, <1>7 DEF Positions, Orderly
  <2> QED BY <1>7, <2>1 DEF Fits
<1>9. CASE ~find_filp(s, n, "R")
  <2>1. u = s
    BY <1>2, <1>9
  <2>2. Done(s, p, s)
    BY DEF Done
  <2> QED BY <2>1, <2>2 DEF u
<1>10. CASE find_filp(s, n, "R") /\ to > PIPE_SIZE
  <2>1. u = hung
    BY <1>2, <1>10
  <2>2. s.inode[n].size # 0
    BY <1>1, <1>6, <1>7, <1>8, <1>10
  <2>3. /\ FilpOf(s, p, call.fd).mode = Own(call.fn) /\ FilpOf(s, p, call.fd).ino = n
        /\ find_filp(s, FilpOf(s, p, call.fd).ino, Other(call.fn))
    BY <1>3, <1>5, <1>10 DEF Own, Other
  <2>4. Hung(s, p, call, hung)
    BY <2>3, HungBy
  <2> HIDE DEF hung
  <2>5. ASSUME NEW m \in Inode, Paired(s, m), Lone(u, m)
        PROVE  Paired(u, m)
    <3>1. CASE m = n
      <4>1. Stuck(s) \cap Hanging(s, n, "READ") = {}
        BY <2>2, <2>5, <3>1 DEF Paired, Empty
      <4>2. p \notin Hanging(hung, n, "READ")
        <5>1. At(s, p, call, n, "READ") = {}
          BY DEF At
        <5>2. p \notin Hanging(s, n, "READ")
          BY DEF Hanging
        <5> QED BY <2>4, <5>1, <5>2 DEF Hung
      <4>3. Hanging(hung, n, "READ") = Hanging(s, n, "READ") \cup At(s, p, call, n, "READ")
        BY <2>4 DEF Hung
      <4>4. Stuck(hung) \cap Hanging(hung, n, "READ") = {}
        <5>1. Stuck(hung) = Stuck(s) \cup {p}
          BY <2>4 DEF Hung
        <5>2. At(s, p, call, n, "READ") = {}
          BY DEF At
        <5> QED BY <4>1, <4>2, <4>3, <5>1, <5>2
      <4> QED BY <2>1, <2>5, <3>1, <4>4 DEF Paired, Empty, Meet
    <3>2. CASE m # n
      <4>1. Empty(hung, m) /\ Meet(hung, m)
        BY <2>3, <2>5, <3>2, ElsewhereKeeps DEF hung
      <4> QED BY <2>1, <2>5, <4>1 DEF Paired
    <3> QED BY <3>1, <3>2
  <2>6. Orderly(u) /\ Suspended(u) = Suspended(s) \cup {p} /\ ~u.answered /\ u.fd = s.fd
    BY <2>1, <2>4 DEF Hung
  <2>7. Done(s, p, u)
    BY <2>5, <2>6 DEF Done
  <2> QED BY <2>7 DEF u
<1>11. CASE find_filp(s, n, "R") /\ ~(to > PIPE_SIZE)
  <2>1. u = put
    BY <1>2, <1>11
  <2>2. Woken(s, n, "READ", woken) \/ woken = s
    BY <1>4, WokenFacts
  <2>3. /\ Orderly(woken) /\ Suspended(woken) = Suspended(s) /\ Stuck(woken) \subseteq Stuck(s)
        /\ woken.fd = s.fd /\ woken.filp = s.filp /\ woken.inode = s.inode
        /\ woken.answered = s.answered
        /\ \A m, g : Hanging(woken, m, g) = Hanging(s, m, g)
        /\ \A m : (Empty(s, m) => Empty(woken, m)) /\ (Meet(s, m) => Meet(woken, m))
    BY <2>2 DEF Woken
  <2>4. Paired(s, n) => Stuck(woken) \cap Hanging(woken, n, "READ") = {}
    <3>1. CASE s.filp[f].pos = 0
      <4>1. Woken(s, n, "READ", woken)
        BY <1>4, <3>1, WokenFacts
      <4> QED BY <4>1 DEF Woken, Paired
    <3>2. CASE s.filp[f].pos # 0
      <4>1. woken = s /\ s.inode[n].size # 0
        BY <1>4, <1>8, <3>2
      <4> QED BY <4>1 DEF Paired, Empty
    <3> QED BY <3>1, <3>2
  <2>5. to \in 0 .. PIPE_SIZE /\ s.filp[f].pos < to
    BY <1>1, <1>6, <1>7, <1>11
  <2> HIDE DEF woken
  <2>6. /\ woken.filp[f].count # 0 /\ woken.filp[f].mode = "W" /\ n = woken.filp[f].ino
        /\ woken.filp[f].pos < to
    BY <1>5, <1>7, <2>3, <2>5
  <2>7. Put(woken, n, put)
    BY <1>7, <2>3, <2>5, <2>6, PutKeeps
  <2> HIDE DEF put
  <2>8. SameHung(woken, u) /\ Positions(u)
        /\ \A m \in Inode : m # n => u.inode[m].size = woken.inode[m].size
    BY <2>1, <2>7 DEF Put
  <2>9. /\ Ended(u) /\ AtEnd(u) /\ Revives(u) /\ Peopled(u)
        /\ Suspended(u) = Suspended(woken) /\ Stuck(u) = Stuck(woken)
        /\ \A m, fn : Hanging(u, m, fn) = Hanging(woken, m, fn)
    BY <2>3, <2>8, SameHungKeep
  <2>10. u.susp_count = woken.susp_count /\ u.answered = woken.answered /\ u.fd = woken.fd
    BY <2>8 DEF SameHung, SameEnds
  <2>11. ASSUME NEW m \in Inode, Paired(s, m), Lone(u, m)
         PROVE  Paired(u, m)
    <3>1. CASE m = n
      <4>1. Stuck(u) \cap Hanging(u, n, "READ") = {}
        BY <2>4, <2>9, <2>11, <3>1
      <4> QED BY <2>11, <3>1, <4>1 DEF Paired, Empty, Meet
    <3>2. CASE m # n
      <4>1. Empty(woken, m) /\ Meet(woken, m)
        BY <2>3, <2>11 DEF Paired
      <4>2. Empty(u, m)
        BY <2>8, <2>9, <3>2, <4>1 DEF Empty
      <4>3. Meet(u, m)
        BY <2>9, <2>10, <4>1 DEF Meet
      <4> QED BY <2>11, <4>2, <4>3 DEF Paired
    <3> QED BY <3>1, <3>2
  <2>12. Orderly(u)
    BY <2>8, <2>9 DEF Orderly
  <2>13. Done(s, p, u)
    BY <2>3, <2>9, <2>10, <2>11, <2>12 DEF Done
  <2> QED BY <2>13 DEF u
<1> QED BY <1>9, <1>10, <1>11

\* read_write().
LEMMA ReadWriteKeeps ==
  ASSUME NEW s, Orderly(s), s.answered, NEW p \in Proc, p \notin Suspended(s), NEW call \in Call
  PROVE  Done(s, p, read_write(s, p, call))
<1>1. Done(s, p, s)
  BY DEF Done
<1>2. CASE Open(s, p, call.fd) /\ call.fn = "READ" /\ FilpOf(s, p, call.fd).mode = "R"
  BY <1>2, ReadKeeps DEF read_write
<1>3. CASE Open(s, p, call.fd) /\ call.fn = "WRITE" /\ FilpOf(s, p, call.fd).mode = "W"
  BY <1>3, WriteKeeps DEF read_write
<1>4. CASE /\ ~(Open(s, p, call.fd) /\ call.fn = "READ" /\ FilpOf(s, p, call.fd).mode = "R")
           /\ ~(Open(s, p, call.fd) /\ call.fn = "WRITE" /\ FilpOf(s, p, call.fd).mode = "W")
  BY <1>1, <1>4 DEF read_write
<1> QED BY <1>2, <1>3, <1>4
-----------------------------------------------------------------------------
(* Closing, sharing and opening. *)

\* What changes no call that hangs, nor the end at which it hangs.
SameCalls(s, u) ==
  /\ u \in PipeState
  /\ u.saved = s.saved /\ u.revived = s.revived /\ u.susp_count = s.susp_count
  /\ u.reviving = s.reviving /\ u.answered = s.answered
  /\ \A q \in Suspended(s) :
       /\ Open(u, q, s.saved[q].fd)
       /\ FilpOf(u, q, s.saved[q].fd).ino = FilpOf(s, q, s.saved[q].fd).ino
       /\ FilpOf(u, q, s.saved[q].fd).mode = FilpOf(s, q, s.saved[q].fd).mode

\* It leaves who hangs where.
LEMMA SameCallsKeep ==
  ASSUME NEW s, Orderly(s), NEW u, SameCalls(s, u)
  PROVE  /\ AtEnd(u) /\ Revives(u)
         /\ Suspended(u) = Suspended(s) /\ Stuck(u) = Stuck(s)
         /\ \A n, fn : Hanging(u, n, fn) = Hanging(s, n, fn)
         /\ \A n : /\ Lone(s, n) => Lone(u, n)
                   /\ Meet(s, n) => Meet(u, n)
                   /\ Empty(s, n) /\ u.inode[n].size = s.inode[n].size => Empty(u, n)
<1>1. Suspended(u) = Suspended(s) /\ Stuck(u) = Stuck(s)
  BY DEF SameCalls, Suspended, Stuck
<1>2. AtEnd(u)
  BY <1>1 DEF AtEnd, SameCalls, Orderly
<1>3. Revives(u)
  BY <1>1 DEF Revives, SameCalls, Orderly
<1>4. \A n, fn : Hanging(u, n, fn) = Hanging(s, n, fn)
  BY <1>1 DEF Hanging, SameCalls
<1>5. \A n : Lone(s, n) => Lone(u, n)
  BY <1>4 DEF Lone
<1>6. \A n : Meet(s, n) => Meet(u, n)
  BY <1>1, <1>4 DEF Meet, SameCalls
<1>7. \A n : Empty(s, n) /\ u.inode[n].size = s.inode[n].size => Empty(u, n)
  BY <1>1, <1>4 DEF Empty
<1> QED BY <1>1, <1>2, <1>3, <1>4, <1>5, <1>6, <1>7

\* Other tables of descriptors, slots and i-nodes.
Retabled(s, v, t, i, u) ==
  /\ u \in PipeState /\ u.fd = v /\ u.filp = t /\ u.inode = i
  /\ u.saved = s.saved /\ u.revived = s.revived
  /\ u.susp_count = s.susp_count /\ u.reviving = s.reviving /\ u.answered = s.answered

\* Three tables are replaced.
LEMMA RetabledBy ==
  ASSUME NEW s \in PipeState, NEW v \in [Proc -> [Fd -> Filp \cup {NIL}]],
         NEW t \in [Filp -> Slot], NEW i \in [Inode -> Node]
  PROVE  Retabled(s, v, t, i, [s EXCEPT !.fd = v, !.filp = t, !.inode = i])
BY DEF PipeState, Retabled, Slot, Node

\* A descriptor is given up, its slot is free if it was the last one to refer to it.
LastRef(s, f) == s.filp[f].count = 1
Shut(s, p, d, f, n) ==
  [s EXCEPT !.filp[f] = Fewer(@),
            !.inode[n].count = IF LastRef(s, f) THEN @ - 1 ELSE @,
            !.fd[p][d] = NIL]
ShutAs(s, p, d, f, n, v, t, i) ==
  /\ v = [s.fd EXCEPT ![p][d] = NIL]
  /\ v \in [Proc -> [Fd -> Filp \cup {NIL}]] /\ t \in [Filp -> Slot] /\ i \in [Inode -> Node]
  /\ \A g \in Filp : g # f => t[g] = s.filp[g]
  /\ t[f].count = s.filp[f].count - 1
  /\ ~LastRef(s, f) => t[f].ino = n /\ t[f].mode = s.filp[f].mode /\ t[f].pos = s.filp[f].pos
  /\ \A m \in Inode : i[m].size = s.inode[m].size
  /\ \A m \in Inode : i[m].count =
       IF m = n /\ LastRef(s, f) THEN s.inode[m].count - 1 ELSE s.inode[m].count

\* What giving up a descriptor makes of the tables.
LEMMA ShutTables ==
  ASSUME NEW s, Ended(s), NEW p \in Proc, NEW d \in Fd, Open(s, p, d),
         NEW f, f = s.fd[p][d], NEW n, n = FilpOf(s, p, d).ino
  PROVE  \E v, t, i : ShutAs(s, p, d, f, n, v, t, i) /\ Retabled(s, v, t, i, Shut(s, p, d, f, n))
<1> DEFINE last == LastRef(s, f)
           slot == Fewer(s.filp[f])
           node == [s.inode[n] EXCEPT !.count =
                      IF last THEN s.inode[n].count - 1 ELSE s.inode[n].count]
           v == [s.fd EXCEPT ![p][d] = NIL]
           t == [s.filp EXCEPT ![f] = slot]
           i == [s.inode EXCEPT ![n] = node]
           u == Shut(s, p, d, f, n)
<1>1. /\ s \in PipeState /\ s.filp \in [Filp -> Slot] /\ s.inode \in [Inode -> Node]
      /\ s.fd \in [Proc -> [Fd -> Filp \cup {NIL}]]
  BY TableTypes DEF Ended
<1>2. /\ f \in Filp /\ s.filp[f].count # 0 /\ s.filp[f].count \in Nat /\ n \in Inode
      /\ s.filp[f].ino = n
  <2>1. InUse(s, f, n)
    BY OpenFacts
  <2> QED BY <2>1 DEF InUse, FilpOf
<1>3. s.filp[f] \in Slot /\ s.inode[n] \in Node
  BY <1>1, <1>2
<1>4. s.inode[n].count # 0
  <2>1. IsFiniteSet(Ends(s, n)) /\ s.inode[n].count = Cardinality(Ends(s, n))
    BY <1>2, FiniteParts DEF Ended, UsedEnds
  <2>2. f \in Ends(s, n)
    BY <1>2 DEF Ends
  <2> QED BY <2>1, <2>2, FS_EmptySet
<1>5. FREE \in Slot /\ FREE.count = 0
  BY PipeAssumption DEF FREE, Slot, Inode
<1>6. /\ slot \in Slot /\ slot.count = s.filp[f].count - 1
      /\ ~last => slot.ino = n /\ slot.mode = s.filp[f].mode /\ slot.pos = s.filp[f].pos
  <2>1. CASE last
    BY <1>5, <2>1 DEF LastRef, Fewer
  <2>2. CASE ~last
    BY <1>2, <1>3, <2>2 DEF Slot, LastRef, Fewer
  <2> QED BY <2>1, <2>2
<1>7. /\ node \in Node /\ node.size = s.inode[n].size
      /\ node.count = IF last THEN s.inode[n].count - 1 ELSE s.inode[n].count
  BY <1>3, <1>4 DEF Node
<1>8. u = [s EXCEPT !.filp = t, !.inode = i, !.fd = v]
  BY DEF Shut
<1> HIDE DEF slot, node
<1>9. v \in [Proc -> [Fd -> Filp \cup {NIL}]]
  BY <1>1
<1>10. t \in [Filp -> Slot] /\ t[f] = slot /\ \A g \in Filp : g # f => t[g] = s.filp[g]
  BY <1>1, <1>2, <1>6
<1>11. i \in [Inode -> Node] /\ i[n] = node /\ \A m \in Inode : m # n => i[m] = s.inode[m]
  BY <1>1, <1>2, <1>7
<1>12. v = [s.fd EXCEPT ![p][d] = NIL]
  OBVIOUS
<1> HIDE DEF t, i, v, u
<1>13. ShutAs(s, p, d, f, n, v, t, i)
  BY <1>6, <1>7, <1>9, <1>10, <1>11, <1>12 DEF ShutAs
<1>14. Retabled(s, v, t, i, u)
  <2>1. u = [s EXCEPT !.fd = v, !.filp = t, !.inode = i]
    BY <1>1, <1>8 DEF PipeState
  <2>2. Retabled(s, v, t, i, [s EXCEPT !.fd = v, !.filp = t, !.inode = i])
    BY <1>1, <1>9, <1>10, <1>11, RetabledBy
  <2> QED BY <2>1, <2>2
<1> QED BY <1>13, <1>14 DEF u

\* Counts stay exact.
LEMMA ShutEnded ==
  ASSUME NEW s, Ended(s), NEW p \in Proc, NEW d \in Fd, Open(s, p, d),
         NEW f, f = s.fd[p][d], NEW n, n = FilpOf(s, p, d).ino,
         NEW v, NEW t, NEW i, NEW u, ShutAs(s, p, d, f, n, v, t, i), Retabled(s, v, t, i, u)
  PROVE  Ended(u)
<1>1. /\ f \in Filp /\ s.filp[f].count # 0 /\ s.filp[f].count \in Nat /\ n \in Inode
      /\ s.filp[f].ino = n
  <2>1. InUse(s, f, n)
    BY OpenFacts
  <2> QED BY <2>1 DEF InUse, FilpOf
<1>2. /\ u \in PipeState /\ u.fd = v /\ u.filp = t /\ u.inode = i
  BY DEF Retabled
<1>3. /\ v = [s.fd EXCEPT ![p][d] = NIL]
      /\ \A g \in Filp : g # f => t[g] = s.filp[g]
      /\ t[f].count = s.filp[f].count - 1
      /\ ~LastRef(s, f) => t[f].ino = n /\ t[f].mode = s.filp[f].mode
      /\ \A m \in Inode : i[m].count =
           IF m = n /\ LastRef(s, f) THEN s.inode[m].count - 1 ELSE s.inode[m].count
  BY DEF ShutAs
<1>4. s \in PipeState /\ Counted(s) /\ UsedEnds(s) /\ OnePerEnd(s)
  BY DEF Ended
<1>5. Counted(u)
  <2>1. \A g \in Filp : g # NIL
    BY DEF Filp, NIL
  <2>2. s.fd[p][d] # NIL
    BY DEF Open
  <2>3. \A g \in Filp : g # NIL => Cardinality(Refs(u, g)) =
          IF g = s.fd[p][d] THEN Cardinality(Refs(s, g)) - 1 ELSE Cardinality(Refs(s, g))
    BY <1>2, <1>3, <1>4, <2>2, RefsSet
  <2>4. \A g \in Filp : Cardinality(Refs(u, g)) =
          IF g = f THEN s.filp[g].count - 1 ELSE s.filp[g].count
    BY <1>4, <2>1, <2>3 DEF Counted
  <2> QED BY <1>2, <1>3, <2>4 DEF Counted
<1>6. \A g \in Filp : t[g].count # 0 => /\ s.filp[g].count # 0 /\ t[g].ino = s.filp[g].ino
                                        /\ t[g].mode = s.filp[g].mode
  BY <1>1, <1>3 DEF LastRef
<1>7. OnePerEnd(u)
  BY <1>2, <1>4, <1>6 DEF OnePerEnd
<1>8. UsedEnds(u)
  <2> SUFFICES ASSUME NEW m \in Inode
               PROVE  i[m].count = Cardinality(Ends(u, m))
    BY <1>2 DEF UsedEnds
  <2>1. IsFiniteSet(Ends(s, m)) /\ s.inode[m].count = Cardinality(Ends(s, m))
    BY <1>4, FiniteParts DEF UsedEnds
  <2>2. CASE m = n /\ LastRef(s, f)
    <3>1. t[f].count = 0
      BY <1>3, <2>2 DEF LastRef
    <3>2. f \in Ends(s, m)
      BY <1>1, <2>2 DEF Ends
    <3>3. Ends(u, m) = Ends(s, m) \ {f}
      BY <1>2, <1>3, <3>1 DEF Ends
    <3>4. Cardinality(Ends(s, m) \ {f}) = Cardinality(Ends(s, m)) - 1
      BY <2>1, <3>2, FS_RemoveElement
    <3> QED BY <1>3, <2>1, <2>2, <3>3, <3>4
  <2>3. CASE ~(m = n /\ LastRef(s, f))
    <3>1. f \in Ends(u, m) <=> f \in Ends(s, m)
      <4>1. CASE LastRef(s, f)
        <5>1. t[f].count = 0 /\ m # n
          BY <1>3, <2>3, <4>1 DEF LastRef
        <5> QED BY <1>1, <1>2, <5>1 DEF Ends
      <4>2. CASE ~LastRef(s, f)
        <5>1. t[f].count # 0 /\ t[f].ino = n
          BY <1>1, <1>3, <4>2 DEF LastRef
        <5> QED BY <1>1, <1>2, <5>1 DEF Ends
      <4> QED BY <4>1, <4>2
    <3>2. Ends(u, m) = Ends(s, m)
      BY <1>2, <1>3, <3>1 DEF Ends
    <3>3. i[m].count = s.inode[m].count
      BY <1>3, <2>3
    <3> QED BY <2>1, <3>2, <3>3
  <2> QED BY <2>2, <2>3
<1> QED BY <1>2, <1>5, <1>7, <1>8 DEF Ended

\* What a call of p that always has an answer leaves.
Served(s, p, u) ==
  /\ Orderly(u) /\ Suspended(u) = Suspended(s) /\ u.answered = s.answered
  /\ \A q \in Proc \ {p} : u.fd[q] = s.fd[q]
  /\ \A m \in Inode : Paired(s, m) => Paired(u, m)

\* Giving up a descriptor of an end for which nobody hangs.
Fn(mode) == IF mode = "R" THEN "WRITE" ELSE "READ"

\* Nobody loses by it: who hangs at the pipe hangs for the other end.
LEMMA ShutKeeps ==
  ASSUME NEW s, Orderly(s), NEW p \in Proc, p \notin Suspended(s), NEW d \in Fd, Open(s, p, d),
         Stuck(s) \cap Hanging(s, FilpOf(s, p, d).ino, Fn(FilpOf(s, p, d).mode)) = {}
  PROVE  /\ Served(s, p, Shut(s, p, d, s.fd[p][d], FilpOf(s, p, d).ino))
         /\ Shut(s, p, d, s.fd[p][d], FilpOf(s, p, d).ino).fd = [s.fd EXCEPT ![p][d] = NIL]
<1> SUFFICES ASSUME NEW f, f = s.fd[p][d], NEW n, n = FilpOf(s, p, d).ino,
                    NEW u, u = Shut(s, p, d, f, n)
             PROVE  Served(s, p, u) /\ u.fd = [s.fd EXCEPT ![p][d] = NIL]
  OBVIOUS
<1>0. Stuck(s) \cap Hanging(s, n, Fn(s.filp[f].mode)) = {}
  BY DEF FilpOf
<1>1. PICK v, t, i : ShutAs(s, p, d, f, n, v, t, i) /\ Retabled(s, v, t, i, u)
  <2>1. Ended(s)
    BY DEF Orderly
  <2> QED BY <2>1, ShutTables
<1>2. Ended(u)
  BY <1>1, ShutEnded DEF Orderly
<1>3. /\ f \in Filp /\ s.filp[f].count # 0 /\ s.filp[f].count \in Nat /\ n \in Inode
      /\ s.filp[f].ino = n /\ s.filp[f].mode \in {"R", "W"}
  <2>1. InUse(s, f, n)
    BY OpenFacts DEF Orderly
  <2> QED BY <2>1 DEF InUse, FilpOf
<1>4. /\ u \in PipeState /\ u.fd = v /\ u.filp = t /\ u.inode = i
      /\ u.saved = s.saved /\ u.revived = s.revived
      /\ u.susp_count = s.susp_count /\ u.reviving = s.reviving /\ u.answered = s.answered
  BY <1>1 DEF Retabled
<1>5. /\ v = [s.fd EXCEPT ![p][d] = NIL] /\ v \in [Proc -> [Fd -> Filp \cup {NIL}]]
      /\ \A g \in Filp : g # f => t[g] = s.filp[g]
      /\ t[f].count = s.filp[f].count - 1
      /\ ~LastRef(s, f) => /\ t[f].ino = n /\ t[f].mode = s.filp[f].mode
                           /\ t[f].pos = s.filp[f].pos
      /\ \A m \in Inode : i[m].size = s.inode[m].size
  BY <1>1 DEF ShutAs
<1>6. /\ s \in PipeState /\ AtEnd(s) /\ Ended(s) /\ Positions(s) /\ Peopled(s)
      /\ s.fd \in [Proc -> [Fd -> Filp \cup {NIL}]]
  BY TableTypes DEF Orderly, Ended
<1>7. \A g \in Filp : t[g].count # 0 => /\ s.filp[g].count # 0 /\ t[g].ino = s.filp[g].ino
                                        /\ t[g].mode = s.filp[g].mode /\ t[g].pos = s.filp[g].pos
  BY <1>3, <1>5 DEF LastRef
<1>8. \A q \in Proc, c \in Fd : q # p => v[q][c] = s.fd[q][c]
  BY <1>5, <1>6
<1>9. SameCalls(s, u)
  <2> SUFFICES ASSUME NEW q \in Suspended(s), NEW c, c = s.saved[q].fd
               PROVE  /\ Open(u, q, c)
                      /\ FilpOf(u, q, c).ino = FilpOf(s, q, c).ino
                      /\ FilpOf(u, q, c).mode = FilpOf(s, q, c).mode
    BY <1>4 DEF SameCalls
  <2>1. q \in Proc /\ c \in Fd /\ q # p /\ Open(s, q, c) /\ s.fd[q][c] \in Filp
    BY <1>6, HungFacts
  <2>2. u.fd[q][c] = s.fd[q][c] /\ u.fd[q][c] \in Filp
    BY <1>4, <1>8, <2>1
  <2>3. u.filp[u.fd[q][c]].count # 0
    BY <1>2, <2>1, <2>2, CountMeansRef
  <2> DEFINE g == s.fd[q][c]
  <2>4. u.filp[g].count # 0 /\ g \in Filp
    BY <2>1, <2>2, <2>3
  <2>5. FilpOf(u, q, c) = t[g] /\ FilpOf(s, q, c) = s.filp[g]
    BY <1>4, <2>2 DEF FilpOf
  <2>6. Open(u, q, c)
    BY <2>1, <2>2 DEF Open
  <2> HIDE DEF g
  <2>7. t[g].ino = s.filp[g].ino /\ t[g].mode = s.filp[g].mode
    BY <1>4, <1>7, <2>4
  <2> QED BY <2>5, <2>6, <2>7
<1>10. /\ AtEnd(u) /\ Revives(u)
       /\ Suspended(u) = Suspended(s) /\ Stuck(u) = Stuck(s)
       /\ \A m, fn : Hanging(u, m, fn) = Hanging(s, m, fn)
       /\ \A m : /\ Lone(s, m) => Lone(u, m)
                 /\ Meet(s, m) => Meet(u, m)
                 /\ Empty(s, m) /\ u.inode[m].size = s.inode[m].size => Empty(u, m)
  BY <1>9, SameCallsKeep
<1>11. Positions(u)
  <2> SUFFICES ASSUME NEW g \in Filp, t[g].count # 0
               PROVE  Fits(t[g], i[t[g].ino].size)
    BY <1>4 DEF Positions
  <2>1. s.filp[g].ino \in Inode
    BY <1>6, TableTypes DEF Slot
  <2>2. Fits(s.filp[g], s.inode[s.filp[g].ino].size)
    BY <1>6, <1>7 DEF Positions
  <2> QED BY <1>5, <1>7, <2>1, <2>2 DEF Fits
<1>12. Peopled(u)
  <2> SUFFICES ASSUME NEW q \in Stuck(s)
               PROVE  find_filp(u, FilpOf(u, q, u.saved[q].fd).ino, Other(u.saved[q].fn))
    BY <1>10 DEF Peopled
  <2>1. q \in Suspended(s)
    BY DEF Stuck
  <2> DEFINE m == FilpOf(s, q, s.saved[q].fd).ino
             fn == s.saved[q].fn
  <2>2. FilpOf(u, q, u.saved[q].fd).ino = m /\ u.saved[q].fn = fn
    BY <1>9, <2>1 DEF SameCalls
  <2>3. find_filp(s, m, Other(fn))
    BY <1>6 DEF Peopled
  <2>4. fn \in {"READ", "WRITE"}
    BY <1>6, <2>1, HungFacts
  <2>5. q \in Hanging(s, m, fn)
    BY <2>1 DEF Hanging
  <2> HIDE DEF m, fn
  <2>6. PICK g \in Filp : s.filp[g].count # 0 /\ s.filp[g].ino = m /\ s.filp[g].mode = Other(fn)
    BY <2>3 DEF find_filp
  <2>7. CASE g # f \/ ~LastRef(s, f)
    <3>1. t[g].count # 0 /\ t[g].ino = m /\ t[g].mode = Other(fn)
      <4>1. CASE g # f
        <5>1. t[g] = s.filp[g]
          BY <1>5, <4>1
        <5> QED BY <2>6, <5>1
      <4>2. CASE g = f
        <5>1. ~LastRef(s, f)
          BY <2>7, <4>2
        <5>2. t[f].ino = s.filp[f].ino /\ t[f].mode = s.filp[f].mode
          BY <1>3, <1>5, <5>1
        <5>3. s.filp[f].count # 1
          BY <5>1 DEF LastRef
        <5>4. t[f].count # 0
          BY <1>3, <1>5, <5>3
        <5> QED BY <2>6, <4>2, <5>2, <5>4
      <4> QED BY <4>1, <4>2
    <3>2. find_filp(u, m, Other(fn))
      BY <1>4, <3>1 DEF find_filp
    <3> QED BY <2>2, <3>2
  <2>8. CASE g = f /\ LastRef(s, f)
    <3>1. m = n /\ fn = Fn(s.filp[f].mode)
      BY <1>3, <2>4, <2>6, <2>8 DEF Fn, Other
    <3> QED BY <1>0, <2>5, <3>1
  <2> QED BY <2>7, <2>8
<1>13. \A m \in Inode : Paired(s, m) => Paired(u, m)
  BY <1>4, <1>5, <1>10 DEF Paired
<1>14. Orderly(u)
  BY <1>2, <1>10, <1>11, <1>12 DEF Orderly
<1>15. \A q \in Proc \ {p} : u.fd[q] = s.fd[q]
  BY <1>4, <1>5, <1>6
<1> QED BY <1>4, <1>5, <1>10, <1>13, <1>14, <1>15 DEF Served

\* One such call after the other.
LEMMA ServedTwice ==
  ASSUME NEW s, NEW p, NEW r, NEW u, Served(s, p, r), Served(r, p, u)
  PROVE  Served(s, p, u)
BY DEF Served

\* do_close(): those at the other end are released first.
LEMMA CloseKeeps ==
  ASSUME NEW s, Orderly(s), NEW p \in Proc, p \notin Suspended(s), NEW d \in Fd
  PROVE  /\ Served(s, p, do_close(s, p, d))
         /\ do_close(s, p, d).fd = IF Open(s, p, d) THEN [s.fd EXCEPT ![p][d] = NIL] ELSE s.fd
<1>1. CASE ~Open(s, p, d)
  <2>1. do_close(s, p, d) = s
    BY <1>1 DEF do_close
  <2>2. Served(s, p, s)
    BY DEF Served
  <2> QED BY <1>1, <2>1, <2>2
<1>2. CASE Open(s, p, d)
  <2> DEFINE f == s.fd[p][d]
             n == FilpOf(s, p, d).ino
             fn == IF FilpOf(s, p, d).mode = "R" THEN "WRITE" ELSE "READ"
             who == Hanging(s, n, fn)
             r == releaseAll(s, n, fn)
             u == do_close(s, p, d)
  <2>1. who \subseteq Suspended(s) /\ r = Released(s, who)
    BY DEF Hanging, releaseAll
  <2>2. fn = Fn(s.filp[f].mode)
    BY DEF Fn, FilpOf
  <2>3. u = [r EXCEPT !.filp[f] = Fewer(@),
                      !.inode[n].count = IF FilpOf(s, p, d).count = 1 THEN @ - 1 ELSE @,
                      !.fd[p][d] = NIL]
    BY <1>2 DEF do_close
  <2>4. f = s.fd[p][d] /\ n = FilpOf(s, p, d).ino
    OBVIOUS
  <2> HIDE DEF r, u, f, n, fn
  <2>5. /\ Orderly(r) /\ Suspended(r) = Suspended(s) /\ Stuck(r) = Stuck(s) \ who
        /\ r.fd = s.fd /\ r.filp = s.filp /\ r.inode = s.inode /\ r.saved = s.saved
        /\ r.answered = s.answered
        /\ \A m, g : Hanging(r, m, g) = Hanging(s, m, g)
        /\ \A m : (Lone(s, m) => Lone(r, m)) /\ (Empty(s, m) => Empty(r, m))
                  /\ (Meet(s, m) => Meet(r, m))
    BY <2>1, ReleasedKeeps
  <2>6. FilpOf(r, p, d) = FilpOf(s, p, d) /\ Open(r, p, d)
        /\ (FilpOf(s, p, d).count = 1 <=> LastRef(r, f))
    BY <1>2, <2>4, <2>5 DEF FilpOf, Open, LastRef
  <2>7. u = Shut(r, p, d, f, n)
    BY <2>3, <2>6 DEF Shut
  <2>8. Stuck(r) \cap Hanging(r, FilpOf(r, p, d).ino, Fn(FilpOf(r, p, d).mode)) = {}
    BY <2>2, <2>4, <2>5, <2>6 DEF FilpOf
  <2>9. f = r.fd[p][d] /\ n = FilpOf(r, p, d).ino /\ p \notin Suspended(r)
    BY <2>4, <2>5, <2>6
  <2>10. Served(r, p, u) /\ u.fd = [r.fd EXCEPT ![p][d] = NIL]
    <3>1. /\ Served(r, p, Shut(r, p, d, r.fd[p][d], FilpOf(r, p, d).ino))
          /\ Shut(r, p, d, r.fd[p][d], FilpOf(r, p, d).ino).fd = [r.fd EXCEPT ![p][d] = NIL]
      BY <2>5, <2>6, <2>8, <2>9, ShutKeeps
    <3> QED BY <2>7, <2>9, <3>1
  <2>11. \A q \in Proc \ {p} : u.fd[q] = s.fd[q]
    <3>1. s.fd \in [Proc -> [Fd -> Filp \cup {NIL}]]
      BY TableTypes DEF Orderly, Ended
    <3> QED BY <2>5, <2>10, <3>1
  <2>12. \A m \in Inode : Paired(s, m) => Paired(u, m)
    BY <2>5, <2>10 DEF Paired, Served
  <2>13. Served(s, p, u)
    BY <2>5, <2>10, <2>11, <2>12 DEF Served
  <2> QED BY <1>2, <2>5, <2>10, <2>13 DEF u
<1> QED BY <1>1, <1>2

\* Slots that are in use get more references; those who hang have the same as before.
Referred(s, u) ==
  /\ u \in PipeState /\ u.inode = s.inode
  /\ u.saved = s.saved /\ u.revived = s.revived
  /\ u.susp_count = s.susp_count /\ u.reviving = s.reviving /\ u.answered = s.answered
  /\ \A g \in Filp : /\ u.filp[g].count # 0 <=> s.filp[g].count # 0
                     /\ u.filp[g].ino = s.filp[g].ino /\ u.filp[g].mode = s.filp[g].mode
                     /\ u.filp[g].pos = s.filp[g].pos
  /\ \A q \in Suspended(s) : u.fd[q] = s.fd[q]

\* It keeps everything, if the counts are right again.
LEMMA ReferredKeeps ==
  ASSUME NEW s, Orderly(s), NEW u, Referred(s, u), Counted(u)
  PROVE  /\ Orderly(u) /\ Suspended(u) = Suspended(s) /\ u.answered = s.answered
         /\ \A m \in Inode : Paired(s, m) => Paired(u, m)
<1>1. /\ s \in PipeState /\ UsedEnds(s) /\ OnePerEnd(s) /\ AtEnd(s) /\ Positions(s) /\ Peopled(s)
  BY DEF Orderly, Ended
<1>2. /\ u \in PipeState /\ u.inode = s.inode
      /\ u.saved = s.saved /\ u.revived = s.revived
      /\ u.susp_count = s.susp_count /\ u.reviving = s.reviving /\ u.answered = s.answered
      /\ \A g \in Filp : /\ u.filp[g].count # 0 <=> s.filp[g].count # 0
                         /\ u.filp[g].ino = s.filp[g].ino /\ u.filp[g].mode = s.filp[g].mode
                         /\ u.filp[g].pos = s.filp[g].pos
      /\ \A q \in Suspended(s) : u.fd[q] = s.fd[q]
  BY DEF Referred
<1>3. \A m : Ends(u, m) = Ends(s, m)
  BY <1>2 DEF Ends
<1>4. UsedEnds(u)
  BY <1>1, <1>2, <1>3 DEF UsedEnds
<1>5. OnePerEnd(u)
  BY <1>1, <1>2 DEF OnePerEnd
<1>6. SameCalls(s, u)
  <2> SUFFICES ASSUME NEW q \in Suspended(s), NEW c, c = s.saved[q].fd
               PROVE  /\ Open(u, q, c)
                      /\ FilpOf(u, q, c).ino = FilpOf(s, q, c).ino
                      /\ FilpOf(u, q, c).mode = FilpOf(s, q, c).mode
    BY <1>2 DEF SameCalls
  <2>1. Open(s, q, c) /\ s.fd[q][c] \in Filp
    BY <1>1, HungFacts
  <2> QED BY <1>2, <2>1 DEF Open, FilpOf
<1>7. /\ AtEnd(u) /\ Revives(u)
      /\ Suspended(u) = Suspended(s) /\ Stuck(u) = Stuck(s)
      /\ \A m, fn : Hanging(u, m, fn) = Hanging(s, m, fn)
      /\ \A m : /\ Lone(s, m) => Lone(u, m)
                /\ Meet(s, m) => Meet(u, m)
                /\ Empty(s, m) /\ u.inode[m].size = s.inode[m].size => Empty(u, m)
  BY <1>6, SameCallsKeep
<1>8. Positions(u)
  <2> SUFFICES ASSUME NEW g \in Filp, u.filp[g].count # 0
               PROVE  Fits(u.filp[g], u.inode[u.filp[g].ino].size)
    BY DEF Positions
  <2>1. Fits(s.filp[g], s.inode[s.filp[g].ino].size)
    BY <1>1, <1>2 DEF Positions
  <2> QED BY <1>2, <2>1 DEF Fits
<1>9. \A m, mode : find_filp(u, m, mode) <=> find_filp(s, m, mode)
  BY <1>2 DEF find_filp
<1>10. Peopled(u)
  BY <1>1, <1>6, <1>7, <1>9 DEF Peopled, SameCalls, Stuck
<1>11. Orderly(u)
  BY <1>2, <1>4, <1>5, <1>7, <1>8, <1>10 DEF Orderly, Ended
<1> QED BY <1>2, <1>7, <1>11 DEF Paired

\* A descriptor that is not in use comes to refer to a slot that is: dup(), dup2().
LEMMA SharedKeeps ==
  ASSUME NEW s, Orderly(s), NEW p \in Proc, p \notin Suspended(s), NEW d \in Fd, Open(s, p, d),
         NEW e \in Fd, ~Open(s, p, e)
  PROVE  Served(s, p, Shared(s, p, d, e))
<1> DEFINE f == s.fd[p][d]
           slot == More(s.filp[f], 1)
           v == [s.fd EXCEPT ![p][e] = f]
           t == [s.filp EXCEPT ![f] = slot]
           u == Shared(s, p, d, e)
<1>1. /\ s \in PipeState /\ s.filp \in [Filp -> Slot] /\ s.inode \in [Inode -> Node]
      /\ s.fd \in [Proc -> [Fd -> Filp \cup {NIL}]]
      /\ Counted(s) /\ UsedEnds(s) /\ OnePerEnd(s) /\ AtEnd(s) /\ Ended(s) /\ Positions(s) /\ Peopled(s)
  BY TableTypes DEF Orderly, Ended
<1>2. /\ f \in Filp /\ s.filp[f].count # 0 /\ s.filp[f].count \in Nat
  <2>1. InUse(s, s.fd[p][d], FilpOf(s, p, d).ino)
    BY OpenFacts DEF Orderly
  <2> QED BY <2>1 DEF InUse
<1>3. s.fd[p][e] = NIL /\ f # NIL
  BY DEF Open
<1>4. u = [s EXCEPT !.fd = v, !.filp = t, !.inode = s.inode]
  <2>1. u = [s EXCEPT !.fd = v, !.filp = t]
    BY DEF Shared
  <2> HIDE DEF v, t
  <2> QED BY <1>1, <2>1 DEF PipeState
<1> HIDE DEF f
<1>5. /\ slot \in Slot /\ slot.count = s.filp[f].count + 1 /\ slot.ino = s.filp[f].ino
      /\ slot.mode = s.filp[f].mode /\ slot.pos = s.filp[f].pos
  <2>1. s.filp[f] \in Slot
    BY <1>1, <1>2
  <2> QED BY <2>1 DEF Slot, More
<1> HIDE DEF slot
<1>6. /\ t \in [Filp -> Slot]
      /\ \A g \in Filp : /\ t[g].count = IF g = f THEN s.filp[g].count + 1 ELSE s.filp[g].count
                         /\ t[g].ino = s.filp[g].ino
                         /\ t[g].mode = s.filp[g].mode /\ t[g].pos = s.filp[g].pos
  BY <1>1, <1>2, <1>5
<1>7. v \in [Proc -> [Fd -> Filp \cup {NIL}]] /\ v = [s.fd EXCEPT ![p][e] = f]
  BY <1>1, <1>2
<1>8. \A q \in Proc, c \in Fd : v[q][c] = IF q = p /\ c = e THEN f ELSE s.fd[q][c]
  BY <1>1
<1> HIDE DEF t, v
<1>9. /\ u \in PipeState /\ u.fd = v /\ u.filp = t /\ u.inode = s.inode
      /\ u.saved = s.saved /\ u.revived = s.revived
      /\ u.susp_count = s.susp_count /\ u.reviving = s.reviving /\ u.answered = s.answered
  <2>1. Retabled(s, v, t, s.inode, [s EXCEPT !.fd = v, !.filp = t, !.inode = s.inode])
    BY <1>1, <1>6, <1>7, RetabledBy
  <2>2. Retabled(s, v, t, s.inode, u)
    BY <1>4, <2>1
  <2> QED BY <2>2 DEF Retabled
<1> HIDE DEF u
<1>10. \A g \in Filp : t[g].count # 0 <=> s.filp[g].count # 0
  BY <1>2, <1>6
<1>11. Counted(u)
  <2>1. f \in Filp \cup {NIL} /\ s.fd[p][e] # f /\ \A g \in Filp : g # NIL
    BY <1>2, <1>3 DEF Filp, NIL
  <2>2. /\ f # NIL => Cardinality(Refs(u, f)) = Cardinality(Refs(s, f)) + 1
        /\ \A g \in Filp : g # f => Cardinality(Refs(u, g)) =
             IF g = s.fd[p][e] THEN Cardinality(Refs(s, g)) - 1 ELSE Cardinality(Refs(s, g))
    BY <1>1, <1>7, <1>9, <2>1, RefsSet
  <2>3. \A g \in Filp : Cardinality(Refs(u, g)) =
          IF g = f THEN s.filp[g].count + 1 ELSE s.filp[g].count
    BY <1>1, <1>3, <2>1, <2>2 DEF Counted
  <2> QED BY <1>6, <1>9, <2>3 DEF Counted
<1>12. \A q \in Proc \ {p} : u.fd[q] = s.fd[q]
  BY <1>1, <1>7, <1>9
<1>13. Referred(s, u)
  <2>1. \A q \in Suspended(s) : u.fd[q] = s.fd[q]
    BY <1>12 DEF Suspended
  <2> QED BY <1>6, <1>9, <1>10, <2>1 DEF Referred
<1>14. Served(s, p, u)
  BY <1>11, <1>12, <1>13, ReferredKeeps DEF Served
<1> QED BY <1>14 DEF u

\* The first free descriptor, and the first free slot.
LEMMA FirstFree ==
  ASSUME NEW s, NEW p
  PROVE  /\ FreeFds(s, p) # {} => Min(FreeFds(s, p)) \in Fd /\ ~Open(s, p, Min(FreeFds(s, p)))
         /\ FreeFilps(s) # {} =>
              Min(FreeFilps(s)) \in Filp /\ s.filp[Min(FreeFilps(s))].count = 0
<1>1. FreeFds(s, p) \in SUBSET Nat /\ FreeFilps(s) \in SUBSET Nat
  BY PipeAssumption DEF FreeFds, FreeFilps, Fd, Filp
<1>2. FreeFds(s, p) # {} => Min(FreeFds(s, p)) \in FreeFds(s, p)
  BY <1>1, FirstOne
<1>3. FreeFilps(s) # {} => Min(FreeFilps(s)) \in FreeFilps(s)
  BY <1>1, FirstOne
<1>4. \A d \in FreeFds(s, p) : d \in Fd /\ ~Open(s, p, d)
  BY DEF FreeFds
<1>5. \A f \in FreeFilps(s) : f \in Filp /\ s.filp[f].count = 0
  BY DEF FreeFilps
<1> QED BY <1>2, <1>3, <1>4, <1>5

\* dup() and dup2().
LEMMA DupKeeps ==
  ASSUME NEW s, Orderly(s), NEW p \in Proc, p \notin Suspended(s), NEW d \in Fd, Open(s, p, d)
  PROVE  Served(s, p, dup(s, p, d)) /\ \A e \in Fd : Served(s, p, dup2(s, p, d, e))
<1>1. Served(s, p, s)
  BY DEF Served
<1>2. Served(s, p, dup(s, p, d))
  <2>1. CASE get_fd(s, p)
    <3>1. Min(FreeFds(s, p)) \in Fd /\ ~Open(s, p, Min(FreeFds(s, p)))
      BY <2>1, FirstFree DEF get_fd
    <3>2. Served(s, p, Shared(s, p, d, Min(FreeFds(s, p))))
      BY <3>1, SharedKeeps
    <3> QED BY <2>1, <3>2 DEF dup
  <2>2. CASE ~get_fd(s, p)
    BY <1>1, <2>2 DEF dup
  <2> QED BY <2>1, <2>2
<1>3. ASSUME NEW e \in Fd
      PROVE  Served(s, p, dup2(s, p, d, e))
  <2>1. CASE d = e
    BY <1>1, <2>1 DEF dup2
  <2>2. CASE d # e
    <3> DEFINE r == do_close(s, p, e)
               u == Shared(r, p, d, e)
    <3>1. Served(s, p, r) /\ r.fd = IF Open(s, p, e) THEN [s.fd EXCEPT ![p][e] = NIL] ELSE s.fd
      BY CloseKeeps
    <3> HIDE DEF r
    <3>2. s.fd \in [Proc -> [Fd -> Filp \cup {NIL}]]
      BY TableTypes DEF Orderly, Ended
    <3>3. Open(r, p, d) /\ ~Open(r, p, e)
      BY <2>2, <3>1, <3>2 DEF Open
    <3>4. Orderly(r) /\ p \notin Suspended(r)
      BY <3>1 DEF Served
    <3>5. Served(r, p, u)
      BY <3>3, <3>4, SharedKeeps
    <3>6. Served(s, p, u)
      BY <3>1, <3>5, ServedTwice
    <3> QED BY <2>2, <3>6 DEF dup2, r
  <2> QED BY <2>1, <2>2
<1> QED BY <1>2, <1>3

\* One end of pipe n is opened: a free descriptor refers to a free slot.
Opens(s, p, d, f, mode, n, u) ==
  /\ d \in Fd /\ ~Open(s, p, d) /\ f \in Filp /\ s.filp[f].count = 0
  /\ u \in PipeState /\ u.fd = [s.fd EXCEPT ![p][d] = f]
  /\ \A g \in Filp : g # f => u.filp[g] = s.filp[g]
  /\ u.filp[f].count = 1 /\ u.filp[f].mode = mode /\ u.filp[f].ino = n /\ u.filp[f].pos = 0
  /\ u.inode = s.inode /\ u.saved = s.saved /\ u.revived = s.revived
  /\ u.susp_count = s.susp_count /\ u.reviving = s.reviving /\ u.answered = s.answered

\* What opening an end makes of the tables.
LEMMA OpenedBy ==
  ASSUME NEW s \in PipeState, NEW p \in Proc, get_fd(s, p), NEW mode \in {"R", "W"},
         NEW n \in Inode
  PROVE  \E d, f : Opens(s, p, d, f, mode, n, Opened(s, p, mode, n))
<1> DEFINE d == Min(FreeFds(s, p))
           f == Min(FreeFilps(s))
           slot == [count |-> 1, mode |-> mode, ino |-> n, pos |-> 0]
           v == [s.fd EXCEPT ![p][d] = f]
           t == [s.filp EXCEPT ![f] = slot]
           u == Opened(s, p, mode, n)
<1>1. d \in Fd /\ ~Open(s, p, d) /\ f \in Filp /\ s.filp[f].count = 0
  BY FirstFree DEF get_fd
<1>2. u = [s EXCEPT !.fd = v, !.filp = t]
  BY DEF Opened
<1>3. /\ s.filp \in [Filp -> Slot] /\ s.inode \in [Inode -> Node]
      /\ s.fd \in [Proc -> [Fd -> Filp \cup {NIL}]]
  BY TableTypes
<1>4. slot \in Slot /\ slot.count = 1 /\ slot.mode = mode /\ slot.ino = n /\ slot.pos = 0
  BY PipeAssumption DEF Slot
<1> HIDE DEF d, f, slot
<1>5. v \in [Proc -> [Fd -> Filp \cup {NIL}]] /\ v = [s.fd EXCEPT ![p][d] = f]
  BY <1>1, <1>3
<1>6. t \in [Filp -> Slot] /\ t[f] = slot /\ \A g \in Filp : g # f => t[g] = s.filp[g]
  BY <1>1, <1>3, <1>4
<1> HIDE DEF v, t, u
<1>7. Retabled(s, v, t, s.inode, u)
  <2>1. u = [s EXCEPT !.fd = v, !.filp = t, !.inode = s.inode]
    BY <1>2, <1>3 DEF PipeState
  <2>2. Retabled(s, v, t, s.inode, [s EXCEPT !.fd = v, !.filp = t, !.inode = s.inode])
    BY <1>3, <1>5, <1>6, RetabledBy
  <2> QED BY <2>1, <2>2
<1>8. Opens(s, p, d, f, mode, n, u)
  BY <1>1, <1>4, <1>5, <1>6, <1>7 DEF Opens, Retabled
<1> QED BY <1>8 DEF u

\* It keeps the counts of the slots exact.
LEMMA OpensCounted ==
  ASSUME NEW s \in PipeState, Counted(s), NEW p \in Proc, NEW d, NEW f, NEW mode, NEW n, NEW u,
         Opens(s, p, d, f, mode, n, u)
  PROVE  Counted(u)
<1>1. /\ d \in Fd /\ f \in Filp /\ s.filp[f].count = 0 /\ s.fd[p][d] = NIL
      /\ u \in PipeState /\ u.fd = [s.fd EXCEPT ![p][d] = f]
      /\ \A g \in Filp : g # f => u.filp[g] = s.filp[g]
      /\ u.filp[f].count = 1
  BY DEF Opens, Open
<1>2. \A g \in Filp : g # NIL
  BY DEF Filp, NIL
<1>3. f \in Filp \cup {NIL} /\ s.fd[p][d] # f
  BY <1>1, <1>2
<1>4. /\ f # NIL => Cardinality(Refs(u, f)) = Cardinality(Refs(s, f)) + 1
      /\ \A g \in Filp : g # f => Cardinality(Refs(u, g)) =
           IF g = s.fd[p][d] THEN Cardinality(Refs(s, g)) - 1 ELSE Cardinality(Refs(s, g))
  BY <1>1, <1>3, RefsSet
<1>5. \A g \in Filp : u.filp[g].count = Cardinality(Refs(u, g))
  BY <1>1, <1>2, <1>4 DEF Counted
<1> QED BY <1>5 DEF Counted

\* do_pipe().
LEMMA PipeKeeps ==
  ASSUME NEW s, Orderly(s), NEW p \in Proc, p \notin Suspended(s)
  PROVE  Served(s, p, do_pipe(s, p))
<1>1. Served(s, p, s)
  BY DEF Served
<1> DEFINE n == Min({i \in Inode : s.inode[i].count = 0})
           r == Opened(s, p, "R", n)
           w == Opened(r, p, "W", n)
           u == [w EXCEPT !.inode[n] = [count |-> 2, size |-> 0]]
<1>2. CASE ~get_fd(s, p) \/ \A m \in Inode : s.inode[m].count # 0
  BY <1>1, <1>2 DEF do_pipe
<1>3. CASE ~(~get_fd(s, p) \/ \A m \in Inode : s.inode[m].count # 0) /\ ~get_fd(r, p)
  BY <1>1, <1>3 DEF do_pipe
<1>4. CASE ~(~get_fd(s, p) \/ \A m \in Inode : s.inode[m].count # 0) /\ get_fd(r, p)
  <2>1. do_pipe(s, p) = u
    BY <1>4 DEF do_pipe
  <2>2. n \in Inode /\ s.inode[n].count = 0
    <3> DEFINE S == {i \in Inode : s.inode[i].count = 0}
    <3>1. S \in SUBSET Nat /\ S # {}
      BY <1>4, PipeAssumption DEF Inode
    <3>2. n \in S
      BY <3>1, FirstOne
    <3> QED BY <3>2
  <2> HIDE DEF n
  <2>3. /\ s \in PipeState /\ Counted(s) /\ UsedEnds(s) /\ OnePerEnd(s)
        /\ AtEnd(s) /\ Positions(s) /\ Peopled(s)
    BY DEF Orderly, Ended
  <2>4. PICK d1, f1 : Opens(s, p, d1, f1, "R", n, r)
    BY <1>4, <2>2, <2>3, OpenedBy
  <2> HIDE DEF r
  <2>5. r \in PipeState /\ Counted(r)
    <3>1. Counted(r)
      BY <2>3, <2>4, OpensCounted
    <3> QED BY <2>4, <3>1 DEF Opens
  <2>6. PICK d2, f2 : Opens(r, p, d2, f2, "W", n, w)
    BY <1>4, <2>2, <2>5, OpenedBy
  <2>7. u = [w EXCEPT !.inode = [w.inode EXCEPT ![n] = [count |-> 2, size |-> 0]]]
    OBVIOUS
  <2> HIDE DEF w, u
  <2>8. w \in PipeState /\ Counted(w)
    <3>1. Counted(w)
      BY <2>5, <2>6, OpensCounted
    <3> QED BY <2>6, <3>1 DEF Opens
  <2>9. /\ f1 \in Filp /\ f2 \in Filp /\ f1 # f2 /\ d1 \in Fd /\ d2 \in Fd
        /\ s.filp[f1].count = 0 /\ s.filp[f2].count = 0
        /\ w.fd = [[s.fd EXCEPT ![p][d1] = f1] EXCEPT ![p][d2] = f2]
        /\ \A g \in Filp : g # f1 /\ g # f2 => w.filp[g] = s.filp[g]
        /\ w.filp[f1].count = 1 /\ w.filp[f1].mode = "R" /\ w.filp[f1].ino = n
        /\ w.filp[f1].pos = 0
        /\ w.filp[f2].count = 1 /\ w.filp[f2].mode = "W" /\ w.filp[f2].ino = n
        /\ w.filp[f2].pos = 0
        /\ w.inode = s.inode /\ w.saved = s.saved /\ w.revived = s.revived
        /\ w.susp_count = s.susp_count /\ w.reviving = s.reviving /\ w.answered = s.answered
    BY <2>4, <2>6 DEF Opens
  <2>10. /\ u \in PipeState /\ u.fd = w.fd /\ u.filp = w.filp
         /\ \A m \in Inode : m # n => u.inode[m] = s.inode[m]
         /\ u.inode[n].count = 2 /\ u.inode[n].size = 0
         /\ u.saved = s.saved /\ u.revived = s.revived /\ u.susp_count = s.susp_count
         /\ u.reviving = s.reviving /\ u.answered = s.answered
    <3> DEFINE node == [count |-> 2, size |-> 0]
               i == [w.inode EXCEPT ![n] = node]
    <3>1. node \in Node /\ node.count = 2 /\ node.size = 0
      BY PipeAssumption DEF Node
    <3>2. w.inode \in [Inode -> Node] /\ w.filp \in [Filp -> Slot]
      BY <2>8, TableTypes
    <3> HIDE DEF node
    <3>3. i \in [Inode -> Node] /\ i[n] = node /\ \A m \in Inode : m # n => i[m] = w.inode[m]
      BY <2>2, <3>1, <3>2
    <3>4. u = [w EXCEPT !.inode = i]
      BY <2>7 DEF node
    <3> HIDE DEF i
    <3>5. u = [w EXCEPT !.filp = w.filp, !.inode = i]
      BY <2>8, <3>4 DEF PipeState
    <3>6. Tables(w, w.filp, i, [w EXCEPT !.filp = w.filp, !.inode = i])
      BY <2>8, <3>2, <3>3, TablesSet
    <3>7. Tables(w, w.filp, i, u)
      BY <3>5, <3>6
    <3> QED BY <2>9, <3>1, <3>3, <3>7 DEF Tables
  <2>11. Counted(u)
    <3>1. \A f : Refs(u, f) = Refs(w, f)
      BY <2>10 DEF Refs
    <3> QED BY <2>8, <2>10, <3>1 DEF Counted
  <2>12. \A g \in Filp : s.filp[g].count # 0 => g # f1 /\ g # f2 /\ u.filp[g] = s.filp[g]
    BY <2>9, <2>10
  <2>13. Ends(s, n) = {}
    <3>1. IsFiniteSet(Ends(s, n)) /\ Cardinality(Ends(s, n)) = 0
      BY <2>2, <2>3, FiniteParts DEF UsedEnds
    <3> QED BY <3>1, FS_EmptySet
  <2>14. \A g \in Filp : s.filp[g].count # 0 => s.filp[g].ino # n
    BY <2>13 DEF Ends
  <2>15. UsedEnds(u)
    <3> SUFFICES ASSUME NEW m \in Inode
                 PROVE  u.inode[m].count = Cardinality(Ends(u, m))
      BY DEF UsedEnds
    <3>1. CASE m = n
      <4>1. Ends(u, m) = {f1, f2}
        BY <2>9, <2>10, <2>14, <3>1 DEF Ends
      <4>2. Cardinality({f1, f2}) = 2
        <5>1. IsFiniteSet({f1}) /\ Cardinality({f1}) = 1
          BY FS_Singleton
        <5>2. Cardinality({f1} \cup {f2}) = Cardinality({f1}) + 1
          BY <2>9, <5>1, FS_AddElement
        <5>3. {f1} \cup {f2} = {f1, f2}
          OBVIOUS
        <5> QED BY <5>1, <5>2, <5>3
      <4> QED BY <2>10, <3>1, <4>1, <4>2
    <3>2. CASE m # n
      <4>1. Ends(u, m) = Ends(s, m)
        BY <2>9, <2>10, <3>2 DEF Ends
      <4> QED BY <2>3, <2>10, <3>2, <4>1 DEF UsedEnds
    <3> QED BY <3>1, <3>2
  <2>16. OnePerEnd(u)
    <3> SUFFICES ASSUME NEW f \in Filp, NEW g \in Filp, u.filp[f].count # 0, u.filp[g].count # 0,
                        u.filp[f].ino = u.filp[g].ino, u.filp[f].mode = u.filp[g].mode
                 PROVE  f = g
      BY DEF OnePerEnd
    <3>1. CASE f \in {f1, f2} /\ g \in {f1, f2}
      BY <2>9, <2>10, <3>1
    <3>2. CASE f \in {f1, f2} /\ g \notin {f1, f2}
      BY <2>9, <2>10, <2>14, <3>2
    <3>3. CASE f \notin {f1, f2} /\ g \in {f1, f2}
      BY <2>9, <2>10, <2>14, <3>3
    <3>4. CASE f \notin {f1, f2} /\ g \notin {f1, f2}
      BY <2>3, <2>9, <2>10, <3>4 DEF OnePerEnd
    <3> QED BY <3>1, <3>2, <3>3, <3>4
  <2>17. Positions(u)
    <3> SUFFICES ASSUME NEW g \in Filp, u.filp[g].count # 0
                 PROVE  Fits(u.filp[g], u.inode[u.filp[g].ino].size)
      BY DEF Positions
    <3>1. CASE g \in {f1, f2}
      BY <2>9, <2>10, <3>1 DEF Fits
    <3>2. CASE g \notin {f1, f2}
      <4>1. u.filp[g] = s.filp[g] /\ s.filp[g].count # 0 /\ s.filp[g].ino # n
        BY <2>9, <2>10, <2>14, <3>2
      <4>2. s.filp[g].ino \in Inode
        BY <2>3, TableTypes DEF Slot
      <4>3. Fits(s.filp[g], s.inode[s.filp[g].ino].size)
        BY <2>3, <4>1 DEF Positions
      <4> QED BY <2>10, <4>1, <4>2, <4>3
    <3> QED BY <3>1, <3>2
  <2>18. s.fd \in [Proc -> [Fd -> Filp \cup {NIL}]]
    BY <2>3, TableTypes
  <2>19. \A q \in Proc \ {p} : u.fd[q] = s.fd[q]
    BY <2>9, <2>10, <2>18
  <2>20. SameCalls(s, u)
    <3> SUFFICES ASSUME NEW q \in Suspended(s), NEW c, c = s.saved[q].fd
                 PROVE  /\ Open(u, q, c)
                        /\ FilpOf(u, q, c).ino = FilpOf(s, q, c).ino
                        /\ FilpOf(u, q, c).mode = FilpOf(s, q, c).mode
      BY <2>10 DEF SameCalls
    <3>1. q \in Proc /\ c \in Fd /\ q # p /\ Open(s, q, c) /\ s.fd[q][c] \in Filp
      BY <2>3, HungFacts
    <3>2. u.fd[q][c] = s.fd[q][c]
      BY <2>19, <3>1
    <3>3. s.filp[s.fd[q][c]].count # 0
      BY <3>1, CountMeansRef DEF Orderly
    <3> QED BY <2>12, <3>1, <3>2, <3>3 DEF Open, FilpOf
  <2>21. /\ AtEnd(u) /\ Revives(u)
         /\ Suspended(u) = Suspended(s) /\ Stuck(u) = Stuck(s)
         /\ \A m, fn : Hanging(u, m, fn) = Hanging(s, m, fn)
         /\ \A m : /\ Lone(s, m) => Lone(u, m)
                   /\ Meet(s, m) => Meet(u, m)
                   /\ Empty(s, m) /\ u.inode[m].size = s.inode[m].size => Empty(u, m)
    BY <2>20, SameCallsKeep
  <2>22. \A m, mode : find_filp(s, m, mode) => find_filp(u, m, mode)
    BY <2>12 DEF find_filp
  <2>23. Peopled(u)
    BY <2>3, <2>20, <2>21, <2>22 DEF Peopled, SameCalls, Stuck
  <2>24. ASSUME NEW m \in Inode, Paired(s, m)
         PROVE  Paired(u, m)
    <3>1. CASE m = n
      <4>1. Empty(u, m)
        BY <2>10, <3>1 DEF Empty
      <4> QED BY <2>21, <2>24, <4>1 DEF Paired
    <3>2. CASE m # n
      BY <2>10, <2>21, <2>24, <3>2 DEF Paired
    <3> QED BY <3>1, <3>2
  <2>25. Orderly(u)
    BY <2>10, <2>11, <2>15, <2>16, <2>17, <2>21, <2>23 DEF Orderly, Ended
  <2>26. Served(s, p, u)
    BY <2>10, <2>19, <2>21, <2>24, <2>25 DEF Served
  <2> QED BY <2>1, <2>26
<1> QED BY <1>2, <1>3, <1>4

\* do_fork(): the child, which has nothing open, refers to what its parent refers to.
LEMMA ForkKeeps ==
  ASSUME NEW s, Orderly(s), NEW p \in Proc, NEW child \in Proc, child # p, child \notin Suspended(s),
         \A d \in Fd : s.fd[child][d] = NIL
  PROVE  Served(s, child, do_fork(s, p, child))
<1> DEFINE own(f) == {d \in Fd : s.fd[p][d] = f}
           v == [s.fd EXCEPT ![child] = s.fd[p]]
           t == [f \in Filp |-> More(s.filp[f], Cardinality(own(f)))]
           u == do_fork(s, p, child)
<1>1. /\ s \in PipeState /\ s.filp \in [Filp -> Slot] /\ s.inode \in [Inode -> Node]
      /\ s.fd \in [Proc -> [Fd -> Filp \cup {NIL}]] /\ Counted(s) /\ Ended(s)
  BY TableTypes DEF Orderly, Ended
<1>2. u = [s EXCEPT !.fd = v, !.filp = t]
  BY DEF do_fork
<1>3. \A f : IsFiniteSet(own(f)) /\ Cardinality(own(f)) \in Nat
  <2> TAKE f
  <2>1. own(f) \in SUBSET Fd
    OBVIOUS
  <2> QED BY <2>1, FiniteParts
<1>4. \A f : \A d \in Fd : d \in own(f) <=> s.fd[p][d] = f
  OBVIOUS
<1>5. \A f : own(f) \subseteq Fd
  OBVIOUS
<1> HIDE DEF own
<1>6. /\ t \in [Filp -> Slot]
      /\ \A g \in Filp : /\ t[g].count = s.filp[g].count + Cardinality(own(g))
                         /\ t[g].ino = s.filp[g].ino
                         /\ t[g].mode = s.filp[g].mode /\ t[g].pos = s.filp[g].pos
  <2>1. ASSUME NEW g \in Filp
        PROVE  /\ More(s.filp[g], Cardinality(own(g))) \in Slot
               /\ t[g] = More(s.filp[g], Cardinality(own(g)))
               /\ t[g].count = s.filp[g].count + Cardinality(own(g))
               /\ t[g].ino = s.filp[g].ino
               /\ t[g].mode = s.filp[g].mode /\ t[g].pos = s.filp[g].pos
    <3> DEFINE k == Cardinality(own(g))
               slot == More(s.filp[g], k)
    <3>1. s.filp[g] \in Slot /\ k \in Nat
      BY <1>1, <1>3
    <3>2. t[g] = slot
      OBVIOUS
    <3> HIDE DEF k, t
    <3>3. /\ slot \in Slot /\ slot.count = s.filp[g].count + k
          /\ slot.ino = s.filp[g].ino /\ slot.mode = s.filp[g].mode /\ slot.pos = s.filp[g].pos
      BY <3>1 DEF More, Slot
    <3> HIDE DEF slot
    <3>4. /\ t[g] \in Slot /\ t[g].count = s.filp[g].count + k
          /\ t[g].ino = s.filp[g].ino /\ t[g].mode = s.filp[g].mode /\ t[g].pos = s.filp[g].pos
      BY <3>2, <3>3
    <3> QED BY <3>2, <3>4 DEF k, slot
  <2>2. t \in [Filp -> Slot]
    BY <2>1
  <2> HIDE DEF t
  <2> QED BY <2>1, <2>2
<1>7. /\ v \in [Proc -> [Fd -> Filp \cup {NIL}]]
      /\ \A q \in Proc, d \in Fd : v[q][d] = IF q = child THEN s.fd[p][d] ELSE s.fd[q][d]
      /\ \A q \in Proc \ {child} : v[q] = s.fd[q]
  BY <1>1
<1> HIDE DEF t, v, u
<1>8. /\ u \in PipeState /\ u.fd = v /\ u.filp = t /\ u.inode = s.inode
      /\ u.saved = s.saved /\ u.revived = s.revived
      /\ u.susp_count = s.susp_count /\ u.reviving = s.reviving /\ u.answered = s.answered
  <2>1. u = [s EXCEPT !.fd = v, !.filp = t, !.inode = s.inode]
    BY <1>1, <1>2 DEF PipeState
  <2>2. Retabled(s, v, t, s.inode, [s EXCEPT !.fd = v, !.filp = t, !.inode = s.inode])
    BY <1>1, <1>6, <1>7, RetabledBy
  <2>3. Retabled(s, v, t, s.inode, u)
    BY <2>1, <2>2
  <2> QED BY <2>3 DEF Retabled
<1>9. Counted(u)
  <2> SUFFICES ASSUME NEW f \in Filp
               PROVE  t[f].count = Cardinality(Refs(u, f))
    BY <1>8 DEF Counted
  <2> DEFINE new == {child} \X own(f)
  <2>1. f # NIL
    BY DEF Filp, NIL
  <2>2. ASSUME NEW x \in Proc \X Fd
        PROVE  x \in Refs(u, f) <=> x \in Refs(s, f) \/ x \in new
    <3>1. PICK q \in Proc, d \in Fd : x = <<q, d>>
      OBVIOUS
    <3>2. x \in Refs(u, f) <=> v[q][d] = f
      BY <1>8, <3>1 DEF Refs
    <3>3. x \in Refs(s, f) <=> s.fd[q][d] = f
      BY <3>1 DEF Refs
    <3>4. x \in new <=> q = child /\ s.fd[p][d] = f
      BY <1>4, <3>1
    <3>5. CASE q = child
      BY <1>7, <2>1, <3>2, <3>3, <3>4, <3>5
    <3>6. CASE q # child
      BY <1>7, <3>2, <3>3, <3>4, <3>6
    <3> QED BY <3>5, <3>6
  <2>3. new \subseteq Proc \X Fd /\ Refs(u, f) \subseteq Proc \X Fd /\ Refs(s, f) \subseteq Proc \X Fd
    BY <1>5 DEF Refs
  <2>4. Refs(u, f) = Refs(s, f) \cup new
    BY <2>2, <2>3
  <2>5. Refs(s, f) \cap new = {}
    <3> SUFFICES ASSUME NEW x \in new
                 PROVE  x \notin Refs(s, f)
      OBVIOUS
    <3>1. PICK d \in Fd : x = <<child, d>>
      BY <1>5
    <3> QED BY <2>1, <3>1 DEF Refs
  <2>6. IsFiniteSet(new) /\ Cardinality(new) = Cardinality(own(f))
    <3>1. IsFiniteSet({child}) /\ Cardinality({child}) = 1
      BY FS_Singleton
    <3>2. IsFiniteSet(new) /\ Cardinality(new) = Cardinality({child}) * Cardinality(own(f))
      BY <1>3, <3>1, FS_Product
    <3> QED BY <1>3, <3>1, <3>2
  <2> HIDE DEF new
  <2>7. IsFiniteSet(Refs(s, f)) /\ Cardinality(Refs(s, f)) \in Nat
        /\ s.filp[f].count = Cardinality(Refs(s, f))
    <3>1. IsFiniteSet(Refs(s, f))
      BY FiniteParts
    <3> QED BY <1>1, <3>1, FS_CardinalityType DEF Counted
  <2>8. Cardinality(Refs(u, f)) =
          Cardinality(Refs(s, f)) + Cardinality(new) - Cardinality(Refs(s, f) \cap new)
    BY <2>4, <2>6, <2>7, FS_Union
  <2>9. Cardinality(Refs(s, f) \cap new) = 0
    BY <2>5, FS_EmptySet
  <2> QED BY <1>3, <1>6, <2>6, <2>7, <2>8, <2>9
<1>10. \A g \in Filp : t[g].count # 0 <=> s.filp[g].count # 0
  <2> TAKE g \in Filp
  <2>1. Cardinality(own(g)) \in Nat /\ IsFiniteSet(own(g)) /\ s.filp[g].count \in Nat
    BY <1>1, <1>3 DEF Slot
  <2>2. CASE s.filp[g].count # 0
    BY <1>6, <2>1, <2>2
  <2>3. CASE s.filp[g].count = 0
    <3>1. own(g) = {}
      BY <1>1, <1>4, <1>5, <2>3, CountMeansRef
    <3>2. Cardinality(own(g)) = 0
      BY <3>1, FS_EmptySet
    <3> QED BY <1>6, <2>3, <3>2
  <2> QED BY <2>2, <2>3
<1>11. Referred(s, u)
  <2>1. \A q \in Suspended(s) : u.fd[q] = s.fd[q]
    BY <1>7, <1>8 DEF Suspended
  <2> QED BY <1>6, <1>8, <1>10, <2>1 DEF Referred
<1>12. Served(s, child, u)
  BY <1>7, <1>8, <1>9, <1>11, ReferredKeeps DEF Served
<1> QED BY <1>12 DEF u

\* A process that ends no longer hangs.
Freed(s, p) == [s EXCEPT !.susp_count = IF p \in Suspended(s) THEN @ - 1 ELSE @,
                         !.saved[p] = NONE]

\* susp_count goes down with it, and nobody else is touched.
LEMMA FreedKeeps ==
  ASSUME NEW s, Orderly(s), s.revived = {}, NEW p \in Proc, NEW u, u = Freed(s, p)
  PROVE  /\ Orderly(u) /\ Suspended(u) = Suspended(s) \ {p} /\ u.answered = s.answered
         /\ u.fd = s.fd
         /\ \A m \in Inode : Paired(s, m) => Paired(u, m)
<1>1. /\ s \in PipeState /\ Ended(s) /\ Suspended(s) \subseteq Proc
      /\ s.reviving = Cardinality(s.revived)
      /\ s.susp_count \in Int /\ s.susp_count <= Cardinality(Stuck(s))
      /\ s.saved \in [Proc -> Call \cup {NONE}]
  BY TableTypes DEF Orderly, Ended, Revives, Suspended
<1> DEFINE k == IF p \in Suspended(s) THEN s.susp_count - 1 ELSE s.susp_count
           w == [s.saved EXCEPT ![p] = NONE]
<1>2. u = [s EXCEPT !.susp_count = k, !.saved = w]
  BY DEF Freed
<1>3. k \in Int /\ w \in [Proc -> Call \cup {NONE}]
      /\ \A q \in Proc : w[q] = IF q = p THEN NONE ELSE s.saved[q]
  BY <1>1
<1>4. k = IF p \in Suspended(s) THEN s.susp_count - 1 ELSE s.susp_count
  OBVIOUS
<1> HIDE DEF k, w
<1>5. /\ u \in PipeState /\ u.fd = s.fd /\ u.filp = s.filp /\ u.inode = s.inode
      /\ u.answered = s.answered /\ u.revived = s.revived /\ u.reviving = s.reviving
      /\ u.susp_count = k /\ u.saved = w
  BY <1>1, <1>2, <1>3 DEF PipeState
<1>6. /\ Suspended(u) = Suspended(s) \ {p} /\ Stuck(u) = Stuck(s) \ {p}
      /\ Stuck(s) = Suspended(s)
  BY <1>1, <1>3, <1>5 DEF Suspended, Stuck
<1>7. /\ \A q, d : FilpOf(u, q, d) = FilpOf(s, q, d)
      /\ \A q, d : Open(u, q, d) <=> Open(s, q, d)
      /\ \A n, mode : find_filp(u, n, mode) <=> find_filp(s, n, mode)
  BY <1>5 DEF FilpOf, Open, find_filp
<1>8. \A n, fn : Hanging(u, n, fn) = Hanging(s, n, fn) \ {p}
  BY <1>1, <1>3, <1>5, <1>6, <1>7 DEF Hanging
<1>9. Ended(u)
  <2>1. SameEnds(s, u)
    BY <1>5 DEF SameEnds
  <2> QED BY <1>1, <2>1, SameEndsKeep
<1>10. Positions(u)
  BY <1>5 DEF Positions, Orderly
<1>11. AtEnd(u)
  BY <1>1, <1>3, <1>5, <1>6, <1>7 DEF AtEnd, Orderly
<1>12. IsFiniteSet(Stuck(s)) /\ Cardinality(Stuck(s)) \in Nat
  <2>1. Stuck(s) \in SUBSET Proc
    BY <1>1 DEF Stuck
  <2> QED BY <2>1, FiniteParts
<1>13. Cardinality(Stuck(u)) = IF p \in Suspended(s) THEN Cardinality(Stuck(s)) - 1
                               ELSE Cardinality(Stuck(s))
  <2>1. Cardinality(Stuck(s) \ {p}) = IF p \in Stuck(s) THEN Cardinality(Stuck(s)) - 1
                                      ELSE Cardinality(Stuck(s))
    BY <1>12, FS_RemoveElement
  <2> QED BY <1>6, <2>1
<1>14. Revives(u)
  BY <1>1, <1>4, <1>5, <1>6, <1>12, <1>13 DEF Revives
<1>15. Peopled(u)
  <2>1. Stuck(s) \subseteq Proc
    BY <1>1 DEF Stuck
  <2> QED BY <1>3, <1>5, <1>6, <1>7, <2>1 DEF Peopled, Orderly
<1>16. u.susp_count = Cardinality(Stuck(u)) => s.susp_count = Cardinality(Stuck(s))
  BY <1>1, <1>4, <1>5, <1>12, <1>13
<1>17. ASSUME NEW m \in Inode, Paired(s, m)
       PROVE  Paired(u, m)
  <2>1. Lone(u, m)
    BY <1>8, <1>17 DEF Lone, Paired
  <2>2. Empty(u, m)
    BY <1>5, <1>6, <1>8, <1>17 DEF Empty, Paired
  <2>3. Meet(u, m)
    BY <1>6, <1>8, <1>16, <1>17 DEF Meet, Paired
  <2> QED BY <2>1, <2>2, <2>3 DEF Paired
<1>18. Orderly(u)
  BY <1>9, <1>10, <1>11, <1>14, <1>15 DEF Orderly
<1> QED BY <1>5, <1>6, <1>17, <1>18

\* The states of do_exit(), one for each descriptor that is closed, up to the k-th.
Closes(s, p, k, c) ==
  c = [i \in 0 .. k |-> IF i = 0 THEN Freed(s, p) ELSE do_close(c[i - 1], p, i - 1)]

\* There are such states, however many descriptors there are.
LEMMA ClosesExist ==
  ASSUME NEW s, NEW p, NEW n \in Nat
  PROVE  \E c : Closes(s, p, n, c)
<1> DEFINE Bad == {k \in Nat : ~ \E c : Closes(s, p, k, c)}
<1> SUFFICES ASSUME Bad # {}
             PROVE  FALSE
  OBVIOUS
<1>1. PICK k \in Bad : \A y \in Bad : k <= y
  <2>1. LET m == CHOOSE x \in Bad : \A y \in Bad : x <= y
        IN  m \in Bad /\ \A y \in Bad : m <= y
    BY LeastIndex
  <2> QED BY <2>1
<1>2. k \in Nat /\ ~ \E c : Closes(s, p, k, c)
  OBVIOUS
<1>3. CASE k = 0
  <2> DEFINE c == [i \in 0 .. 0 |-> Freed(s, p)]
  <2>1. c = [i \in 0 .. 0 |-> IF i = 0 THEN Freed(s, p) ELSE do_close(c[i - 1], p, i - 1)]
    OBVIOUS
  <2>2. Closes(s, p, 0, c)
    BY <2>1 DEF Closes
  <2> QED BY <1>2, <1>3, <2>2
<1>4. CASE k # 0
  <2>1. k - 1 \in Nat /\ k - 1 \notin Bad
    BY <1>1, <1>2, <1>4
  <2>2. PICK c : Closes(s, p, k - 1, c)
    BY <2>1
  <2> DEFINE e == [i \in 0 .. k |-> IF i = 0 THEN Freed(s, p) ELSE do_close(c[i - 1], p, i - 1)]
  <2>3. ASSUME NEW i \in 0 .. k - 1
        PROVE  e[i] = c[i]
    <3>1. c[i] = IF i = 0 THEN Freed(s, p) ELSE do_close(c[i - 1], p, i - 1)
      BY <2>2 DEF Closes
    <3>2. i \in 0 .. k
      BY <1>2, <2>1
    <3> QED BY <3>1, <3>2
  <2>4. ASSUME NEW i \in 0 .. k
        PROVE  e[i] = IF i = 0 THEN Freed(s, p) ELSE do_close(e[i - 1], p, i - 1)
    <3>1. CASE i = 0
      BY <3>1
    <3>2. CASE i # 0
      <4>1. i - 1 \in 0 .. k - 1
        BY <1>2, <3>2
      <4>2. e[i - 1] = c[i - 1]
        BY <2>3, <4>1
      <4>3. e[i] = do_close(c[i - 1], p, i - 1)
        BY <3>2
      <4> QED BY <3>2, <4>2, <4>3
    <3> QED BY <3>1, <3>2
  <2>5. e = [i \in 0 .. k |-> e[i]]
    OBVIOUS
  <2> HIDE DEF e
  <2>6. Closes(s, p, k, e)
    BY <2>4, <2>5 DEF Closes
  <2> QED BY <1>2, <2>6
<1> QED BY <1>3, <1>4

\* After i descriptors have been closed.
Ending(s, p, i, u) ==
  /\ Orderly(u) /\ Suspended(u) = Suspended(s) \ {p} /\ u.answered = s.answered
  /\ \A q \in Proc \ {p} : u.fd[q] = s.fd[q]
  /\ \A m \in Inode : Paired(s, m) => Paired(u, m)
  /\ \A d \in Fd : d < i => u.fd[p][d] = NIL

\* do_exit().
LEMMA ExitKeeps ==
  ASSUME NEW s, Orderly(s), s.revived = {}, NEW p \in Proc
  PROVE  Ending(s, p, NR_FDS, do_exit(s, p))
<1>1. NR_FDS \in Nat
  BY PipeAssumption
<1> DEFINE c == CHOOSE c : Closes(s, p, NR_FDS, c)
<1>2. Closes(s, p, NR_FDS, c)
  BY <1>1, ClosesExist
<1>3. do_exit(s, p) = c[NR_FDS]
  BY DEF do_exit, Closes, Freed
<1> HIDE DEF c
<1>4. \A i \in 0 .. NR_FDS : c[i] = IF i = 0 THEN Freed(s, p) ELSE do_close(c[i - 1], p, i - 1)
  BY <1>2 DEF Closes
<1>5. \A i \in 0 .. NR_FDS : Ending(s, p, i, c[i])
  <2> DEFINE Bad == {i \in 0 .. NR_FDS : ~Ending(s, p, i, c[i])}
  <2> SUFFICES ASSUME Bad # {}
               PROVE  FALSE
    OBVIOUS
  <2>1. PICK k \in Bad : \A y \in Bad : k <= y
    <3>1. Bad \in SUBSET Nat
      BY <1>1
    <3>2. LET m == CHOOSE x \in Bad : \A y \in Bad : x <= y
          IN  m \in Bad /\ \A y \in Bad : m <= y
      BY <3>1, LeastIndex
    <3> QED BY <3>2
  <2>2. k \in 0 .. NR_FDS /\ ~Ending(s, p, k, c[k])
    OBVIOUS
  <2>3. CASE k = 0
    <3>1. c[0] = Freed(s, p)
      BY <1>4, <2>2, <2>3
    <3>2. /\ Orderly(c[0]) /\ Suspended(c[0]) = Suspended(s) \ {p} /\ c[0].answered = s.answered
          /\ c[0].fd = s.fd
          /\ \A m \in Inode : Paired(s, m) => Paired(c[0], m)
      BY <3>1, FreedKeeps
    <3>3. \A d \in Fd : ~(d < 0)
      BY <1>1 DEF Fd
    <3> QED BY <2>2, <2>3, <3>2, <3>3 DEF Ending
  <2>4. CASE k # 0
    <3> DEFINE d == k - 1
    <3>1. d \in 0 .. NR_FDS /\ d \in Fd /\ d \notin Bad
      BY <1>1, <2>1, <2>2, <2>4 DEF Fd
    <3>2. Ending(s, p, d, c[d])
      BY <3>1
    <3>3. c[k] = do_close(c[d], p, d)
      BY <1>4, <2>2, <2>4
    <3> DEFINE b == c[d]
               u == c[k]
    <3>4. b = c[d] /\ u = c[k] /\ \A e \in Fd : e < k <=> e < d \/ e = d
      BY <1>1, <2>2, <2>4 DEF Fd
    <3> HIDE DEF b, u, d
    <3>5. Orderly(b) /\ p \notin Suspended(b)
      BY <3>2, <3>4 DEF Ending
    <3>6. /\ Served(b, p, u)
          /\ u.fd = IF Open(b, p, d) THEN [b.fd EXCEPT ![p][d] = NIL] ELSE b.fd
      <4>1. /\ Served(b, p, do_close(b, p, d))
            /\ do_close(b, p, d).fd = IF Open(b, p, d) THEN [b.fd EXCEPT ![p][d] = NIL] ELSE b.fd
        BY <3>1, <3>5, CloseKeeps
      <4> QED BY <3>3, <3>4, <4>1
    <3>7. b.fd \in [Proc -> [Fd -> Filp \cup {NIL}]]
      BY <3>5, TableTypes DEF Orderly, Ended
    <3>8. \A e \in Fd : u.fd[p][e] = IF e = d THEN NIL ELSE b.fd[p][e]
      BY <3>1, <3>6, <3>7 DEF Open
    <3>9. \A e \in Fd : e < k => u.fd[p][e] = NIL
      BY <3>2, <3>4, <3>8 DEF Ending
    <3>10. Ending(s, p, k, u)
      BY <3>2, <3>4, <3>6, <3>9 DEF Ending, Served
    <3> QED BY <2>2, <3>4, <3>10
  <2> QED BY <2>3, <2>4
<1>6. NR_FDS \in 0 .. NR_FDS
  BY <1>1
<1> QED BY <1>3, <1>5, <1>6
-----------------------------------------------------------------------------
(* The main loop. *)

\* The inductive invariant.
PipeInv ==
  /\ PipeTypeOK /\ Orderly(fs) /\ fs.answered
  /\ Suspended(fs) = {p \in Proc : user[p] = "waits"}
  /\ \A p \in Proc : user[p] = "free" => \A d \in Fd : fs.fd[p][d] = NIL
  /\ \A n \in Inode \ crowded : Paired(fs, n)

\* A slot is counted by no more descriptors than there are.
LEMMA TypeOfGood ==
  ASSUME NEW s, Orderly(s)
  PROVE  s \in [fd : [Proc -> [Fd -> Filp \cup {NIL}]],
                saved : [Proc -> Call \cup {NONE}], revived : SUBSET Proc,
                filp : [Filp -> [count : 0 .. NR_PROCS * NR_FDS, mode : {"R", "W"},
                                 ino : Inode, pos : 0 .. PIPE_SIZE]],
                inode : [Inode -> [count : 0 .. 2, size : 0 .. PIPE_SIZE]],
                susp_count : Int, reviving : Nat, answered : BOOLEAN]
<1> DEFINE Bounded == [count : 0 .. NR_PROCS * NR_FDS, mode : {"R", "W"},
                       ino : Inode, pos : 0 .. PIPE_SIZE]
<1>1. s \in PipeState /\ Counted(s) /\ s.filp \in [Filp -> Slot]
  BY TableTypes DEF Orderly, Ended
<1>2. \A f \in Filp : s.filp[f].count \in 0 .. NR_PROCS * NR_FDS
  BY <1>1, FiniteParts DEF Counted
<1>3. \A f \in Filp : s.filp[f] \in Bounded
  BY <1>1, <1>2 DEF Slot
<1>4. s.filp \in [Filp -> Bounded]
  <2> HIDE DEF Bounded
  <2> QED BY <1>1, <1>3
<1> HIDE DEF Bounded
<1>5. s \in [fd : [Proc -> [Fd -> Filp \cup {NIL}]],
             saved : [Proc -> Call \cup {NONE}], revived : SUBSET Proc,
             filp : [Filp -> Bounded],
             inode : [Inode -> [count : 0 .. 2, size : 0 .. PIPE_SIZE]],
             susp_count : Int, reviving : Nat, answered : BOOLEAN]
  BY <1>1, <1>4 DEF PipeState
<1> QED BY <1>5 DEF Bounded

\* Two are more than one.
LEMMA OneAtMost ==
  ASSUME NEW H \in SUBSET Proc, ~(Cardinality(H) > 1), NEW p \in H, NEW q \in H
  PROVE  p = q
<1> SUFFICES ASSUME p # q
             PROVE  FALSE
  OBVIOUS
<1>1. IsFiniteSet(H) /\ Cardinality(H) \in Nat
  BY FiniteParts
<1>2. IsFiniteSet({p}) /\ Cardinality({p}) = 1
  BY FS_Singleton
<1>3. Cardinality({p} \cup {q}) = Cardinality({p}) + 1 /\ IsFiniteSet({p} \cup {q})
  BY <1>2, FS_AddElement
<1>4. Cardinality({p} \cup {q}) <= Cardinality(H)
  <2>1. {p} \cup {q} \in SUBSET H
    OBVIOUS
  <2> QED BY <1>1, <2>1, FS_Subset
<1> QED BY <1>1, <1>2, <1>3, <1>4

\* The reply, or dont_reply, is forgotten.
Replied(s) == [s EXCEPT !.answered = TRUE]

\* Nothing depends on it.
LEMMA RepliedKeeps ==
  ASSUME NEW s, Orderly(s), NEW u, u = Replied(s)
  PROVE  /\ Orderly(u) /\ u.answered /\ Suspended(u) = Suspended(s) /\ u.fd = s.fd
         /\ \A n \in Inode : Paired(s, n) => Paired(u, n)
<1>1. s \in PipeState /\ Ended(s)
  BY DEF Orderly, Ended
<1>2. /\ u \in PipeState /\ u.fd = s.fd /\ u.filp = s.filp /\ u.inode = s.inode
      /\ u.saved = s.saved /\ u.revived = s.revived /\ u.susp_count = s.susp_count
      /\ u.reviving = s.reviving /\ u.answered
  BY <1>1 DEF PipeState, Replied
<1>3. /\ Suspended(u) = Suspended(s) /\ Stuck(u) = Stuck(s)
      /\ \A q, d : FilpOf(u, q, d) = FilpOf(s, q, d)
      /\ \A q, d : Open(u, q, d) <=> Open(s, q, d)
      /\ \A n, mode : find_filp(u, n, mode) <=> find_filp(s, n, mode)
  BY <1>2 DEF Suspended, Stuck, FilpOf, Open, find_filp
<1>4. \A n, fn : Hanging(u, n, fn) = Hanging(s, n, fn)
  BY <1>2, <1>3 DEF Hanging
<1>5. Ended(u)
  <2>1. SameEnds(s, u)
    BY <1>2 DEF SameEnds
  <2> QED BY <1>1, <2>1, SameEndsKeep
<1>6. Positions(u) /\ AtEnd(u) /\ Revives(u) /\ Peopled(u)
  <2>1. Positions(u)
    BY <1>2 DEF Positions, Orderly
  <2>2. AtEnd(u)
    BY <1>2, <1>3 DEF AtEnd, Orderly
  <2>3. Revives(u)
    BY <1>2, <1>3 DEF Revives, Orderly
  <2>4. Peopled(u)
    BY <1>2, <1>3 DEF Peopled, Orderly
  <2> QED BY <2>1, <2>2, <2>3, <2>4
<1>7. ASSUME NEW n \in Inode, Paired(s, n)
      PROVE  Paired(u, n)
  <2>1. Lone(u, n)
    BY <1>4, <1>7 DEF Lone, Paired
  <2>2. Empty(u, n)
    BY <1>2, <1>3, <1>4, <1>7 DEF Empty, Paired
  <2>3. Meet(u, n)
    BY <1>2, <1>3, <1>4, <1>7 DEF Meet, Paired
  <2> QED BY <2>1, <2>2, <2>3 DEF Paired
<1> QED BY <1>2, <1>3, <1>5, <1>6, <1>7 DEF Orderly

\* The end of a call of p that was begun in state b.
LEMMA ThenKeeps ==
  ASSUME PipeInv, NEW p \in Proc, NEW b, Orderly(b), b.fd = fs.fd,
         Suspended(b) = {q \in Proc : user[q] = "waits"} \ {p},
         \A n \in Inode \ crowded : Paired(b, n),
         NEW u, Done(b, p, u), Then(p, u)
  PROVE  PipeInv'
<1> DEFINE more == {n \in Inode :
                      \E fn \in {"READ", "WRITE"} : Cardinality(Hanging(u, n, fn)) > 1}
<1>1. /\ fs' = Replied(u)
      /\ user' = [user EXCEPT ![p] = IF u.answered THEN "runs" ELSE "waits"]
      /\ crowded' = crowded \cup more
  BY DEF Then, Replied
<1>2. /\ Orderly(u)
      /\ \/ Suspended(u) = Suspended(b) /\ u.answered
         \/ Suspended(u) = Suspended(b) \cup {p} /\ ~u.answered
      /\ \A q \in Proc \ {p} : u.fd[q] = b.fd[q]
      /\ \A n \in Inode : Paired(b, n) /\ Lone(u, n) => Paired(u, n)
  BY DEF Done
<1>3. /\ Orderly(fs') /\ fs'.answered /\ Suspended(fs') = Suspended(u) /\ fs'.fd = u.fd
      /\ \A n \in Inode : Paired(u, n) => Paired(fs', n)
  BY <1>1, <1>2, RepliedKeeps
<1>4. user \in [Proc -> {"runs", "waits", "free"}] /\ crowded \subseteq Inode
  BY DEF PipeInv, PipeTypeOK
<1>5. user' \in [Proc -> {"runs", "waits", "free"}]
      /\ \A q \in Proc : user'[q] = IF q = p THEN (IF u.answered THEN "runs" ELSE "waits")
                                    ELSE user[q]
  BY <1>1, <1>4
<1>6. ASSUME NEW n \in Inode \ crowded'
      PROVE  Paired(fs', n)
  <2>1. n \in Inode /\ n \notin crowded /\ n \notin more
    BY <1>1
  <2>2. \A fn \in {"READ", "WRITE"} : ~(Cardinality(Hanging(u, n, fn)) > 1)
    BY <2>1
  <2>3. \A fn \in {"READ", "WRITE"} : Hanging(u, n, fn) \in SUBSET Proc
    BY DEF Hanging, Suspended
  <2>4. Lone(u, n)
    BY <2>2, <2>3, OneAtMost DEF Lone
  <2> QED BY <1>2, <1>3, <2>1, <2>4
<1>7. Suspended(fs') = {q \in Proc : user'[q] = "waits"}
  BY <1>2, <1>3, <1>5
<1>8. \A q \in Proc : user'[q] = "free" => \A d \in Fd : fs'.fd[q][d] = NIL
  BY <1>2, <1>3, <1>5 DEF PipeInv
<1>9. PipeTypeOK'
  <2>1. crowded' \subseteq Inode
    BY <1>1, <1>4
  <2> QED BY <1>3, <1>5, <2>1, TypeOfGood DEF PipeTypeOK
<1>10. /\ (Orderly(fs))' /\ (Suspended(fs) = {q \in Proc : user[q] = "waits"})'
       /\ (\A n \in Inode \ crowded : Paired(fs, n))'
  BY <1>3, <1>6, <1>7
<1> QED BY <1>3, <1>8, <1>9, <1>10 DEF PipeInv

\* A call that always has an answer.
LEMMA ServedIsDone ==
  ASSUME NEW s, NEW p, NEW u, s.answered, Served(s, p, u)
  PROVE  Done(s, p, u)
BY DEF Served, Done

\* What a process asks for.
LEMMA RequestStep ==
  ASSUME PipeInv, NEW p \in Proc, Request(p)
  PROVE  PipeInv'
<1>1. /\ Orderly(fs) /\ fs.answered /\ user[p] = "runs"
      /\ Suspended(fs) = {q \in Proc : user[q] = "waits"}
      /\ \A n \in Inode \ crowded : Paired(fs, n)
  BY DEF PipeInv, Request
<1>2. p \notin Suspended(fs) /\ Suspended(fs) = {q \in Proc : user[q] = "waits"} \ {p}
  BY <1>1
<1>3. ASSUME NEW u, Done(fs, p, u), Then(p, u)
      PROVE  PipeInv'
  BY <1>1, <1>2, <1>3, ThenKeeps
<1>4. ASSUME NEW u, Served(fs, p, u), Then(p, u)
      PROVE  PipeInv'
  BY <1>1, <1>3, <1>4, ServedIsDone
<1>5. CASE \E call \in Call : Open(fs, p, call.fd) /\ Then(p, read_write(fs, p, call))
  <2>1. PICK call \in Call : Then(p, read_write(fs, p, call))
    BY <1>5
  <2>2. Done(fs, p, read_write(fs, p, call))
    BY <1>1, <1>2, ReadWriteKeeps
  <2> QED BY <1>3, <2>1, <2>2
<1>6. CASE \E d \in Fd : Open(fs, p, d) /\ (Then(p, do_close(fs, p, d)) \/ Then(p, dup(fs, p, d)))
  <2>1. PICK d \in Fd : Open(fs, p, d) /\ (Then(p, do_close(fs, p, d)) \/ Then(p, dup(fs, p, d)))
    BY <1>6
  <2>2. Served(fs, p, do_close(fs, p, d))
    BY <1>1, <1>2, CloseKeeps
  <2>3. Served(fs, p, dup(fs, p, d))
    BY <1>1, <1>2, <2>1, DupKeeps
  <2> QED BY <1>4, <2>1, <2>2, <2>3
<1>7. CASE \E d, e \in Fd : Open(fs, p, d) /\ Then(p, dup2(fs, p, d, e))
  <2>1. PICK d \in Fd, e \in Fd : Open(fs, p, d) /\ Then(p, dup2(fs, p, d, e))
    BY <1>7
  <2>2. Served(fs, p, dup2(fs, p, d, e))
    BY <1>1, <1>2, <2>1, DupKeeps
  <2> QED BY <1>4, <2>1, <2>2
<1>8. CASE Then(p, do_pipe(fs, p))
  <2>1. Served(fs, p, do_pipe(fs, p))
    BY <1>1, <1>2, PipeKeeps
  <2> QED BY <1>4, <1>8, <2>1
<1> QED BY <1>5, <1>6, <1>7, <1>8 DEF Request

\* Nobody is being revived when a message is received.
LEMMA NobodyRevived ==
  ASSUME NEW s, Orderly(s), s.reviving = 0
  PROVE  s.revived = {}
<1>1. s.revived \in SUBSET Proc /\ Cardinality(s.revived) = 0
  BY DEF Orderly, Revives, Suspended
<1> QED BY <1>1, FiniteParts, FS_EmptySet

\* A process forks.
LEMMA ForkStep ==
  ASSUME PipeInv, NEW p \in Proc, NEW child \in Proc, Fork(p, child)
  PROVE  PipeInv'
<1>1. /\ Orderly(fs) /\ fs.answered /\ user[p] = "runs" /\ user[child] = "free"
      /\ Suspended(fs) = {q \in Proc : user[q] = "waits"}
      /\ \A n \in Inode \ crowded : Paired(fs, n)
      /\ \A q \in Proc : user[q] = "free" => \A d \in Fd : fs.fd[q][d] = NIL
      /\ fs' = do_fork(fs, p, child) /\ user' = [user EXCEPT ![child] = "runs"]
      /\ crowded' = crowded
  BY DEF PipeInv, Fork
<1>2. child # p /\ child \notin Suspended(fs) /\ \A d \in Fd : fs.fd[child][d] = NIL
  BY <1>1
<1>3. Served(fs, child, fs')
  BY <1>1, <1>2, ForkKeeps
<1>4. /\ Orderly(fs') /\ Suspended(fs') = Suspended(fs) /\ fs'.answered = fs.answered
      /\ \A q \in Proc \ {child} : fs'.fd[q] = fs.fd[q]
      /\ \A m \in Inode : Paired(fs, m) => Paired(fs', m)
  BY <1>3 DEF Served
<1>5. user \in [Proc -> {"runs", "waits", "free"}] /\ crowded \subseteq Inode
  BY DEF PipeInv, PipeTypeOK
<1>6. user' \in [Proc -> {"runs", "waits", "free"}]
      /\ \A q \in Proc : user'[q] = IF q = child THEN "runs" ELSE user[q]
  BY <1>1, <1>5
<1>7. PipeTypeOK'
  BY <1>1, <1>4, <1>5, <1>6, TypeOfGood DEF PipeTypeOK
<1>8. \A q \in Proc : user'[q] = "free" => \A d \in Fd : fs'.fd[q][d] = NIL
  BY <1>1, <1>4, <1>6
<1>9. Suspended(fs') = {q \in Proc : user'[q] = "waits"}
  BY <1>1, <1>4, <1>6
<1>10. /\ (Orderly(fs))' /\ (Suspended(fs) = {q \in Proc : user[q] = "waits"})'
       /\ (\A n \in Inode \ crowded : Paired(fs, n))'
  BY <1>1, <1>4, <1>9
<1> QED BY <1>1, <1>4, <1>7, <1>8, <1>10 DEF PipeInv

\* A process ends.
LEMMA ExitStep ==
  ASSUME PipeInv, NEW p \in Proc, Exit(p)
  PROVE  PipeInv'
<1>1. /\ Orderly(fs) /\ fs.answered /\ fs.reviving = 0
      /\ Suspended(fs) = {q \in Proc : user[q] = "waits"}
      /\ \A n \in Inode \ crowded : Paired(fs, n)
      /\ \A q \in Proc : user[q] = "free" => \A d \in Fd : fs.fd[q][d] = NIL
      /\ fs' = do_exit(fs, p) /\ user' = [user EXCEPT ![p] = "free"]
      /\ crowded' = crowded
  BY DEF PipeInv, Exit, Receives
<1>2. Ending(fs, p, NR_FDS, fs')
  <2>1. fs.revived = {}
    BY <1>1, NobodyRevived
  <2> QED BY <1>1, <2>1, ExitKeeps
<1>3. /\ Orderly(fs') /\ Suspended(fs') = Suspended(fs) \ {p} /\ fs'.answered = fs.answered
      /\ \A q \in Proc \ {p} : fs'.fd[q] = fs.fd[q]
      /\ \A m \in Inode : Paired(fs, m) => Paired(fs', m)
      /\ \A d \in Fd : fs'.fd[p][d] = NIL
  <2>1. \A d \in Fd : d < NR_FDS
    BY PipeAssumption DEF Fd
  <2> QED BY <1>2, <2>1 DEF Ending
<1>4. user \in [Proc -> {"runs", "waits", "free"}] /\ crowded \subseteq Inode
  BY DEF PipeInv, PipeTypeOK
<1>5. user' \in [Proc -> {"runs", "waits", "free"}]
      /\ \A q \in Proc : user'[q] = IF q = p THEN "free" ELSE user[q]
  BY <1>1, <1>4
<1>6. PipeTypeOK'
  BY <1>1, <1>3, <1>4, <1>5, TypeOfGood DEF PipeTypeOK
<1>7. \A q \in Proc : user'[q] = "free" => \A d \in Fd : fs'.fd[q][d] = NIL
  BY <1>1, <1>3, <1>5
<1>8. Suspended(fs') = {q \in Proc : user'[q] = "waits"}
  BY <1>1, <1>3, <1>5
<1>9. /\ (Orderly(fs))' /\ (Suspended(fs) = {q \in Proc : user[q] = "waits"})'
      /\ (\A n \in Inode \ crowded : Paired(fs, n))'
  BY <1>1, <1>3, <1>8
<1> QED BY <1>1, <1>3, <1>6, <1>7, <1>9 DEF PipeInv

\* The saved call of a process that is being revived is taken up again.
Revived(s, p) == [s EXCEPT !.saved[p] = NONE, !.revived = @ \ {p}, !.reviving = @ - 1]

\* The others that hang are as they were.
LEMMA RevivedKeeps ==
  ASSUME NEW s, Orderly(s), NEW p \in s.revived, NEW u, u = Revived(s, p)
  PROVE  /\ p \in Proc /\ s.saved[p] \in Call
         /\ Orderly(u) /\ Suspended(u) = Suspended(s) \ {p} /\ u.answered = s.answered
         /\ u.fd = s.fd
         /\ \A m \in Inode : Paired(s, m) => Paired(u, m)
<1>1. /\ s \in PipeState /\ Ended(s) /\ Suspended(s) \subseteq Proc
      /\ s.reviving = Cardinality(s.revived) /\ s.revived \subseteq Suspended(s)
      /\ s.susp_count \in Int /\ s.susp_count <= Cardinality(Stuck(s))
      /\ s.saved \in [Proc -> Call \cup {NONE}] /\ s.revived \in SUBSET Proc
  BY TableTypes DEF Orderly, Ended, Revives, Suspended
<1>2. p \in Suspended(s) /\ p \in Proc /\ s.saved[p] \in Call /\ p \notin Stuck(s)
  BY <1>1 DEF Suspended, Stuck
<1>3. /\ IsFiniteSet(s.revived) /\ Cardinality(s.revived) \in Nat
      /\ Cardinality(s.revived) # 0 /\ Cardinality(s.revived \ {p}) = Cardinality(s.revived) - 1
  <2>1. IsFiniteSet(s.revived) /\ Cardinality(s.revived) \in Nat
    BY <1>1, FiniteParts
  <2>2. Cardinality(s.revived) # 0
    BY <2>1, FS_EmptySet
  <2> QED BY <2>1, <2>2, FS_RemoveElement
<1> DEFINE w == [s.saved EXCEPT ![p] = NONE]
<1>4. u = [s EXCEPT !.saved = w, !.revived = s.revived \ {p}, !.reviving = s.reviving - 1]
  BY DEF Revived
<1>5. w \in [Proc -> Call \cup {NONE}] /\ \A q \in Proc : w[q] = IF q = p THEN NONE ELSE s.saved[q]
  BY <1>1
<1> HIDE DEF w
<1>6. /\ u \in PipeState /\ u.fd = s.fd /\ u.filp = s.filp /\ u.inode = s.inode
      /\ u.answered = s.answered /\ u.revived = s.revived \ {p} /\ u.reviving = s.reviving - 1
      /\ u.susp_count = s.susp_count /\ u.saved = w
  <2>1. s.reviving - 1 \in Nat /\ s.revived \ {p} \in SUBSET Proc
    BY <1>1, <1>3
  <2> QED BY <1>1, <1>4, <1>5, <2>1 DEF PipeState
<1>7. Suspended(u) = Suspended(s) \ {p} /\ Stuck(u) = Stuck(s)
  BY <1>1, <1>2, <1>5, <1>6 DEF Suspended, Stuck
<1>8. /\ \A q, d : FilpOf(u, q, d) = FilpOf(s, q, d)
      /\ \A q, d : Open(u, q, d) <=> Open(s, q, d)
      /\ \A n, mode : find_filp(u, n, mode) <=> find_filp(s, n, mode)
  BY <1>6 DEF FilpOf, Open, find_filp
<1>9. \A n, fn : Hanging(u, n, fn) = Hanging(s, n, fn) \ {p}
  BY <1>1, <1>5, <1>6, <1>7, <1>8 DEF Hanging
<1>10. Ended(u)
  <2>1. SameEnds(s, u)
    BY <1>6 DEF SameEnds
  <2> QED BY <1>1, <2>1, SameEndsKeep
<1>11. Positions(u)
  BY <1>6 DEF Positions, Orderly
<1>12. AtEnd(u)
  BY <1>1, <1>5, <1>6, <1>7, <1>8 DEF AtEnd, Orderly
<1>13. Revives(u)
  BY <1>1, <1>3, <1>6, <1>7 DEF Revives
<1>14. Peopled(u)
  <2>1. Stuck(s) \subseteq Proc
    BY <1>1 DEF Stuck
  <2> QED BY <1>2, <1>5, <1>6, <1>7, <1>8, <2>1 DEF Peopled, Orderly
<1>15. ASSUME NEW m \in Inode, Paired(s, m)
       PROVE  Paired(u, m)
  <2>1. Lone(u, m)
    BY <1>9, <1>15 DEF Lone, Paired
  <2>2. Empty(u, m)
    BY <1>6, <1>7, <1>9, <1>15 DEF Empty, Paired
  <2>3. Meet(u, m)
    BY <1>6, <1>7, <1>9, <1>15 DEF Meet, Paired
  <2> QED BY <2>1, <2>2, <2>3 DEF Paired
<1>16. Orderly(u)
  BY <1>10, <1>11, <1>12, <1>13, <1>14 DEF Orderly
<1> QED BY <1>2, <1>6, <1>7, <1>15, <1>16

\* get_work() takes a saved call.
LEMMA RetryStep ==
  ASSUME PipeInv, Retry
  PROVE  PipeInv'
<1> DEFINE p == Min(fs.revived)
           b == Revived(fs, p)
           u == read_write(b, p, fs.saved[p])
<1>1. Then(p, u) /\ fs.revived # {}
  BY DEF Retry, Revived
<1>2. /\ Orderly(fs) /\ fs.answered
      /\ Suspended(fs) = {q \in Proc : user[q] = "waits"}
      /\ \A n \in Inode \ crowded : Paired(fs, n)
  BY DEF PipeInv
<1>3. p \in fs.revived
  <2>1. fs.revived \in SUBSET Nat
    BY <1>2 DEF Orderly, Revives, Suspended, Proc
  <2> QED BY <1>1, <2>1, FirstOne
<1> HIDE DEF p
<1>4. /\ p \in Proc /\ fs.saved[p] \in Call
      /\ Orderly(b) /\ Suspended(b) = Suspended(fs) \ {p} /\ b.answered = fs.answered
      /\ b.fd = fs.fd
      /\ \A m \in Inode : Paired(fs, m) => Paired(b, m)
  BY <1>2, <1>3, RevivedKeeps
<1> HIDE DEF b
<1>5. Done(b, p, u)
  BY <1>2, <1>4, ReadWriteKeeps
<1> HIDE DEF u
<1>6. Suspended(b) = {q \in Proc : user[q] = "waits"} \ {p}
  BY <1>2, <1>4
<1>7. \A n \in Inode \ crowded : Paired(b, n)
  BY <1>2, <1>4
<1> QED BY <1>1, <1>4, <1>5, <1>6, <1>7, ThenKeeps

\* At the start nothing is open and nobody hangs.
LEMMA PipeInvInit == PipeInit => PipeInv
<1> SUFFICES ASSUME PipeInit
             PROVE  PipeInv
  OBVIOUS
<1>1. /\ fs.fd = [p \in Proc |-> [d \in Fd |-> NIL]] /\ fs.saved = [p \in Proc |-> NONE]
      /\ fs.revived = {} /\ fs.filp = [f \in Filp |-> FREE]
      /\ fs.inode = [n \in Inode |-> [count |-> 0, size |-> 0]]
      /\ fs.susp_count = 0 /\ fs.reviving = 0 /\ fs.answered
      /\ user = [p \in Proc |-> IF p = 0 THEN "runs" ELSE "free"] /\ crowded = {}
  BY DEF PipeInit
<1>2. FREE \in Slot /\ [count |-> 0, size |-> 0] \in Node
  BY PipeAssumption DEF FREE, Slot, Node, Inode
<1>3. fs \in PipeState
  <2>1. /\ fs.fd \in [Proc -> [Fd -> Filp \cup {NIL}]] /\ fs.saved \in [Proc -> Call \cup {NONE}]
        /\ fs.filp \in [Filp -> Slot] /\ fs.inode \in [Inode -> Node]
    BY <1>1, <1>2
  <2>2. fs = [fd |-> fs.fd, saved |-> fs.saved, revived |-> fs.revived, filp |-> fs.filp,
              inode |-> fs.inode, susp_count |-> fs.susp_count, reviving |-> fs.reviving,
              answered |-> fs.answered]
    BY DEF PipeInit
  <2>3. fs.revived \in SUBSET Proc /\ fs.susp_count \in Int /\ fs.reviving \in Nat
        /\ fs.answered \in BOOLEAN
    BY <1>1 DEF PipeInit
  <2> QED BY <2>1, <2>2, <2>3 DEF PipeState, Slot, Node
<1>4. \A f \in Filp : fs.filp[f].count = 0
  BY <1>1 DEF FREE
<1>5. Suspended(fs) = {} /\ Stuck(fs) = {}
  BY <1>1 DEF Suspended, Stuck
<1>6. Cardinality({}) = 0
  BY FS_EmptySet
<1>7. Counted(fs)
  <2> SUFFICES ASSUME NEW f \in Filp
               PROVE  Cardinality(Refs(fs, f)) = 0
    BY <1>4 DEF Counted
  <2>1. \A x \in Proc \X Fd : fs.fd[x[1]][x[2]] = NIL
    BY <1>1
  <2>2. f # NIL
    BY DEF Filp, NIL
  <2>3. Refs(fs, f) = {}
    BY <2>1, <2>2 DEF Refs
  <2> QED BY <1>6, <2>3
<1>8. UsedEnds(fs)
  <2> SUFFICES ASSUME NEW n \in Inode
               PROVE  fs.inode[n].count = Cardinality(Ends(fs, n))
    BY DEF UsedEnds
  <2>1. Ends(fs, n) = {}
    BY <1>4 DEF Ends
  <2> QED BY <1>1, <1>6, <2>1
<1>9. OnePerEnd(fs) /\ Positions(fs) /\ AtEnd(fs) /\ Revives(fs) /\ Peopled(fs)
  BY <1>1, <1>4, <1>5, <1>6 DEF OnePerEnd, Positions, AtEnd, Revives, Peopled
<1>10. Orderly(fs)
  BY <1>3, <1>7, <1>8, <1>9 DEF Orderly, Ended
<1>11. \A n \in Inode : Paired(fs, n)
  <2> TAKE n \in Inode
  <2>1. \A fn : Hanging(fs, n, fn) = {}
    BY <1>5 DEF Hanging
  <2> QED BY <1>5, <2>1 DEF Paired, Lone, Empty, Meet
<1>12. PipeTypeOK
  BY <1>1, <1>10, TypeOfGood DEF PipeTypeOK
<1>13. Suspended(fs) = {p \in Proc : user[p] = "waits"}
  BY <1>1, <1>5
<1>14. \A p \in Proc : user[p] = "free" => \A d \in Fd : fs.fd[p][d] = NIL
  BY <1>1
<1> QED BY <1>1, <1>10, <1>11, <1>12, <1>13, <1>14 DEF PipeInv

\* A step, or none.
LEMMA PipeInvNext == PipeInv /\ [PipeNext]_pipe_vars => PipeInv'
<1> SUFFICES ASSUME PipeInv, [PipeNext]_pipe_vars
             PROVE  PipeInv'
  OBVIOUS
<1>1. ASSUME NEW p \in Proc, Request(p)
      PROVE  PipeInv'
  BY <1>1, RequestStep
<1>2. ASSUME NEW p \in Proc, Exit(p)
      PROVE  PipeInv'
  BY <1>2, ExitStep
<1>3. ASSUME NEW p \in Proc, NEW child \in Proc, Fork(p, child)
      PROVE  PipeInv'
  BY <1>3, ForkStep
<1>4. CASE Retry
  BY <1>4, RetryStep
<1>5. CASE UNCHANGED pipe_vars
  <2>1. fs' = fs /\ user' = user /\ crowded' = crowded
    BY <1>5 DEF pipe_vars
  <2>2. PipeTypeOK'
    BY <2>1 DEF PipeInv, PipeTypeOK
  <2>3. /\ (Orderly(fs))' /\ (Suspended(fs) = {p \in Proc : user[p] = "waits"})'
        /\ (\A n \in Inode \ crowded : Paired(fs, n))'
    BY <2>1 DEF PipeInv
  <2> QED BY <2>1, <2>2, <2>3 DEF PipeInv
<1> QED BY <1>1, <1>2, <1>3, <1>4, <1>5 DEF PipeNext

\* The inductive invariant holds.
THEOREM PipeInvariance == PipeSpec => []PipeInv
BY PipeInvInit, PipeInvNext, PTL DEF PipeSpec

\* Every process that waits for FS is suspended and the other way round, and reviving counts
\* those who are to be revived: no reply is lost or sent twice by release() and get_work().
THEOREM WaitersAreSuspended == PipeSpec => []WaitsIffSuspended
<1>1. PipeInv => WaitsIffSuspended
  BY DEF PipeInv, WaitsIffSuspended, RevivingCounts, Orderly, Revives
<1> QED BY <1>1, PipeInvariance, PTL

\* The counts of the filp table and of the i-nodes of pipes are those of the descriptors and
\* of the open ends.
THEOREM EndsAreCounted == PipeSpec => []CountsExact
<1>1. PipeInv => CountsExact
  BY DEF PipeInv, CountsExact, Orderly, Ended, Counted, UsedEnds, Refs, Ends
<1> QED BY <1>1, PipeInvariance, PTL

\* Nobody hangs at a pipe whose other end is closed everywhere.
THEOREM NobodyHangsAlone == PipeSpec => []NobodyOrphaned
<1>1. PipeInv => NobodyOrphaned
  BY DEF PipeInv, NobodyOrphaned, Orderly, Peopled, Other
<1> QED BY <1>1, PipeInvariance, PTL

\* A reader and a writer do not wait for each other at a pipe at which never two hung at one
\* end, as long as susp_count tells how many hang.
THEOREM ReaderAndWriterMeet == PipeSpec => []PairsMeet
<1>1. PipeInv => PairsMeet
  BY DEF PipeInv, PairsMeet, Paired, Meet
<1> QED BY <1>1, PipeInvariance, PTL
-----------------------------------------------------------------------------
\* Division of a position.
LEMMA Divided ==
  ASSUME NEW n \in Nat \ {0}, NEW a \in Nat
  PROVE  a % n \in 0 .. n - 1 /\ a \div n \in Nat /\ a = ((a \div n) * n) + (a % n)
<1>1. a % n \in 0 .. n - 1 /\ a \div n \in Int /\ a = ((a \div n) * n) + (a % n)
  OBVIOUS
<1>2. a \div n >= 0
  OBVIOUS
<1> QED BY <1>1, <1>2

\* A number has one quotient and one remainder.
LEMMA QuotientIs ==
  ASSUME NEW n \in Nat \ {0}, NEW q \in Int, NEW r \in 0 .. n - 1, NEW a \in Int, a = q * n + r
  PROVE  a % n = r /\ a \div n = q
OBVIOUS

\* Multiples of n are at least n apart.
LEMMA Apart ==
  ASSUME NEW n \in Nat, NEW a \in Int, NEW b \in Int, a < b
  PROVE  a * n + n <= b * n
<1> DEFINE k == b - a - 1
<1>1. k \in Nat /\ b = a + 1 + k
  OBVIOUS
<1> HIDE DEF k
<1>2. b * n = a * n + n + k * n /\ k * n \in Nat /\ a * n \in Int
  BY <1>1
<1> QED BY <1>2

\* How many zones a file can have.
MaxZones == geo.NR_DZONE_NUM + geo.NR_INDIRECTS + geo.NR_INDIRECTS * geo.NR_INDIRECTS

\* The zone and the block of a position, and where they begin.
BlockOf(q)    == q \div BLOCK_SIZE
ZoneStart(q)  == Relative(q) * zone_size
BlockStart(q) == BlockOf(q) * BLOCK_SIZE

\* And where the position is in them.
InZone(q)  == q % zone_size
InBlock(q) == q % BLOCK_SIZE

\* The sizes are positive.
LEMMA Sizes ==
  ASSUME geo \in Geometries
  PROVE  /\ BLOCK_SIZE \in Nat \ {0} /\ zone_size \in Nat \ {0} /\ geo.blocks \in Nat \ {0}
         /\ geo.NR_DZONE_NUM \in Nat \ {0} /\ geo.NR_INDIRECTS \in Nat \ {0} /\ geo.zones \in Nat \ {0}
         /\ geo.max_bytes \in Nat \ {0} /\ geo.bad_copies \in BOOLEAN
         /\ zone_size = geo.blocks * BLOCK_SIZE /\ MaxZones \in Nat /\ s_max_size = MaxZones * zone_size
         /\ s_max_size \in Nat
<1>1. /\ geo.unit \in Nat \ {0} /\ geo.blocks \in Nat \ {0} /\ geo.zones \in Nat \ {0}
      /\ geo.NR_DZONE_NUM \in Nat \ {0} /\ geo.NR_INDIRECTS \in Nat \ {0}
      /\ geo.max_bytes \in Nat \ {0} /\ geo.bad_copies \in BOOLEAN
  BY ZoneAssumption
<1>2. zone_size \in Nat \ {0} /\ zone_size = geo.blocks * BLOCK_SIZE
  BY <1>1 DEF zone_size, BLOCK_SIZE
<1>3. geo.NR_INDIRECTS * geo.NR_INDIRECTS \in Nat
  BY <1>1
<1>4. MaxZones \in Nat
  BY <1>1, <1>3 DEF MaxZones
<1>5. s_max_size = MaxZones * zone_size
  <2>1. s_max_size = zone_size * MaxZones
    BY DEF s_max_size, MaxZones
  <2> QED BY <2>1, <1>2, <1>4
<1>6. s_max_size \in Nat
  BY <1>2, <1>4, <1>5
<1> QED BY <1>1, <1>2, <1>4, <1>5, <1>6 DEF BLOCK_SIZE

\* A position in its block and its zone, and the block in the zone.
LEMMA PositionParts ==
  ASSUME geo \in Geometries, NEW q \in Nat
  PROVE  /\ Relative(q) \in Nat /\ ZoneStart(q) \in Nat /\ InZone(q) \in 0 .. zone_size - 1
         /\ q = ZoneStart(q) + InZone(q)
         /\ BlockOf(q) \in Nat /\ BlockStart(q) \in Nat /\ InBlock(q) \in 0 .. BLOCK_SIZE - 1
         /\ q = BlockStart(q) + InBlock(q)
         /\ ZoneStart(q) <= BlockStart(q) /\ BlockStart(q) + BLOCK_SIZE <= ZoneStart(q) + zone_size
         /\ InZone(q) \div BLOCK_SIZE = BlockOf(q) - Relative(q) * geo.blocks
         /\ InZone(q) % BLOCK_SIZE = InBlock(q)
<1> DEFINE B == BLOCK_SIZE
           Z == zone_size
           k == geo.blocks
           x == InZone(q)
           z == Relative(q)
<1>1. B \in Nat \ {0} /\ Z \in Nat \ {0} /\ k \in Nat \ {0} /\ Z = k * B
  BY Sizes
<1>2. z \in Nat /\ x \in 0 .. Z - 1 /\ q = z * Z + x
  BY <1>1, Divided DEF Relative, InZone
<1> HIDE DEF x, z
<1> DEFINE c == x \div B
           y == x % B
<1>3. c \in Nat /\ y \in 0 .. B - 1 /\ x = c * B + y
  BY <1>1, <1>2, Divided
<1> HIDE DEF c, y, B, Z
<1>4. /\ z * Z \in Nat /\ z * k \in Nat /\ c * B \in Nat
      /\ (z * k + c) \in Nat /\ (z * k + c) * B = z * Z + c * B
  <2>1. z * Z = (z * k) * B
    BY <1>1, <1>2
  <2>2. z * Z \in Nat /\ z * k \in Nat /\ c * B \in Nat
    BY <1>1, <1>2, <1>3
  <2>3. (z * k + c) * B = (z * k) * B + c * B
    BY <1>1, <1>3, <2>2
  <2> QED BY <1>3, <2>1, <2>2, <2>3
<1>5. q % B = y /\ q \div B = z * k + c
  <2>1. q = (z * k + c) * B + y
    BY <1>1, <1>2, <1>3, <1>4
  <2> DEFINE w == z * k + c
  <2>2. w \in Int /\ q = w * B + y
    BY <2>1, <1>4
  <2> HIDE DEF w
  <2>3. q % B = y /\ q \div B = w
    <3>1. B \in Nat \ {0} /\ q \in Int
      BY <1>1
    <3> QED BY <3>1, <1>3, <2>2, QuotientIs, Zenon
  <2> QED BY <2>3 DEF w
<1>6. c < k
  <2>1. c * B < k * B
    BY <1>1, <1>2, <1>3, <1>4
  <2>2. CASE k <= c
    <3>1. CASE k = c
      BY <2>1, <3>1, <1>1
    <3>2. CASE k < c
      <4>1. k * B + B <= c * B
        BY <3>2, <1>1, <1>3, Apart
      <4> QED BY <4>1, <2>1, <1>1, <1>4
    <3> QED BY <3>1, <3>2, <2>2, <1>1, <1>3
  <2> QED BY <2>2, <1>1, <1>3
<1>7. c * B + B <= Z
  BY <1>6, <1>1, <1>3, Apart
<1>8. BlockOf(q) = z * k + c /\ BlockStart(q) = z * Z + c * B /\ ZoneStart(q) = z * Z
  BY <1>4, <1>5 DEF BlockOf, BlockStart, ZoneStart, z, B, Z
<1>9. c = BlockOf(q) - z * k
  BY <1>8, <1>4, <1>3
<1>10. q = ZoneStart(q) + x /\ q = BlockStart(q) + y
  BY <1>8, <1>2, <1>3, <1>4, <1>1
<1>11. InBlock(q) = y
  BY <1>5 DEF InBlock, B
<1>12. InZone(q) \div BLOCK_SIZE = c /\ InZone(q) % BLOCK_SIZE = y
  BY DEF c, y, x, B
<1> HIDE DEF k
<1>13. /\ z \in Nat /\ ZoneStart(q) \in Nat /\ x \in 0 .. Z - 1 /\ BlockOf(q) \in Nat /\ BlockStart(q) \in Nat
       /\ ZoneStart(q) <= BlockStart(q) /\ BlockStart(q) + B <= ZoneStart(q) + Z
  BY <1>1, <1>2, <1>3, <1>4, <1>7, <1>8
<1> QED BY <1>1, <1>2, <1>3, <1>9, <1>10, <1>11, <1>12, <1>13 DEF x, z, k, B, Z

\* In one zone, positions are as far apart as in the file, and in the same block of the
\* zone just if it is one of the file.
LEMMA SameZone ==
  ASSUME geo \in Geometries, NEW p \in Nat, NEW q \in Nat, Relative(p) = Relative(q)
  PROVE  /\ q - p = InZone(q) - InZone(p)
         /\ InZone(q) \div BLOCK_SIZE = InZone(p) \div BLOCK_SIZE <=> BlockOf(q) = BlockOf(p)
<1>1. zone_size \in Nat /\ ZoneStart(p) = ZoneStart(q)
  BY Sizes DEF ZoneStart
<1>2. /\ ZoneStart(q) \in Nat /\ InZone(p) \in Nat /\ InZone(q) \in Nat
      /\ q = ZoneStart(q) + InZone(q) /\ p = ZoneStart(p) + InZone(p)
  BY PositionParts
<1>3. q - p = InZone(q) - InZone(p)
  BY <1>1, <1>2
<1>4. /\ BlockOf(p) \in Nat /\ BlockOf(q) \in Nat /\ Relative(q) * geo.blocks \in Nat
      /\ InZone(q) \div BLOCK_SIZE = BlockOf(q) - Relative(q) * geo.blocks
      /\ InZone(p) \div BLOCK_SIZE = BlockOf(p) - Relative(q) * geo.blocks
  <2>1. Relative(q) \in Nat /\ geo.blocks \in Nat
    BY PositionParts, Sizes
  <2>2. Relative(q) * geo.blocks \in Nat
    BY <2>1
  <2> QED BY <2>2, PositionParts
<1>5. InZone(q) \div BLOCK_SIZE = InZone(p) \div BLOCK_SIZE <=> BlockOf(q) = BlockOf(p)
  BY <1>4
<1> QED BY <1>3, <1>5

\* A position between the ends of a block or a zone is in it.
LEMMA Inside ==
  ASSUME geo \in Geometries, NEW p \in Nat, NEW q \in Nat
  PROVE  /\ BlockStart(p) <= q /\ q < BlockStart(p) + BLOCK_SIZE => BlockOf(q) = BlockOf(p)
         /\ ZoneStart(p) <= q /\ q < ZoneStart(p) + zone_size => Relative(q) = Relative(p)
         /\ BlockOf(q) = BlockOf(p) => Relative(q) = Relative(p)
<1>1. BLOCK_SIZE \in Nat \ {0} /\ zone_size \in Nat \ {0}
  BY Sizes
<1>2. /\ Relative(p) \in Nat /\ ZoneStart(p) \in Nat /\ BlockOf(p) \in Nat /\ BlockStart(p) \in Nat
  BY PositionParts
<1>3. ASSUME BlockStart(p) <= q, q < BlockStart(p) + BLOCK_SIZE PROVE BlockOf(q) = BlockOf(p)
  <2> DEFINE r == q - BlockStart(p)
  <2>1. r \in 0 .. BLOCK_SIZE - 1 /\ q = BlockStart(p) + r
    BY <1>1, <1>2, <1>3
  <2> HIDE DEF r
  <2>2. q = BlockOf(p) * BLOCK_SIZE + r
    BY <2>1 DEF BlockStart
  <2> HIDE DEF r
  <2>3. q \div BLOCK_SIZE = BlockOf(p)
    <3>1. q \in Int /\ BlockOf(p) \in Int
      BY <1>2
    <3> QED BY <3>1, <1>1, <2>1, <2>2, QuotientIs, Zenon
  <2> QED BY <2>3 DEF BlockOf
<1>4. ASSUME ZoneStart(p) <= q, q < ZoneStart(p) + zone_size PROVE Relative(q) = Relative(p)
  <2> DEFINE r == q - ZoneStart(p)
  <2>1. r \in 0 .. zone_size - 1 /\ q = ZoneStart(p) + r
    BY <1>1, <1>2, <1>4
  <2> HIDE DEF r
  <2>2. q = Relative(p) * zone_size + r
    BY <2>1 DEF ZoneStart
  <2>3. q \div zone_size = Relative(p)
    <3>1. q \in Int /\ Relative(p) \in Int
      BY <1>2
    <3> QED BY <3>1, <1>1, <2>1, <2>2, QuotientIs, Zenon
  <2> QED BY <2>3 DEF Relative
<1>5. ASSUME BlockOf(q) = BlockOf(p) PROVE Relative(q) = Relative(p)
  <2>1. BlockStart(q) = BlockStart(p)
    BY <1>5 DEF BlockStart
  <2>2. BlockStart(q) <= q /\ q < BlockStart(q) + BLOCK_SIZE
    <3>1. q = BlockStart(q) + InBlock(q) /\ InBlock(q) \in 0 .. BLOCK_SIZE - 1 /\ BlockStart(q) \in Nat
      BY PositionParts
    <3> QED BY <3>1, <1>1
  <2>3. ZoneStart(p) <= BlockStart(p) /\ BlockStart(p) + BLOCK_SIZE <= ZoneStart(p) + zone_size
    BY PositionParts
  <2>4. ZoneStart(p) <= q /\ q < ZoneStart(p) + zone_size
    BY <1>1, <1>2, <2>1, <2>2, <2>3
  <2> QED BY <2>4, <1>4
<1> QED BY <1>3, <1>4, <1>5

\* Blocks and zones begin in their order.
LEMMA InOrder ==
  ASSUME geo \in Geometries, NEW p \in Nat, NEW q \in Nat
  PROVE  /\ BlockOf(p) < BlockOf(q) => BlockStart(p) + BLOCK_SIZE <= BlockStart(q)
         /\ Relative(p) < Relative(q) => ZoneStart(p) + zone_size <= ZoneStart(q)
<1>1. BLOCK_SIZE \in Nat \ {0} /\ zone_size \in Nat \ {0}
  BY Sizes
<1>2. Relative(p) \in Nat /\ Relative(q) \in Nat /\ BlockOf(p) \in Nat /\ BlockOf(q) \in Nat
  BY PositionParts
<1> QED BY <1>1, <1>2, Apart DEF BlockStart, ZoneStart

\* A position below the largest size is in one of the zones that a file can have; and
\* each of these begins at such a position.
LEMMA BelowMax ==
  ASSUME geo \in Geometries
  PROVE  /\ \A q \in 0 .. s_max_size - 1 : Relative(q) \in 0 .. MaxZones - 1
         /\ \A r \in 0 .. MaxZones - 1 : /\ r * zone_size \in 0 .. s_max_size - 1
                                         /\ Relative(r * zone_size) = r
                                         /\ (r * zone_size) % zone_size = 0
<1>1. zone_size \in Nat \ {0} /\ MaxZones \in Nat /\ s_max_size = MaxZones * zone_size /\ s_max_size \in Nat
  BY Sizes
<1>2. ASSUME NEW q \in 0 .. s_max_size - 1 PROVE Relative(q) \in 0 .. MaxZones - 1
  <2>1. q \in Nat /\ Relative(q) \in Nat /\ ZoneStart(q) \in Nat /\ ZoneStart(q) <= q
    BY <1>1, PositionParts
  <2>2. CASE MaxZones < Relative(q)
    <3>1. MaxZones * zone_size + zone_size <= ZoneStart(q)
      BY <1>1, <2>1, <2>2, Apart DEF ZoneStart
    <3> QED BY <3>1, <1>1, <2>1
  <2>3. CASE MaxZones = Relative(q)
    <3>1. ZoneStart(q) = s_max_size
      BY <2>3, <1>1 DEF ZoneStart
    <3> QED BY <3>1, <1>1, <2>1
  <2> QED BY <2>1, <2>2, <2>3, <1>1
<1>3. ASSUME NEW r \in 0 .. MaxZones - 1
      PROVE  /\ r * zone_size \in 0 .. s_max_size - 1 /\ Relative(r * zone_size) = r
             /\ (r * zone_size) % zone_size = 0
  <2>1. r * zone_size + zone_size <= MaxZones * zone_size
    BY <1>1, Apart
  <2>2. r * zone_size \in Nat
    BY <1>1
  <2>3. r * zone_size = r * zone_size + 0 /\ 0 \in 0 .. zone_size - 1 /\ r \in Int
    BY <1>1, <2>2
  <2>4. (r * zone_size) \div zone_size = r /\ (r * zone_size) % zone_size = 0
    BY <1>1, <2>2, <2>3, QuotientIs
  <2> QED BY <1>1, <2>1, <2>2, <2>4 DEF Relative
<1> QED BY <1>2, <1>3

\* The states of the files' zones.
Pointer == Zone \cup {NO_ZONE}
ZState ==
  [zmap : SUBSET Zone, size : [ZoneFile -> 0 .. s_max_size],
   direct : [ZoneFile -> [0 .. geo.NR_DZONE_NUM - 1 -> Pointer]],
   single : [ZoneFile -> Pointer], double : [ZoneFile -> Pointer],
   ptr : [Zone -> [Index -> Pointer]],
   data : [Zone -> [0 .. zone_size - 1 -> {ZERO, MINE, OLD}]],
   meant : [ZoneFile -> SUBSET Nat], failed : SUBSET ZoneFile, grown : SUBSET ZoneFile,
   lost : SUBSET Zone]

\* The indirect zones of a file, the places for its pointers, in its i-node (0) and in
\* these, and the pointers that are there.
Inds(s, f) ==
  {z \in Zone : \/ z = s.single[f] \/ z = s.double[f]
                \/ s.double[f] # NO_ZONE /\ \E j \in Index : z = s.ptr[s.double[f]][j]}
IsPlace(s, f, h, i) ==
  \/ h = 0 /\ i \in 0 .. geo.NR_DZONE_NUM + 1
  \/ h \in Inds(s, f) /\ i \in Index
PointerAt(s, f, h, i) ==
  IF h # 0 THEN s.ptr[h][i]
  ELSE IF i = geo.NR_DZONE_NUM THEN s.single[f]
  ELSE IF i = geo.NR_DZONE_NUM + 1 THEN s.double[f]
  ELSE s.direct[f][i]

ZonesOf(s, f) == {z \in Zone : \E h \in Pointer, i \in Nat : IsPlace(s, f, h, i) /\ PointerAt(s, f, h, i) = z}

\* A zone is at one place.
OnePlace(s) ==
  \A f, g \in ZoneFile, h, k \in Pointer, i, j \in Nat :
    IsPlace(s, f, h, i) /\ IsPlace(s, g, k, j)
      /\ PointerAt(s, f, h, i) \in Zone /\ PointerAt(s, f, h, i) = PointerAt(s, g, k, j)
      => f = g /\ h = k /\ i = j

\* The bit map has the zones of the files, those that were lost and those in X.
Mapped(s, X) ==
  /\ X \subseteq Zone /\ X \cap s.lost = {}
  /\ \A z \in Zone : z \in s.zmap <=> z \in s.lost \/ z \in X \/ \E f \in ZoneFile : z \in ZonesOf(s, f)
  /\ \A f \in ZoneFile : ZonesOf(s, f) \cap s.lost = {} /\ ZonesOf(s, f) \cap X = {}

Tidy(s, X) == s \in ZState /\ OnePlace(s) /\ Mapped(s, X)

\* The zones of the others that a file has.
LEMMA ZoneFacts ==
  ASSUME geo \in Geometries
  PROVE  /\ Zone \subseteq Nat /\ 0 \notin Zone /\ NO_ZONE = 0 /\ Index \subseteq Nat /\ IsFiniteSet(Zone)
         /\ \A i \in 0 .. geo.NR_DZONE_NUM + 1 : i \in Nat
<1>1. geo.zones \in Nat /\ geo.NR_INDIRECTS \in Nat /\ geo.NR_DZONE_NUM \in Nat
  BY Sizes
<1>2. IsFiniteSet(1 .. geo.zones)
  <2>1. 1 \in Int /\ geo.zones \in Int
    BY <1>1
  <2> QED BY <2>1, FS_Interval, Zenon
<1> QED BY <1>1, <1>2 DEF Zone, Index, NO_ZONE

\* From s to t, zone z is put at an empty place of f.  If z is an indirect zone then, it
\* is in `new', and empty.
Hangs(s, t, f, h, i, z, new) ==
  /\ IsPlace(s, f, h, i) /\ PointerAt(s, f, h, i) \notin Zone
  /\ \A g \in ZoneFile, k \in Pointer, j \in Nat :
       IsPlace(t, g, k, j) <=> IsPlace(s, g, k, j) \/ (g = f /\ k \in new /\ j \in Index)
  /\ \A g \in ZoneFile, k \in Pointer, j \in Nat :
       IsPlace(s, g, k, j) => PointerAt(t, g, k, j) = IF g = f /\ k = h /\ j = i THEN z ELSE PointerAt(s, g, k, j)
  /\ \A k \in new, j \in Index : PointerAt(t, f, k, j) \notin Zone

\* If nobody had it, it is at one place then.
LEMMA HungOnce ==
  ASSUME geo \in Geometries, NEW s, NEW t, OnePlace(s),
         NEW f \in ZoneFile, NEW h \in Pointer, NEW i \in Nat, NEW z \in Zone, NEW new,
         \A g \in ZoneFile : z \notin ZonesOf(s, g), Hangs(s, t, f, h, i, z, new)
  PROVE  /\ OnePlace(t)
         /\ \A g \in ZoneFile : ZonesOf(t, g) = IF g = f THEN ZonesOf(s, g) \cup {z} ELSE ZonesOf(s, g)
<1> USE DEF Hangs
<1>1. ASSUME NEW g \in ZoneFile, NEW k \in Pointer, NEW j \in Nat, IsPlace(t, g, k, j), PointerAt(t, g, k, j) \in Zone
      PROVE  \/ g = f /\ k = h /\ j = i /\ PointerAt(t, g, k, j) = z
             \/ ~(g = f /\ k = h /\ j = i) /\ IsPlace(s, g, k, j) /\ PointerAt(s, g, k, j) = PointerAt(t, g, k, j)
                /\ PointerAt(s, g, k, j) # z /\ PointerAt(s, g, k, j) \in ZonesOf(s, g)
  <2>1. CASE IsPlace(s, g, k, j)
    <3>1. CASE g = f /\ k = h /\ j = i
      BY <3>1, <2>1
    <3>2. CASE ~(g = f /\ k = h /\ j = i)
      <4>1. PointerAt(s, g, k, j) = PointerAt(t, g, k, j)
        BY <3>2, <2>1
      <4>2. PointerAt(s, g, k, j) \in ZonesOf(s, g)
        BY <4>1, <2>1, <1>1 DEF ZonesOf
      <4> QED BY <4>1, <4>2, <3>2, <2>1
    <3> QED BY <3>1, <3>2
  <2>2. CASE ~IsPlace(s, g, k, j)
    BY <2>2, <1>1
  <2> QED BY <2>1, <2>2
<1>2. OnePlace(t)
  <2> SUFFICES ASSUME NEW g \in ZoneFile, NEW g2 \in ZoneFile, NEW k \in Pointer, NEW k2 \in Pointer,
                      NEW j \in Nat, NEW j2 \in Nat, IsPlace(t, g, k, j), IsPlace(t, g2, k2, j2),
                      PointerAt(t, g, k, j) \in Zone, PointerAt(t, g, k, j) = PointerAt(t, g2, k2, j2)
               PROVE  g = g2 /\ k = k2 /\ j = j2
    BY DEF OnePlace
  <2>1. PointerAt(t, g2, k2, j2) \in Zone
    OBVIOUS
  <2>2. CASE g = f /\ k = h /\ j = i
    BY <2>2, <2>1, <1>1
  <2>3. CASE ~(g = f /\ k = h /\ j = i)
    <3>1. IsPlace(s, g, k, j) /\ PointerAt(s, g, k, j) = PointerAt(t, g, k, j) /\ PointerAt(s, g, k, j) # z
      BY <2>3, <1>1
    <3>2. ~(g2 = f /\ k2 = h /\ j2 = i)
      BY <3>1, <1>1, <2>1
    <3>3. IsPlace(s, g2, k2, j2) /\ PointerAt(s, g2, k2, j2) = PointerAt(t, g2, k2, j2)
      BY <3>2, <2>1, <1>1
    <3> QED BY <3>1, <3>3 DEF OnePlace
  <2> QED BY <2>2, <2>3
<1>3. ASSUME NEW g \in ZoneFile
      PROVE  ZonesOf(t, g) = IF g = f THEN ZonesOf(s, g) \cup {z} ELSE ZonesOf(s, g)
  <2>1. ASSUME NEW y \in ZonesOf(t, g) PROVE y \in IF g = f THEN ZonesOf(s, g) \cup {z} ELSE ZonesOf(s, g)
    <3>1. PICK k \in Pointer, j \in Nat : IsPlace(t, g, k, j) /\ PointerAt(t, g, k, j) = y /\ y \in Zone
      BY <2>1 DEF ZonesOf
    <3> QED BY <3>1, <1>1
  <2>2. ASSUME NEW y \in ZonesOf(s, g) PROVE y \in ZonesOf(t, g)
    <3>1. PICK k \in Pointer, j \in Nat : IsPlace(s, g, k, j) /\ PointerAt(s, g, k, j) = y /\ y \in Zone
      BY <2>2 DEF ZonesOf
    <3>2. ~(g = f /\ k = h /\ j = i)
      BY <3>1
    <3>3. IsPlace(t, g, k, j) /\ PointerAt(t, g, k, j) = y
      BY <3>1, <3>2
    <3> QED BY <3>1, <3>3 DEF ZonesOf
  <2>3. g = f => z \in ZonesOf(t, g)
    <3>1. IsPlace(t, f, h, i) /\ PointerAt(t, f, h, i) = z
      OBVIOUS
    <3> QED BY <3>1 DEF ZonesOf
  <2> QED BY <2>1, <2>2, <2>3
<1> QED BY <1>2, <1>3

\* The place of the pointer to a position.
Holder(s, f, p) == IF IsDirect(p) THEN 0 ELSE Single(s, f, p)
Spot(p)         == IF IsDirect(p) THEN Relative(p) ELSE Within(p)
Double(p)       == Deep(p) \div geo.NR_INDIRECTS

\* PositionParts that the file's map has a pointer for.
Position == 0 .. s_max_size - 1

\* The numbers in a place are in range.
LEMMA SpotFacts ==
  ASSUME geo \in Geometries, NEW p \in Position
  PROVE  /\ p \in Nat /\ Relative(p) \in 0 .. MaxZones - 1 /\ Relative(p) \in Nat
         /\ IsDirect(p) <=> Relative(p) < geo.NR_DZONE_NUM
         /\ IsSingle(p) => ~IsDirect(p)
         /\ IsDirect(p) => Relative(p) \in 0 .. geo.NR_DZONE_NUM - 1
         /\ IsSingle(p) => Within(p) = Excess(p)
         /\ ~IsDirect(p) => Within(p) \in Index
         /\ ~IsDirect(p) /\ ~IsSingle(p) =>
              Double(p) \in Index /\ Deep(p) = Double(p) * geo.NR_INDIRECTS + Within(p)
<1> DEFINE D == geo.NR_DZONE_NUM
           I == geo.NR_INDIRECTS
           r == Relative(p)
<1>1. D \in Nat \ {0} /\ I \in Nat \ {0} /\ s_max_size \in Nat /\ MaxZones \in Nat
  BY Sizes
<1>2. p \in Nat /\ r \in 0 .. MaxZones - 1
  BY <1>1, BelowMax DEF Position
<1>3. I * I \in Nat /\ MaxZones = D + I + I * I
  BY <1>1 DEF MaxZones
<1>4. Excess(p) = r - D /\ Deep(p) = r - D - I
  BY DEF Excess, Deep
<1> HIDE DEF r, D
<1>5. (IsDirect(p) <=> r < D) /\ (IsSingle(p) <=> D <= r /\ r < D + I)
  BY <1>1, <1>2, <1>4 DEF IsDirect, IsSingle, Index, I
<1>6. ASSUME IsSingle(p) PROVE Within(p) = Excess(p) /\ Within(p) \in Index
  <2> DEFINE e == Excess(p)
  <2>1. e \in 0 .. I - 1 /\ e \in Int
    BY <1>1, <1>2, <1>4, <1>5, <1>6
  <2>2. Within(p) = e % I
    BY <1>6 DEF Within
  <2> HIDE DEF e, I
  <2>3. e = 0 * I + e
    BY <2>1, <1>1
  <2>4. e % I = e
    BY <1>1, <2>1, <2>3, QuotientIs
  <2> QED BY <2>1, <2>2, <2>4 DEF e, I, Index
<1>7. ASSUME ~IsDirect(p), ~IsSingle(p)
      PROVE  Double(p) \in Index /\ Within(p) \in Index /\ Deep(p) = Double(p) * I + Within(p)
  <2> DEFINE e == Deep(p)
  <2>1. e \in Nat /\ e < I * I
    BY <1>1, <1>2, <1>3, <1>4, <1>5, <1>7
  <2>2. Within(p) = e % I /\ Double(p) = e \div I
    BY <1>7 DEF Within, Double
  <2> HIDE DEF e, I
  <2>3. e % I \in 0 .. I - 1 /\ e \div I \in Nat /\ e = (e \div I) * I + (e % I)
    BY <1>1, <2>1, Divided
  <2>4. Within(p) \in 0 .. I - 1 /\ Double(p) \in Nat /\ e = Double(p) * I + Within(p)
    BY <2>2, <2>3
  <2>5. Double(p) < I
    <3>1. Double(p) * I < I * I /\ Double(p) * I \in Nat
      BY <2>1, <2>4, <1>1
    <3>2. CASE Double(p) = I
      BY <3>1, <3>2, <1>1
    <3>3. CASE I < Double(p)
      <4>1. I * I + I <= Double(p) * I
        BY <3>3, <1>1, <2>4, Apart
      <4> QED BY <4>1, <3>1, <1>1, <1>3
    <3> QED BY <3>2, <3>3, <1>1, <2>4
  <2> QED BY <2>4, <2>5, <1>1 DEF e, I, Index
<1>8. ~IsDirect(p) => Within(p) \in Index
  BY <1>6, <1>7
<1>9. r \in Nat /\ (IsSingle(p) => ~IsDirect(p)) /\ (IsDirect(p) => r \in 0 .. D - 1)
  BY <1>1, <1>2, <1>5
<1> QED BY <1>2, <1>5, <1>6, <1>7, <1>8, <1>9 DEF r, D, I

\* The place depends on the zone of the position, and no two zones have the same.
LEMMA SpotsApart ==
  ASSUME geo \in Geometries, NEW p \in Position, NEW q \in Position
  PROVE  /\ Relative(q) = Relative(p) =>
              /\ IsDirect(q) = IsDirect(p) /\ IsSingle(q) = IsSingle(p) /\ Spot(q) = Spot(p)
              /\ Within(q) = Within(p) /\ Double(q) = Double(p) /\ Deep(q) = Deep(p)
              /\ \A s, f : /\ Single(s, f, q) = Single(s, f, p) /\ Holder(s, f, q) = Holder(s, f, p)
                           /\ read_map(s, f, q) = read_map(s, f, p)
         /\ /\ IsDirect(q) <=> IsDirect(p)
            /\ IsSingle(q) <=> IsSingle(p)
            /\ Spot(q) = Spot(p)
            /\ ~IsDirect(p) /\ ~IsSingle(p) => Double(q) = Double(p)
            => Relative(q) = Relative(p)
<1>1. ASSUME Relative(q) = Relative(p)
      PROVE  /\ IsDirect(q) = IsDirect(p) /\ IsSingle(q) = IsSingle(p) /\ Spot(q) = Spot(p)
             /\ Within(q) = Within(p) /\ Double(q) = Double(p) /\ Deep(q) = Deep(p)
             /\ \A s, f : /\ Single(s, f, q) = Single(s, f, p) /\ Holder(s, f, q) = Holder(s, f, p)
                          /\ read_map(s, f, q) = read_map(s, f, p)
  <2>1. Excess(q) = Excess(p) /\ Deep(q) = Deep(p)
    BY <1>1 DEF Excess, Deep
  <2>2. IsDirect(q) = IsDirect(p) /\ IsSingle(q) = IsSingle(p)
    BY <2>1 DEF IsDirect, IsSingle
  <2>3. Within(q) = Within(p) /\ Double(q) = Double(p)
    BY <2>1, <2>2 DEF Within, Double
  <2>4. Spot(q) = Spot(p)
    BY <1>1, <2>2, <2>3 DEF Spot
  <2>5. \A s, f : Single(s, f, q) = Single(s, f, p)
    BY <2>1, <2>2 DEF Single
  <2>6. \A s, f : Holder(s, f, q) = Holder(s, f, p)
    BY <2>5, <2>2 DEF Holder
  <2>7. \A s, f : read_map(s, f, q) = read_map(s, f, p)
    BY <2>5, <2>2, <2>3, <1>1 DEF read_map
  <2> QED BY <2>1, <2>2, <2>3, <2>4, <2>5, <2>6, <2>7
<1>2. ASSUME IsDirect(q) <=> IsDirect(p), IsSingle(q) <=> IsSingle(p), Spot(q) = Spot(p),
             ~IsDirect(p) /\ ~IsSingle(p) => Double(q) = Double(p)
      PROVE  Relative(q) = Relative(p)
  <2>1. geo.NR_DZONE_NUM \in Nat /\ geo.NR_INDIRECTS \in Nat /\ Relative(p) \in Nat /\ Relative(q) \in Nat
    BY Sizes, SpotFacts
  <2>2. CASE IsDirect(p)
    BY <1>2, <2>2 DEF Spot
  <2>3. CASE IsSingle(p)
    <3>1. Excess(q) = Excess(p)
      BY <1>2, <2>3, SpotFacts DEF Spot
    <3> QED BY <3>1, <2>1 DEF Excess
  <2>4. CASE ~IsDirect(p) /\ ~IsSingle(p)
    <3>1. Within(q) = Within(p) /\ Double(q) = Double(p)
      BY <1>2, <2>4 DEF Spot
    <3>2. Deep(q) = Deep(p)
      BY <1>2, <2>4, <3>1, SpotFacts
    <3> QED BY <3>2, <2>1 DEF Deep, Excess
  <2> QED BY <2>2, <2>3, <2>4
<1> QED BY <1>1, <1>2

\* The fields of a state.
LEMMA ZFields ==
  ASSUME geo \in Geometries, NEW s \in ZState
  PROVE  /\ s.zmap \subseteq Zone /\ s.lost \subseteq Zone
         /\ \A f \in ZoneFile :
              /\ s.size[f] \in 0 .. s_max_size /\ s.single[f] \in Pointer /\ s.double[f] \in Pointer
              /\ \A i \in 0 .. geo.NR_DZONE_NUM - 1 : s.direct[f][i] \in Pointer
              /\ s.meant[f] \subseteq Nat
         /\ \A z \in Zone, i \in Index : s.ptr[z][i] \in Pointer
BY DEF ZState

\* What read_map() finds is a pointer at the position's place.
LEMMA MapFacts ==
  ASSUME geo \in Geometries, NEW s \in ZState, NEW f \in ZoneFile, NEW p \in Position
  PROVE  /\ read_map(s, f, p) \in Pointer
         /\ ~IsDirect(p) => /\ Single(s, f, p) \in Pointer
                            /\ Single(s, f, p) \in Zone => Single(s, f, p) \in Inds(s, f)
         /\ Holder(s, f, p) \in Pointer /\ Spot(p) \in Nat
         /\ IsDirect(p) \/ Single(s, f, p) \in Zone =>
              /\ IsPlace(s, f, Holder(s, f, p), Spot(p))
              /\ read_map(s, f, p) = PointerAt(s, f, Holder(s, f, p), Spot(p))
         /\ ~(IsDirect(p) \/ Single(s, f, p) \in Zone) => read_map(s, f, p) = NO_ZONE
         /\ read_map(s, f, p) \in Zone => read_map(s, f, p) \in ZonesOf(s, f)
<1>1. /\ Relative(p) \in Nat /\ (IsDirect(p) => Relative(p) \in 0 .. geo.NR_DZONE_NUM - 1)
      /\ (~IsDirect(p) => Within(p) \in Index)
      /\ (~IsDirect(p) /\ ~IsSingle(p) => Double(p) \in Index) /\ (IsSingle(p) => ~IsDirect(p))
  BY SpotFacts
<1>2. 0 \notin Zone /\ NO_ZONE = 0 /\ Index \subseteq Nat /\ Zone \subseteq Nat /\ NO_ZONE \in Pointer
  BY ZoneFacts DEF Pointer
<1>3. ASSUME ~IsDirect(p)
      PROVE  /\ Single(s, f, p) \in Pointer
             /\ Single(s, f, p) \in Zone => Single(s, f, p) \in Inds(s, f)
  <2>1. CASE IsSingle(p)
    BY <2>1, ZFields DEF Single, Inds
  <2>2. CASE ~IsSingle(p)
    <3>1. CASE s.double[f] = NO_ZONE
      BY <3>1, <2>2, <1>2 DEF Single
    <3>2. CASE s.double[f] # NO_ZONE
      <4>1. s.double[f] \in Zone /\ Single(s, f, p) = s.ptr[s.double[f]][Double(p)]
        BY <3>2, <2>2, ZFields DEF Single, Pointer, Double
      <4>2. Double(p) \in Index
        BY <1>3, <2>2, <1>1
      <4> QED BY <4>1, <4>2, <3>2, ZFields DEF Inds
    <3> QED BY <3>1, <3>2
  <2> QED BY <2>1, <2>2
<1>4. Holder(s, f, p) \in Pointer /\ Spot(p) \in Nat
  BY <1>1, <1>2, <1>3 DEF Holder, Spot
<1>5. ASSUME IsDirect(p)
      PROVE  /\ IsPlace(s, f, Holder(s, f, p), Spot(p))
             /\ read_map(s, f, p) = PointerAt(s, f, Holder(s, f, p), Spot(p)) /\ read_map(s, f, p) \in Pointer
  <2>1. Holder(s, f, p) = 0 /\ Spot(p) = Relative(p) /\ read_map(s, f, p) = s.direct[f][Relative(p)]
    BY <1>5 DEF Holder, Spot, read_map
  <2>2. geo.NR_DZONE_NUM \in Nat /\ Relative(p) \in 0 .. geo.NR_DZONE_NUM - 1
    BY <1>1, <1>5, Sizes
  <2> QED BY <2>1, <2>2, ZFields DEF IsPlace, PointerAt
<1>6. ASSUME ~IsDirect(p), Single(s, f, p) \in Zone
      PROVE  /\ IsPlace(s, f, Holder(s, f, p), Spot(p))
             /\ read_map(s, f, p) = PointerAt(s, f, Holder(s, f, p), Spot(p)) /\ read_map(s, f, p) \in Pointer
  <2>1. Holder(s, f, p) = Single(s, f, p) /\ Spot(p) = Within(p)
    BY <1>6 DEF Holder, Spot
  <2>2. Single(s, f, p) # 0 /\ read_map(s, f, p) = s.ptr[Single(s, f, p)][Within(p)]
    BY <1>6, <1>2 DEF read_map
  <2> QED BY <2>1, <2>2, <1>1, <1>3, <1>6, ZFields DEF IsPlace, PointerAt
<1>7. ASSUME ~IsDirect(p), Single(s, f, p) \notin Zone PROVE read_map(s, f, p) = NO_ZONE
  BY <1>7, <1>3 DEF read_map, Pointer
<1>8. read_map(s, f, p) \in Zone => read_map(s, f, p) \in ZonesOf(s, f)
  <2>1. ASSUME read_map(s, f, p) \in Zone PROVE read_map(s, f, p) \in ZonesOf(s, f)
    <3>1. IsPlace(s, f, Holder(s, f, p), Spot(p)) /\ read_map(s, f, p) = PointerAt(s, f, Holder(s, f, p), Spot(p))
      BY <2>1, <1>2, <1>5, <1>6, <1>7
    <3> QED BY <3>1, <2>1, <1>4 DEF ZonesOf
  <2> QED BY <2>1
<1> QED BY <1>2, <1>3, <1>4, <1>5, <1>6, <1>7, <1>8

\* A single indirect zone has one part of its file.
LEMMA SinglesApart ==
  ASSUME geo \in Geometries, NEW s \in ZState, OnePlace(s), NEW f \in ZoneFile,
         NEW p \in Position, NEW q \in Position, ~IsDirect(p), ~IsDirect(q),
         Single(s, f, p) \in Zone, Single(s, f, q) = Single(s, f, p)
  PROVE  /\ IsSingle(q) <=> IsSingle(p)
         /\ ~IsSingle(p) => Double(q) = Double(p)
         /\ Within(q) = Within(p) => Relative(q) = Relative(p)
<1> DEFINE y == Single(s, f, p)
           d == s.double[f]
           Outer(x, h, i) == IsPlace(s, f, h, i) /\ PointerAt(s, f, h, i) = y /\ h \in Pointer /\ i \in Nat
<1>1. 0 \notin Zone /\ NO_ZONE = 0 /\ Index \subseteq Nat /\ geo.NR_DZONE_NUM \in Nat
  BY ZoneFacts, Sizes
<1>2. ASSUME NEW x \in {p, q}
      PROVE  /\ IsSingle(x) => Outer(x, 0, geo.NR_DZONE_NUM)
             /\ ~IsSingle(x) => d \in Zone /\ Outer(x, d, Double(x))
  <2>1. x \in Position /\ ~IsDirect(x) /\ Single(s, f, x) = y
    OBVIOUS
  <2>2. CASE IsSingle(x)
    <3>1. y = s.single[f]
      BY <2>1, <2>2 DEF Single
    <3> QED BY <3>1, <2>2, <1>1 DEF IsPlace, PointerAt, Pointer
  <2>3. CASE ~IsSingle(x)
    <3>1. d # NO_ZONE /\ y = s.ptr[d][Double(x)]
      BY <2>1, <2>3, <1>1 DEF Single, Double
    <3>2. d \in Zone /\ d \in Inds(s, f) /\ Double(x) \in Index
      BY <3>1, <2>1, <2>3, ZFields, SpotFacts DEF Pointer, Inds
    <3> QED BY <3>1, <3>2, <2>3, <1>1 DEF IsPlace, PointerAt, Pointer
  <2> QED BY <2>2, <2>3
<1>3. \A h, k \in Pointer, i, j \in Nat :
        IsPlace(s, f, h, i) /\ IsPlace(s, f, k, j) /\ PointerAt(s, f, h, i) = y /\ PointerAt(s, f, k, j) = y
          => h = k /\ i = j
  BY DEF OnePlace
<1> HIDE DEF y, d
<1>4. IsSingle(q) <=> IsSingle(p)
  BY <1>2, <1>3, <1>1
<1>5. ~IsSingle(p) => Double(q) = Double(p)
  BY <1>2, <1>3, <1>4
<1>6. Within(q) = Within(p) => Relative(q) = Relative(p)
  BY <1>4, <1>5, SpotsApart DEF Spot
<1> QED BY <1>4, <1>5, <1>6

\* One zone of a file has a zone on the device.
LEMMA ReadApart ==
  ASSUME geo \in Geometries, NEW s \in ZState, OnePlace(s), NEW f \in ZoneFile, NEW g \in ZoneFile,
         NEW p \in Position, NEW q \in Position,
         read_map(s, f, p) \in Zone, read_map(s, g, q) = read_map(s, f, p)
  PROVE  f = g /\ Relative(q) = Relative(p)
<1>1. 0 \notin Zone /\ NO_ZONE = 0 /\ Index \subseteq Nat /\ geo.NR_DZONE_NUM \in Nat
  BY ZoneFacts, Sizes
<1>2. /\ IsPlace(s, f, Holder(s, f, p), Spot(p)) /\ read_map(s, f, p) = PointerAt(s, f, Holder(s, f, p), Spot(p))
      /\ Holder(s, f, p) \in Pointer /\ Spot(p) \in Nat
      /\ IsDirect(p) \/ Single(s, f, p) \in Zone
  BY <1>1, MapFacts
<1>3. /\ IsPlace(s, g, Holder(s, g, q), Spot(q)) /\ read_map(s, g, q) = PointerAt(s, g, Holder(s, g, q), Spot(q))
      /\ Holder(s, g, q) \in Pointer /\ Spot(q) \in Nat
      /\ IsDirect(q) \/ Single(s, g, q) \in Zone
  BY <1>1, MapFacts
<1>4. f = g /\ Holder(s, f, p) = Holder(s, f, q) /\ Spot(p) = Spot(q)
  <2>1. /\ PointerAt(s, f, Holder(s, f, p), Spot(p)) \in Zone
        /\ PointerAt(s, f, Holder(s, f, p), Spot(p)) = PointerAt(s, g, Holder(s, g, q), Spot(q))
    BY <1>2, <1>3
  <2>2. f = g /\ Holder(s, f, p) = Holder(s, g, q) /\ Spot(p) = Spot(q)
    BY <1>2, <1>3, <2>1, Zenon DEF OnePlace
  <2> QED BY <2>2
<1>5. IsDirect(p) <=> IsDirect(q)
  BY <1>1, <1>2, <1>3, <1>4 DEF Holder
<1>6. ASSUME ~IsDirect(p)
      PROVE  (IsSingle(q) <=> IsSingle(p)) /\ (~IsSingle(p) => Double(q) = Double(p))
  <2>1. Single(s, f, p) \in Zone /\ Single(s, f, q) = Single(s, f, p) /\ ~IsDirect(q)
    BY <1>2, <1>3, <1>4, <1>5, <1>6 DEF Holder
  <2> QED BY <2>1, <1>6, SinglesApart
<1>7. IsSingle(q) <=> IsSingle(p)
  BY <1>5, <1>6, SpotFacts
<1> QED BY <1>4, <1>5, <1>6, <1>7, SpotsApart

\* A free zone that alloc_zone() takes.
LEMMA Taken ==
  ASSUME geo \in Geometries, NEW s, Free(s) # {}
  PROVE  Min(Free(s)) \in Zone /\ Min(Free(s)) \notin s.zmap
<1>1. Free(s) \in SUBSET Nat
  BY ZoneFacts DEF Free
<1>2. Min(Free(s)) \in Free(s)
  <2> DEFINE T == Free(s)
  <2>1. T \in SUBSET Nat /\ T # {} /\ Min(T) = CHOOSE x \in T : \A y \in T : x <= y
    BY <1>1 DEF Min
  <2> HIDE DEF T
  <2>2. Min(T) \in T
    BY <2>1, LeastIndex
  <2> QED BY <2>2 DEF T
<1> QED BY <1>2 DEF Free

\* A new indirect zone is empty.
LEMMA NewFacts ==
  ASSUME geo \in Geometries, NEW s \in ZState, Free(s) # {}
  PROVE  LET z == Min(Free(s))
             t == NewIndirect(s)
         IN  /\ t \in ZState /\ t.zmap = s.zmap \cup {z}
             /\ t.size = s.size /\ t.direct = s.direct /\ t.single = s.single /\ t.double = s.double
             /\ t.meant = s.meant /\ t.failed = s.failed /\ t.grown = s.grown /\ t.lost = s.lost
             /\ \A i \in Index : t.ptr[z][i] = NO_ZONE
             /\ \A y \in Zone : y # z => t.ptr[y] = s.ptr[y] /\ t.data[y] = s.data[y]
<1> DEFINE z == Min(Free(s))
           t == NewIndirect(s)
           P == [y \in Zone |-> IF y \in {z} THEN [i \in Index |-> NO_ZONE] ELSE s.ptr[y]]
           Q == [y \in Zone |-> IF y \in {z} THEN [u \in DOMAIN s.data[y] |-> OLD] ELSE s.data[y]]
<1>1. z \in Zone
  BY Taken
<1>2. t = [s EXCEPT !.zmap = s.zmap \cup {z}, !.ptr = P, !.data = Q]
  BY DEF NewIndirect, Forgotten, alloc_zone, ZState
<1>3. P \in [Zone -> [Index -> Pointer]]
  BY DEF Pointer, ZState
<1>4. Q \in [Zone -> [0 .. zone_size - 1 -> {ZERO, MINE, OLD}]]
  <2>1. \A y \in Zone : s.data[y] \in [0 .. zone_size - 1 -> {ZERO, MINE, OLD}]
    BY DEF ZState
  <2>2. \A y \in Zone : [u \in DOMAIN s.data[y] |-> OLD] \in [0 .. zone_size - 1 -> {ZERO, MINE, OLD}]
    BY <2>1
  <2> QED BY <2>1, <2>2
<1> HIDE DEF z, t
<1>5. /\ \A i \in Index : P[z][i] = NO_ZONE
      /\ \A y \in Zone : y # z => P[y] = s.ptr[y] /\ Q[y] = s.data[y]
  BY <1>1
<1> HIDE DEF P, Q
<1>6. /\ t.zmap = s.zmap \cup {z} /\ t.ptr = P /\ t.data = Q
      /\ t.size = s.size /\ t.direct = s.direct /\ t.single = s.single /\ t.double = s.double
      /\ t.meant = s.meant /\ t.failed = s.failed /\ t.grown = s.grown /\ t.lost = s.lost
  BY <1>2 DEF ZState
<1>7. t \in ZState
  BY <1>1, <1>2, <1>3, <1>4 DEF ZState
<1> QED BY <1>5, <1>6, <1>7 DEF z, t

\* An indirect zone is one of the file's own.
LEMMA IndsOwned ==
  ASSUME geo \in Geometries, NEW s \in ZState, NEW f \in ZoneFile
  PROVE  Inds(s, f) \subseteq ZonesOf(s, f)
<1> SUFFICES ASSUME NEW y \in Inds(s, f) PROVE y \in ZonesOf(s, f)
  OBVIOUS
<1>1. 0 \notin Zone /\ NO_ZONE = 0 /\ Index \subseteq Nat /\ geo.NR_DZONE_NUM \in Nat /\ y \in Zone /\ 0 \in Pointer
  BY ZoneFacts, Sizes DEF Inds, Pointer
<1>2. CASE y = s.single[f]
  BY <1>1, <1>2 DEF ZonesOf, IsPlace, PointerAt
<1>3. CASE y = s.double[f]
  BY <1>1, <1>3 DEF ZonesOf, IsPlace, PointerAt
<1>4. CASE s.double[f] # NO_ZONE /\ \E j \in Index : y = s.ptr[s.double[f]][j]
  <2>1. PICK j \in Index : y = s.ptr[s.double[f]][j]
    BY <1>4
  <2>2. s.double[f] \in Zone
    BY <1>4, ZFields DEF Pointer
  <2>3. s.double[f] \in Inds(s, f)
    BY <2>2 DEF Inds
  <2>4. IsPlace(s, f, s.double[f], j) /\ PointerAt(s, f, s.double[f], j) = y
    BY <2>1, <2>2, <2>3, <1>1 DEF IsPlace, PointerAt
  <2> QED BY <2>2, <2>4, <1>1 DEF ZonesOf, Pointer
<1> QED BY <1>2, <1>3, <1>4 DEF Inds

\* A zone belongs to one file.
LEMMA OwnApart ==
  ASSUME NEW s, OnePlace(s), NEW f \in ZoneFile, NEW g \in ZoneFile, f # g
  PROVE  ZonesOf(s, f) \cap ZonesOf(s, g) = {}
BY DEF ZonesOf, OnePlace

\* For a file whose i-node and indirect zones are as they were, nothing changed.
LEMMA SameReads ==
  ASSUME geo \in Geometries, NEW s \in ZState, NEW t \in ZState, NEW g \in ZoneFile,
         t.direct[g] = s.direct[g], t.single[g] = s.single[g], t.double[g] = s.double[g],
         \A z \in Inds(s, g), i \in Index : t.ptr[z][i] = s.ptr[z][i]
  PROVE  /\ Inds(t, g) = Inds(s, g)
         /\ \A h \in Pointer, i \in Nat :
              /\ IsPlace(t, g, h, i) <=> IsPlace(s, g, h, i)
              /\ IsPlace(s, g, h, i) => PointerAt(t, g, h, i) = PointerAt(s, g, h, i)
         /\ ZonesOf(t, g) = ZonesOf(s, g)
         /\ \A q \in Position : read_map(t, g, q) = read_map(s, g, q)
<1>1. s.double[g] # NO_ZONE => s.double[g] \in Inds(s, g)
  BY ZFields DEF Inds, Pointer
<1>2. Inds(t, g) = Inds(s, g)
  BY <1>1 DEF Inds
<1>3. ASSUME NEW h \in Pointer, NEW i \in Nat
      PROVE  /\ IsPlace(t, g, h, i) <=> IsPlace(s, g, h, i)
             /\ IsPlace(s, g, h, i) => PointerAt(t, g, h, i) = PointerAt(s, g, h, i)
  BY <1>2, ZoneFacts DEF IsPlace, PointerAt, Inds
<1>4. ZonesOf(t, g) = ZonesOf(s, g)
  BY <1>3 DEF ZonesOf
<1>5. ASSUME NEW q \in Position PROVE read_map(t, g, q) = read_map(s, g, q)
  <2>1. CASE IsDirect(q)
    BY <2>1 DEF read_map
  <2>2. CASE ~IsDirect(q)
    <3>1. Single(t, g, q) = Single(s, g, q)
      <4>1. CASE IsSingle(q)
        BY <4>1 DEF Single
      <4>2. CASE ~IsSingle(q)
        <5>1. Double(q) \in Index
          BY <4>2, <2>2, SpotFacts
        <5> QED BY <5>1, <4>2, <1>1 DEF Single, Double
      <4> QED BY <4>1, <4>2
    <3>2. CASE Single(s, g, q) = NO_ZONE
      BY <2>2, <3>1, <3>2 DEF read_map
    <3>3. CASE Single(s, g, q) # NO_ZONE
      <4>1. Single(s, g, q) \in Inds(s, g) /\ Within(q) \in Index
        BY <2>2, <3>3, MapFacts, SpotFacts DEF Pointer
      <4>2. t.ptr[Single(s, g, q)][Within(q)] = s.ptr[Single(s, g, q)][Within(q)]
        BY <4>1
      <4> QED BY <2>2, <3>1, <3>3, <4>2 DEF read_map
    <3> QED BY <3>2, <3>3
  <2> QED BY <2>1, <2>2
<1> QED BY <1>2, <1>3, <1>4, <1>5

\* The map after a zone was hung up.
LEMMA HungTidy ==
  ASSUME NEW s, NEW t \in ZState, NEW X, Tidy(s, X), NEW f \in ZoneFile, NEW z \in Zone,
         z \notin s.zmap \/ z \in X, t.zmap = s.zmap \cup {z}, t.lost = s.lost, OnePlace(t),
         \A g \in ZoneFile : ZonesOf(t, g) = IF g = f THEN ZonesOf(s, g) \cup {z} ELSE ZonesOf(s, g)
  PROVE  Tidy(t, X \ {z})
<1>1. /\ X \subseteq Zone /\ X \cap s.lost = {}
      /\ \A y \in Zone : y \in s.zmap <=> y \in s.lost \/ y \in X \/ \E g \in ZoneFile : y \in ZonesOf(s, g)
      /\ \A g \in ZoneFile : ZonesOf(s, g) \cap s.lost = {} /\ ZonesOf(s, g) \cap X = {}
  BY DEF Tidy, Mapped
<1>2. z \notin s.lost
  BY <1>1
<1>3. ASSUME NEW y \in Zone
      PROVE  y \in t.zmap <=> y \in t.lost \/ y \in X \ {z} \/ \E g \in ZoneFile : y \in ZonesOf(t, g)
  <2>1. z \in ZonesOf(t, f)
    OBVIOUS
  <2>2. CASE y = z
    BY <2>1, <2>2
  <2>3. CASE y # z
    <3>1. \A g \in ZoneFile : y \in ZonesOf(t, g) <=> y \in ZonesOf(s, g)
      BY <2>3
    <3>2. y \in t.zmap <=> y \in s.zmap
      BY <2>3
    <3> QED BY <3>1, <3>2, <1>1, <2>3
  <2> QED BY <2>2, <2>3
<1>4. \A g \in ZoneFile : ZonesOf(t, g) \cap t.lost = {} /\ ZonesOf(t, g) \cap (X \ {z}) = {}
  BY <1>1, <1>2
<1> QED BY <1>1, <1>3, <1>4 DEF Tidy, Mapped

\* The contents of the files are as they were: new zones, if any, are indirect ones.
SameFiles(t, s) ==
  t.size = s.size /\ t.meant = s.meant /\ t.failed = s.failed /\ t.grown = s.grown /\ t.lost = s.lost
OnlyMaps(s, t, X) ==
  /\ Tidy(t, X) /\ SameFiles(t, s) /\ s.zmap \subseteq t.zmap
  /\ \A g \in ZoneFile, q \in Position : read_map(t, g, q) = read_map(s, g, q)
  /\ \A y \in s.zmap : t.data[y] = s.data[y]

\* A zone that is free, or in X, is no file's.
LEMMA NotOwned ==
  ASSUME NEW s, NEW X, Tidy(s, X), NEW z \in Zone, z \notin s.zmap \/ z \in X
  PROVE  \A g \in ZoneFile : z \notin ZonesOf(s, g)
BY DEF Tidy, Mapped

\* write_map() makes the double indirect zone,
LEMMA DoubleMade ==
  ASSUME geo \in Geometries, NEW s, NEW X, Tidy(s, X), NEW f \in ZoneFile, NEW p \in Position
  PROVE  OnlyMaps(s, WithDouble(s, f, p), X)
<1> DEFINE z == Min(Free(s))
           u == NewIndirect(s)
           t == WithDouble(s, f, p)
           D == geo.NR_DZONE_NUM
<1>1. CASE IsDirect(p) \/ IsSingle(p) \/ s.double[f] # NO_ZONE \/ Free(s) = {}
  BY <1>1 DEF WithDouble, OnlyMaps, SameFiles
<1>2. CASE ~(IsDirect(p) \/ IsSingle(p) \/ s.double[f] # NO_ZONE \/ Free(s) = {})
  <2>1. s \in ZState /\ OnePlace(s) /\ Free(s) # {} /\ s.double[f] = NO_ZONE
    BY <1>2 DEF Tidy
  <2>2. z \in Zone /\ z \notin s.zmap
    BY <2>1, Taken
  <2>3. /\ u \in ZState /\ u.zmap = s.zmap \cup {z}
        /\ u.size = s.size /\ u.direct = s.direct /\ u.single = s.single /\ u.double = s.double
        /\ u.meant = s.meant /\ u.failed = s.failed /\ u.grown = s.grown /\ u.lost = s.lost
        /\ \A i \in Index : u.ptr[z][i] = NO_ZONE
        /\ \A y \in Zone : y # z => u.ptr[y] = s.ptr[y] /\ u.data[y] = s.data[y]
    BY <2>1, NewFacts
  <2>4. t = [u EXCEPT !.double = [s.double EXCEPT ![f] = z]]
    BY <1>2, <2>3 DEF WithDouble
  <2> HIDE DEF z, u, t
  <2>5. /\ t \in ZState /\ t.zmap = s.zmap \cup {z} /\ t.double = [s.double EXCEPT ![f] = z]
        /\ t.size = s.size /\ t.direct = s.direct /\ t.single = s.single
        /\ t.meant = s.meant /\ t.failed = s.failed /\ t.grown = s.grown /\ t.lost = s.lost
        /\ t.ptr = u.ptr /\ t.data = u.data
    <3>1. [s.double EXCEPT ![f] = z] \in [ZoneFile -> Pointer]
      BY <2>1, <2>2 DEF ZState, Pointer
    <3> QED BY <3>1, <2>3, <2>4 DEF ZState
  <2>6. 0 \notin Zone /\ NO_ZONE = 0 /\ Index \subseteq Nat /\ D \in Nat \ {0} /\ 0 \in Pointer
    BY ZoneFacts, Sizes DEF Pointer
  <2>7. \A g \in ZoneFile : z \notin ZonesOf(s, g) /\ z \notin Inds(s, g)
    BY <2>1, <2>2, NotOwned, IndsOwned
  <2>8. s.double \in [ZoneFile -> Pointer]
    BY <2>1 DEF ZState
  <2>9. ASSUME NEW g \in ZoneFile, g # f
        PROVE  /\ \A h \in Pointer, i \in Nat :
                    /\ IsPlace(t, g, h, i) <=> IsPlace(s, g, h, i)
                    /\ IsPlace(s, g, h, i) => PointerAt(t, g, h, i) = PointerAt(s, g, h, i)
               /\ \A q \in Position : read_map(t, g, q) = read_map(s, g, q)
    <3>1. t.double[g] = s.double[g]
      BY <2>5, <2>8, <2>9
    <3>2. \A y \in Inds(s, g), i \in Index : t.ptr[y][i] = s.ptr[y][i]
      BY <2>3, <2>5, <2>7 DEF Inds
    <3> QED BY <3>1, <3>2, <2>1, <2>5, SameReads
  <2>10. t.double[f] = z
    BY <2>5, <2>8
  <2>11. Inds(t, f) = Inds(s, f) \cup {z}
    BY <2>1, <2>2, <2>3, <2>5, <2>6, <2>10 DEF Inds
  <2>12. ASSUME NEW h \in Pointer, NEW i \in Nat
         PROVE  /\ IsPlace(t, f, h, i) <=> IsPlace(s, f, h, i) \/ (h = z /\ i \in Index)
                /\ IsPlace(s, f, h, i) =>
                     PointerAt(t, f, h, i) = IF h = 0 /\ i = D + 1 THEN z ELSE PointerAt(s, f, h, i)
    <3>1. IsPlace(t, f, h, i) <=> IsPlace(s, f, h, i) \/ (h = z /\ i \in Index)
      BY <2>11 DEF IsPlace
    <3>2. CASE h = 0
      BY <3>1, <3>2, <2>5, <2>6, <2>10 DEF PointerAt
    <3>3. CASE h # 0
      <4>1. IsPlace(s, f, h, i) => h \in Zone /\ h # z
        BY <3>3, <2>7 DEF IsPlace, Inds
      <4>2. IsPlace(s, f, h, i) => t.ptr[h] = s.ptr[h]
        BY <4>1, <2>3, <2>5
      <4> QED BY <3>1, <3>3, <4>2 DEF PointerAt
    <3> QED BY <3>2, <3>3
  <2>13. \A j \in Index : PointerAt(t, f, z, j) = 0
    BY <2>2, <2>3, <2>5, <2>6 DEF PointerAt
  <2>14. IsPlace(s, f, 0, D + 1) /\ PointerAt(s, f, 0, D + 1) = 0 /\ D + 1 \in Nat
    BY <2>1, <2>6 DEF IsPlace, PointerAt
  <2>15. /\ OnePlace(t)
         /\ \A g \in ZoneFile : ZonesOf(t, g) = IF g = f THEN ZonesOf(s, g) \cup {z} ELSE ZonesOf(s, g)
    <3>1. \A g \in ZoneFile, k \in Pointer, j \in Nat :
            IsPlace(t, g, k, j) <=> IsPlace(s, g, k, j) \/ (g = f /\ k \in {z} /\ j \in Index)
      BY <2>9, <2>12
    <3>2. \A g \in ZoneFile, k \in Pointer, j \in Nat :
            IsPlace(s, g, k, j) =>
              PointerAt(t, g, k, j) = IF g = f /\ k = 0 /\ j = D + 1 THEN z ELSE PointerAt(s, g, k, j)
      BY <2>9, <2>12
    <3>3. Hangs(s, t, f, 0, D + 1, z, {z})
      BY <3>1, <3>2, <2>6, <2>13, <2>14 DEF Hangs
    <3> HIDE DEF D
    <3> QED BY <3>3, <2>1, <2>2, <2>6, <2>7, <2>14, HungOnce
  <2>16. Tidy(t, X)
    <3>1. X \ {z} = X
      BY <2>2 DEF Tidy, Mapped
    <3> QED BY <3>1, <2>2, <2>5, <2>15, HungTidy
  <2>17. ASSUME NEW q \in Position PROVE read_map(t, f, q) = read_map(s, f, q)
    <3>1. CASE IsDirect(q)
      BY <3>1, <2>5 DEF read_map
    <3>2. CASE ~IsDirect(q) /\ IsSingle(q)
      <4>1. Single(t, f, q) = s.single[f] /\ Single(s, f, q) = s.single[f]
        BY <3>2, <2>5 DEF Single
      <4>2. s.single[f] # NO_ZONE => s.single[f] \in Inds(s, f) /\ s.single[f] \in Zone
        BY <2>1, ZFields DEF Pointer, Inds
      <4>3. s.single[f] # NO_ZONE => t.ptr[s.single[f]] = s.ptr[s.single[f]]
        BY <4>2, <2>7, <2>3, <2>5
      <4> QED BY <3>2, <4>1, <4>3 DEF read_map
    <3>3. CASE ~IsDirect(q) /\ ~IsSingle(q)
      <4>1. Double(q) \in Index
        BY <3>3, SpotFacts
      <4>2. Single(t, f, q) = NO_ZONE
        BY <3>3, <4>1, <2>2, <2>3, <2>5, <2>6, <2>10 DEF Single, Double
      <4>3. Single(s, f, q) = NO_ZONE
        BY <3>3, <2>1 DEF Single
      <4> QED BY <3>3, <4>2, <4>3 DEF read_map
    <3> QED BY <3>1, <3>2, <3>3
  <2>18. \A y \in s.zmap : t.data[y] = s.data[y]
    BY <2>1, <2>2, <2>3, <2>5, ZFields
  <2> QED BY <2>5, <2>9, <2>16, <2>17, <2>18 DEF OnlyMaps, SameFiles, t
<1> QED BY <1>1, <1>2

\* The double indirect zone of a file is no single one.
LEMMA LevelsApart ==
  ASSUME geo \in Geometries, NEW s \in ZState, OnePlace(s), NEW f \in ZoneFile, s.double[f] \in Zone
  PROVE  /\ s.single[f] # s.double[f]
         /\ \A j \in Index : s.ptr[s.double[f]][j] # s.double[f]
         /\ \A g \in ZoneFile : g # f => s.double[f] \notin Inds(s, g)
         /\ s.double[f] \in Inds(s, f)
<1> DEFINE d == s.double[f]
           D == geo.NR_DZONE_NUM
<1>1. 0 \notin Zone /\ Index \subseteq Nat /\ D \in Nat /\ 0 \in Pointer /\ d \in Pointer
  BY ZoneFacts, Sizes DEF Pointer
<1>2. IsPlace(s, f, 0, D + 1) /\ PointerAt(s, f, 0, D + 1) = d
  BY <1>1 DEF IsPlace, PointerAt
<1>3. IsPlace(s, f, 0, D) /\ PointerAt(s, f, 0, D) = s.single[f]
  BY <1>1 DEF IsPlace, PointerAt
<1>4. d \in Inds(s, f)
  BY DEF Inds
<1>5. \A j \in Index : IsPlace(s, f, d, j) /\ PointerAt(s, f, d, j) = s.ptr[d][j]
  BY <1>1, <1>4 DEF IsPlace, PointerAt
<1>6. s.single[f] # d
  <2>1. D # D + 1 /\ D \in Nat /\ D + 1 \in Nat
    BY <1>1
  <2> HIDE DEF D, d
  <2> QED BY <1>1, <1>2, <1>3, <2>1 DEF OnePlace, d
<1>7. ASSUME NEW j \in Index PROVE s.ptr[d][j] # d
  <2>1. j \in Nat /\ D + 1 \in Nat /\ d # 0 /\ d \in Zone
    BY <1>1
  <2> HIDE DEF D, d
  <2> QED BY <1>1, <1>2, <1>5, <2>1 DEF OnePlace
<1>8. ASSUME NEW g \in ZoneFile, g # f PROVE d \notin Inds(s, g)
  BY <1>4, <1>8, IndsOwned, OwnApart
<1> QED BY <1>4, <1>6, <1>7, <1>8

\* and the single one.
LEMMA SingleMade ==
  ASSUME geo \in Geometries, NEW s, NEW X, Tidy(s, X), NEW f \in ZoneFile, NEW p \in Position
  PROVE  OnlyMaps(s, WithSingle(s, f, p), X)
<1> DEFINE z == Min(Free(s))
           u == NewIndirect(s)
           t == WithSingle(s, f, p)
           D == geo.NR_DZONE_NUM
           d == s.double[f]
           stays == IsDirect(p) \/ Single(s, f, p) # NO_ZONE \/ Free(s) = {}
<1>1. CASE stays \/ (~IsSingle(p) /\ d = NO_ZONE)
  BY <1>1 DEF WithSingle, OnlyMaps, SameFiles
<1>2. ASSUME ~stays
      PROVE  /\ s \in ZState /\ OnePlace(s) /\ Free(s) # {} /\ z \in Zone /\ z \notin s.zmap
             /\ u \in ZState /\ u.zmap = s.zmap \cup {z}
             /\ u.size = s.size /\ u.direct = s.direct /\ u.single = s.single /\ u.double = s.double
             /\ u.meant = s.meant /\ u.failed = s.failed /\ u.grown = s.grown /\ u.lost = s.lost
             /\ \A i \in Index : u.ptr[z][i] = NO_ZONE
             /\ \A y \in Zone : y # z => u.ptr[y] = s.ptr[y] /\ u.data[y] = s.data[y]
             /\ \A g \in ZoneFile : z \notin ZonesOf(s, g) /\ z \notin Inds(s, g)
  <2>1. s \in ZState /\ OnePlace(s) /\ Free(s) # {}
    BY <1>2 DEF Tidy
  <2>2. z \in Zone /\ z \notin s.zmap
    BY <2>1, Taken
  <2>3. \A g \in ZoneFile : z \notin ZonesOf(s, g) /\ z \notin Inds(s, g)
    BY <2>1, <2>2, NotOwned, IndsOwned
  <2> QED BY <2>1, <2>2, <2>3, NewFacts
<1>3. /\ 0 \notin Zone /\ NO_ZONE = 0 /\ Index \subseteq Nat /\ D \in Nat \ {0} /\ 0 \in Pointer
  BY ZoneFacts, Sizes DEF Pointer
<1> HIDE DEF z, u
<1>4. CASE ~stays /\ IsSingle(p)
  <2> USE <1>4
  <2>1. s.single[f] = NO_ZONE
    BY DEF Single
  <2>2. t = [u EXCEPT !.single = [s.single EXCEPT ![f] = z]]
    BY <1>2 DEF WithSingle, z, u
  <2> HIDE DEF t
  <2>3. /\ t \in ZState /\ t.zmap = s.zmap \cup {z} /\ t.single = [s.single EXCEPT ![f] = z]
        /\ t.size = s.size /\ t.direct = s.direct /\ t.double = s.double
        /\ t.meant = s.meant /\ t.failed = s.failed /\ t.grown = s.grown /\ t.lost = s.lost
        /\ t.ptr = u.ptr /\ t.data = u.data
    <3>1. [s.single EXCEPT ![f] = z] \in [ZoneFile -> Pointer]
      BY <1>2 DEF ZState, Pointer
    <3> QED BY <3>1, <1>2, <2>2 DEF ZState
  <2>4. s.single \in [ZoneFile -> Pointer] /\ s.double[f] \in Pointer
    BY <1>2 DEF ZState
  <2>5. \A g \in ZoneFile : \A y \in Inds(s, g) : y \in Zone /\ y # z /\ t.ptr[y] = s.ptr[y]
    BY <1>2, <2>3 DEF Inds
  <2>6. ASSUME NEW g \in ZoneFile, g # f
        PROVE  /\ \A h \in Pointer, i \in Nat :
                    /\ IsPlace(t, g, h, i) <=> IsPlace(s, g, h, i)
                    /\ IsPlace(s, g, h, i) => PointerAt(t, g, h, i) = PointerAt(s, g, h, i)
               /\ \A q \in Position : read_map(t, g, q) = read_map(s, g, q)
    <3>1. t.single[g] = s.single[g]
      BY <2>3, <2>4, <2>6
    <3>2. \A y \in Inds(s, g), i \in Index : t.ptr[y][i] = s.ptr[y][i]
      BY <2>5
    <3> QED BY <3>1, <3>2, <1>2, <2>3, SameReads
  <2>7. t.single[f] = z
    BY <2>3, <2>4
  <2>8. d # NO_ZONE => d \in Inds(s, f)
    BY <2>4 DEF Inds, Pointer
  <2>9. Inds(t, f) = Inds(s, f) \cup {z}
    BY <1>2, <1>3, <2>1, <2>3, <2>5, <2>7, <2>8 DEF Inds
  <2>10. ASSUME NEW h \in Pointer, NEW i \in Nat
         PROVE  /\ IsPlace(t, f, h, i) <=> IsPlace(s, f, h, i) \/ (h = z /\ i \in Index)
                /\ IsPlace(s, f, h, i) =>
                     PointerAt(t, f, h, i) = IF h = 0 /\ i = D THEN z ELSE PointerAt(s, f, h, i)
    <3>1. IsPlace(t, f, h, i) <=> IsPlace(s, f, h, i) \/ (h = z /\ i \in Index)
      BY <2>9 DEF IsPlace
    <3>2. CASE h = 0
      BY <3>1, <3>2, <2>3, <1>3, <2>7 DEF PointerAt
    <3>3. CASE h # 0
      <4>1. IsPlace(s, f, h, i) => t.ptr[h] = s.ptr[h]
        BY <3>3, <2>5 DEF IsPlace
      <4> QED BY <3>1, <3>3, <4>1 DEF PointerAt
    <3> QED BY <3>2, <3>3
  <2>11. Hangs(s, t, f, 0, D, z, {z})
    <3>1. \A j \in Index : PointerAt(t, f, z, j) = 0
      BY <1>2, <1>3, <2>3 DEF PointerAt
    <3>2. IsPlace(s, f, 0, D) /\ PointerAt(s, f, 0, D) = 0
      BY <1>3, <2>1 DEF IsPlace, PointerAt
    <3> QED BY <3>1, <3>2, <1>3, <2>6, <2>10 DEF Hangs
  <2>12. /\ OnePlace(t)
         /\ \A g \in ZoneFile : ZonesOf(t, g) = IF g = f THEN ZonesOf(s, g) \cup {z} ELSE ZonesOf(s, g)
    <3>1. D \in Nat
      BY <1>3
    <3> HIDE DEF D
    <3> QED BY <3>1, <2>11, <1>2, <1>3, HungOnce
  <2>13. Tidy(t, X)
    <3>1. X \ {z} = X
      BY <1>2 DEF Tidy, Mapped
    <3> QED BY <3>1, <1>2, <2>3, <2>12, HungTidy
  <2>14. ASSUME NEW q \in Position PROVE read_map(t, f, q) = read_map(s, f, q)
    <3>1. CASE IsDirect(q)
      BY <3>1, <2>3 DEF read_map
    <3>2. CASE ~IsDirect(q) /\ IsSingle(q)
      <4>1. Single(t, f, q) = z /\ Single(s, f, q) = NO_ZONE /\ Within(q) \in Index
        BY <3>2, <2>1, <2>7, SpotFacts DEF Single
      <4> QED BY <3>2, <4>1, <1>2, <2>3 DEF read_map
    <3>3. CASE ~IsDirect(q) /\ ~IsSingle(q)
      <4>1. Single(t, f, q) = Single(s, f, q)
        BY <3>3, <2>3, <2>5, <2>8 DEF Single
      <4>2. Single(s, f, q) # NO_ZONE => Single(s, f, q) \in Inds(s, f)
        BY <3>3, <1>2, MapFacts DEF Pointer
      <4>3. Single(s, f, q) # NO_ZONE => t.ptr[Single(s, f, q)] = s.ptr[Single(s, f, q)]
        BY <4>2, <2>5
      <4> QED BY <3>3, <4>1, <4>3 DEF read_map
    <3> QED BY <3>1, <3>2, <3>3
  <2>15. \A y \in s.zmap : t.data[y] = s.data[y]
    BY <1>2, <2>3, ZFields
  <2> QED BY <2>3, <2>6, <2>13, <2>14, <2>15 DEF OnlyMaps, SameFiles, t
<1>5. CASE ~stays /\ ~IsSingle(p) /\ d # NO_ZONE
  <2> USE <1>5
  <2> DEFINE j == Double(p)
  <2>1. d \in Zone /\ d # z /\ j \in Index /\ s.ptr[d][j] = NO_ZONE /\ d \in Inds(s, f)
    <3>1. d \in Zone
      BY <1>2, ZFields DEF Pointer
    <3>2. d \in Inds(s, f)
      BY <3>1 DEF Inds
    <3>3. s.ptr[d][j] = NO_ZONE
      BY DEF Single, Double
    <3> QED BY <3>1, <3>2, <3>3, <1>2, SpotFacts
  <2>2. t = [u EXCEPT !.ptr = [u.ptr EXCEPT ![d] = [s.ptr[d] EXCEPT ![j] = z]]]
    <3>1. t = [u EXCEPT !.ptr[d][j] = z]
      BY DEF WithSingle, z, u, Double
    <3>2. u.ptr[d] = s.ptr[d]
      BY <2>1, <1>2
    <3> QED BY <3>1, <3>2
  <2> HIDE DEF t, j
  <2> DEFINE P == [u.ptr EXCEPT ![d] = [s.ptr[d] EXCEPT ![j] = z]]
  <2>3. P \in [Zone -> [Index -> Pointer]]
    <3>1. [s.ptr[d] EXCEPT ![j] = z] \in [Index -> Pointer]
      BY <1>2, <2>1 DEF ZState, Pointer
    <3>2. u.ptr \in [Zone -> [Index -> Pointer]]
      BY <1>2 DEF ZState
    <3> QED BY <3>1, <3>2, <2>1
  <2>4. /\ t \in ZState /\ t.zmap = s.zmap \cup {z} /\ t.single = s.single
        /\ t.size = s.size /\ t.direct = s.direct /\ t.double = s.double
        /\ t.meant = s.meant /\ t.failed = s.failed /\ t.grown = s.grown /\ t.lost = s.lost
        /\ t.ptr = P /\ t.data = u.data
    BY <1>2, <2>2, <2>3 DEF ZState
  <2>5. /\ \A y \in Zone : y # d /\ y # z => P[y] = s.ptr[y]
        /\ P[d][j] = z /\ \A i \in Index : i # j => P[d][i] = s.ptr[d][i]
        /\ \A i \in Index : P[z][i] = NO_ZONE
    <3>1. u.ptr \in [Zone -> [Index -> Pointer]] /\ s.ptr[d] \in [Index -> Pointer]
      BY <1>2, <2>1 DEF ZState
    <3> QED BY <3>1, <1>2, <2>1
  <2> HIDE DEF P
  <2>6. /\ s.single[f] # d /\ \A i \in Index : s.ptr[d][i] # d
        /\ \A g \in ZoneFile : g # f => d \notin Inds(s, g)
    BY <1>2, <2>1, LevelsApart
  <2>7. ASSUME NEW g \in ZoneFile, g # f
        PROVE  /\ \A h \in Pointer, i \in Nat :
                    /\ IsPlace(t, g, h, i) <=> IsPlace(s, g, h, i)
                    /\ IsPlace(s, g, h, i) => PointerAt(t, g, h, i) = PointerAt(s, g, h, i)
               /\ \A q \in Position : read_map(t, g, q) = read_map(s, g, q)
    <3>1. \A y \in Inds(s, g), i \in Index : t.ptr[y][i] = s.ptr[y][i]
      BY <1>2, <2>4, <2>5, <2>6, <2>7 DEF Inds
    <3> QED BY <3>1, <1>2, <2>4, SameReads
  <2>8. \A y \in Inds(s, f) : y \in Zone /\ y # z
    BY <1>2 DEF Inds
  <2>9. Inds(t, f) = Inds(s, f) \cup {z}
    <3>1. \A y \in Zone : (\E i \in Index : y = P[d][i]) <=> y = z \/ \E i \in Index : y = s.ptr[d][i]
      BY <2>1, <2>5, <1>3
    <3> QED BY <3>1, <1>2, <2>1, <2>4 DEF Inds
  <2>10. ASSUME NEW h \in Pointer, NEW i \in Nat
         PROVE  /\ IsPlace(t, f, h, i) <=> IsPlace(s, f, h, i) \/ (h = z /\ i \in Index)
                /\ IsPlace(s, f, h, i) =>
                     PointerAt(t, f, h, i) = IF h = d /\ i = j THEN z ELSE PointerAt(s, f, h, i)
    <3>1. IsPlace(t, f, h, i) <=> IsPlace(s, f, h, i) \/ (h = z /\ i \in Index)
      BY <2>9 DEF IsPlace
    <3>2. CASE h = 0
      BY <3>1, <3>2, <2>1, <2>4, <1>3 DEF PointerAt
    <3>3. CASE h # 0
      <4>1. IsPlace(s, f, h, i) => h \in Zone /\ h # z /\ i \in Index
        BY <3>3, <2>8 DEF IsPlace
      <4> QED BY <3>1, <3>3, <4>1, <2>4, <2>5 DEF PointerAt
    <3> QED BY <3>2, <3>3
  <2>11. Hangs(s, t, f, d, j, z, {z})
    <3>1. \A i \in Index : PointerAt(t, f, z, i) = 0
      BY <1>2, <1>3, <2>4, <2>5 DEF PointerAt
    <3>2. IsPlace(s, f, d, j) /\ PointerAt(s, f, d, j) = 0
      BY <1>3, <2>1 DEF IsPlace, PointerAt
    <3> QED BY <3>1, <3>2, <1>3, <2>7, <2>10 DEF Hangs
  <2>12. /\ OnePlace(t)
         /\ \A g \in ZoneFile : ZonesOf(t, g) = IF g = f THEN ZonesOf(s, g) \cup {z} ELSE ZonesOf(s, g)
    <3>1. d \in Pointer /\ j \in Nat
      BY <2>1, <1>3 DEF Pointer
    <3> HIDE DEF d
    <3> QED BY <3>1, <2>11, <1>2, HungOnce
  <2>13. Tidy(t, X)
    <3>1. X \ {z} = X
      BY <1>2 DEF Tidy, Mapped
    <3> QED BY <3>1, <1>2, <2>4, <2>12, HungTidy
  <2>14. ASSUME NEW q \in Position PROVE read_map(t, f, q) = read_map(s, f, q)
    <3>1. CASE IsDirect(q)
      BY <3>1, <2>4 DEF read_map
    <3>2. ASSUME NEW y, y \in Inds(s, f), y # d PROVE t.ptr[y] = s.ptr[y]
      BY <3>2, <2>4, <2>5, <2>8
    <3>3. CASE ~IsDirect(q) /\ IsSingle(q)
      <4>1. Single(t, f, q) = s.single[f] /\ Single(s, f, q) = s.single[f]
        BY <3>3, <2>4 DEF Single
      <4>2. s.single[f] # NO_ZONE => s.single[f] \in Inds(s, f)
        BY <1>2, ZFields DEF Pointer, Inds
      <4>3. s.single[f] # NO_ZONE => t.ptr[s.single[f]] = s.ptr[s.single[f]]
        BY <4>2, <3>2, <2>6
      <4> QED BY <3>3, <4>1, <4>3 DEF read_map
    <3>4. CASE ~IsDirect(q) /\ ~IsSingle(q)
      <4>1. Double(q) \in Index /\ Within(q) \in Index
        BY <3>4, SpotFacts
      <4>2. Single(t, f, q) = P[d][Double(q)] /\ Single(s, f, q) = s.ptr[d][Double(q)]
        BY <3>4, <2>4 DEF Single, Double
      <4>3. CASE Double(q) = j
        <5>1. Single(t, f, q) = z /\ Single(s, f, q) = NO_ZONE
          BY <4>2, <4>3, <2>1, <2>5
        <5> QED BY <3>4, <5>1, <4>1, <2>4, <2>5 DEF read_map
      <4>4. CASE Double(q) # j
        <5>1. Single(t, f, q) = Single(s, f, q) /\ Single(s, f, q) # d
          BY <4>1, <4>2, <4>4, <2>5, <2>6
        <5>2. Single(s, f, q) # NO_ZONE => Single(s, f, q) \in Inds(s, f)
          BY <3>4, <1>2, MapFacts DEF Pointer
        <5>3. Single(s, f, q) # NO_ZONE => t.ptr[Single(s, f, q)] = s.ptr[Single(s, f, q)]
          BY <5>1, <5>2, <3>2
        <5> QED BY <3>4, <5>1, <5>3 DEF read_map
      <4> QED BY <4>3, <4>4
    <3> QED BY <3>1, <3>3, <3>4
  <2>15. \A y \in s.zmap : t.data[y] = s.data[y]
    BY <1>2, <2>4, ZFields
  <2> QED BY <2>4, <2>7, <2>13, <2>14, <2>15 DEF OnlyMaps, SameFiles, t
<1> QED BY <1>1, <1>4, <1>5

\* From s to t, zone z was given to the file at a position.
Placed(s, t, X, f, p, z) ==
  /\ Tidy(t, X \ {z}) /\ SameFiles(t, s) /\ s.zmap \subseteq t.zmap
  /\ \A g \in ZoneFile, q \in Position :
       read_map(t, g, q) = IF g = f /\ Relative(q) = Relative(p) THEN z ELSE read_map(s, g, q)
  /\ \A y \in s.zmap : t.data[y] = s.data[y]

\* A pointer in the i-node.
LEMMA DirectPut ==
  ASSUME geo \in Geometries, NEW s, NEW X, Tidy(s, X), NEW f \in ZoneFile, NEW p \in Position,
         NEW z \in X, IsDirect(p), read_map(s, f, p) = NO_ZONE
  PROVE  Placed(s, [s EXCEPT !.direct[f][Relative(p)] = z], X, f, p, z)
<1> DEFINE r == Relative(p)
           D == geo.NR_DZONE_NUM
           V == [s.direct EXCEPT ![f] = [s.direct[f] EXCEPT ![r] = z]]
           t == [s EXCEPT !.direct[f][r] = z]
<1>1. /\ s \in ZState /\ OnePlace(s) /\ z \in Zone /\ z \in s.zmap
      /\ \A g \in ZoneFile : z \notin ZonesOf(s, g)
  BY NotOwned DEF Tidy, Mapped
<1>2. r \in 0 .. D - 1 /\ D \in Nat /\ 0 \notin Zone /\ NO_ZONE = 0 /\ r \in Nat
  BY SpotFacts, Sizes, ZoneFacts
<1>3. V \in [ZoneFile -> [0 .. D - 1 -> Pointer]]
  <2>1. s.direct \in [ZoneFile -> [0 .. D - 1 -> Pointer]] /\ z \in Pointer
    BY <1>1 DEF ZState, Pointer
  <2> QED BY <2>1, <1>2
<1>4. /\ t \in ZState /\ t.direct = V /\ t.zmap = s.zmap /\ t.single = s.single /\ t.double = s.double
      /\ t.ptr = s.ptr /\ t.data = s.data /\ SameFiles(t, s) /\ t.lost = s.lost
  BY <1>1, <1>3 DEF ZState, SameFiles
<1>5. /\ \A g \in ZoneFile : g # f => V[g] = s.direct[g]
      /\ \A i \in 0 .. D - 1 : V[f][i] = IF i = r THEN z ELSE s.direct[f][i]
  <2>1. s.direct \in [ZoneFile -> [0 .. D - 1 -> Pointer]]
    BY <1>1 DEF ZState
  <2> QED BY <2>1, <1>2
<1> HIDE DEF t, V, r
<1>6. ASSUME NEW g \in ZoneFile, g # f
      PROVE  /\ \A h \in Pointer, i \in Nat :
                  /\ IsPlace(t, g, h, i) <=> IsPlace(s, g, h, i)
                  /\ IsPlace(s, g, h, i) => PointerAt(t, g, h, i) = PointerAt(s, g, h, i)
             /\ \A q \in Position : read_map(t, g, q) = read_map(s, g, q)
  BY <1>1, <1>4, <1>5, <1>6, SameReads
<1>7. Inds(t, f) = Inds(s, f)
  BY <1>4 DEF Inds
<1>8. ASSUME NEW h \in Pointer, NEW i \in Nat
      PROVE  /\ IsPlace(t, f, h, i) <=> IsPlace(s, f, h, i)
             /\ IsPlace(s, f, h, i) => PointerAt(t, f, h, i) = IF h = 0 /\ i = r THEN z ELSE PointerAt(s, f, h, i)
  <2>1. IsPlace(t, f, h, i) <=> IsPlace(s, f, h, i)
    BY <1>7 DEF IsPlace
  <2>2. CASE h = 0
    <3>1. IsPlace(s, f, h, i) => i \in 0 .. D + 1
      BY <2>2, ZoneFacts DEF IsPlace, Inds
    <3> QED BY <2>1, <2>2, <3>1, <1>2, <1>4, <1>5 DEF PointerAt
  <2>3. CASE h # 0
    BY <2>1, <2>3, <1>4 DEF PointerAt
  <2> QED BY <2>2, <2>3
<1>9. Hangs(s, t, f, 0, r, z, {})
  <2>1. IsPlace(s, f, 0, r) /\ PointerAt(s, f, 0, r) = 0
    <3>1. read_map(s, f, p) = s.direct[f][r]
      BY DEF read_map, r
    <3>2. r # D /\ r # D + 1 /\ r \in 0 .. D + 1
      BY <1>2
    <3>3. s.direct[f][r] = 0
      BY <3>1, <1>2
    <3> QED BY <3>2, <3>3 DEF IsPlace, PointerAt
  <2> QED BY <2>1, <1>2, <1>6, <1>8 DEF Hangs
<1>10. /\ OnePlace(t)
       /\ \A g \in ZoneFile : ZonesOf(t, g) = IF g = f THEN ZonesOf(s, g) \cup {z} ELSE ZonesOf(s, g)
  <2>1. 0 \in Pointer /\ r \in Nat /\ z \in Zone /\ OnePlace(s) /\ \A g \in ZoneFile : z \notin ZonesOf(s, g)
    BY <1>1, <1>2 DEF Pointer
  <2> QED BY <2>1, <1>9, HungOnce
<1>11. Tidy(t, X \ {z})
  <2>1. t.zmap = s.zmap \cup {z}
    BY <1>1, <1>4
  <2> QED BY <2>1, <1>1, <1>4, <1>10, HungTidy
<1>12. ASSUME NEW q \in Position
       PROVE  read_map(t, f, q) = IF Relative(q) = Relative(p) THEN z ELSE read_map(s, f, q)
  <2>1. CASE IsDirect(q)
    <3>1. Relative(q) \in 0 .. D - 1
      BY <2>1, SpotFacts
    <3> QED BY <2>1, <3>1, <1>4, <1>5 DEF read_map, r
  <2>2. CASE ~IsDirect(q)
    <3>1. Relative(q) # Relative(p)
      BY <2>2, SpotsApart
    <3>2. Single(t, f, q) = Single(s, f, q)
      BY <1>4 DEF Single
    <3> QED BY <2>2, <3>1, <3>2, <1>4 DEF read_map
  <2> QED BY <2>1, <2>2
<1>13. Placed(s, t, X, f, p, z)
  BY <1>4, <1>6, <1>11, <1>12 DEF Placed
<1> QED BY <1>13 DEF t, r

\* A pointer in a single indirect zone.
LEMMA IndirectPut ==
  ASSUME geo \in Geometries, NEW s, NEW X, Tidy(s, X), NEW f \in ZoneFile, NEW p \in Position,
         NEW z \in X, ~IsDirect(p), Single(s, f, p) # NO_ZONE, read_map(s, f, p) = NO_ZONE
  PROVE  Placed(s, [s EXCEPT !.ptr[Single(s, f, p)][Within(p)] = z], X, f, p, z)
<1> DEFINE y == Single(s, f, p)
           w == Within(p)
           d == s.double[f]
           P == [s.ptr EXCEPT ![y] = [s.ptr[y] EXCEPT ![w] = z]]
           t == [s EXCEPT !.ptr[y][w] = z]
<1>1. /\ s \in ZState /\ OnePlace(s) /\ z \in Zone /\ z \in s.zmap
      /\ \A g \in ZoneFile : z \notin ZonesOf(s, g)
  BY NotOwned DEF Tidy, Mapped
<1>2. /\ y \in Zone /\ y \in Inds(s, f) /\ w \in Index /\ s.ptr[y][w] = NO_ZONE
      /\ 0 \notin Zone /\ NO_ZONE = 0 /\ w \in Nat
  <2>1. y \in Zone /\ y \in Inds(s, f)
    BY <1>1, MapFacts DEF Pointer
  <2> QED BY <2>1, SpotFacts, ZoneFacts DEF read_map
<1>3. P \in [Zone -> [Index -> Pointer]]
  <2>1. s.ptr \in [Zone -> [Index -> Pointer]] /\ z \in Pointer
    BY <1>1 DEF ZState, Pointer
  <2> QED BY <2>1, <1>2
<1>4. /\ t \in ZState /\ t.ptr = P /\ t.zmap = s.zmap /\ t.single = s.single /\ t.double = s.double
      /\ t.direct = s.direct /\ t.data = s.data /\ SameFiles(t, s) /\ t.lost = s.lost
  BY <1>1, <1>3 DEF ZState, SameFiles
<1>5. /\ \A x \in Zone : x # y => P[x] = s.ptr[x]
      /\ \A i \in Index : P[y][i] = IF i = w THEN z ELSE s.ptr[y][i]
  <2>1. s.ptr \in [Zone -> [Index -> Pointer]]
    BY <1>1 DEF ZState
  <2> QED BY <2>1, <1>2
<1>6. \A g \in ZoneFile : g # f => y \notin Inds(s, g)
  BY <1>1, <1>2, IndsOwned, OwnApart
<1>7. d # NO_ZONE => d \in Zone /\ d # y
  <2> SUFFICES ASSUME d # NO_ZONE PROVE d \in Zone /\ d # y
    OBVIOUS
  <2>1. d \in Zone
    BY <1>1, ZFields DEF Pointer
  <2>2. s.single[f] # d /\ \A j \in Index : s.ptr[d][j] # d
    BY <1>1, <2>1, LevelsApart
  <2>3. CASE IsSingle(p)
    BY <2>1, <2>2, <2>3 DEF Single
  <2>4. CASE ~IsSingle(p)
    <3>1. y = s.ptr[d][Double(p)] /\ Double(p) \in Index
      BY <2>4, SpotFacts DEF Single, Double
    <3> QED BY <3>1, <2>1, <2>2
  <2> QED BY <2>3, <2>4
<1> HIDE DEF t, P, y, w
<1>8. ASSUME NEW g \in ZoneFile, g # f
      PROVE  /\ \A h \in Pointer, i \in Nat :
                  /\ IsPlace(t, g, h, i) <=> IsPlace(s, g, h, i)
                  /\ IsPlace(s, g, h, i) => PointerAt(t, g, h, i) = PointerAt(s, g, h, i)
             /\ \A q \in Position : read_map(t, g, q) = read_map(s, g, q)
  <2>1. \A x \in Inds(s, g), i \in Index : t.ptr[x][i] = s.ptr[x][i]
    BY <1>4, <1>5, <1>6, <1>8 DEF Inds
  <2> QED BY <2>1, <1>1, <1>4, SameReads
<1>9. Inds(t, f) = Inds(s, f)
  BY <1>4, <1>5, <1>7 DEF Inds
<1>10. ASSUME NEW h \in Pointer, NEW i \in Nat
       PROVE  /\ IsPlace(t, f, h, i) <=> IsPlace(s, f, h, i)
              /\ IsPlace(s, f, h, i) => PointerAt(t, f, h, i) = IF h = y /\ i = w THEN z ELSE PointerAt(s, f, h, i)
  <2>1. IsPlace(t, f, h, i) <=> IsPlace(s, f, h, i)
    BY <1>9 DEF IsPlace
  <2>2. CASE h = 0
    BY <2>1, <2>2, <1>2, <1>4 DEF PointerAt
  <2>3. CASE h # 0
    <3>1. IsPlace(s, f, h, i) => h \in Zone /\ i \in Index
      BY <2>3 DEF IsPlace, Inds
    <3> QED BY <2>1, <2>3, <3>1, <1>4, <1>5 DEF PointerAt
  <2> QED BY <2>2, <2>3
<1>11. Hangs(s, t, f, y, w, z, {})
  <2>1. IsPlace(s, f, y, w) /\ PointerAt(s, f, y, w) = 0
    BY <1>2 DEF IsPlace, PointerAt
  <2> QED BY <2>1, <1>2, <1>8, <1>10 DEF Hangs
<1>12. /\ OnePlace(t)
       /\ \A g \in ZoneFile : ZonesOf(t, g) = IF g = f THEN ZonesOf(s, g) \cup {z} ELSE ZonesOf(s, g)
  <2>1. y \in Pointer
    BY <1>2 DEF Pointer
  <2> QED BY <2>1, <1>1, <1>2, <1>11, HungOnce
<1>13. Tidy(t, X \ {z})
  <2>1. t.zmap = s.zmap \cup {z}
    BY <1>1, <1>4
  <2> QED BY <2>1, <1>1, <1>4, <1>12, HungTidy
<1>14. ASSUME NEW q \in Position
       PROVE  read_map(t, f, q) = IF Relative(q) = Relative(p) THEN z ELSE read_map(s, f, q)
  <2>1. CASE IsDirect(q)
    <3>1. Relative(q) # Relative(p)
      BY <2>1, SpotsApart
    <3> QED BY <2>1, <3>1, <1>4 DEF read_map
  <2>2. CASE ~IsDirect(q)
    <3>1. Single(t, f, q) = Single(s, f, q)
      <4>1. CASE IsSingle(q)
        BY <4>1, <1>4 DEF Single
      <4>2. CASE ~IsSingle(q)
        BY <4>2, <1>4, <1>5, <1>7 DEF Single
      <4> QED BY <4>1, <4>2
    <3>2. Within(q) \in Index /\ Single(s, f, q) \in Pointer
      BY <2>2, <1>1, SpotFacts, MapFacts
    <3>3. Relative(q) = Relative(p) => Single(s, f, q) = y /\ Within(q) = w
      BY SpotsApart DEF y, w
    <3>4. Single(s, f, q) = y /\ Within(q) = w => Relative(q) = Relative(p)
      BY <1>1, <1>2, <2>2, SinglesApart DEF y, w
    <3>5. CASE Relative(q) = Relative(p)
      BY <3>1, <3>3, <3>5, <2>2, <1>2, <1>4, <1>5 DEF read_map
    <3>6. CASE Relative(q) # Relative(p)
      <4>1. CASE Single(s, f, q) = NO_ZONE
        BY <3>1, <3>6, <4>1, <2>2 DEF read_map
      <4>2. CASE Single(s, f, q) # NO_ZONE
        <5>1. Single(s, f, q) \in Zone
          BY <3>2, <4>2 DEF Pointer
        <5>2. t.ptr[Single(s, f, q)][Within(q)] = s.ptr[Single(s, f, q)][Within(q)]
          BY <5>1, <3>2, <3>4, <3>6, <1>4, <1>5
        <5> QED BY <3>1, <3>6, <4>2, <5>2, <2>2 DEF read_map
      <4> QED BY <4>1, <4>2
    <3> QED BY <3>5, <3>6
  <2> QED BY <2>1, <2>2
<1>15. Placed(s, t, X, f, p, z)
  BY <1>4, <1>8, <1>13, <1>14 DEF Placed
<1> QED BY <1>15 DEF t, y, w

\* write_map(): with a place for the zone, or without one.
LEMMA MapWritten ==
  ASSUME geo \in Geometries, NEW s, NEW X, Tidy(s, X), NEW f \in ZoneFile, NEW p \in Position,
         NEW z \in X, read_map(s, f, p) = NO_ZONE
  PROVE  LET w == write_map(s, f, p, z)
         IN  IF w.ok THEN Placed(s, w.s, X, f, p, z) ELSE OnlyMaps(s, w.s, X)
<1> DEFINE u == WithDouble(s, f, p)
           t == WithSingle(u, f, p)
           w == write_map(s, f, p, z)
<1>1. OnlyMaps(s, u, X)
  BY DoubleMade
<1>2. Tidy(u, X)
  BY <1>1 DEF OnlyMaps
<1>3. OnlyMaps(u, t, X)
  BY <1>2, SingleMade
<1>4. /\ IsDirect(p) => w = [s |-> [s EXCEPT !.direct[f][Relative(p)] = z], ok |-> TRUE]
      /\ ~IsDirect(p) /\ Single(t, f, p) = NO_ZONE => w = [s |-> t, ok |-> FALSE]
      /\ ~IsDirect(p) /\ Single(t, f, p) # NO_ZONE =>
           w = [s |-> [t EXCEPT !.ptr[Single(t, f, p)][Within(p)] = z], ok |-> TRUE]
  BY DEF write_map
<1> HIDE DEF u, t, w
<1>5. OnlyMaps(s, t, X)
  <2>1. \A y \in s.zmap : t.data[y] = s.data[y]
    BY <1>1, <1>3 DEF OnlyMaps
  <2> QED BY <2>1, <1>1, <1>3 DEF OnlyMaps, SameFiles
<1>6. CASE IsDirect(p)
  BY <1>4, <1>6, DirectPut DEF w
<1>7. CASE ~IsDirect(p) /\ Single(t, f, p) = NO_ZONE
  BY <1>4, <1>5, <1>7 DEF w
<1>8. CASE ~IsDirect(p) /\ Single(t, f, p) # NO_ZONE
  <2> DEFINE v == [t EXCEPT !.ptr[Single(t, f, p)][Within(p)] = z]
  <2>1. Tidy(t, X) /\ read_map(t, f, p) = NO_ZONE
    BY <1>5 DEF OnlyMaps
  <2>2. Placed(t, v, X, f, p, z)
    BY <2>1, <1>8, IndirectPut
  <2>3. w.ok /\ w.s = v
    BY <1>4, <1>8
  <2> HIDE DEF v
  <2>4. \A y \in s.zmap : v.data[y] = s.data[y]
    BY <2>2, <1>5 DEF OnlyMaps, Placed
  <2>5. Placed(s, v, X, f, p, z)
    BY <2>2, <2>4, <1>5 DEF OnlyMaps, Placed, SameFiles
  <2> QED BY <2>3, <2>5 DEF w
<1> QED BY <1>6, <1>7, <1>8

\* The two states have the same maps.
SameMaps(t, s) ==
  /\ t.zmap = s.zmap /\ t.direct = s.direct /\ t.single = s.single /\ t.double = s.double
  /\ t.ptr = s.ptr /\ t.lost = s.lost

\* The zones and the places of them are the same then.
LEMMA MapsSame ==
  ASSUME geo \in Geometries, NEW s, NEW t \in ZState, NEW X, Tidy(s, X), SameMaps(t, s)
  PROVE  Tidy(t, X) /\ \A g \in ZoneFile : /\ ZonesOf(t, g) = ZonesOf(s, g)
                                           /\ \A q \in Position : read_map(t, g, q) = read_map(s, g, q)
<1>1. s \in ZState /\ OnePlace(s)
  BY DEF Tidy
<1>2. ASSUME NEW g \in ZoneFile
      PROVE  /\ ZonesOf(t, g) = ZonesOf(s, g)
             /\ \A h \in Pointer, i \in Nat :
                  /\ IsPlace(t, g, h, i) <=> IsPlace(s, g, h, i)
                  /\ IsPlace(s, g, h, i) => PointerAt(t, g, h, i) = PointerAt(s, g, h, i)
             /\ \A q \in Position : read_map(t, g, q) = read_map(s, g, q)
  BY <1>1, SameReads DEF SameMaps
<1>3. OnePlace(t)
  <2> SUFFICES ASSUME NEW g \in ZoneFile, NEW g2 \in ZoneFile, NEW k \in Pointer, NEW k2 \in Pointer,
                      NEW j \in Nat, NEW j2 \in Nat, IsPlace(t, g, k, j), IsPlace(t, g2, k2, j2),
                      PointerAt(t, g, k, j) \in Zone, PointerAt(t, g, k, j) = PointerAt(t, g2, k2, j2)
               PROVE  g = g2 /\ k = k2 /\ j = j2
    BY DEF OnePlace
  <2>1. /\ IsPlace(s, g, k, j) /\ PointerAt(s, g, k, j) = PointerAt(t, g, k, j)
        /\ IsPlace(s, g2, k2, j2) /\ PointerAt(s, g2, k2, j2) = PointerAt(t, g2, k2, j2)
    BY <1>2
  <2> QED BY <1>1, <2>1 DEF OnePlace
<1>4. Mapped(t, X)
  BY <1>2 DEF Tidy, Mapped, SameMaps
<1> QED BY <1>2, <1>3, <1>4 DEF Tidy

\* From s to t, the contents of one zone changed.
OnlyData(s, t, z) ==
  /\ t \in ZState /\ SameMaps(t, s) /\ SameFiles(t, s)
  /\ \A y \in Zone : y # z => t.data[y] = s.data[y]

\* The contents d of a zone are replaced.
LEMMA DataPut ==
  ASSUME geo \in Geometries, NEW s \in ZState, NEW z \in Zone,
         NEW d \in [0 .. zone_size - 1 -> {ZERO, MINE, OLD}]
  PROVE  /\ OnlyData(s, [s EXCEPT !.data[z] = d], z)
         /\ [s EXCEPT !.data[z] = d].data[z] = d
<1> DEFINE Q == [s.data EXCEPT ![z] = d]
           t == [s EXCEPT !.data[z] = d]
<1>1. s.data \in [Zone -> [0 .. zone_size - 1 -> {ZERO, MINE, OLD}]]
  BY DEF ZState
<1>2. Q \in [Zone -> [0 .. zone_size - 1 -> {ZERO, MINE, OLD}]] /\ Q[z] = d
      /\ \A y \in Zone : y # z => Q[y] = s.data[y]
  BY <1>1
<1>3. t = [s EXCEPT !.data = Q]
  OBVIOUS
<1> HIDE DEF t, Q
<1>4. /\ t \in ZState /\ t.data = Q /\ SameMaps(t, s) /\ SameFiles(t, s)
  BY <1>2, <1>3 DEF ZState, SameMaps, SameFiles
<1> QED BY <1>2, <1>4 DEF OnlyData, t

\* Where a position is in its zone.
LEMMA InZoneType ==
  ASSUME geo \in Geometries, NEW q \in Position
  PROVE  q \in Nat /\ InZone(q) \in 0 .. zone_size - 1
<1>1. q \in Nat
  BY Sizes DEF Position
<1> QED BY <1>1, PositionParts

\* zero_block(): the block of a position.
LEMMA Zeroed ==
  ASSUME geo \in Geometries, NEW s \in ZState, NEW z \in Zone, NEW p \in Position
  PROVE  LET t == zero_block(s, z, InZone(p))
         IN  /\ OnlyData(s, t, z)
             /\ \A q \in Position : Relative(q) = Relative(p) =>
                  t.data[z][InZone(q)] = IF BlockOf(q) = BlockOf(p) THEN ZERO ELSE s.data[z][InZone(q)]
<1> DEFINE u == InZone(p)
           d == [x \in DOMAIN s.data[z] |-> IF x \div BLOCK_SIZE = u \div BLOCK_SIZE THEN ZERO ELSE s.data[z][x]]
           t == zero_block(s, z, u)
<1>1. s.data[z] \in [0 .. zone_size - 1 -> {ZERO, MINE, OLD}]
  BY DEF ZState
<1>2. d \in [0 .. zone_size - 1 -> {ZERO, MINE, OLD}]
  BY <1>1
<1>3. t = [s EXCEPT !.data[z] = d]
  BY DEF zero_block
<1>4. OnlyData(s, t, z) /\ t.data[z] = d
  <2> HIDE DEF d, t
  <2> QED BY <1>2, <1>3, DataPut
<1>5. ASSUME NEW q \in Position, Relative(q) = Relative(p)
      PROVE  d[InZone(q)] = IF BlockOf(q) = BlockOf(p) THEN ZERO ELSE s.data[z][InZone(q)]
  <2>1. p \in Nat /\ q \in Nat /\ InZone(q) \in 0 .. zone_size - 1
    BY InZoneType
  <2>2. InZone(q) \div BLOCK_SIZE = InZone(p) \div BLOCK_SIZE <=> BlockOf(q) = BlockOf(p)
    BY <2>1, <1>5, SameZone
  <2> DEFINE x == InZone(q)
  <2> HIDE DEF x
  <2>3. d[x] = IF x \div BLOCK_SIZE = u \div BLOCK_SIZE THEN ZERO ELSE s.data[z][x]
    BY <1>1, <2>1 DEF x
  <2> HIDE DEF d, u
  <2> QED BY <2>2, <2>3 DEF x, u
<1> HIDE DEF d
<1> QED BY <1>4, <1>5

\* A position in the zone of another is one that a file can have.
LEMMA Neighbour ==
  ASSUME geo \in Geometries, NEW p \in Position, NEW q \in Nat, Relative(q) = Relative(p)
  PROVE  q \in Position
<1>1. zone_size \in Nat \ {0} /\ MaxZones \in Nat /\ s_max_size = MaxZones * zone_size /\ s_max_size \in Nat
  BY Sizes
<1>2. Relative(q) < MaxZones /\ Relative(q) \in Nat
  BY SpotFacts, <1>1
<1>3. Relative(q) * zone_size + zone_size <= MaxZones * zone_size
  BY <1>1, <1>2, Apart
<1>4. q < ZoneStart(q) + zone_size
  <2>1. ZoneStart(q) \in Nat /\ InZone(q) \in 0 .. zone_size - 1 /\ q = ZoneStart(q) + InZone(q)
    BY PositionParts
  <2> QED BY <2>1, <1>1
<1>5. ZoneStart(q) = Relative(q) * zone_size /\ ZoneStart(q) \in Nat
  BY PositionParts DEF ZoneStart
<1> QED BY <1>1, <1>3, <1>4, <1>5 DEF Position

\* clear_zone(): from the block of n on.
LEMMA FromBlock ==
  ASSUME geo \in Geometries, NEW n \in Nat, NEW q \in Nat, Relative(q) = Relative(n)
  PROVE  InZone(q) >= (InZone(n) \div BLOCK_SIZE) * BLOCK_SIZE <=> BlockOf(n) <= BlockOf(q)
<1> DEFINE B == BLOCK_SIZE
           x == InZone(q)
           y == InZone(n)
           a == x \div B
           b == y \div B
<1>1. B \in Nat \ {0} /\ x \in Nat /\ y \in Nat
  <2>1. InZone(q) \in 0 .. zone_size - 1 /\ InZone(n) \in 0 .. zone_size - 1
    BY PositionParts
  <2>2. BLOCK_SIZE \in Nat \ {0} /\ zone_size \in Nat
    BY Sizes
  <2> QED BY <2>1, <2>2
<1>2. a = BlockOf(q) - Relative(q) * geo.blocks /\ b = BlockOf(n) - Relative(n) * geo.blocks
  BY PositionParts
<1>3. BlockOf(q) \in Nat /\ BlockOf(n) \in Nat /\ Relative(n) * geo.blocks \in Nat
  <2>1. Relative(n) \in Nat /\ geo.blocks \in Nat
    BY Sizes, PositionParts
  <2>2. Relative(n) * geo.blocks \in Nat
    BY <2>1
  <2>3. BlockOf(q) \in Nat /\ BlockOf(n) \in Nat
    BY PositionParts
  <2> QED BY <2>2, <2>3
<1> HIDE DEF B, x, y
<1>4. x % B \in 0 .. B - 1 /\ a \in Nat /\ x = a * B + (x % B) /\ b \in Nat
  BY <1>1, Divided
<1> DEFINE m == x % B
<1> HIDE DEF m
<1>5. m \in 0 .. B - 1 /\ x = a * B + m
  BY <1>4 DEF m
<1>6. b <= a <=> BlockOf(n) <= BlockOf(q)
  BY <1>2, <1>3, <1>4
<1> HIDE DEF a, b
<1>7. a * B \in Nat /\ b * B \in Nat
  BY <1>1, <1>4
<1>8. ASSUME b <= a PROVE x >= b * B
  <2>1. CASE a = b
    BY <2>1, <1>1, <1>5, <1>7
  <2>2. CASE b < a
    <3>1. b * B + B <= a * B
      BY <2>2, <1>1, <1>4, Apart
    <3> QED BY <3>1, <1>1, <1>5, <1>7
  <2> QED BY <2>1, <2>2, <1>8, <1>4
<1>9. ASSUME a < b PROVE x < b * B
  <2>1. a * B + B <= b * B
    BY <1>9, <1>1, <1>4, Apart
  <2> QED BY <2>1, <1>1, <1>5, <1>7
<1>10. b <= a <=> x >= b * B
  BY <1>8, <1>9, <1>1, <1>4, <1>5, <1>7
<1> QED BY <1>6, <1>10 DEF a, b, x, y, B

\* Which zone clear_zone() clears, and what of it, when it is for what follows `from'.
ClearsFrom(s, t, f, from) ==
  \E n, z :
    /\ n \in Nat /\ n = from + BLOCK_SIZE - 1 /\ z = read_map(s, f, n)
    /\ geo.blocks = 1 \/ Relative(n) # Relative(from) \/ z = NO_ZONE => t = s
    /\ geo.blocks # 1 /\ Relative(n) = Relative(from) /\ z \in Zone =>
         /\ OnlyData(s, t, z)
         /\ \A q \in Position : Relative(q) = Relative(n) =>
              t.data[z][InZone(q)] = IF BlockOf(n) <= BlockOf(q) THEN ZERO ELSE s.data[z][InZone(q)]

\* The zone that clear_zone() clears.
LEMMA ZoneCleared ==
  ASSUME geo \in Geometries, NEW s \in ZState, NEW f \in ZoneFile, NEW p \in Nat, NEW whole \in BOOLEAN,
         NEW from, from = IF whole THEN ZoneStart(p) ELSE p, NEW n, n = from + BLOCK_SIZE - 1,
         NEW z, z = read_map(s, f, n), NEW t, t = clear_zone(s, f, p, whole)
  PROVE  /\ n \in Nat
         /\ geo.blocks = 1 \/ Relative(n) # Relative(from) \/ z = NO_ZONE => t = s
         /\ geo.blocks # 1 /\ Relative(n) = Relative(from) /\ z \in Zone =>
              /\ OnlyData(s, t, z)
              /\ \A q \in Position : Relative(q) = Relative(n) =>
                   t.data[z][InZone(q)] = IF BlockOf(n) <= BlockOf(q) THEN ZERO ELSE s.data[z][InZone(q)]
<1> DEFINE u == (InZone(n) \div BLOCK_SIZE) * BLOCK_SIZE
           d == [x \in DOMAIN s.data[z] |-> IF x >= u THEN ZERO ELSE s.data[z][x]]
           stays == geo.blocks = 1 \/ Relative(n) # Relative(from) \/ z = NO_ZONE
<1>1. t = IF stays THEN s ELSE [s EXCEPT !.data[z] = d]
  BY DEF clear_zone, ZoneStart, Relative, InZone
<1>2. from \in Nat /\ BLOCK_SIZE \in Nat \ {0}
  BY PositionParts, Sizes
<1>3. n \in Nat
  BY <1>2
<1>4. ASSUME ~stays, z \in Zone
      PROVE  /\ OnlyData(s, t, z)
             /\ \A q \in Position : Relative(q) = Relative(n) =>
                  t.data[z][InZone(q)] = IF BlockOf(n) <= BlockOf(q) THEN ZERO ELSE s.data[z][InZone(q)]
  <2>1. s.data[z] \in [0 .. zone_size - 1 -> {ZERO, MINE, OLD}]
    BY <1>4 DEF ZState
  <2>2. d \in [0 .. zone_size - 1 -> {ZERO, MINE, OLD}]
    BY <2>1
  <2>3. OnlyData(s, t, z) /\ t.data[z] = d
    <3> HIDE DEF d
    <3> QED BY <1>1, <1>4, <2>2, DataPut
  <2>4. ASSUME NEW q \in Position, Relative(q) = Relative(n)
        PROVE  d[InZone(q)] = IF BlockOf(n) <= BlockOf(q) THEN ZERO ELSE s.data[z][InZone(q)]
    <3>1. q \in Nat /\ InZone(q) \in 0 .. zone_size - 1
      BY InZoneType
    <3>2. InZone(q) >= u <=> BlockOf(n) <= BlockOf(q)
      BY <3>1, <1>3, <2>4, FromBlock
    <3> HIDE DEF u
    <3>3. d[InZone(q)] = IF InZone(q) >= u THEN ZERO ELSE s.data[z][InZone(q)]
      BY <2>1, <3>1
    <3> HIDE DEF d
    <3> QED BY <3>2, <3>3
  <2> HIDE DEF d
  <2> QED BY <2>3, <2>4
<1>5. stays => t = s
  BY <1>1
<1>6. z \in Zone => z # NO_ZONE
  BY ZoneFacts
<1> QED BY <1>3, <1>4, <1>5, <1>6

\* clear_zone(): what follows the end of the file, or the whole zone.
LEMMA Cleared ==
  ASSUME geo \in Geometries, NEW s \in ZState, NEW f \in ZoneFile, NEW p \in Nat
  PROVE  /\ ClearsFrom(s, clear_zone(s, f, p, FALSE), f, p)
         /\ ClearsFrom(s, clear_zone(s, f, p, TRUE), f, ZoneStart(p))
<1>1. ASSUME NEW whole \in BOOLEAN
      PROVE  ClearsFrom(s, clear_zone(s, f, p, whole), f, IF whole THEN ZoneStart(p) ELSE p)
  <2> DEFINE from == IF whole THEN ZoneStart(p) ELSE p
             n == from + BLOCK_SIZE - 1
             z == read_map(s, f, n)
             t == clear_zone(s, f, p, whole)
  <2>1. /\ n \in Nat
        /\ geo.blocks = 1 \/ Relative(n) # Relative(from) \/ z = NO_ZONE => t = s
        /\ geo.blocks # 1 /\ Relative(n) = Relative(from) /\ z \in Zone =>
             /\ OnlyData(s, t, z)
             /\ \A q \in Position : Relative(q) = Relative(n) =>
                  t.data[z][InZone(q)] = IF BlockOf(n) <= BlockOf(q) THEN ZERO ELSE s.data[z][InZone(q)]
    BY ZoneCleared
  <2>2. n = from + BLOCK_SIZE - 1 /\ z = read_map(s, f, n)
    OBVIOUS
  <2> HIDE DEF from, n, z, t
  <2> QED BY <2>1, <2>2 DEF ClearsFrom, from, t
<1> QED BY <1>1

\* No zone of a file begins at M or beyond.
Extent(s, f, M) == \A q \in Position : read_map(s, f, q) # NO_ZONE => ZoneStart(q) < M

\* A file reads as it was written in the blocks that begin before M.
Reads(s, f, M) == \A q \in Position : BlockStart(q) < M => ReadAt(s, f, q) = Meant(s, f, q)

\* What a file is did not change from s to t.
Undisturbed(s, t, g) ==
  /\ t.size[g] = s.size[g] /\ t.meant[g] = s.meant[g]
  /\ g \in t.failed <=> g \in s.failed
  /\ g \in t.grown <=> g \in s.grown
  /\ \A q \in Position : /\ read_map(t, g, q) = read_map(s, g, q)
                         /\ read_map(s, g, q) \in Zone => t.data[read_map(s, g, q)] = s.data[read_map(s, g, q)]

\* Then it reads as before.
LEMMA ReadsOn ==
  ASSUME geo \in Geometries, NEW s \in ZState, NEW t, NEW g \in ZoneFile, Undisturbed(s, t, g)
  PROVE  /\ \A q \in Position : ReadAt(t, g, q) = ReadAt(s, g, q) /\ Meant(t, g, q) = Meant(s, g, q)
         /\ \A M \in Nat : (Extent(s, g, M) => Extent(t, g, M)) /\ (Reads(s, g, M) => Reads(t, g, M))
<1>1. ASSUME NEW q \in Position
      PROVE  ReadAt(t, g, q) = ReadAt(s, g, q) /\ Meant(t, g, q) = Meant(s, g, q)
  <2>1. read_map(s, g, q) \in Pointer
    BY MapFacts
  <2> QED BY <2>1 DEF ReadAt, Meant, Undisturbed, Pointer
<1>2. \A q \in Position : read_map(t, g, q) = read_map(s, g, q)
  BY DEF Undisturbed
<1> QED BY <1>1, <1>2 DEF Extent, Reads

\* Where no block but of a new zone, or of one z that others have, changed.
LEMMA OthersSame ==
  ASSUME geo \in Geometries, NEW s, Tidy(s, {}), NEW t
  PROVE  /\ OnlyMaps(s, t, {}) => \A g \in ZoneFile : Undisturbed(s, t, g)
         /\ \A f \in ZoneFile, p \in Position : \A z \in Zone : \A g \in ZoneFile :
              z = read_map(s, f, p) /\ OnlyData(s, t, z) /\ g # f => Undisturbed(s, t, g)
<1>1. s \in ZState /\ OnePlace(s) /\ \A g \in ZoneFile : ZonesOf(s, g) \subseteq s.zmap
  BY DEF Tidy, Mapped, ZonesOf
<1>2. ASSUME OnlyMaps(s, t, {}), NEW g \in ZoneFile PROVE Undisturbed(s, t, g)
  <2>1. \A q \in Position : read_map(s, g, q) \in Zone => read_map(s, g, q) \in s.zmap
    BY <1>1, MapFacts
  <2> QED BY <1>2, <2>1 DEF OnlyMaps, SameFiles, Undisturbed
<1>3. ASSUME NEW f \in ZoneFile, NEW p \in Position, NEW z \in Zone, NEW g \in ZoneFile,
             z = read_map(s, f, p), OnlyData(s, t, z), g # f
      PROVE  Undisturbed(s, t, g)
  <2>1. \A q \in Position : read_map(s, g, q) # z
    BY <1>1, <1>3, ReadApart
  <2>2. \A q \in Position : read_map(t, g, q) = read_map(s, g, q)
    BY <1>3, MapsSame DEF OnlyData
  <2> QED BY <1>3, <2>1, <2>2 DEF OnlyData, SameFiles, Undisturbed
<1> QED BY <1>2, <1>3

\* Before a write beyond the end of a file, clear_zone() makes all that follows the end
\* read as zeros.
LEMMA ClearedFrom ==
  ASSUME geo \in Geometries, NEW s, Tidy(s, {}), NEW f \in ZoneFile, s.size[f] \in Position,
         Extent(s, f, s.size[f]), Reads(s, f, s.size[f]), s.meant[f] \subseteq 0 .. s.size[f] - 1
  PROVE  LET t == clear_zone(s, f, s.size[f], FALSE)
         IN  \A M \in Nat : Reads(t, f, M)
<1> DEFINE e == s.size[f]
           t == clear_zone(s, f, e, FALSE)
<1>1. s \in ZState /\ OnePlace(s) /\ e \in Nat /\ BLOCK_SIZE \in Nat \ {0} /\ zone_size \in Nat
      /\ zone_size = geo.blocks * BLOCK_SIZE /\ geo.blocks \in Nat
  BY ZFields, Sizes DEF Tidy
<1>2. ClearsFrom(s, t, f, e)
  BY <1>1, Cleared
<1> HIDE DEF t
<1>3. PICK n, z :
        /\ n \in Nat /\ n = e + BLOCK_SIZE - 1 /\ z = read_map(s, f, n)
        /\ geo.blocks = 1 \/ Relative(n) # Relative(e) \/ z = NO_ZONE => t = s
        /\ geo.blocks # 1 /\ Relative(n) = Relative(e) /\ z \in Zone =>
             /\ OnlyData(s, t, z)
             /\ \A q \in Position : Relative(q) = Relative(n) =>
                  t.data[z][InZone(q)] = IF BlockOf(n) <= BlockOf(q) THEN ZERO ELSE s.data[z][InZone(q)]
  BY <1>2 DEF ClearsFrom
<1>4. Relative(n) = Relative(e) => n \in Position
  BY <1>3, Neighbour
<1>5. ASSUME NEW q \in Position, Relative(q) = Relative(n), Relative(n) = Relative(e)
      PROVE  read_map(s, f, q) = z
  BY <1>4, <1>5, SpotsApart, <1>3
<1>6. Relative(n) = Relative(e) => z \in Pointer
  BY <1>1, <1>4, MapFacts, <1>3
<1>7. \/ t = s
      \/ geo.blocks # 1 /\ Relative(n) = Relative(e) /\ z \in Zone
  BY <1>3, <1>6 DEF Pointer
<1>8. ASSUME NEW q \in Position
      PROVE  read_map(t, f, q) = read_map(s, f, q) /\ Meant(t, f, q) = Meant(s, f, q)
  <2>1. CASE t = s
    BY <2>1
  <2>2. CASE t # s
    <3>1. OnlyData(s, t, z)
      BY <2>2, <1>3, <1>7
    <3>2. read_map(t, f, q) = read_map(s, f, q)
      BY <3>1, MapsSame DEF OnlyData
    <3> QED BY <3>1, <3>2 DEF OnlyData, SameFiles, Meant
  <2> QED BY <2>1, <2>2
<1>9. ASSUME NEW q \in Position PROVE q \in Nat /\ BlockStart(q) \in Nat /\ BlockStart(q) <= q
  <2>1. q \in Nat
    BY InZoneType
  <2>2. q = BlockStart(q) + InBlock(q) /\ InBlock(q) \in 0 .. BLOCK_SIZE - 1 /\ BlockStart(q) \in Nat
    BY <2>1, PositionParts
  <2> QED BY <2>1, <2>2, <1>1
<1>10. BlockStart(n) >= e
  <2>1. n = BlockStart(n) + InBlock(n) /\ InBlock(n) \in 0 .. BLOCK_SIZE - 1 /\ BlockStart(n) \in Nat
    BY <1>3, PositionParts
  <2> QED BY <2>1, <1>1, <1>3
<1>11. ASSUME NEW q \in Position, BlockStart(q) < e PROVE ReadAt(t, f, q) = Meant(t, f, q)
  <2>1. ReadAt(s, f, q) = Meant(s, f, q)
    BY <1>11 DEF Reads
  <2>2. ReadAt(t, f, q) = ReadAt(s, f, q)
    <3>1. CASE t = s
      BY <3>1
    <3>2. CASE t # s
      <4>1. OnlyData(s, t, z) /\ z \in Zone /\ Relative(n) = Relative(e)
        BY <3>2, <1>3, <1>7
      <4>2. CASE Relative(q) = Relative(n)
        <5>1. read_map(s, f, q) = z
          BY <4>1, <4>2, <1>5
        <5>2. BlockOf(q) \in Nat /\ BlockOf(n) \in Nat /\ BlockStart(q) # BlockStart(n)
          <6>1. BlockOf(q) \in Nat /\ BlockOf(n) \in Nat /\ BlockStart(n) \in Nat
            BY <1>3, <1>9, PositionParts
          <6>2. BlockStart(q) # BlockStart(n)
            BY <6>1, <1>1, <1>9, <1>10, <1>11
          <6> QED BY <6>1, <6>2
        <5>3. BlockOf(q) # BlockOf(n)
          BY <5>2 DEF BlockStart
        <5>4. ~(BlockOf(n) <= BlockOf(q))
          <6>1. ASSUME BlockOf(n) < BlockOf(q) PROVE FALSE
            <7>1. BlockStart(n) + BLOCK_SIZE <= BlockStart(q)
              BY <6>1, <1>3, <1>9, InOrder
            <7>2. BlockStart(n) \in Nat
              BY <1>3, PositionParts
            <7> QED BY <7>1, <7>2, <1>1, <1>9, <1>10, <1>11
          <6> QED BY <6>1, <5>2, <5>3
        <5>5. t.data[z][InZone(q)] = s.data[z][InZone(q)]
          BY <5>4, <4>1, <4>2, <1>3, <1>7, <3>2
        <5>6. z # NO_ZONE
          BY <4>1, ZoneFacts
        <5> QED BY <5>1, <5>5, <5>6, <1>8 DEF ReadAt, InZone
      <4>3. CASE Relative(q) # Relative(n)
        <5>1. read_map(s, f, q) # z
          BY <4>1, <4>3, <1>1, <1>4, ReadApart, <1>3
        <5>2. read_map(s, f, q) \in Pointer
          BY <1>1, MapFacts
        <5> QED BY <4>1, <5>1, <5>2, <1>8 DEF ReadAt, OnlyData, Pointer
      <4> QED BY <4>2, <4>3
    <3> QED BY <3>1, <3>2
  <2> QED BY <2>1, <2>2, <1>8
<1>12. ASSUME NEW q \in Position, BlockStart(q) >= e PROVE ReadAt(t, f, q) = Meant(t, f, q)
  <2>1. Meant(s, f, q) = ZERO
    <3>1. q \notin 0 .. e - 1
      BY <1>1, <1>9, <1>12
    <3> QED BY <3>1 DEF Meant
  <2>2. CASE read_map(s, f, q) = NO_ZONE
    BY <2>1, <2>2, <1>8 DEF ReadAt
  <2>3. CASE read_map(s, f, q) # NO_ZONE
    <3>1. ZoneStart(q) < e
      BY <2>3 DEF Extent
    <3>2. /\ ZoneStart(q) \in Nat /\ BlockStart(q) + BLOCK_SIZE <= ZoneStart(q) + zone_size
          /\ ZoneStart(q) <= BlockStart(q) /\ BlockOf(q) \in Nat /\ BlockOf(n) \in Nat
      BY <1>3, <1>9, PositionParts
    <3>3. /\ ZoneStart(q) <= e /\ e < ZoneStart(q) + zone_size
          /\ ZoneStart(q) <= n /\ n < ZoneStart(q) + zone_size /\ n < BlockStart(q) + BLOCK_SIZE
      BY <3>1, <3>2, <1>1, <1>3, <1>9, <1>12
    <3>4. Relative(e) = Relative(q) /\ Relative(n) = Relative(q)
      BY <3>3, <1>1, <1>3, <1>9, Inside
    <3>5. geo.blocks # 1
      <4>1. ASSUME geo.blocks = 1 PROVE FALSE
        <5>1. zone_size = BLOCK_SIZE
          BY <4>1, <1>1
        <5> QED BY <5>1, <3>1, <3>2, <1>1, <1>9, <1>12
      <4> QED BY <4>1
    <3>6. read_map(s, f, q) = z /\ z \in Zone
      BY <3>4, <1>5, <1>6, <2>3 DEF Pointer
    <3>7. BlockOf(n) <= BlockOf(q)
      <4>1. ASSUME BlockOf(q) < BlockOf(n) PROVE FALSE
        <5>1. BlockStart(q) + BLOCK_SIZE <= BlockStart(n)
          BY <4>1, <1>3, <1>9, InOrder
        <5>2. n = BlockStart(n) + InBlock(n) /\ InBlock(n) \in 0 .. BLOCK_SIZE - 1 /\ BlockStart(n) \in Nat
          BY <1>3, PositionParts
        <5> QED BY <5>1, <5>2, <3>3, <1>1, <1>3, <1>9
      <4> QED BY <4>1, <3>2
    <3>8. t.data[z][InZone(q)] = ZERO
      BY <3>4, <3>5, <3>6, <3>7, <1>3
    <3>9. z # NO_ZONE
      BY <3>6, ZoneFacts
    <3> QED BY <3>6, <3>8, <3>9, <2>1, <1>8 DEF ReadAt, InZone
  <2> QED BY <2>2, <2>3
<1>13. ASSUME NEW q \in Position PROVE ReadAt(t, f, q) = Meant(t, f, q)
  BY <1>11, <1>12, <1>9, <1>1
<1>14. \A M \in Nat : Reads(t, f, M)
  BY <1>13 DEF Reads
<1> QED BY <1>14 DEF t

\* free_zone(): the map is without the zones, and only they are forgotten.
LEMMA ZonesFreed ==
  ASSUME NEW s \in ZState, NEW zs
  PROVE  LET t == free_zone(s, zs)
         IN  /\ t \in ZState /\ t.zmap = s.zmap \ zs
             /\ t.direct = s.direct /\ t.single = s.single /\ t.double = s.double /\ SameFiles(t, s)
             /\ \A y \in Zone \ zs : t.ptr[y] = s.ptr[y] /\ t.data[y] = s.data[y]
<1> DEFINE t == free_zone(s, zs)
           P == [y \in Zone |-> IF y \in zs THEN [i \in Index |-> NO_ZONE] ELSE s.ptr[y]]
           Q == [y \in Zone |-> IF y \in zs THEN [u \in DOMAIN s.data[y] |-> OLD] ELSE s.data[y]]
<1>1. t = [s EXCEPT !.zmap = s.zmap \ zs, !.ptr = P, !.data = Q]
  BY DEF free_zone, Forgotten, ZState
<1>2. P \in [Zone -> [Index -> Pointer]]
  BY DEF Pointer, ZState
<1>3. Q \in [Zone -> [0 .. zone_size - 1 -> {ZERO, MINE, OLD}]]
  <2>1. \A y \in Zone : s.data[y] \in [0 .. zone_size - 1 -> {ZERO, MINE, OLD}]
    BY DEF ZState
  <2>2. \A y \in Zone : [u \in DOMAIN s.data[y] |-> OLD] \in [0 .. zone_size - 1 -> {ZERO, MINE, OLD}]
    BY <2>1
  <2> QED BY <2>1, <2>2
<1>4. \A y \in Zone \ zs : P[y] = s.ptr[y] /\ Q[y] = s.data[y]
  OBVIOUS
<1> HIDE DEF t, P, Q
<1>5. /\ t.zmap = s.zmap \ zs /\ t.ptr = P /\ t.data = Q
      /\ t.direct = s.direct /\ t.single = s.single /\ t.double = s.double
      /\ t.size = s.size /\ t.meant = s.meant /\ t.failed = s.failed /\ t.grown = s.grown /\ t.lost = s.lost
  BY <1>1 DEF ZState
<1>6. t \in ZState
  BY <1>1, <1>2, <1>3 DEF ZState
<1> QED BY <1>4, <1>5, <1>6 DEF t, SameFiles

\* From s to t, zone z is new at a position of f.
GotZone(s, t, f, p, z) ==
  /\ Tidy(t, {}) /\ SameFiles(t, s) /\ z \in Zone /\ z \notin s.zmap
  /\ \A g \in ZoneFile, q \in Position :
       read_map(t, g, q) = IF g = f /\ Relative(q) = Relative(p) THEN z ELSE read_map(s, g, q)
  /\ \A y \in s.zmap : t.data[y] = s.data[y]
  /\ \A q \in Position :
       Relative(q) = Relative(p) /\ (p # s.size[f] \/ BlockOf(q) = BlockOf(p)) => t.data[z][InZone(q)] = ZERO

\* The zone is all of one block, or clear_zone() does the rest of it.
LEMMA WholeZone ==
  ASSUME geo \in Geometries, NEW s, Tidy(s, {}), NEW f \in ZoneFile, NEW p \in Position, NEW z \in Zone,
         read_map(s, f, p) = z
  PROVE  LET t == clear_zone(s, f, p, TRUE)
         IN  \/ t = s /\ \A q \in Position : Relative(q) = Relative(p) => BlockOf(q) = BlockOf(p)
             \/ OnlyData(s, t, z) /\ \A q \in Position : Relative(q) = Relative(p) => t.data[z][InZone(q)] = ZERO
<1> DEFINE t == clear_zone(s, f, p, TRUE)
           from == ZoneStart(p)
<1>1. s \in ZState /\ BLOCK_SIZE \in Nat \ {0} /\ zone_size \in Nat /\ geo.blocks \in Nat \ {0}
      /\ zone_size = geo.blocks * BLOCK_SIZE /\ p \in Nat
  BY Sizes, InZoneType DEF Tidy
<1>2. /\ from \in Nat /\ BlockStart(p) \in Nat /\ from <= BlockStart(p)
      /\ BlockStart(p) + BLOCK_SIZE <= from + zone_size
  BY <1>1, PositionParts
<1>3. ClearsFrom(s, t, f, from)
  BY <1>1, Cleared
<1> HIDE DEF t, from
<1>4. PICK n, y :
        /\ n \in Nat /\ n = from + BLOCK_SIZE - 1 /\ y = read_map(s, f, n)
        /\ geo.blocks = 1 \/ Relative(n) # Relative(from) \/ y = NO_ZONE => t = s
        /\ geo.blocks # 1 /\ Relative(n) = Relative(from) /\ y \in Zone =>
             /\ OnlyData(s, t, y)
             /\ \A q \in Position : Relative(q) = Relative(n) =>
                  t.data[y][InZone(q)] = IF BlockOf(n) <= BlockOf(q) THEN ZERO ELSE s.data[y][InZone(q)]
  BY <1>3 DEF ClearsFrom
<1>5. Relative(n) = Relative(p) /\ Relative(from) = Relative(p)
  <2>1. from <= n /\ n < from + zone_size /\ from < from + zone_size /\ from <= from
    BY <1>1, <1>2, <1>4
  <2> QED BY <2>1, <1>1, <1>2, <1>4, Inside DEF from
<1>6. y = z
  <2>1. n \in Position
    BY <1>4, <1>5, Neighbour
  <2> QED BY <2>1, <1>4, <1>5, SpotsApart
<1>7. ASSUME NEW q \in Position, Relative(q) = Relative(p)
      PROVE  /\ BlockOf(n) <= BlockOf(q)
             /\ geo.blocks = 1 => BlockOf(q) = BlockOf(p)
  <2>1. q \in Nat
    BY InZoneType
  <2>2. from = ZoneStart(q)
    BY <1>7 DEF from, ZoneStart
  <2>3. /\ BlockOf(q) \in Nat /\ BlockOf(n) \in Nat /\ BlockStart(q) \in Nat /\ BlockStart(n) \in Nat
        /\ from <= BlockStart(q) /\ BlockStart(q) + BLOCK_SIZE <= from + zone_size
        /\ n = BlockStart(n) + InBlock(n) /\ InBlock(n) \in 0 .. BLOCK_SIZE - 1
        /\ q = BlockStart(q) + InBlock(q) /\ InBlock(q) \in 0 .. BLOCK_SIZE - 1
    BY <2>1, <2>2, <1>4, PositionParts
  <2>4. BlockOf(n) <= BlockOf(q)
    <3>1. ASSUME BlockOf(q) < BlockOf(n) PROVE FALSE
      <4>1. BlockStart(q) + BLOCK_SIZE <= BlockStart(n)
        BY <3>1, <2>1, <1>4, InOrder
      <4> QED BY <4>1, <2>3, <1>1, <1>2, <1>4
    <3> QED BY <3>1, <2>3
  <2>5. ASSUME geo.blocks = 1 PROVE BlockOf(q) = BlockOf(p)
    <3>1. zone_size = BLOCK_SIZE
      BY <2>5, <1>1
    <3>2. BlockStart(p) <= q /\ q < BlockStart(p) + BLOCK_SIZE
      BY <3>1, <2>3, <1>1, <1>2
    <3> QED BY <3>2, <2>1, <1>1, Inside
  <2> QED BY <2>4, <2>5
<1>8. CASE geo.blocks = 1
  BY <1>8, <1>7, <1>4 DEF t
<1>9. CASE geo.blocks # 1
  BY <1>9, <1>4, <1>5, <1>6, <1>7 DEF t
<1> QED BY <1>8, <1>9

\* new_block(): all of a new zone, or at the end of the file its first block, is zeroed;
\* where there is no zone, or no place for it, all is as it was.
LEMMA NewBlock ==
  ASSUME geo \in Geometries, NEW s, Tidy(s, {}), NEW f \in ZoneFile, NEW p \in Position,
         read_map(s, f, p) = NO_ZONE
  PROVE  LET n == new_block(s, f, p)
         IN  IF n.ok THEN \E z : GotZone(s, n.s, f, p, z) ELSE OnlyMaps(s, n.s, {})
<1> DEFINE n == new_block(s, f, p)
           z == Min(Free(s))
           a == alloc_zone(s)
           w == write_map(a, f, p, z)
           c == IF p # s.size[f] THEN clear_zone(w.s, f, p, TRUE) ELSE w.s
           b == zero_block(c, z, InZone(p))
           d == Unmapped(w.s, z)
<1>1. s \in ZState /\ OnePlace(s) /\ Mapped(s, {})
  BY DEF Tidy
<1>2. CASE Free(s) = {}
  <2>1. n = [s |-> s, ok |-> FALSE]
    BY <1>2 DEF new_block
  <2>2. OnlyMaps(s, s, {})
    BY DEF OnlyMaps, SameFiles
  <2> HIDE DEF n
  <2>3. n.s = s /\ ~n.ok
    BY <2>1
  <2> QED BY <2>2, <2>3 DEF n
<1>3. CASE Free(s) # {}
  <2>1. n = IF w.ok THEN [s |-> b, ok |-> TRUE] ELSE [s |-> d, ok |-> FALSE]
    BY <1>3 DEF new_block, InZone
  <2>2. z \in Zone /\ z \notin s.zmap
    BY <1>3, Taken
  <2>3. a = [s EXCEPT !.zmap = s.zmap \cup {z}]
    BY DEF alloc_zone
  <2> HIDE DEF n, z, a
  <2>4. /\ a \in ZState /\ a.zmap = s.zmap \cup {z} /\ a.direct = s.direct /\ a.single = s.single
        /\ a.double = s.double /\ a.ptr = s.ptr /\ a.data = s.data /\ SameFiles(a, s)
    BY <1>1, <2>2, <2>3 DEF ZState, SameFiles
  <2>5. ASSUME NEW g \in ZoneFile
        PROVE  /\ ZonesOf(a, g) = ZonesOf(s, g)
               /\ \A h \in Pointer, i \in Nat :
                    /\ IsPlace(a, g, h, i) <=> IsPlace(s, g, h, i)
                    /\ IsPlace(s, g, h, i) => PointerAt(a, g, h, i) = PointerAt(s, g, h, i)
               /\ \A q \in Position : read_map(a, g, q) = read_map(s, g, q)
    BY <1>1, <2>4, SameReads
  <2>6. Tidy(a, {z})
    <3>1. OnePlace(a)
      <4> SUFFICES ASSUME NEW g \in ZoneFile, NEW g2 \in ZoneFile, NEW k \in Pointer, NEW k2 \in Pointer,
                          NEW j \in Nat, NEW j2 \in Nat, IsPlace(a, g, k, j), IsPlace(a, g2, k2, j2),
                          PointerAt(a, g, k, j) \in Zone, PointerAt(a, g, k, j) = PointerAt(a, g2, k2, j2)
                   PROVE  g = g2 /\ k = k2 /\ j = j2
        BY DEF OnePlace
      <4>1. /\ IsPlace(s, g, k, j) /\ PointerAt(s, g, k, j) = PointerAt(a, g, k, j)
            /\ IsPlace(s, g2, k2, j2) /\ PointerAt(s, g2, k2, j2) = PointerAt(a, g2, k2, j2)
        BY <2>5
      <4> QED BY <1>1, <4>1 DEF OnePlace
    <3>2. Mapped(a, {z})
      <4>1. a.lost = s.lost /\ \A g \in ZoneFile : ZonesOf(a, g) = ZonesOf(s, g)
        BY <2>4, <2>5 DEF SameFiles
      <4>2. z \notin s.lost /\ \A g \in ZoneFile : z \notin ZonesOf(s, g)
        BY <1>1, <2>2 DEF Mapped
      <4> QED BY <4>1, <4>2, <1>1, <2>2, <2>4 DEF Mapped
    <3> QED BY <3>1, <3>2, <2>4 DEF Tidy
  <2>7. read_map(a, f, p) = NO_ZONE
    BY <2>5
  <2>8. IF w.ok THEN Placed(a, w.s, {z}, f, p, z) ELSE OnlyMaps(a, w.s, {z})
    <3>1. z \in {z}
      OBVIOUS
    <3> QED BY <3>1, <2>6, <2>7, MapWritten
  <2> HIDE DEF w
  <2>9. CASE ~w.ok
    <3>1. d = free_zone(w.s, {z}) /\ OnlyMaps(a, w.s, {z})
      BY <2>8, <2>9 DEF Unmapped
    <3>2. w.s \in ZState /\ OnePlace(w.s) /\ Mapped(w.s, {z})
      BY <3>1 DEF OnlyMaps, Tidy
    <3>3. /\ d \in ZState /\ d.zmap = w.s.zmap \ {z}
          /\ d.direct = w.s.direct /\ d.single = w.s.single /\ d.double = w.s.double /\ SameFiles(d, w.s)
          /\ \A y \in Zone \ {z} : d.ptr[y] = w.s.ptr[y] /\ d.data[y] = w.s.data[y]
      BY <3>1, <3>2, ZonesFreed
    <3> HIDE DEF d
    <3>4. \A g \in ZoneFile : z \notin ZonesOf(w.s, g)
      BY <3>2 DEF Mapped
    <3>5. ASSUME NEW g \in ZoneFile
          PROVE  /\ ZonesOf(d, g) = ZonesOf(w.s, g)
                 /\ \A h \in Pointer, i \in Nat :
                      /\ IsPlace(d, g, h, i) <=> IsPlace(w.s, g, h, i)
                      /\ IsPlace(w.s, g, h, i) => PointerAt(d, g, h, i) = PointerAt(w.s, g, h, i)
                 /\ \A q \in Position : read_map(d, g, q) = read_map(w.s, g, q)
      <4>1. \A y \in Inds(w.s, g) : y \in Zone \ {z}
        BY <3>2, <3>4, IndsOwned DEF Inds
      <4>2. \A y \in Inds(w.s, g), i \in Index : d.ptr[y][i] = w.s.ptr[y][i]
        BY <4>1, <3>3
      <4> QED BY <4>2, <3>2, <3>3, SameReads
    <3>6. OnePlace(d)
      <4> SUFFICES ASSUME NEW g \in ZoneFile, NEW g2 \in ZoneFile, NEW k \in Pointer, NEW k2 \in Pointer,
                          NEW j \in Nat, NEW j2 \in Nat, IsPlace(d, g, k, j), IsPlace(d, g2, k2, j2),
                          PointerAt(d, g, k, j) \in Zone, PointerAt(d, g, k, j) = PointerAt(d, g2, k2, j2)
                   PROVE  g = g2 /\ k = k2 /\ j = j2
        BY DEF OnePlace
      <4>1. /\ IsPlace(w.s, g, k, j) /\ PointerAt(w.s, g, k, j) = PointerAt(d, g, k, j)
            /\ IsPlace(w.s, g2, k2, j2) /\ PointerAt(w.s, g2, k2, j2) = PointerAt(d, g2, k2, j2)
        BY <3>5
      <4> QED BY <3>2, <4>1 DEF OnePlace
    <3>7. Mapped(d, {})
      <4>1. d.lost = w.s.lost /\ \A g \in ZoneFile : ZonesOf(d, g) = ZonesOf(w.s, g)
        BY <3>3, <3>5 DEF SameFiles
      <4> QED BY <4>1, <3>2, <3>3, <3>4 DEF Mapped
    <3>8. OnlyMaps(s, d, {})
      <4>1. Tidy(d, {})
        BY <3>3, <3>6, <3>7 DEF Tidy
      <4>2. SameFiles(d, s)
        BY <2>4, <3>1, <3>3 DEF SameFiles, OnlyMaps
      <4>3. s.zmap \subseteq d.zmap
        BY <2>2, <2>4, <3>1, <3>3 DEF OnlyMaps
      <4>4. \A g \in ZoneFile, q \in Position : read_map(d, g, q) = read_map(s, g, q)
        BY <2>5, <3>1, <3>5 DEF OnlyMaps
      <4>5. \A y \in s.zmap : d.data[y] = s.data[y]
        <5>1. \A y \in s.zmap : y \in Zone \ {z} /\ y \in a.zmap
          BY <2>2, <2>4, <1>1 DEF ZState
        <5> QED BY <5>1, <2>4, <3>1, <3>3 DEF OnlyMaps
      <4> QED BY <4>1, <4>2, <4>3, <4>4, <4>5 DEF OnlyMaps
    <3>9. ~n.ok /\ n.s = d
      BY <2>1, <2>9
    <3> QED BY <3>8, <3>9 DEF n
  <2>10. CASE w.ok
    <3>1. Placed(a, w.s, {z}, f, p, z)
      BY <2>8, <2>10
    <3>2. Tidy(w.s, {}) /\ w.s \in ZState /\ read_map(w.s, f, p) = z /\ w.s.size = s.size
      <4>1. {z} \ {z} = {}
        OBVIOUS
      <4> QED BY <4>1, <3>1, <2>4 DEF Placed, Tidy, SameFiles
    <3>3. /\ c \in ZState /\ SameMaps(c, w.s) /\ SameFiles(c, w.s)
          /\ \A y \in Zone : y # z => c.data[y] = w.s.data[y]
          /\ \A q \in Position : Relative(q) = Relative(p) =>
               p = s.size[f] \/ BlockOf(q) = BlockOf(p) \/ c.data[z][InZone(q)] = ZERO
      <4>1. CASE p = s.size[f]
        BY <4>1, <3>2 DEF SameMaps, SameFiles
      <4>2. CASE p # s.size[f]
        <5> DEFINE x == clear_zone(w.s, f, p, TRUE)
        <5>1. \/ x = w.s /\ \A q \in Position : Relative(q) = Relative(p) => BlockOf(q) = BlockOf(p)
              \/ OnlyData(w.s, x, z) /\ \A q \in Position : Relative(q) = Relative(p) => x.data[z][InZone(q)] = ZERO
          BY <3>2, <2>2, WholeZone
        <5>2. c = x
          BY <4>2
        <5> HIDE DEF c, x
        <5> QED BY <5>1, <5>2, <3>2 DEF OnlyData, SameMaps, SameFiles
      <4> QED BY <4>1, <4>2
    <3> HIDE DEF c
    <3>4. /\ OnlyData(c, b, z)
          /\ \A q \in Position : Relative(q) = Relative(p) =>
               b.data[z][InZone(q)] = IF BlockOf(q) = BlockOf(p) THEN ZERO ELSE c.data[z][InZone(q)]
      BY <3>3, <2>2, Zeroed
    <3> HIDE DEF b
    <3>5. b \in ZState /\ SameMaps(b, w.s) /\ SameFiles(b, w.s) /\ \A y \in Zone : y # z => b.data[y] = w.s.data[y]
      BY <3>3, <3>4 DEF OnlyData, SameMaps, SameFiles
    <3>6. Tidy(b, {}) /\ \A g \in ZoneFile, q \in Position : read_map(b, g, q) = read_map(w.s, g, q)
      BY <3>2, <3>5, MapsSame
    <3>7. GotZone(s, b, f, p, z)
      <4>1. SameFiles(b, s)
        BY <3>1, <3>5, <2>4 DEF Placed, SameFiles
      <4>2. \A g \in ZoneFile, q \in Position :
              read_map(b, g, q) = IF g = f /\ Relative(q) = Relative(p) THEN z ELSE read_map(s, g, q)
        BY <3>1, <3>6, <2>5 DEF Placed
      <4>3. \A y \in s.zmap : b.data[y] = s.data[y]
        <5>1. \A y \in s.zmap : y \in Zone /\ y # z /\ y \in a.zmap
          BY <2>2, <2>4, <1>1 DEF ZState
        <5> QED BY <5>1, <2>4, <3>1, <3>5 DEF Placed
      <4>4. \A q \in Position :
              Relative(q) = Relative(p) /\ (p # s.size[f] \/ BlockOf(q) = BlockOf(p)) => b.data[z][InZone(q)] = ZERO
        BY <3>3, <3>4
      <4> QED BY <4>1, <4>2, <4>3, <4>4, <3>6, <2>2 DEF GotZone
    <3>8. n.ok /\ n.s = b
      BY <2>1, <2>10
    <3> QED BY <3>7, <3>8 DEF n
  <2> QED BY <2>9, <2>10
<1> QED BY <1>2, <1>3

\* The end of a file, once it is written up to p.
Hi(s, f, p) == IF s.size[f] >= p THEN s.size[f] ELSE p

\* A file, taken to end at M, is as it was written: whatever happened, its zones begin
\* before the end, and where no write of it failed, its blocks hold what it wrote and
\* zeros, and it has the zone of its last position.
Clean(s, f) == f \notin s.failed \cup s.grown
Going(s, f, M) ==
  /\ f \notin s.failed => Extent(s, f, M)
  /\ Clean(s, f) => /\ Reads(s, f, M) /\ s.meant[f] \subseteq 0 .. M - 1
                    /\ s.size[f] > 0 => read_map(s, f, s.size[f] - 1) # NO_ZONE

\* A chunk of c units at p is in one block of a file that is not too large.
IsChunk(p, c) == c \in Nat \ {0} /\ InBlock(p) + c <= BLOCK_SIZE /\ p + c <= s_max_size

\* From s to t, the zone y at p was found or made,
Ready(s, t, f, p, y) ==
  /\ Tidy(t, {}) /\ SameFiles(t, s) /\ y \in Zone
  /\ \A g \in ZoneFile, q \in Position :
       read_map(t, g, q) = IF g = f /\ Relative(q) = Relative(p) THEN y ELSE read_map(s, g, q)
  /\ \A g \in ZoneFile : g # f => Undisturbed(s, t, g)
  /\ \A q \in Position : Relative(q) # Relative(p) => ReadAt(t, f, q) = ReadAt(s, f, q)

\* and all around the chunk in that zone is as it should be read.
Fit(s, t, f, p, c) ==
  \A q \in Position : Relative(q) = Relative(p) /\ BlockStart(q) < Hi(s, f, p + c) /\ q \notin p .. p + c - 1
                        => ReadAt(t, f, q) = Meant(s, f, q)

\* A position is in its block.
LEMMA InItsBlock ==
  ASSUME geo \in Geometries, NEW q \in Position
  PROVE  /\ q \in Nat /\ BlockOf(q) \in Nat /\ BlockStart(q) \in Nat /\ InBlock(q) \in 0 .. BLOCK_SIZE - 1
         /\ q = BlockStart(q) + InBlock(q) /\ BlockStart(q) <= q /\ q < BlockStart(q) + BLOCK_SIZE
         /\ BLOCK_SIZE \in Nat \ {0}
<1>1. q \in Nat /\ BLOCK_SIZE \in Nat \ {0}
  BY InZoneType, Sizes
<1>2. BlockOf(q) \in Nat /\ BlockStart(q) \in Nat /\ InBlock(q) \in 0 .. BLOCK_SIZE - 1 /\ q = BlockStart(q) + InBlock(q)
  BY <1>1, PositionParts
<1> QED BY <1>1, <1>2

\* The block of a chunk is the only one that a file may get by it at its end; the chunk
\* is at the beginning of the block then.
LEMMA Ahead ==
  ASSUME geo \in Geometries, NEW s \in ZState, NEW f \in ZoneFile, NEW p \in Position, NEW c, IsChunk(p, c),
         NEW q \in Position, BlockStart(q) < Hi(s, f, p + c), BlockStart(q) >= Hi(s, f, p)
  PROVE  BlockOf(q) = BlockOf(p) /\ BlockStart(q) = p /\ InBlock(p) = 0 /\ s.size[f] <= p
<1>1. s.size[f] \in Nat
  BY ZFields, Sizes
<1>2. /\ p \in Nat /\ BlockOf(p) \in Nat /\ BlockStart(p) \in Nat /\ InBlock(p) \in 0 .. BLOCK_SIZE - 1
      /\ p = BlockStart(p) + InBlock(p) /\ BLOCK_SIZE \in Nat \ {0}
      /\ q \in Nat /\ BlockOf(q) \in Nat /\ BlockStart(q) \in Nat
  BY InItsBlock
<1>3. s.size[f] <= BlockStart(q) /\ p <= BlockStart(q) /\ BlockStart(q) < p + c /\ c \in Nat
      /\ InBlock(p) + c <= BLOCK_SIZE
  BY <1>1, <1>2 DEF Hi, IsChunk
<1>4. ASSUME BlockOf(q) # BlockOf(p) PROVE FALSE
  <2>1. CASE BlockOf(q) < BlockOf(p)
    <3>1. BlockStart(q) + BLOCK_SIZE <= BlockStart(p)
      BY <2>1, <1>2, InOrder
    <3> QED BY <3>1, <1>2, <1>3
  <2>2. CASE BlockOf(p) < BlockOf(q)
    <3>1. BlockStart(p) + BLOCK_SIZE <= BlockStart(q)
      BY <2>2, <1>2, InOrder
    <3> QED BY <3>1, <1>2, <1>3
  <2>3. BlockOf(q) \in Nat /\ BlockOf(p) \in Nat
    BY <1>2
  <2>4. BlockOf(q) < BlockOf(p) \/ BlockOf(p) < BlockOf(q)
    BY <2>3, <1>4
  <2> QED BY <2>1, <2>2, <2>4
<1>5. BlockStart(q) = BlockStart(p)
  BY <1>4 DEF BlockStart
<1> QED BY <1>4, <1>5, <1>1, <1>2, <1>3

\* A position beyond the end was not written.
LEMMA Beyond ==
  ASSUME geo \in Geometries, NEW s \in ZState, NEW f \in ZoneFile, NEW p \in Nat, NEW q \in Position,
         Going(s, f, Hi(s, f, p)), Clean(s, f)
  PROVE  /\ Hi(s, f, p) \in Nat
         /\ BlockStart(q) < Hi(s, f, p) => ReadAt(s, f, q) = Meant(s, f, q)
         /\ BlockStart(q) >= Hi(s, f, p) => Meant(s, f, q) = ZERO
<1>1. Hi(s, f, p) \in Nat
  <2>1. s.size[f] \in Nat
    BY ZFields, Sizes
  <2> QED BY <2>1 DEF Hi
<1>2. q \in Nat /\ BlockStart(q) \in Nat /\ BlockStart(q) <= q
  BY InItsBlock
<1>3. BlockStart(q) < Hi(s, f, p) => ReadAt(s, f, q) = Meant(s, f, q)
  BY DEF Going, Reads
<1>4. ASSUME BlockStart(q) >= Hi(s, f, p) PROVE Meant(s, f, q) = ZERO
  <2>1. q \notin 0 .. Hi(s, f, p) - 1
    BY <1>1, <1>2, <1>4
  <2> QED BY <2>1 DEF Meant, Going
<1> QED BY <1>1, <1>3, <1>4

\* An existing block is made ready.
LEMMA ReadyOld ==
  ASSUME geo \in Geometries, NEW s, Tidy(s, {}), NEW f \in ZoneFile, NEW p \in Position, NEW c, IsChunk(p, c),
         NEW bad \in BOOLEAN, NEW cached \in BOOLEAN, NEW z \in Zone, z = read_map(s, f, p)
  PROVE  LET t == Prepared(s, f, z, p, c, bad, cached)
         IN  /\ Ready(s, t, f, p, z)
             /\ ~bad /\ Clean(s, f) /\ Going(s, f, Hi(s, f, p)) => Fit(s, t, f, p, c)
<1> DEFINE t == Prepared(s, f, z, p, c, bad, cached)
           u == InZone(p)
           d == [x \in DOMAIN s.data[z] |-> IF x \div BLOCK_SIZE = u \div BLOCK_SIZE THEN OLD ELSE s.data[z][x]]
           zeroed == c < BLOCK_SIZE /\ p >= s.size[f] /\ InBlock(p) = 0
<1>1. s \in ZState /\ p \in Nat /\ c \in Nat /\ s.size[f] \in Nat
  BY InItsBlock, ZFields, Sizes DEF Tidy, IsChunk
<1>2. /\ zeroed => t = zero_block(s, z, u)
      /\ ~zeroed => t = s \/ (bad /\ t = [s EXCEPT !.data[z] = d])
  <2>1. u % BLOCK_SIZE = InBlock(p) /\ BLOCK_SIZE \in Nat
    BY <1>1, PositionParts, Sizes
  <2>2. u = p % zone_size
    BY DEF InZone
  <2> HIDE DEF u
  <2>3. t = CASE c < BLOCK_SIZE /\ p >= s.size[f] /\ InBlock(p) = 0 -> zero_block(s, z, u)
              [] c = BLOCK_SIZE /\ bad /\ ~cached -> [s EXCEPT !.data[z] = d]
              [] OTHER -> s
    BY <2>1, <2>2 DEF Prepared
  <2> HIDE DEF d, t
  <2> QED BY <2>1, <2>3, <1>1
<1> HIDE DEF t, u
<1>3. d \in [0 .. zone_size - 1 -> {ZERO, MINE, OLD}]
  <2>1. s.data[z] \in [0 .. zone_size - 1 -> {ZERO, MINE, OLD}]
    BY <1>1 DEF ZState
  <2> QED BY <2>1
<1> HIDE DEF d
<1>4. OnlyData(s, s, z)
  BY <1>1 DEF OnlyData, SameMaps, SameFiles
<1>5. zeroed => /\ OnlyData(s, t, z)
                /\ \A q \in Position : Relative(q) = Relative(p) =>
                     t.data[z][InZone(q)] = IF BlockOf(q) = BlockOf(p) THEN ZERO ELSE s.data[z][InZone(q)]
  BY <1>1, <1>2, Zeroed DEF u
<1>6. OnlyData(s, t, z)
  <2>1. OnlyData(s, [s EXCEPT !.data[z] = d], z)
    BY <1>1, <1>3, DataPut
  <2> QED BY <2>1, <1>2, <1>4, <1>5
<1>7. Tidy(t, {}) /\ \A g \in ZoneFile, q \in Position : read_map(t, g, q) = read_map(s, g, q)
  BY <1>6, MapsSame DEF OnlyData
<1>8. /\ \A q \in Position : Relative(q) = Relative(p) => read_map(s, f, q) = z
      /\ \A q \in Position : read_map(s, f, q) = z => Relative(q) = Relative(p)
  BY <1>1, SpotsApart, ReadApart DEF Tidy
<1>9. Ready(s, t, f, p, z)
  <2>1. \A g \in ZoneFile : g # f => Undisturbed(s, t, g)
    BY <1>6, OthersSame
  <2>2. ASSUME NEW q \in Position, Relative(q) # Relative(p) PROVE ReadAt(t, f, q) = ReadAt(s, f, q)
    <3>1. read_map(s, f, q) # z /\ read_map(s, f, q) \in Pointer
      BY <1>1, <1>8, <2>2, MapFacts
    <3> QED BY <3>1, <1>6, <1>7 DEF ReadAt, OnlyData, Pointer
  <2>3. \A g \in ZoneFile, q \in Position :
          read_map(t, g, q) = IF g = f /\ Relative(q) = Relative(p) THEN z ELSE read_map(s, g, q)
    BY <1>7, <1>8
  <2>4. SameFiles(t, s)
    BY <1>6 DEF OnlyData
  <2> QED BY <2>1, <2>2, <2>3, <2>4, <1>7 DEF Ready
<1>10. ASSUME ~bad, Clean(s, f), Going(s, f, Hi(s, f, p)), NEW q \in Position, Relative(q) = Relative(p),
              BlockStart(q) < Hi(s, f, p + c), q \notin p .. p + c - 1
       PROVE  ReadAt(t, f, q) = Meant(s, f, q)
  <2>1. /\ Hi(s, f, p) \in Nat
        /\ BlockStart(q) < Hi(s, f, p) => ReadAt(s, f, q) = Meant(s, f, q)
        /\ BlockStart(q) >= Hi(s, f, p) => Meant(s, f, q) = ZERO
    BY <1>1, <1>10, Beyond
  <2>2. /\ q \in Nat /\ BlockOf(q) \in Nat /\ BlockStart(q) \in Nat /\ InBlock(q) \in 0 .. BLOCK_SIZE - 1
        /\ q = BlockStart(q) + InBlock(q) /\ BlockStart(q) <= q /\ q < BlockStart(q) + BLOCK_SIZE
        /\ BLOCK_SIZE \in Nat \ {0} /\ p = BlockStart(p) + InBlock(p) /\ BlockStart(p) \in Nat
    BY InItsBlock
  <2>3. /\ read_map(t, f, q) = z /\ read_map(s, f, q) = z /\ z # NO_ZONE
        /\ ReadAt(t, f, q) = t.data[z][InZone(q)] /\ ReadAt(s, f, q) = s.data[z][InZone(q)]
    <3>1. read_map(t, f, q) = z /\ read_map(s, f, q) = z /\ z # NO_ZONE
      <4>1. read_map(s, f, q) = z
        BY <1>8, <1>10
      <4>2. read_map(t, f, q) = read_map(s, f, q)
        BY <1>7
      <4> QED BY <4>1, <4>2, ZoneFacts
    <3> QED BY <3>1 DEF ReadAt, InZone
  <2>4. CASE BlockStart(q) < Hi(s, f, p)
    <3>1. zeroed => BlockOf(q) # BlockOf(p)
      <4>1. ASSUME zeroed, BlockOf(q) = BlockOf(p) PROVE FALSE
        <5>1. BlockStart(q) = BlockStart(p)
          BY <4>1 DEF BlockStart
        <5>2. Hi(s, f, p) = p
          BY <4>1, <1>1 DEF Hi
        <5> QED BY <5>1, <5>2, <4>1, <2>2, <2>4
      <4> QED BY <4>1
    <3>2. t.data[z][InZone(q)] = s.data[z][InZone(q)]
      BY <3>1, <1>2, <1>5, <1>10
    <3> QED BY <3>2, <2>1, <2>3, <2>4
  <2>5. CASE BlockStart(q) >= Hi(s, f, p)
    <3>1. BlockOf(q) = BlockOf(p) /\ BlockStart(q) = p /\ InBlock(p) = 0 /\ s.size[f] <= p
      BY <2>5, <1>1, <1>10, Ahead
    <3>2. c < BLOCK_SIZE
      BY <3>1, <2>2, <1>1, <1>10 DEF IsChunk
    <3>3. t.data[z][InZone(q)] = ZERO
      BY <3>1, <3>2, <1>1, <1>5, <1>10
    <3> QED BY <3>3, <2>1, <2>3, <2>5
  <2> QED BY <2>4, <2>5, <2>1, <2>2
<1>11. ~bad /\ Clean(s, f) /\ Going(s, f, Hi(s, f, p)) => Fit(s, t, f, p, c)
  BY <1>10 DEF Fit
<1> QED BY <1>9, <1>11 DEF t

\* And a new one.
LEMMA ReadyNew ==
  ASSUME geo \in Geometries, NEW s, Tidy(s, {}), NEW f \in ZoneFile, NEW p \in Position, NEW c, IsChunk(p, c),
         read_map(s, f, p) = NO_ZONE, NEW t, NEW z, GotZone(s, t, f, p, z)
  PROVE  /\ Ready(s, t, f, p, z)
         /\ Clean(s, f) /\ Going(s, f, Hi(s, f, p)) => Fit(s, t, f, p, c)
<1>1. s \in ZState /\ p \in Nat /\ c \in Nat \ {0} /\ s.size[f] \in Nat
  BY InItsBlock, ZFields, Sizes DEF Tidy, IsChunk
<1>2. \A g \in ZoneFile, q \in Position : read_map(s, g, q) \in Zone => read_map(s, g, q) \in s.zmap
  BY <1>1, MapFacts DEF Tidy, Mapped, ZonesOf
<1>3. Ready(s, t, f, p, z)
  <2>1. ASSUME NEW g \in ZoneFile, g # f PROVE Undisturbed(s, t, g)
    BY <2>1, <1>2 DEF GotZone, SameFiles, Undisturbed
  <2>2. ASSUME NEW q \in Position, Relative(q) # Relative(p) PROVE ReadAt(t, f, q) = ReadAt(s, f, q)
    <3>1. read_map(s, f, q) \in Pointer
      BY <1>1, MapFacts
    <3> QED BY <3>1, <2>2, <1>2 DEF GotZone, ReadAt, Pointer
  <2> QED BY <2>1, <2>2 DEF Ready, GotZone
<1>4. ASSUME Clean(s, f), Going(s, f, Hi(s, f, p)), NEW q \in Position, Relative(q) = Relative(p),
             BlockStart(q) < Hi(s, f, p + c), q \notin p .. p + c - 1
      PROVE  ReadAt(t, f, q) = Meant(s, f, q)
  <2>1. /\ Hi(s, f, p) \in Nat
        /\ BlockStart(q) < Hi(s, f, p) => ReadAt(s, f, q) = Meant(s, f, q)
        /\ BlockStart(q) >= Hi(s, f, p) => Meant(s, f, q) = ZERO
    BY <1>1, <1>4, Beyond
  <2>2. q \in Nat /\ BlockStart(q) \in Nat
    BY InItsBlock
  <2>3. /\ read_map(s, f, q) = NO_ZONE /\ ReadAt(s, f, q) = ZERO
        /\ ReadAt(t, f, q) = t.data[z][InZone(q)]
    <3>1. read_map(s, f, q) = NO_ZONE
      BY <1>4, SpotsApart
    <3>2. z # NO_ZONE /\ read_map(t, f, q) = z
      BY <1>4, ZoneFacts DEF GotZone
    <3> QED BY <3>1, <3>2 DEF ReadAt, InZone
  <2>4. p # s.size[f] \/ BlockOf(q) = BlockOf(p)
    <3>1. ASSUME p = s.size[f], BlockOf(q) # BlockOf(p) PROVE FALSE
      <4>1. Hi(s, f, p) = p
        BY <3>1, <1>1 DEF Hi
      <4>2. BlockStart(q) < p
        <5>1. BlockStart(q) >= Hi(s, f, p) => BlockOf(q) = BlockOf(p)
          <6>1. s \in ZState /\ BlockStart(q) < Hi(s, f, p + c)
            BY <1>1, <1>4
          <6> QED BY <6>1, Ahead
        <5> QED BY <5>1, <3>1, <4>1, <2>2, <1>1
      <4>3. p > 0 /\ p - 1 \in Nat /\ p - 1 \in Position
        BY <4>2, <2>2, <1>1, Sizes DEF Position
      <4>4. read_map(s, f, p - 1) # NO_ZONE
        BY <4>3, <3>1, <1>4 DEF Going
      <4>5. Relative(p - 1) # Relative(p)
        BY <4>3, <4>4, SpotsApart
      <4>6. /\ ZoneStart(p) \in Nat /\ InZone(p) \in 0 .. zone_size - 1 /\ p = ZoneStart(p) + InZone(p)
            /\ ZoneStart(q) <= BlockStart(q) /\ zone_size \in Nat
        BY <1>1, <2>2, PositionParts, Sizes
      <4>7. ZoneStart(q) = ZoneStart(p)
        BY <1>4 DEF ZoneStart
      <4>8. ~(ZoneStart(p) <= p - 1)
        <5>1. ASSUME ZoneStart(p) <= p - 1 PROVE FALSE
          <6>1. p - 1 < ZoneStart(p) + zone_size
            BY <4>6, <1>1
          <6> QED BY <6>1, <5>1, <4>3, <4>5, <1>1, Inside
        <5> QED BY <5>1
      <4> QED BY <4>2, <4>6, <4>7, <4>8, <2>2, <1>1
    <3> QED BY <3>1
  <2>5. t.data[z][InZone(q)] = ZERO
    BY <2>4, <1>4 DEF GotZone
  <2> QED BY <2>1, <2>2, <2>3, <2>5
<1>5. Clean(s, f) /\ Going(s, f, Hi(s, f, p)) => Fit(s, t, f, p, c)
  BY <1>4 DEF Fit
<1> QED BY <1>3, <1>5

\* Zones are lost, and files left half written, only where copies fail.
NoLoss(s) == geo.bad_copies \/ (s.failed = {} /\ s.lost = {})

\* A step of writing f: the zones are as they should be, f keeps those it has, and the
\* others are not disturbed.
Wrote(s, t, f) ==
  /\ Tidy(t, {}) /\ NoLoss(t) /\ t.size = s.size
  /\ \A g \in ZoneFile : g # f => Undisturbed(s, t, g)
  /\ \A q \in Position : read_map(s, f, q) # NO_ZONE => read_map(t, f, q) # NO_ZONE

\* The block that a chunk is for.
ChunkBlock(s, f, p, c, bad, cached) ==
  LET z == read_map(s, f, p)
  IN  IF z = NO_ZONE THEN new_block(s, f, p)
      ELSE [s |-> Prepared(s, f, z, p, c, bad, cached), ok |-> TRUE]

\* It is there and ready, or there was no zone for it.
LEMMA BlockReady ==
  ASSUME geo \in Geometries, NEW s, Tidy(s, {}), NEW f \in ZoneFile, NEW p \in Position, NEW c, IsChunk(p, c),
         NEW bad \in BOOLEAN, NEW cached \in BOOLEAN
  PROVE  LET n == ChunkBlock(s, f, p, c, bad, cached)
         IN  IF n.ok
             THEN \E y : /\ Ready(s, n.s, f, p, y)
                         /\ ~bad /\ Clean(s, f) /\ Going(s, f, Hi(s, f, p)) => Fit(s, n.s, f, p, c)
             ELSE OnlyMaps(s, n.s, {})
<1> DEFINE z == read_map(s, f, p)
           n == ChunkBlock(s, f, p, c, bad, cached)
<1>1. z \in Pointer
  BY MapFacts DEF Tidy
<1>2. CASE z = NO_ZONE
  <2>1. n = new_block(s, f, p)
    BY <1>2 DEF ChunkBlock
  <2>2. IF n.ok THEN \E y : GotZone(s, n.s, f, p, y) ELSE OnlyMaps(s, n.s, {})
    BY <1>2, <2>1, NewBlock
  <2> HIDE DEF n
  <2>3. ASSUME NEW y, GotZone(s, n.s, f, p, y)
        PROVE  /\ Ready(s, n.s, f, p, y)
               /\ Clean(s, f) /\ Going(s, f, Hi(s, f, p)) => Fit(s, n.s, f, p, c)
    BY <1>2, <2>3, ReadyNew
  <2> QED BY <2>2, <2>3 DEF n
<1>3. CASE z # NO_ZONE
  <2> DEFINE t == Prepared(s, f, z, p, c, bad, cached)
  <2>1. n = [s |-> t, ok |-> TRUE]
    BY <1>3 DEF ChunkBlock
  <2>2. z \in Zone
    BY <1>1, <1>3 DEF Pointer
  <2>3. Ready(s, t, f, p, z) /\ (~bad /\ Clean(s, f) /\ Going(s, f, Hi(s, f, p)) => Fit(s, t, f, p, c))
    BY <2>2, ReadyOld
  <2> HIDE DEF n, t, z
  <2>4. n.ok /\ n.s = t
    BY <2>1
  <2> QED BY <2>3, <2>4 DEF n
<1> QED BY <1>2, <1>3

\* Then the chunk is copied to it.
Copied(m, f, p, c, y) ==
  [m EXCEPT !.data[y] = [x \in DOMAIN @ |-> IF x \in InZone(p) .. InZone(p) + c - 1 THEN MINE ELSE @[x]],
            !.meant[f] = @ \cup (p .. p + c - 1)]

IsCopied(m, t, f, p, c, y) ==
  /\ t \in ZState /\ SameMaps(t, m)
  /\ t.size = m.size /\ t.failed = m.failed /\ t.grown = m.grown
  /\ \A g \in ZoneFile : t.meant[g] = IF g = f THEN m.meant[f] \cup (p .. p + c - 1) ELSE m.meant[g]
  /\ \A z \in Zone : z # y => t.data[z] = m.data[z]
  /\ \A q \in Position : Relative(q) = Relative(p) =>
       t.data[y][InZone(q)] = IF q \in p .. p + c - 1 THEN MINE ELSE m.data[y][InZone(q)]

\* Which changes nothing else.
LEMMA CopyFacts ==
  ASSUME geo \in Geometries, NEW m \in ZState, NEW f \in ZoneFile, NEW p \in Position, NEW c, IsChunk(p, c),
         NEW y \in Zone
  PROVE  IsCopied(m, Copied(m, f, p, c, y), f, p, c, y)
<1> DEFINE u == InZone(p)
           d == [x \in DOMAIN m.data[y] |-> IF x \in u .. u + c - 1 THEN MINE ELSE m.data[y][x]]
           Q == [m.data EXCEPT ![y] = d]
           W == [m.meant EXCEPT ![f] = m.meant[f] \cup (p .. p + c - 1)]
           t == Copied(m, f, p, c, y)
<1>1. t = [m EXCEPT !.data = Q, !.meant = W]
  BY DEF Copied
<1>2. p \in Nat /\ c \in Nat
  BY InItsBlock DEF IsChunk
<1>3. /\ m.data[y] \in [0 .. zone_size - 1 -> {ZERO, MINE, OLD}]
      /\ m.data \in [Zone -> [0 .. zone_size - 1 -> {ZERO, MINE, OLD}]]
      /\ m.meant \in [ZoneFile -> SUBSET Nat]
  BY DEF ZState
<1>4. d \in [0 .. zone_size - 1 -> {ZERO, MINE, OLD}]
  BY <1>3
<1>5. /\ Q \in [Zone -> [0 .. zone_size - 1 -> {ZERO, MINE, OLD}]] /\ Q[y] = d
      /\ \A z \in Zone : z # y => Q[z] = m.data[z]
  BY <1>3, <1>4
<1>6. /\ W \in [ZoneFile -> SUBSET Nat]
      /\ \A g \in ZoneFile : W[g] = IF g = f THEN m.meant[f] \cup (p .. p + c - 1) ELSE m.meant[g]
  <2>1. p .. p + c - 1 \subseteq Nat
    BY <1>2
  <2> QED BY <2>1, <1>3
<1>7. ASSUME NEW q \in Position, Relative(q) = Relative(p)
      PROVE  d[InZone(q)] = IF q \in p .. p + c - 1 THEN MINE ELSE m.data[y][InZone(q)]
  <2>1. q \in Nat /\ InZone(q) \in 0 .. zone_size - 1 /\ InZone(p) \in 0 .. zone_size - 1 /\ zone_size \in Nat
    BY InZoneType, Sizes
  <2>2. q - p = InZone(q) - InZone(p)
    BY <2>1, <1>2, <1>7, SameZone
  <2> DEFINE x == InZone(q)
  <2>3. x \in u .. u + c - 1 <=> q \in p .. p + c - 1
    <3>1. x \in Nat /\ u \in Nat /\ q - p = x - u
      BY <2>1, <2>2
    <3> HIDE DEF x, u
    <3> QED BY <3>1, <2>1, <1>2
  <2> HIDE DEF x, u
  <2>4. d[x] = IF x \in u .. u + c - 1 THEN MINE ELSE m.data[y][x]
    BY <2>1, <1>3 DEF x
  <2> HIDE DEF d
  <2> QED BY <2>3, <2>4 DEF x
<1> HIDE DEF d, Q, W, t
<1>8. /\ t.data = Q /\ t.meant = W /\ SameMaps(t, m)
      /\ t.size = m.size /\ t.failed = m.failed /\ t.grown = m.grown
  BY <1>1 DEF ZState, SameMaps
<1>9. t \in ZState
  BY <1>1, <1>5, <1>6 DEF ZState
<1> QED BY <1>5, <1>6, <1>7, <1>8, <1>9 DEF IsCopied, t

\* A chunk that is copied in a block that is ready.
LEMMA ChunkCopied ==
  ASSUME geo \in Geometries, NEW s, Tidy(s, {}), NoLoss(s), NEW f \in ZoneFile, NEW p \in Position, NEW c, IsChunk(p, c),
         Going(s, f, Hi(s, f, p)), NEW m, NEW y, Ready(s, m, f, p, y), Clean(s, f) => Fit(s, m, f, p, c)
  PROVE  LET t == Copied(m, f, p, c, y)
         IN  Wrote(s, t, f) /\ Going(t, f, Hi(s, f, p + c)) /\ read_map(t, f, p + c - 1) # NO_ZONE
<1> DEFINE t == Copied(m, f, p, c, y)
           M == Hi(s, f, p + c)
<1>1. s \in ZState /\ m \in ZState /\ Tidy(m, {}) /\ SameFiles(m, s) /\ y \in Zone /\ y # NO_ZONE
  BY ZoneFacts DEF Ready, Tidy
<1>2. /\ t \in ZState /\ SameMaps(t, m)
      /\ t.size = m.size /\ t.failed = m.failed /\ t.grown = m.grown
      /\ \A g \in ZoneFile : t.meant[g] = IF g = f THEN m.meant[f] \cup (p .. p + c - 1) ELSE m.meant[g]
      /\ \A z \in Zone : z # y => t.data[z] = m.data[z]
      /\ \A q \in Position : Relative(q) = Relative(p) =>
           t.data[y][InZone(q)] = IF q \in p .. p + c - 1 THEN MINE ELSE m.data[y][InZone(q)]
  <2>1. m \in ZState /\ y \in Zone
    BY <1>1
  <2> HIDE DEF M
  <2>2. IsCopied(m, t, f, p, c, y)
    BY <2>1, CopyFacts
  <2> HIDE DEF t
  <2> QED BY <2>2 DEF IsCopied
<1> HIDE DEF t
<1>3. Tidy(t, {}) /\ \A g \in ZoneFile, q \in Position : read_map(t, g, q) = read_map(m, g, q)
  BY <1>1, <1>2, MapsSame
<1>4. t.size = s.size /\ t.failed = s.failed /\ t.grown = s.grown /\ t.lost = s.lost
  BY <1>1, <1>2 DEF SameFiles, SameMaps
<1>5. \A g \in ZoneFile, q \in Position :
        read_map(t, g, q) = IF g = f /\ Relative(q) = Relative(p) THEN y ELSE read_map(s, g, q)
  BY <1>3 DEF Ready
<1>6. \A g \in ZoneFile, q \in Position : read_map(m, g, q) = y => g = f /\ Relative(q) = Relative(p)
  <2>1. read_map(m, f, p) = y /\ OnePlace(m)
    BY <1>1 DEF Ready, Tidy
  <2> QED BY <2>1, <1>1, ReadApart
<1>7. Wrote(s, t, f)
  <2>1. ASSUME NEW g \in ZoneFile, g # f PROVE Undisturbed(s, t, g)
    <3>1. Undisturbed(s, m, g)
      BY <2>1 DEF Ready
    <3>2. \A q \in Position : read_map(m, g, q) = read_map(s, g, q) /\ read_map(m, g, q) # y
      BY <3>1, <2>1, <1>6 DEF Undisturbed
    <3>3. \A q \in Position : read_map(s, g, q) \in Zone => t.data[read_map(s, g, q)] = m.data[read_map(s, g, q)]
      BY <3>2, <1>2
    <3>4. t.size[g] = s.size[g] /\ t.meant[g] = s.meant[g]
      BY <2>1, <1>1, <1>2, <1>4 DEF SameFiles
    <3> QED BY <3>1, <3>2, <3>3, <3>4, <1>3, <1>4 DEF Undisturbed
  <2>2. \A q \in Position : read_map(s, f, q) # NO_ZONE => read_map(t, f, q) # NO_ZONE
    BY <1>1, <1>5
  <2>3. NoLoss(t)
    BY <1>4 DEF NoLoss
  <2> QED BY <2>1, <2>2, <2>3, <1>3, <1>4 DEF Wrote
<1>8. /\ p \in Nat /\ c \in Nat \ {0} /\ s.size[f] \in Nat /\ BlockStart(p) \in Nat /\ BlockOf(p) \in Nat
      /\ p = BlockStart(p) + InBlock(p) /\ InBlock(p) \in Nat /\ InBlock(p) + c <= BLOCK_SIZE
      /\ BLOCK_SIZE \in Nat /\ p + c <= s_max_size /\ s_max_size \in Nat
  BY <1>1, ZFields, Sizes, InItsBlock DEF IsChunk
<1>9. M \in Nat /\ Hi(s, f, p) \in Nat /\ p + c <= M /\ Hi(s, f, p) <= M /\ p <= M
  BY <1>8 DEF Hi
<1> HIDE DEF M
<1>10. ASSUME NEW q \in p .. p + c - 1 PROVE q \in Position /\ Relative(q) = Relative(p)
  <2>1. q \in Nat /\ q \in Position
    BY <1>8 DEF Position
  <2>2. BlockStart(p) <= q /\ q < BlockStart(p) + BLOCK_SIZE
    BY <1>8
  <2> QED BY <2>1, <2>2, <1>8, Inside
<1>11. read_map(t, f, p + c - 1) # NO_ZONE
  <2>1. p + c - 1 \in p .. p + c - 1
    BY <1>8
  <2> QED BY <2>1, <1>1, <1>5, <1>10
<1>12. ASSUME f \notin t.failed PROVE Extent(t, f, M)
  <2> SUFFICES ASSUME NEW q \in Position, read_map(t, f, q) # NO_ZONE PROVE ZoneStart(q) < M
    BY DEF Extent
  <2>1. q \in Nat /\ ZoneStart(q) \in Nat /\ ZoneStart(p) \in Nat /\ ZoneStart(p) <= p
    <3>1. q \in Nat /\ p \in Nat
      BY InZoneType
    <3>2. /\ ZoneStart(q) \in Nat /\ ZoneStart(p) \in Nat /\ InZone(p) \in 0 .. zone_size - 1
          /\ p = ZoneStart(p) + InZone(p) /\ zone_size \in Nat
      BY <3>1, PositionParts, Sizes
    <3> QED BY <3>1, <3>2
  <2>2. CASE Relative(q) = Relative(p)
    <3>1. ZoneStart(q) = ZoneStart(p)
      BY <2>2 DEF ZoneStart
    <3> QED BY <3>1, <2>1, <1>8, <1>9
  <2>3. CASE Relative(q) # Relative(p)
    <3>1. read_map(s, f, q) # NO_ZONE
      BY <2>3, <1>5
    <3>2. ZoneStart(q) < Hi(s, f, p)
      BY <3>1, <1>4, <1>12 DEF Going, Extent
    <3> QED BY <3>2, <2>1, <1>9
  <2> QED BY <2>2, <2>3
<1>13. ASSUME Clean(t, f)
       PROVE  /\ Reads(t, f, M) /\ t.meant[f] \subseteq 0 .. M - 1
              /\ t.size[f] > 0 => read_map(t, f, t.size[f] - 1) # NO_ZONE
  <2>1. Clean(s, f) /\ Fit(s, m, f, p, c)
    BY <1>4, <1>13 DEF Clean
  <2>2. /\ Reads(s, f, Hi(s, f, p)) /\ s.meant[f] \subseteq 0 .. Hi(s, f, p) - 1
        /\ s.size[f] > 0 => read_map(s, f, s.size[f] - 1) # NO_ZONE
    BY <2>1 DEF Going
  <2>3. t.meant[f] = s.meant[f] \cup (p .. p + c - 1)
    BY <1>1, <1>2 DEF SameFiles
  <2>4. t.meant[f] \subseteq 0 .. M - 1
    BY <2>2, <2>3, <1>8, <1>9
  <2>5. t.size[f] > 0 => read_map(t, f, t.size[f] - 1) # NO_ZONE
    <3>1. ASSUME s.size[f] > 0 PROVE s.size[f] - 1 \in Position
      <4>1. s.size[f] \in 0 .. s_max_size
        BY <1>1, ZFields
      <4> QED BY <4>1, <3>1, <1>8 DEF Position
    <3> QED BY <3>1, <2>2, <1>4, <1>7 DEF Wrote
  <2>6. ASSUME NEW q \in Position, BlockStart(q) < M PROVE ReadAt(t, f, q) = Meant(t, f, q)
    <3>1. CASE q \in p .. p + c - 1
      <4>1. Relative(q) = Relative(p)
        BY <3>1, <1>10
      <4>2. read_map(t, f, q) = y /\ t.data[y][InZone(q)] = MINE
        BY <4>1, <3>1, <1>2, <1>5
      <4>3. q \in t.meant[f]
        BY <3>1, <2>3
      <4> QED BY <4>2, <4>3, <1>1 DEF ReadAt, Meant, InZone
    <3>2. CASE q \notin p .. p + c - 1
      <4>1. Meant(t, f, q) = Meant(s, f, q)
        BY <3>2, <2>3 DEF Meant
      <4>2. CASE Relative(q) = Relative(p)
        <5>1. ReadAt(m, f, q) = Meant(s, f, q)
          BY <4>2, <3>2, <2>1, <2>6 DEF Fit, M
        <5>2. read_map(t, f, q) = y /\ read_map(m, f, q) = y /\ t.data[y][InZone(q)] = m.data[y][InZone(q)]
          BY <4>2, <3>2, <1>2, <1>3, <1>5
        <5> QED BY <5>1, <5>2, <4>1, <1>1 DEF ReadAt, InZone
      <4>3. CASE Relative(q) # Relative(p)
        <5>1. ReadAt(m, f, q) = ReadAt(s, f, q)
          BY <4>3 DEF Ready
        <5>2. ReadAt(t, f, q) = ReadAt(m, f, q)
          <6>1. read_map(m, f, q) # y /\ read_map(t, f, q) = read_map(m, f, q) /\ read_map(m, f, q) \in Pointer
            BY <4>3, <1>1, <1>3, <1>6, MapFacts
          <6> QED BY <6>1, <1>2 DEF ReadAt, Pointer
        <5>3. BlockStart(q) < Hi(s, f, p)
          <6>1. q \in Nat /\ BlockStart(q) \in Nat
            BY InItsBlock
          <6>2. BlockStart(q) >= Hi(s, f, p) => BlockOf(q) = BlockOf(p)
            <7>1. BlockStart(q) < Hi(s, f, p + c)
              BY <2>6 DEF M
            <7> QED BY <7>1, <1>1, Ahead
          <6>3. BlockOf(q) # BlockOf(p)
            BY <6>1, <1>8, <4>3, Inside
          <6> QED BY <6>1, <6>2, <6>3, <1>9
        <5>4. ReadAt(s, f, q) = Meant(s, f, q)
          BY <5>3, <2>2 DEF Reads
        <5> QED BY <5>1, <5>2, <5>4, <4>1
      <4> QED BY <4>2, <4>3
    <3> QED BY <3>1, <3>2
  <2> QED BY <2>4, <2>5, <2>6 DEF Reads
<1>14. Going(t, f, M)
  BY <1>12, <1>13 DEF Going
<1> QED BY <1>7, <1>11, <1>14 DEF M, t

\* A step after a step.
LEMMA UndisturbedOn ==
  ASSUME NEW s, NEW m, NEW t, NEW g, Undisturbed(s, m, g), Undisturbed(m, t, g)
  PROVE  Undisturbed(s, t, g)
BY DEF Undisturbed

\* And for the file that is written.
LEMMA WroteOn ==
  ASSUME NEW s, NEW m, NEW t, NEW f, Wrote(s, m, f), Wrote(m, t, f)
  PROVE  Wrote(s, t, f)
BY UndisturbedOn DEF Wrote

\* A chunk was done, or was not.
ChunkDone(s, r, f, p, c) ==
  /\ Wrote(s, r.s, f) /\ r.ok \in BOOLEAN
  /\ r.ok => Going(r.s, f, Hi(s, f, p + c)) /\ read_map(r.s, f, p + c - 1) # NO_ZONE
  /\ ~r.ok => Going(r.s, f, Hi(s, f, p)) /\ (p > s.size[f] => ~Clean(r.s, f))

\* rw_chunk(): a chunk that is written is part of the file; one that is not leaves all as
\* it was, but for the file that gets longer without it or was given a zone for it.
LEMMA ChunkWritten ==
  ASSUME geo \in Geometries, NEW s, Tidy(s, {}), NoLoss(s), NEW f \in ZoneFile, NEW p \in Position, NEW c, IsChunk(p, c),
         Going(s, f, Hi(s, f, p)), NEW bad \in BOOLEAN, NEW cached \in BOOLEAN, bad => geo.bad_copies
  PROVE  ChunkDone(s, rw_chunk(s, f, p, c, bad, cached), f, p, c)
<1> DEFINE n == ChunkBlock(s, f, p, c, bad, cached)
           y == read_map(n.s, f, p)
           G == [n.s EXCEPT !.grown = IF p > s.size[f] THEN n.s.grown \cup {f} ELSE n.s.grown]
           F == [n.s EXCEPT !.failed = n.s.failed \cup {f}]
           t == Copied(n.s, f, p, c, y)
           r == rw_chunk(s, f, p, c, bad, cached)
<1>1. r = IF ~n.ok THEN [s |-> G, ok |-> FALSE]
          ELSE IF bad THEN [s |-> F, ok |-> FALSE]
          ELSE [s |-> t, ok |-> TRUE]
  BY DEF rw_chunk, ChunkBlock, Copied, InZone
<1>2. IF n.ok
      THEN \E z : /\ Ready(s, n.s, f, p, z)
                  /\ ~bad /\ Clean(s, f) /\ Going(s, f, Hi(s, f, p)) => Fit(s, n.s, f, p, c)
      ELSE OnlyMaps(s, n.s, {})
  BY BlockReady
<1> HIDE DEF n
<1>3. s \in ZState /\ s.size[f] \in Nat /\ p \in Nat
  BY ZFields, Sizes, InZoneType DEF Tidy
<1>4. ASSUME NEW u \in ZState, Tidy(n.s, {}), SameMaps(u, n.s), u.data = n.s.data, u.size = n.s.size, u.meant = n.s.meant,
             NEW X, X \subseteq {f}, u.failed \cup u.grown = n.s.failed \cup n.s.grown \cup X,
             u.failed = n.s.failed \/ geo.bad_copies,
             \A g \in ZoneFile : g # f => (g \in u.failed <=> g \in n.s.failed) /\ (g \in u.grown <=> g \in n.s.grown)
      PROVE  Tidy(u, {}) /\ (NoLoss(n.s) => NoLoss(u))
             /\ \A g \in ZoneFile : /\ \A q \in Position : read_map(u, g, q) = read_map(n.s, g, q)
                                    /\ g # f => Undisturbed(n.s, u, g)
  <2>1. Tidy(u, {}) /\ \A g \in ZoneFile, q \in Position : read_map(u, g, q) = read_map(n.s, g, q)
    BY <1>4, MapsSame
  <2>2. NoLoss(n.s) => NoLoss(u)
    BY <1>4 DEF NoLoss, SameMaps
  <2>3. \A g \in ZoneFile : g # f => Undisturbed(n.s, u, g)
    BY <2>1, <1>4 DEF Undisturbed
  <2> QED BY <2>1, <2>2, <2>3
<1>5. CASE ~n.ok
  <2>1. OnlyMaps(s, n.s, {})
    BY <1>2, <1>5
  <2>2. Tidy(n.s, {}) /\ n.s \in ZState /\ SameFiles(n.s, s) /\ NoLoss(n.s)
    BY <2>1 DEF OnlyMaps, Tidy, NoLoss, SameFiles
  <2>3. \A g \in ZoneFile : Undisturbed(s, n.s, g)
    BY <2>1, OthersSame
  <2>4. /\ G \in ZState /\ SameMaps(G, n.s) /\ G.data = n.s.data /\ G.size = n.s.size /\ G.meant = n.s.meant
        /\ G.failed = n.s.failed /\ G.grown = IF p > s.size[f] THEN n.s.grown \cup {f} ELSE n.s.grown
    BY <2>2 DEF ZState, SameMaps
  <2> HIDE DEF G
  <2>5. /\ Tidy(G, {}) /\ NoLoss(G)
        /\ \A g \in ZoneFile : /\ \A q \in Position : read_map(G, g, q) = read_map(n.s, g, q)
                               /\ g # f => Undisturbed(n.s, G, g)
    <3> DEFINE X == IF p > s.size[f] THEN {f} ELSE {}
    <3>1. X \subseteq {f} /\ G.failed \cup G.grown = n.s.failed \cup n.s.grown \cup X
      BY <2>4
    <3>2. \A g \in ZoneFile : g # f => (g \in G.failed <=> g \in n.s.failed) /\ (g \in G.grown <=> g \in n.s.grown)
      BY <2>4
    <3> HIDE DEF X
    <3> QED BY <3>1, <3>2, <2>2, <2>4, <1>4
  <2>6. Wrote(s, G, f)
    <3>1. \A g \in ZoneFile : g # f => Undisturbed(s, G, g)
      BY <2>3, <2>5, UndisturbedOn
    <3>2. \A q \in Position : read_map(G, f, q) = read_map(s, f, q)
      BY <2>1, <2>5 DEF OnlyMaps
    <3> QED BY <3>1, <3>2, <2>2, <2>4, <2>5 DEF Wrote, SameFiles
  <2>7. Going(G, f, Hi(s, f, p))
    <3>1. \A M \in Nat : (Extent(s, f, M) => Extent(n.s, f, M)) /\ (Reads(s, f, M) => Reads(n.s, f, M))
      BY <2>3, <1>3, ReadsOn
    <3>2. /\ \A q \in Position : read_map(G, f, q) = read_map(s, f, q)
          /\ \A q \in Position : ReadAt(G, f, q) = ReadAt(s, f, q) /\ Meant(G, f, q) = Meant(s, f, q)
      <4>1. \A q \in Position : read_map(G, f, q) = read_map(n.s, f, q)
        BY <2>5
      <4>2. \A q \in Position : ReadAt(n.s, f, q) = ReadAt(s, f, q) /\ Meant(n.s, f, q) = Meant(s, f, q)
        BY <2>3, <1>3, ReadsOn
      <4>3. \A q \in Position : ReadAt(G, f, q) = ReadAt(n.s, f, q) /\ Meant(G, f, q) = Meant(n.s, f, q)
        BY <4>1, <2>4 DEF ReadAt, Meant
      <4> QED BY <4>1, <4>2, <4>3, <2>1 DEF OnlyMaps
    <3>3. Clean(G, f) => Clean(s, f)
      BY <2>2, <2>4 DEF Clean, SameFiles
    <3>4. G.failed = s.failed /\ G.meant = s.meant /\ G.size = s.size
      BY <2>2, <2>4 DEF SameFiles
    <3>5. s.size[f] > 0 => s.size[f] - 1 \in Position
      <4>1. s.size[f] \in 0 .. s_max_size /\ s_max_size \in Nat
        BY <1>3, ZFields, Sizes
      <4> QED BY <4>1 DEF Position
    <3> QED BY <3>2, <3>3, <3>4, <3>5 DEF Going, Extent, Reads
  <2>8. p > s.size[f] => ~Clean(G, f)
    BY <2>4 DEF Clean
  <2>9. r.s = G /\ ~r.ok /\ r.ok \in BOOLEAN
    BY <1>1, <1>5
  <2> HIDE DEF r
  <2> QED BY <2>6, <2>7, <2>8, <2>9 DEF ChunkDone, r
<1>6. CASE n.ok
  <2>1. PICK z : /\ Ready(s, n.s, f, p, z)
                 /\ ~bad /\ Clean(s, f) /\ Going(s, f, Hi(s, f, p)) => Fit(s, n.s, f, p, c)
    BY <1>2, <1>6
  <2>2. y = z
    BY <2>1 DEF Ready
  <2>3. Tidy(n.s, {}) /\ n.s \in ZState /\ SameFiles(n.s, s) /\ NoLoss(n.s)
    BY <2>1 DEF Ready, Tidy, NoLoss, SameFiles
  <2>4. CASE bad
    <3>1. /\ F \in ZState /\ SameMaps(F, n.s) /\ F.data = n.s.data /\ F.size = n.s.size /\ F.meant = n.s.meant
          /\ F.failed = n.s.failed \cup {f} /\ F.grown = n.s.grown
      BY <2>3 DEF ZState, SameMaps
    <3> HIDE DEF F
    <3>2. /\ Tidy(F, {}) /\ NoLoss(F)
          /\ \A g \in ZoneFile : /\ \A q \in Position : read_map(F, g, q) = read_map(n.s, g, q)
                                 /\ g # f => Undisturbed(n.s, F, g)
      <4>1. {f} \subseteq {f} /\ F.failed \cup F.grown = n.s.failed \cup n.s.grown \cup {f}
        BY <3>1
      <4>2. \A g \in ZoneFile : g # f => (g \in F.failed <=> g \in n.s.failed) /\ (g \in F.grown <=> g \in n.s.grown)
        BY <3>1
      <4> QED BY <4>1, <4>2, <2>3, <2>4, <3>1, <1>4
    <3>3. Wrote(s, F, f)
      <4>1. \A g \in ZoneFile : g # f => Undisturbed(s, F, g)
        BY <2>1, <3>2, UndisturbedOn DEF Ready
      <4>2. \A q \in Position : read_map(s, f, q) # NO_ZONE => read_map(F, f, q) # NO_ZONE
        BY <2>1, <3>2, ZoneFacts DEF Ready
      <4> QED BY <4>1, <4>2, <2>3, <3>1, <3>2 DEF Wrote, SameFiles
    <3>4. \A M : Going(F, f, M) /\ ~Clean(F, f)
      BY <3>1 DEF Going, Clean
    <3>5. r.s = F /\ ~r.ok /\ r.ok \in BOOLEAN
      BY <1>1, <1>6, <2>4
    <3> HIDE DEF r
    <3> QED BY <3>3, <3>4, <3>5 DEF ChunkDone, r
  <2>5. CASE ~bad
    <3>1. Ready(s, n.s, f, p, y) /\ (Clean(s, f) => Fit(s, n.s, f, p, c))
      BY <2>1, <2>2, <2>5
    <3> HIDE DEF y, t
    <3>2. Wrote(s, t, f) /\ Going(t, f, Hi(s, f, p + c)) /\ read_map(t, f, p + c - 1) # NO_ZONE
      BY <3>1, ChunkCopied DEF t
    <3>3. r.s = t /\ r.ok
      BY <1>1, <1>6, <2>5
    <3> HIDE DEF r
    <3> QED BY <3>2, <3>3 DEF ChunkDone, r
  <2> QED BY <2>4, <2>5
<1> QED BY <1>5, <1>6

\* The greater and the less of two numbers.
LEMMA OfTwo ==
  ASSUME NEW a \in Nat, NEW b \in Nat
  PROVE  /\ Max({a, b}) = IF a >= b THEN a ELSE b
         /\ Min({a, b}) \in Nat /\ Min({a, b}) <= a /\ Min({a, b}) <= b /\ (Min({a, b}) = a \/ Min({a, b}) = b)
<1>1. (\E x \in {a, b} : \A y \in {a, b} : x >= y) /\ (\E x \in {a, b} : \A y \in {a, b} : x <= y)
  OBVIOUS
<1>2. Max({a, b}) \in {a, b} /\ \A y \in {a, b} : Max({a, b}) >= y
  BY <1>1 DEF Max
<1>3. Min({a, b}) \in {a, b} /\ \A y \in {a, b} : Min({a, b}) <= y
  BY <1>1 DEF Min
<1> QED BY <1>2, <1>3

\* On the way of a write of f from pos to end, that began in s.
Along(s, d, f, pos, end) ==
  /\ d.pos \in pos .. end /\ d.ok \in BOOLEAN /\ Wrote(s, d.s, f) /\ Going(d.s, f, Hi(s, f, d.pos))
  /\ d.pos > pos => read_map(d.s, f, d.pos - 1) # NO_ZONE
  /\ ~d.ok /\ d.pos > s.size[f] => ~Clean(d.s, f)

\* One chunk further.
LEMMA ChunkAlong ==
  ASSUME geo \in Geometries, NEW s, NEW f \in ZoneFile, NEW pos \in Nat, NEW end \in Nat, pos < end, end <= s_max_size,
         NEW bad \in BOOLEAN, NEW cached \in BOOLEAN, bad => geo.bad_copies, NEW d, Along(s, d, f, pos, end)
  PROVE  LET e == Chunk(d, f, end, bad, cached)
         IN  Along(s, e, f, pos, end) /\ (e.ok => e.pos > pos)
<1> DEFINE p == d.pos
           c == Min({end - p, BLOCK_SIZE - InBlock(p)})
           r == rw_chunk(d.s, f, p, c, bad, cached)
           e == Chunk(d, f, end, bad, cached)
<1>1. /\ p \in pos .. end /\ d.ok \in BOOLEAN /\ Wrote(s, d.s, f) /\ Going(d.s, f, Hi(s, f, p)) /\ s_max_size \in Nat
      /\ Tidy(d.s, {}) /\ NoLoss(d.s) /\ d.s.size = s.size
  BY Sizes DEF Along, Wrote
<1>2. \A x : Hi(d.s, f, x) = Hi(s, f, x)
  BY <1>1 DEF Hi
<1>3. CASE p = end \/ ~d.ok
  <2>1. e = d
    BY <1>3 DEF Chunk
  <2> HIDE DEF e
  <2> QED BY <2>1, <1>3 DEF e
<1>4. CASE ~(p = end \/ ~d.ok)
  <2>1. e = [s |-> r.s, pos |-> IF r.ok THEN p + c ELSE p, ok |-> r.ok]
    BY <1>4 DEF Chunk, AfterChunk, InBlock
  <2>2. p \in Position /\ p \in Nat /\ p < end
    BY <1>1, <1>4 DEF Position
  <2>3. IsChunk(p, c) /\ p + c <= end
    <3> DEFINE a == end - p
               b == BLOCK_SIZE - InBlock(p)
    <3>1. /\ InBlock(p) \in 0 .. BLOCK_SIZE - 1 /\ BLOCK_SIZE \in Nat /\ InBlock(p) \in Nat
      BY <2>2, InItsBlock
    <3>2. a \in Nat \ {0} /\ b \in Nat \ {0} /\ p + a = end /\ InBlock(p) + b = BLOCK_SIZE
      BY <2>2, <3>1
    <3>3. c = Min({a, b})
      OBVIOUS
    <3> HIDE DEF a, b, c
    <3>4. c \in Nat /\ c <= a /\ c <= b /\ (c = a \/ c = b)
      BY <3>2, <3>3, OfTwo
    <3>5. c \in Nat \ {0} /\ p + c <= end /\ InBlock(p) + c <= BLOCK_SIZE
      BY <3>1, <3>2, <3>4, <2>2
    <3> QED BY <3>5, <2>2, <1>1 DEF IsChunk
  <2> HIDE DEF c, r
  <2>4. ChunkDone(d.s, r, f, p, c)
    BY <1>1, <1>2, <2>2, <2>3, ChunkWritten DEF r
  <2>5. /\ Wrote(d.s, r.s, f) /\ r.ok \in BOOLEAN
        /\ r.ok => Going(r.s, f, Hi(s, f, p + c)) /\ read_map(r.s, f, p + c - 1) # NO_ZONE
        /\ ~r.ok => Going(r.s, f, Hi(s, f, p)) /\ (p > s.size[f] => ~Clean(r.s, f))
    BY <2>4, <1>1, <1>2 DEF ChunkDone
  <2>6. Wrote(s, r.s, f)
    BY <1>1, <2>5, WroteOn
  <2>7. c \in Nat \ {0}
    BY <2>3 DEF IsChunk
  <2>8. e.s = r.s /\ e.ok = r.ok /\ e.pos = IF r.ok THEN p + c ELSE p
    BY <2>1
  <2> HIDE DEF e
  <2>9. CASE r.ok
    <3>1. e.pos \in pos .. end /\ e.pos > pos
      BY <2>2, <2>3, <2>7, <2>8, <2>9, <1>1
    <3>2. p + c - 1 = e.pos - 1
      BY <2>2, <2>7, <2>8, <2>9
    <3>3. Along(s, e, f, pos, end)
      BY <3>1, <3>2, <2>5, <2>6, <2>8, <2>9 DEF Along
    <3> QED BY <3>1, <3>3 DEF e
  <2>10. CASE ~r.ok
    <3>1. p > pos => read_map(r.s, f, p - 1) # NO_ZONE
      <4>1. ASSUME p > pos PROVE p - 1 \in Position
        BY <4>1, <2>2, <1>1 DEF Position
      <4>2. p > pos => read_map(d.s, f, p - 1) # NO_ZONE
        BY DEF Along
      <4> QED BY <4>1, <4>2, <2>5 DEF Wrote
    <3> QED BY <3>1, <1>1, <2>5, <2>6, <2>8, <2>10 DEF Along, e
  <2> QED BY <2>9, <2>10, <2>5
<1> QED BY <1>3, <1>4

\* The loop of read_write(): g has what it came to, chunk by chunk.
Chunking(g, s, f, pos, end, n, bad, cached) ==
  g = [k \in 0 .. n |-> IF k = 0 THEN [s |-> s, pos |-> pos, ok |-> TRUE] ELSE Chunk(g[k - 1], f, end, bad, cached)]

\* It is defined from its last value, and exists.
LEMMA ChunkedOnce ==
  ASSUME NEW s, NEW f, NEW pos, NEW end, NEW n \in Nat, NEW bad, NEW cached
  PROVE  \E g : Chunking(g, s, f, pos, end, n, bad, cached)
<1> DEFINE d0 == [s |-> s, pos |-> pos, ok |-> TRUE]
           Next1(d) == Chunk(d, f, end, bad, cached)
           Is(g, k) == g = [j \in 0 .. k |-> IF j = 0 THEN d0 ELSE Next1(g[j - 1])]
           Bad == {k \in Nat : ~\E g : Is(g, k)}
<1> HIDE DEF Next1, d0
<1> SUFFICES ASSUME Bad # {}
             PROVE  FALSE
  BY DEF Next1, d0, Chunking
<1>1. PICK k \in Bad : \A j \in Bad : k <= j
  <2>1. Bad \in SUBSET Nat
    OBVIOUS
  <2> HIDE DEF Bad
  <2> QED BY <2>1, LeastIndex
<1>2. k \in Nat /\ ~\E g : Is(g, k)
  BY <1>1
<1>3. CASE k = 0
  <2> DEFINE g == [j \in 0 .. 0 |-> d0]
  <2>1. Is(g, 0)
    OBVIOUS
  <2> HIDE DEF Is
  <2> QED BY <1>2, <1>3, <2>1
<1>4. CASE k # 0
  <2>1. k - 1 \in Nat /\ ~(k <= k - 1)
    BY <1>2, <1>4
  <2>2. \E g : Is(g, k - 1)
    BY <1>1, <2>1
  <2>3. PICK g : Is(g, k - 1)
    BY <2>2
  <2> DEFINE h == [j \in 0 .. k |-> IF j = k THEN Next1(g[k - 1]) ELSE g[j]]
  <2>4. \A j \in 0 .. k - 1 : g[j] = (IF j = 0 THEN d0 ELSE Next1(g[j - 1])) /\ h[j] = g[j]
    BY <1>2, <2>3
  <2>5. h[k] = Next1(g[k - 1]) /\ h[k - 1] = g[k - 1]
    BY <1>2, <1>4, <2>4, <2>1
  <2>6. \A j \in 0 .. k : h[j] = IF j = 0 THEN d0 ELSE Next1(h[j - 1])
    <3> SUFFICES ASSUME NEW j \in 0 .. k
                 PROVE  h[j] = IF j = 0 THEN d0 ELSE Next1(h[j - 1])
      OBVIOUS
    <3> HIDE DEF h
    <3>1. CASE j = k
      BY <1>4, <2>5, <3>1
    <3>2. CASE j # k
      <4>1. j \in 0 .. k - 1 /\ (j # 0 => j - 1 \in 0 .. k - 1)
        BY <1>2, <3>2
      <4> QED BY <2>4, <4>1
    <3> QED BY <3>1, <3>2
  <2>7. h = [j \in 0 .. k |-> h[j]]
    OBVIOUS
  <2> HIDE DEF h
  <2>8. Is(h, k)
    BY <2>6, <2>7
  <2> HIDE DEF Is
  <2> QED BY <1>2, <2>8
<1> QED BY <1>3, <1>4

\* All chunks.
LEMMA ChunksAlong ==
  ASSUME geo \in Geometries, NEW s, Tidy(s, {}), NoLoss(s), NEW f \in ZoneFile, NEW pos \in Nat, NEW n \in Nat \ {0},
         pos + n <= s_max_size, Going(s, f, Hi(s, f, pos)),
         NEW bad \in BOOLEAN, NEW cached \in BOOLEAN, bad => geo.bad_copies
  PROVE  LET d == Chunks(s, f, pos, n, bad, cached)
         IN  Along(s, d, f, pos, pos + n) /\ (d.ok => d.pos > pos)
<1> DEFINE g == CHOOSE h : h = [k \in 0 .. n |-> IF k = 0 THEN [s |-> s, pos |-> pos, ok |-> TRUE]
                                                 ELSE Chunk(h[k - 1], f, pos + n, bad, cached)]
           end == pos + n
           d0 == [s |-> s, pos |-> pos, ok |-> TRUE]
           Stage(k) == Along(s, g[k], f, pos, end) /\ (k > 0 => (g[k].ok => g[k].pos > pos))
<1>1. Chunks(s, f, pos, n, bad, cached) = g[n]
  BY DEF Chunks
<1>2. Chunking(g, s, f, pos, end, n, bad, cached)
  <2>1. \E h : Chunking(h, s, f, pos, end, n, bad, cached)
    BY ChunkedOnce
  <2> QED BY <2>1 DEF Chunking
<1> HIDE DEF g
<1>3. g[0] = d0 /\ \A k \in 1 .. n : g[k] = Chunk(g[k - 1], f, end, bad, cached)
  <2>1. \A k \in 0 .. n : g[k] = IF k = 0 THEN d0 ELSE Chunk(g[k - 1], f, end, bad, cached)
    BY <1>2 DEF Chunking
  <2> HIDE DEF d0
  <2>2. 0 \in 0 .. n /\ \A k \in 1 .. n : k \in 0 .. n /\ k # 0
    OBVIOUS
  <2> QED BY <2>1, <2>2
<1>4. end \in Nat /\ pos < end /\ end <= s_max_size
  OBVIOUS
<1> HIDE DEF end
<1>5. Stage(0)
  <2>1. Wrote(s, s, f)
    BY DEF Wrote, Undisturbed
  <2>2. d0.pos = pos /\ d0.s = s /\ d0.ok
    OBVIOUS
  <2> HIDE DEF d0
  <2>3. Along(s, d0, f, pos, end)
    BY <2>1, <2>2, <1>4 DEF Along
  <2> QED BY <2>3, <1>3
<1>6. ASSUME NEW k \in 1 .. n, Stage(k - 1)
      PROVE  Stage(k)
  <2> DEFINE d == g[k - 1]
             e == Chunk(d, f, end, bad, cached)
  <2>1. Along(s, d, f, pos, end) /\ g[k] = e
    BY <1>6, <1>3
  <2> HIDE DEF d
  <2>2. Along(s, e, f, pos, end) /\ (e.ok => e.pos > pos)
    BY <2>1, <1>4, ChunkAlong
  <2> HIDE DEF e
  <2> QED BY <2>1, <2>2
<1>7. Stage(n)
  <2> DEFINE Bad == {k \in 0 .. n : ~Stage(k)}
  <2> HIDE DEF Stage
  <2>1. SUFFICES ASSUME Bad # {}
                 PROVE  FALSE
    OBVIOUS
  <2>2. PICK k \in Bad : \A j \in Bad : k <= j
    <3>1. Bad \in SUBSET Nat
      OBVIOUS
    <3> HIDE DEF Bad
    <3> QED BY <2>1, <3>1, LeastIndex
  <2>3. k \in 0 .. n /\ ~Stage(k) /\ k # 0
    BY <1>5, <2>2
  <2>4. k \in 1 .. n /\ k - 1 \in 0 .. n /\ ~(k <= k - 1)
    BY <2>3
  <2>5. Stage(k - 1)
    BY <2>2, <2>4
  <2> QED BY <1>6, <2>3, <2>4, <2>5
<1>8. n > 0
  OBVIOUS
<1> QED BY <1>1, <1>7, <1>8 DEF end

\* The inductive invariant.
ZInv(s) == Tidy(s, {}) /\ NoLoss(s) /\ \A f \in ZoneFile : Going(s, f, s.size[f])

\* The last position of a file.
LEMMA LastPosition ==
  ASSUME geo \in Geometries, NEW s \in ZState, NEW f \in ZoneFile
  PROVE  s.size[f] \in Nat /\ s.size[f] <= s_max_size /\ (s.size[f] > 0 => s.size[f] - 1 \in Position)
<1>1. s.size[f] \in 0 .. s_max_size /\ s_max_size \in Nat
  BY ZFields, Sizes
<1> QED BY <1>1 DEF Position

\* A file that was not disturbed is as it was.
LEMMA GoingOn ==
  ASSUME geo \in Geometries, NEW s \in ZState, NEW t, NEW g \in ZoneFile, Undisturbed(s, t, g), Going(s, g, s.size[g])
  PROVE  Going(t, g, t.size[g])
<1>1. s.size[g] \in Nat /\ (s.size[g] > 0 => s.size[g] - 1 \in Position)
  BY LastPosition
<1>2. /\ Extent(s, g, s.size[g]) => Extent(t, g, s.size[g])
      /\ Reads(s, g, s.size[g]) => Reads(t, g, s.size[g])
  BY <1>1, ReadsOn
<1>3. t.size[g] = s.size[g] /\ t.meant[g] = s.meant[g] /\ (g \in t.failed <=> g \in s.failed)
      /\ (Clean(t, g) <=> Clean(s, g)) /\ \A q \in Position : read_map(t, g, q) = read_map(s, g, q)
  BY DEF Undisturbed, Clean
<1> QED BY <1>1, <1>2, <1>3 DEF Going

\* What a write begins with.
Begun(s, f, pos) == IF pos > s.size[f] THEN clear_zone(s, f, s.size[f], FALSE) ELSE s

\* It has the file end where it will be written.
LEMMA BegunWell ==
  ASSUME geo \in Geometries, NEW s, ZInv(s), NEW f \in ZoneFile, NEW pos \in Nat, pos < s_max_size
  PROVE  LET t == Begun(s, f, pos)
         IN  Wrote(s, t, f) /\ Going(t, f, Hi(t, f, pos))
<1> DEFINE t == Begun(s, f, pos)
           e == s.size[f]
<1>1. s \in ZState /\ Tidy(s, {}) /\ NoLoss(s) /\ Going(s, f, e)
  BY DEF ZInv, Tidy
<1>2. e \in Nat /\ s_max_size \in Nat
  BY <1>1, LastPosition, Sizes
<1>3. CASE pos <= e
  <2>1. t = s
    <3>1. ~(pos > e)
      BY <1>2, <1>3
    <3> QED BY <3>1 DEF Begun
  <2>2. Wrote(s, s, f)
    BY <1>1 DEF Wrote, Undisturbed
  <2>3. Hi(s, f, pos) = e
    BY <1>2, <1>3 DEF Hi
  <2> HIDE DEF t, e
  <2> QED BY <1>1, <2>1, <2>2, <2>3 DEF t
<1>4. CASE pos > e
  <2>1. t = clear_zone(s, f, e, FALSE) /\ e \in Position
    <3>1. t = clear_zone(s, f, e, FALSE)
      BY <1>4 DEF Begun
    <3>2. e \in Position
      BY <1>2, <1>4 DEF Position
    <3> QED BY <3>1, <3>2
  <2>2. ClearsFrom(s, t, f, e)
    BY <1>1, <1>2, <2>1, Cleared
  <2>3. Clean(s, f) => \A M \in Nat : Reads(t, f, M)
    <3>1. ASSUME Clean(s, f) PROVE Extent(s, f, e) /\ Reads(s, f, e) /\ s.meant[f] \subseteq 0 .. e - 1
      BY <3>1, <1>1 DEF Going, Clean
    <3> QED BY <3>1, <1>1, <2>1, ClearedFrom
  <2> HIDE DEF t
  <2>4. Tidy(t, {}) /\ SameFiles(t, s) /\ (\A g \in ZoneFile : g # f => Undisturbed(s, t, g))
        /\ \A g \in ZoneFile, q \in Position : read_map(t, g, q) = read_map(s, g, q)
    <3>1. CASE t = s
      BY <3>1, <1>1 DEF SameFiles, Undisturbed
    <3>2. CASE t # s
      <4>1. PICK n, z :
              /\ n \in Nat /\ n = e + BLOCK_SIZE - 1 /\ z = read_map(s, f, n)
              /\ geo.blocks = 1 \/ Relative(n) # Relative(e) \/ z = NO_ZONE => t = s
              /\ geo.blocks # 1 /\ Relative(n) = Relative(e) /\ z \in Zone =>
                   /\ OnlyData(s, t, z)
                   /\ \A q \in Position : Relative(q) = Relative(n) =>
                        t.data[z][InZone(q)] = IF BlockOf(n) <= BlockOf(q) THEN ZERO ELSE s.data[z][InZone(q)]
        BY <2>2 DEF ClearsFrom
      <4>2. geo.blocks # 1 /\ Relative(n) = Relative(e) /\ z # NO_ZONE
        BY <4>1, <3>2
      <4>3. n \in Position
        BY <4>1, <4>2, <2>1, Neighbour
      <4>4. z \in Zone
        BY <4>1, <4>2, <4>3, <1>1, MapFacts DEF Pointer
      <4>5. OnlyData(s, t, z)
        BY <4>1, <4>2, <4>4
      <4>6. \A g \in ZoneFile : g # f => Undisturbed(s, t, g)
        BY <4>1, <4>3, <4>4, <4>5, <1>1, OthersSame
      <4>7. Tidy(t, {}) /\ \A g \in ZoneFile, q \in Position : read_map(t, g, q) = read_map(s, g, q)
        BY <4>5, <1>1, MapsSame DEF OnlyData
      <4> QED BY <4>5, <4>6, <4>7 DEF OnlyData
    <3> QED BY <3>1, <3>2
  <2>5. Wrote(s, t, f)
    BY <2>4, <1>1 DEF Wrote, SameFiles, NoLoss
  <2>6. Hi(t, f, pos) = pos
    BY <2>4, <1>2, <1>4 DEF Hi, SameFiles
  <2>7. Going(t, f, pos)
    <3>1. Clean(t, f) => Clean(s, f)
      BY <2>4 DEF Clean, SameFiles
    <3>2. ASSUME f \notin t.failed PROVE Extent(t, f, pos)
      <4>1. Extent(s, f, e)
        BY <3>2, <2>4, <1>1 DEF SameFiles, Going
      <4>2. \A q \in Position : ZoneStart(q) \in Nat
        BY InZoneType, PositionParts
      <4> QED BY <4>1, <4>2, <2>4, <1>2, <1>4 DEF Extent
    <3>3. ASSUME Clean(t, f)
          PROVE  /\ Reads(t, f, pos) /\ t.meant[f] \subseteq 0 .. pos - 1
                 /\ t.size[f] > 0 => read_map(t, f, t.size[f] - 1) # NO_ZONE
      <4>1. Reads(t, f, pos)
        BY <3>1, <3>3, <2>3
      <4>2. s.meant[f] \subseteq 0 .. e - 1 /\ (e > 0 => read_map(s, f, e - 1) # NO_ZONE)
        BY <3>1, <3>3, <1>1 DEF Going
      <4>3. t.meant[f] \subseteq 0 .. pos - 1
        BY <4>2, <2>4, <1>2, <1>4 DEF SameFiles
      <4>4. t.size[f] > 0 => read_map(t, f, t.size[f] - 1) # NO_ZONE
        <5>1. e > 0 => e - 1 \in Position
          BY <1>1, LastPosition
        <5> QED BY <5>1, <4>2, <2>4 DEF SameFiles
      <4> QED BY <4>1, <4>3, <4>4
    <3> QED BY <3>2, <3>3 DEF Going
  <2> QED BY <2>5, <2>6, <2>7 DEF t
<1> QED BY <1>3, <1>4, <1>2

\* read_write(WRITING) keeps the invariant.
LEMMA WriteKeepsFiles ==
  ASSUME geo \in Geometries, NEW s, ZInv(s), NEW f \in ZoneFile, NEW pos \in Nat, NEW n \in Nat \ {0},
         NEW bad \in BOOLEAN, NEW cached \in BOOLEAN, bad => geo.bad_copies
  PROVE  ZInv(read_write_file(s, f, pos, n, bad, cached))
<1> DEFINE b == Begun(s, f, pos)
           d == Chunks(b, f, pos, n, bad, cached)
           S == [d.s.size EXCEPT ![f] = Max({d.s.size[f], d.pos})]
           t == [d.s EXCEPT !.size[f] = Max({d.s.size[f], d.pos})]
           r == read_write_file(s, f, pos, n, bad, cached)
<1>1. r = IF pos > s_max_size - n THEN s ELSE t
  BY DEF read_write_file, Lengthened, Begun
<1>2. s_max_size \in Nat /\ s \in ZState
  BY Sizes DEF ZInv, Tidy
<1>3. CASE pos > s_max_size - n
  <2>1. r = s
    BY <1>1, <1>3
  <2> HIDE DEF r
  <2> QED BY <2>1 DEF r
<1>4. CASE ~(pos > s_max_size - n)
  <2>1. pos + n <= s_max_size /\ pos < s_max_size
    BY <1>2, <1>4
  <2>2. Wrote(s, b, f) /\ Going(b, f, Hi(b, f, pos))
    BY <2>1, BegunWell
  <2>3. r = t
    BY <1>1, <1>4
  <2>4. t = [d.s EXCEPT !.size = S]
    OBVIOUS
  <2>5. S = [d.s.size EXCEPT ![f] = Max({d.s.size[f], d.pos})]
    OBVIOUS
  <2> HIDE DEF b, r, t, S
  <2>6. Tidy(b, {}) /\ NoLoss(b) /\ b.size = s.size
    BY <2>2 DEF Wrote
  <2>7. Along(b, d, f, pos, pos + n) /\ (d.ok => d.pos > pos)
    BY <2>1, <2>2, <2>6, ChunksAlong
  <2> HIDE DEF d
  <2>8. Wrote(b, d.s, f) /\ d.pos \in pos .. pos + n /\ Going(d.s, f, Hi(b, f, d.pos))
    BY <2>7 DEF Along
  <2>9. Wrote(s, d.s, f)
    BY <2>2, <2>8, WroteOn
  <2>10. d.s \in ZState /\ Tidy(d.s, {}) /\ NoLoss(d.s) /\ d.s.size = s.size
    BY <2>9 DEF Wrote, Tidy
  <2>11. s.size[f] \in 0 .. s_max_size /\ d.pos \in 0 .. s_max_size
    BY <1>2, <2>1, <2>8, ZFields
  <2>12. Max({s.size[f], d.pos}) = Hi(s, f, d.pos) /\ Hi(b, f, d.pos) = Hi(s, f, d.pos)
         /\ Hi(s, f, d.pos) \in 0 .. s_max_size
    <3>1. s.size[f] \in Nat /\ d.pos \in Nat
      BY <2>11, <1>2
    <3>2. Max({s.size[f], d.pos}) = IF s.size[f] >= d.pos THEN s.size[f] ELSE d.pos
      BY <3>1, OfTwo
    <3> QED BY <3>2, <2>6, <2>11 DEF Hi
  <2> DEFINE M == Hi(s, f, d.pos)
  <2> HIDE DEF M
  <2>13. /\ S \in [ZoneFile -> 0 .. s_max_size] /\ S[f] = M
         /\ \A g \in ZoneFile : g # f => S[g] = s.size[g]
    <3>1. S = [s.size EXCEPT ![f] = M]
      BY <2>5, <2>10, <2>12 DEF M
    <3>2. s.size \in [ZoneFile -> 0 .. s_max_size] /\ M \in 0 .. s_max_size
      BY <1>2, <2>12 DEF ZState, M
    <3> QED BY <3>1, <3>2
  <2>14. /\ t \in ZState /\ t.size = S /\ t.meant = d.s.meant /\ t.failed = d.s.failed /\ t.grown = d.s.grown
         /\ t.data = d.s.data /\ SameMaps(t, d.s)
    BY <2>4, <2>10, <2>13 DEF ZState, SameMaps
  <2>15. Tidy(t, {}) /\ \A g \in ZoneFile, q \in Position : read_map(t, g, q) = read_map(d.s, g, q)
    BY <2>10, <2>14, MapsSame
  <2>16. NoLoss(t)
    BY <2>10, <2>14 DEF NoLoss, SameMaps
  <2>17. ASSUME NEW g \in ZoneFile, g # f PROVE Going(t, g, t.size[g])
    <3>1. Undisturbed(s, d.s, g)
      BY <2>9, <2>17 DEF Wrote
    <3>2. Undisturbed(d.s, t, g)
      BY <2>10, <2>13, <2>14, <2>15, <2>17 DEF Undisturbed
    <3>3. Undisturbed(s, t, g)
      BY <3>1, <3>2, UndisturbedOn
    <3> QED BY <3>3, <1>2, GoingOn DEF ZInv
  <2>18. Going(t, f, M)
    <3>1. Going(d.s, f, M) /\ t.size[f] = M /\ (Clean(t, f) <=> Clean(d.s, f))
      BY <2>8, <2>12, <2>13, <2>14 DEF M, Clean
    <3>2. \A q \in Position : ReadAt(t, f, q) = ReadAt(d.s, f, q) /\ Meant(t, f, q) = Meant(d.s, f, q)
      BY <2>14, <2>15 DEF ReadAt, Meant
    <3>3. f \notin t.failed => Extent(t, f, M)
      BY <3>1, <2>14, <2>15 DEF Going, Extent
    <3>4. ASSUME Clean(t, f)
          PROVE  /\ Reads(t, f, M) /\ t.meant[f] \subseteq 0 .. M - 1
                 /\ t.size[f] > 0 => read_map(t, f, t.size[f] - 1) # NO_ZONE
      <4>1. Reads(t, f, M) /\ t.meant[f] \subseteq 0 .. M - 1
        BY <3>1, <3>2, <3>4, <2>14 DEF Going, Reads
      <4>2. M > 0 => M - 1 \in Position /\ read_map(t, f, M - 1) = read_map(d.s, f, M - 1)
        <5>1. M > 0 => M - 1 \in Position
          BY <3>1, <2>14, LastPosition
        <5> QED BY <5>1, <2>15
      <4>3. ASSUME M > 0 PROVE read_map(d.s, f, M - 1) # NO_ZONE
        <5>1. CASE s.size[f] >= d.pos
          <6>1. M = s.size[f]
            BY <5>1 DEF M, Hi
          <6> QED BY <6>1, <4>3, <3>1, <3>4, <2>10 DEF Going
        <5>2. CASE ~(s.size[f] >= d.pos)
          <6>1. M = d.pos /\ d.pos > s.size[f]
            BY <5>2, <2>11, <1>2 DEF M, Hi
          <6>2. d.ok /\ d.pos > pos
            BY <6>1, <2>6, <2>7, <3>1, <3>4 DEF Along
          <6> QED BY <6>1, <6>2, <2>7 DEF Along
        <5> QED BY <5>1, <5>2
      <4> QED BY <4>1, <4>2, <4>3, <3>1
    <3> QED BY <3>3, <3>4 DEF Going
  <2>19. \A g \in ZoneFile : Going(t, g, t.size[g])
    BY <2>13, <2>14, <2>17, <2>18
  <2> QED BY <2>3, <2>15, <2>16, <2>19 DEF ZInv, r
<1> QED BY <1>3, <1>4

\* The pointers of a file, as the model lists them.
LEMMA PointersAre ==
  ASSUME geo \in Geometries, NEW s \in ZState, NEW f \in ZoneFile
  PROVE  /\ \A p \in Pointers(s, f) : \E h \in Pointer, i \in Nat :
              IsPlace(s, f, h, i) /\ p = <<h, i, PointerAt(s, f, h, i)>> /\ PointerAt(s, f, h, i) \in Zone
         /\ \A h \in Pointer, i \in Nat :
              IsPlace(s, f, h, i) /\ PointerAt(s, f, h, i) \in Zone => <<h, i, PointerAt(s, f, h, i)>> \in Pointers(s, f)
         /\ Owned(s, f) = ZonesOf(s, f)
<1> DEFINE D == geo.NR_DZONE_NUM
           In(z) == {<<z, i, s.ptr[z][i]>> : i \in Index}
           top == {<<NO_ZONE, i, s.direct[f][i]>> : i \in DOMAIN s.direct[f]}
                    \cup {<<NO_ZONE, D, s.single[f]>>, <<NO_ZONE, D + 1, s.double[f]>>}
           inds == {s.single[f]} \cup (IF s.double[f] = NO_ZONE THEN {} ELSE {s.ptr[s.double[f]][i] : i \in Index})
           low == UNION {In(z) : z \in (inds \cup {s.double[f]}) \ {NO_ZONE}}
<1>1. Pointers(s, f) = {p \in top \cup low : p[3] # NO_ZONE}
  BY DEF Pointers
<1>2. /\ 0 \notin Zone /\ NO_ZONE = 0 /\ Index \subseteq Nat /\ D \in Nat \ {0}
      /\ s.single[f] \in Pointer /\ s.double[f] \in Pointer /\ Pointer = Zone \cup {0}
      /\ DOMAIN s.direct[f] = 0 .. D - 1
      /\ \A i \in 0 .. D - 1 : s.direct[f][i] \in Pointer
      /\ \A z \in Zone, i \in Index : s.ptr[z][i] \in Pointer
  <2>1. s.direct[f] \in [0 .. D - 1 -> Pointer]
    BY DEF ZState
  <2> QED BY <2>1, ZoneFacts, Sizes, ZFields DEF Pointer
<1>3. (inds \cup {s.double[f]}) \ {NO_ZONE} = Inds(s, f)
  <2>1. ASSUME NEW z, z \in (inds \cup {s.double[f]}) \ {NO_ZONE} PROVE z \in Inds(s, f)
    <3>1. /\ z # 0
          /\ \/ z = s.single[f] \/ z = s.double[f]
             \/ s.double[f] # NO_ZONE /\ \E i \in Index : z = s.ptr[s.double[f]][i]
      BY <2>1, <1>2
    <3>2. z \in Pointer
      BY <3>1, <1>2
    <3> QED BY <3>1, <3>2, <1>2 DEF Inds
  <2>2. ASSUME NEW z \in Inds(s, f) PROVE z \in (inds \cup {s.double[f]}) \ {NO_ZONE}
    BY <2>2, <1>2 DEF Inds
  <2> QED BY <2>1, <2>2
<1>4. /\ \A p \in top : \E i \in 0 .. D + 1 : p = <<0, i, PointerAt(s, f, 0, i)>>
      /\ \A i \in 0 .. D + 1 : <<0, i, PointerAt(s, f, 0, i)>> \in top
  <2>1. ASSUME NEW p \in top PROVE \E i \in 0 .. D + 1 : p = <<0, i, PointerAt(s, f, 0, i)>>
    <3>1. CASE p = <<NO_ZONE, D, s.single[f]>>
      <4>1. D \in 0 .. D + 1 /\ p = <<0, D, PointerAt(s, f, 0, D)>>
        BY <3>1, <1>2 DEF PointerAt
      <4> QED BY <4>1
    <3>2. CASE p = <<NO_ZONE, D + 1, s.double[f]>>
      <4>1. D + 1 \in 0 .. D + 1 /\ p = <<0, D + 1, PointerAt(s, f, 0, D + 1)>>
        BY <3>2, <1>2 DEF PointerAt
      <4> QED BY <4>1
    <3>3. CASE p \in {<<NO_ZONE, i, s.direct[f][i]>> : i \in DOMAIN s.direct[f]}
      <4>1. PICK i \in 0 .. D - 1 : p = <<NO_ZONE, i, s.direct[f][i]>>
        BY <3>3, <1>2
      <4>2. i \in 0 .. D + 1 /\ p = <<0, i, PointerAt(s, f, 0, i)>>
        BY <4>1, <1>2 DEF PointerAt
      <4> QED BY <4>2
    <3> QED BY <3>1, <3>2, <3>3
  <2>2. ASSUME NEW i \in 0 .. D + 1 PROVE <<0, i, PointerAt(s, f, 0, i)>> \in top
    <3>1. CASE i = D
      BY <3>1, <1>2 DEF PointerAt
    <3>2. CASE i = D + 1
      BY <3>2, <1>2 DEF PointerAt
    <3>3. CASE i \in 0 .. D - 1
      <4>1. PointerAt(s, f, 0, i) = s.direct[f][i]
        BY <3>3, <1>2 DEF PointerAt
      <4> QED BY <4>1, <3>3, <1>2
    <3> QED BY <3>1, <3>2, <3>3, <1>2
  <2> QED BY <2>1, <2>2
<1>5. low = UNION {In(z) : z \in Inds(s, f)}
  BY <1>3
<1>6. /\ \A p \in low : \E h \in Inds(s, f), i \in Index : p = <<h, i, PointerAt(s, f, h, i)>>
      /\ \A h \in Inds(s, f), i \in Index : <<h, i, PointerAt(s, f, h, i)>> \in low
  <2>1. \A h \in Inds(s, f), i \in Index : PointerAt(s, f, h, i) = s.ptr[h][i]
    BY <1>2 DEF PointerAt, Inds
  <2> HIDE DEF low
  <2>2. ASSUME NEW p \in low PROVE \E h \in Inds(s, f), i \in Index : p = <<h, i, PointerAt(s, f, h, i)>>
    <3>1. PICK h \in Inds(s, f) : p \in In(h)
      BY <2>2, <1>5
    <3> QED BY <3>1, <2>1
  <2>3. ASSUME NEW h \in Inds(s, f), NEW i \in Index PROVE <<h, i, PointerAt(s, f, h, i)>> \in low
    <3>1. <<h, i, PointerAt(s, f, h, i)>> \in In(h)
      BY <2>1
    <3> HIDE DEF In
    <3> QED BY <3>1, <1>5
  <2> QED BY <2>2, <2>3
<1> HIDE DEF top, low, inds, In
<1>7. \A h \in Pointer, i \in Nat : IsPlace(s, f, h, i) => PointerAt(s, f, h, i) \in Pointer
  <2> SUFFICES ASSUME NEW h \in Pointer, NEW i \in Nat, IsPlace(s, f, h, i) PROVE PointerAt(s, f, h, i) \in Pointer
    OBVIOUS
  <2>1. CASE h \in Inds(s, f) /\ i \in Index
    BY <2>1, <1>2 DEF PointerAt, Inds
  <2>2. CASE h = 0 /\ i \in 0 .. D + 1
    BY <2>2, <1>2 DEF PointerAt
  <2> QED BY <2>1, <2>2 DEF IsPlace
<1>8. ASSUME NEW p \in Pointers(s, f)
      PROVE  \E h \in Pointer, i \in Nat :
               IsPlace(s, f, h, i) /\ p = <<h, i, PointerAt(s, f, h, i)>> /\ PointerAt(s, f, h, i) \in Zone
  <2>1. p \in top \/ p \in low
    BY <1>1
  <2>2. p[3] # 0
    BY <1>1, <1>2
  <2>3. PICK h \in Pointer, i \in Nat : IsPlace(s, f, h, i) /\ p = <<h, i, PointerAt(s, f, h, i)>>
    <3>1. CASE p \in top
      <4>1. PICK i \in 0 .. D + 1 : p = <<0, i, PointerAt(s, f, 0, i)>>
        BY <3>1, <1>4
      <4>2. i \in Nat /\ 0 \in Pointer /\ IsPlace(s, f, 0, i)
        BY <1>2 DEF IsPlace
      <4> QED BY <4>1, <4>2
    <3>2. CASE p \in low
      <4>1. PICK h \in Inds(s, f), i \in Index : p = <<h, i, PointerAt(s, f, h, i)>>
        BY <3>2, <1>6
      <4>2. i \in Nat /\ h \in Pointer /\ IsPlace(s, f, h, i)
        BY <1>2 DEF IsPlace, Inds
      <4> QED BY <4>1, <4>2
    <3> QED BY <2>1, <3>1, <3>2
  <2>4. p[3] = PointerAt(s, f, h, i)
    BY <2>3
  <2>5. PointerAt(s, f, h, i) \in Zone
    BY <2>2, <2>3, <2>4, <1>2, <1>7
  <2> QED BY <2>3, <2>5
<1>9. ASSUME NEW h \in Pointer, NEW i \in Nat, IsPlace(s, f, h, i), PointerAt(s, f, h, i) \in Zone
      PROVE  <<h, i, PointerAt(s, f, h, i)>> \in Pointers(s, f)
  <2>1. <<h, i, PointerAt(s, f, h, i)>> \in top \cup low
    BY <1>4, <1>6, <1>9 DEF IsPlace
  <2>2. <<h, i, PointerAt(s, f, h, i)>>[3] # NO_ZONE
    BY <1>2, <1>9
  <2> QED BY <1>1, <2>1, <2>2
<1>10. Owned(s, f) = ZonesOf(s, f)
  <2>1. ASSUME NEW z \in Owned(s, f) PROVE z \in ZonesOf(s, f)
    <3>1. PICK p \in Pointers(s, f) : z = p[3]
      BY <2>1 DEF Owned
    <3>2. PICK h \in Pointer, i \in Nat :
            IsPlace(s, f, h, i) /\ p = <<h, i, PointerAt(s, f, h, i)>> /\ PointerAt(s, f, h, i) \in Zone
      BY <1>8
    <3>3. z = PointerAt(s, f, h, i)
      BY <3>1, <3>2
    <3> QED BY <3>2, <3>3 DEF ZonesOf
  <2>2. ASSUME NEW z \in ZonesOf(s, f) PROVE z \in Owned(s, f)
    <3>1. PICK h \in Pointer, i \in Nat : IsPlace(s, f, h, i) /\ PointerAt(s, f, h, i) = z /\ z \in Zone
      BY <2>2 DEF ZonesOf
    <3>2. <<h, i, z>> \in Pointers(s, f) /\ <<h, i, z>>[3] = z
      BY <3>1, <1>9
    <3> QED BY <3>2 DEF Owned
  <2> QED BY <2>1, <2>2
<1> QED BY <1>8, <1>9, <1>10

\* Every zone of a file is an indirect one, or one for the positions from a multiple of
\* zone_size on.
LEMMA OwnReached ==
  ASSUME geo \in Geometries, NEW s \in ZState, NEW f \in ZoneFile, NEW z \in ZonesOf(s, f)
  PROVE  \/ z \in Inds(s, f)
         \/ \E r \in 0 .. MaxZones - 1 : read_map(s, f, r * zone_size) = z
<1> DEFINE D == geo.NR_DZONE_NUM
           I == geo.NR_INDIRECTS
           S == I * I
<1>1. PICK h \in Pointer, i \in Nat : IsPlace(s, f, h, i) /\ PointerAt(s, f, h, i) = z /\ z \in Zone
  BY DEF ZonesOf
<1>2. D \in Nat \ {0} /\ I \in Nat \ {0} /\ Index = 0 .. I - 1 /\ 0 \notin Zone /\ NO_ZONE = 0
  BY Sizes, ZoneFacts DEF Index
<1>3. S \in Nat /\ MaxZones = D + I + S
  <2>1. S \in Nat
    BY <1>2
  <2>2. MaxZones = D + I + S
    BY DEF MaxZones
  <2> QED BY <2>1, <2>2
<1> HIDE DEF S
<1>4. ASSUME NEW r \in 0 .. MaxZones - 1
      PROVE  LET q == r * zone_size
             IN  q \in Position /\ Relative(q) = r /\ Excess(q) = r - D
  <2>1. r * zone_size \in 0 .. s_max_size - 1 /\ Relative(r * zone_size) = r
    BY BelowMax
  <2> DEFINE q == r * zone_size
  <2> HIDE DEF q
  <2> QED BY <2>1 DEF Position, Excess, q
<1>5. CASE h = 0 /\ i \in 0 .. D + 1
  <2>1. CASE i \in 0 .. D - 1
    <3> DEFINE q == i * zone_size
    <3>1. i \in 0 .. MaxZones - 1
      BY <2>1, <1>2, <1>3
    <3>2. Relative(q) = i /\ Excess(q) = i - D
      BY <3>1, <1>4
    <3> HIDE DEF q
    <3>3. IsDirect(q)
      BY <3>2, <2>1, <1>2 DEF IsDirect
    <3>4. read_map(s, f, q) = s.direct[f][i]
      BY <3>2, <3>3 DEF read_map
    <3>5. PointerAt(s, f, h, i) = s.direct[f][i]
      BY <1>2, <1>5, <2>1 DEF PointerAt
    <3>6. read_map(s, f, i * zone_size) = z
      BY <3>4, <3>5, <1>1 DEF q
    <3> QED BY <3>1, <3>6
  <2>2. CASE i = D \/ i = D + 1
    <3>1. z = s.single[f] \/ z = s.double[f]
      BY <2>2, <1>1, <1>2, <1>5 DEF PointerAt
    <3> QED BY <3>1, <1>1 DEF Inds
  <2> QED BY <2>1, <2>2, <1>2, <1>5
<1>6. CASE h \in Inds(s, f) /\ i \in Index
  <2>1. h \in Zone /\ PointerAt(s, f, h, i) = s.ptr[h][i]
    BY <1>2, <1>6 DEF Inds, PointerAt
  <2>2. CASE h = s.single[f]
    <3> DEFINE q == (D + i) * zone_size
    <3>1. D + i \in 0 .. MaxZones - 1 /\ (D + i) - D = i
      BY <1>2, <1>3, <1>6
    <3>2. q \in Position /\ Excess(q) = i
      BY <3>1, <1>4
    <3> HIDE DEF q
    <3>3. IsSingle(q)
      BY <3>2, <1>6 DEF IsSingle
    <3>4. ~IsDirect(q) /\ Within(q) = i
      BY <3>2, <3>3, SpotFacts
    <3>5. Single(s, f, q) = h
      BY <3>3, <2>2 DEF Single
    <3>6. read_map(s, f, q) = z
      BY <3>4, <3>5, <2>1, <1>1, <1>2 DEF read_map
    <3> QED BY <3>1, <3>6 DEF q
  <2>3. CASE h = s.double[f]
    <3>1. s.double[f] # NO_ZONE /\ z = s.ptr[s.double[f]][i]
      BY <2>1, <2>3, <1>1, <1>2
    <3> QED BY <3>1, <1>1, <1>6 DEF Inds
  <2>4. CASE s.double[f] # NO_ZONE /\ \E j \in Index : h = s.ptr[s.double[f]][j]
    <3>1. PICK j \in Index : h = s.ptr[s.double[f]][j]
      BY <2>4
    <3> DEFINE J == j * I
               r == D + I + J + i
               q == r * zone_size
    <3>2. J \in Nat /\ J + I <= S
      <4>1. J \in Nat
        BY <1>2
      <4>2. J + I <= S
        BY <1>2, Apart DEF S
      <4> QED BY <4>1, <4>2
    <3> HIDE DEF J
    <3>3. r \in 0 .. MaxZones - 1 /\ r - D = I + J + i
      <4>1. i \in Nat /\ i <= I - 1 /\ J \in Nat /\ J + I <= S
        BY <3>2, <1>2, <1>6
      <4> HIDE DEF S
      <4>2. D \in Nat /\ I \in Nat /\ S \in Nat /\ MaxZones = D + I + S
        BY <1>2, <1>3
      <4> QED BY <4>1, <4>2
    <3>4. q \in Position /\ Excess(q) = I + J + i
      BY <3>3, <1>4
    <3> HIDE DEF r, q
    <3>5. ~IsSingle(q) /\ ~IsDirect(q) /\ Deep(q) = J + i
      <4>1. Excess(q) \notin Index /\ ~(Excess(q) < 0) /\ Excess(q) - I = J + i
        BY <3>2, <3>4, <1>2, <1>6
      <4> QED BY <4>1 DEF IsSingle, IsDirect, Deep
    <3>6. Double(q) = j /\ Within(q) = i
      <4>1. j \in Int /\ i \in 0 .. I - 1 /\ Deep(q) \in Int /\ Deep(q) = j * I + i
        BY <3>2, <3>5, <1>2, <1>6 DEF J
      <4>2. Deep(q) % I = i /\ Deep(q) \div I = j
        BY <4>1, <1>2, QuotientIs, Zenon
      <4> QED BY <4>2, <3>5 DEF Double, Within
    <3>7. Single(s, f, q) = h
      BY <3>1, <3>5, <3>6, <2>4 DEF Single, Double
    <3>8. read_map(s, f, q) = z
      BY <3>5, <3>6, <3>7, <2>1, <1>1, <1>2 DEF read_map
    <3> QED BY <3>3, <3>8 DEF q
  <2> QED BY <2>2, <2>3, <2>4, <1>6 DEF Inds
<1> QED BY <1>1, <1>5, <1>6 DEF IsPlace

\* What truncate() frees.
FreedBy(s, f) ==
  {read_map(s, f, pos) : pos \in {pos \in 0 .. s.size[f] - 1 : pos % zone_size = 0}} \cup {s.single[f], s.double[f]}
    \cup (IF s.double[f] = NO_ZONE THEN {} ELSE {s.ptr[s.double[f]][i] : i \in Index})

\* They are the file's; and unless a copy failed, they are all of the file's.
LEMMA FoundAll ==
  ASSUME geo \in Geometries, NEW s, ZInv(s), NEW f \in ZoneFile
  PROVE  /\ \A z \in FreedBy(s, f) : z \in Zone => z \in ZonesOf(s, f)
         /\ f \notin s.failed => ZonesOf(s, f) \subseteq FreedBy(s, f)
<1>1. s \in ZState /\ Going(s, f, s.size[f]) /\ s.size[f] \in Nat /\ s.size[f] <= s_max_size
  BY LastPosition DEF ZInv, Tidy
<1>2. Inds(s, f) \subseteq ZonesOf(s, f)
  BY <1>1, IndsOwned
<1>3. ASSUME NEW z \in FreedBy(s, f), z \in Zone PROVE z \in ZonesOf(s, f)
  <2>1. CASE \E pos \in 0 .. s.size[f] - 1 : z = read_map(s, f, pos)
    <3>1. PICK pos \in 0 .. s.size[f] - 1 : z = read_map(s, f, pos)
      BY <2>1
    <3>2. pos \in Position
      BY <1>1, Sizes DEF Position
    <3> QED BY <3>1, <3>2, <1>1, <1>3, MapFacts
  <2>2. CASE \/ z = s.single[f] \/ z = s.double[f]
             \/ s.double[f] # NO_ZONE /\ \E j \in Index : z = s.ptr[s.double[f]][j]
    BY <2>2, <1>2, <1>3 DEF Inds
  <2> QED BY <2>1, <2>2 DEF FreedBy
<1>4. ASSUME f \notin s.failed, NEW z \in ZonesOf(s, f) PROVE z \in FreedBy(s, f)
  <2>1. CASE z \in Inds(s, f)
    BY <2>1 DEF Inds, FreedBy
  <2>2. CASE \E r \in 0 .. MaxZones - 1 : read_map(s, f, r * zone_size) = z
    <3>1. PICK r \in 0 .. MaxZones - 1 : read_map(s, f, r * zone_size) = z
      BY <2>2
    <3> DEFINE q == r * zone_size
    <3>2. q \in 0 .. s_max_size - 1 /\ Relative(q) = r /\ q % zone_size = 0
      BY BelowMax
    <3>3. ZoneStart(q) = q
      BY <3>2 DEF ZoneStart
    <3> HIDE DEF q
    <3>4. q \in Position /\ q \in Nat
      BY <3>2, Sizes DEF Position
    <3>5. read_map(s, f, q) = z /\ z # NO_ZONE
      BY <3>1, ZoneFacts DEF q, ZonesOf
    <3>6. q < s.size[f]
      BY <3>3, <3>4, <3>5, <1>1, <1>4 DEF Going, Extent
    <3>7. q \in 0 .. s.size[f] - 1
      BY <3>4, <3>6, <1>1
    <3> QED BY <3>2, <3>5, <3>7 DEF FreedBy
  <2> QED BY <2>1, <2>2, <1>1, OwnReached
<1> QED BY <1>3, <1>4

\* truncate() keeps the invariant.
LEMMA TruncateKeepsFiles ==
  ASSUME geo \in Geometries, NEW s, ZInv(s), NEW f \in ZoneFile
  PROVE  ZInv(Truncated(s, f))
<1> DEFINE D == geo.NR_DZONE_NUM
           b == free_zone(s, FreedBy(s, f))
           E == [i \in DOMAIN b.direct[f] |-> NO_ZONE]
           t == [b EXCEPT !.size[f] = 0, !.direct[f] = E, !.single[f] = NO_ZONE, !.double[f] = NO_ZONE,
                          !.meant[f] = {}, !.failed = b.failed \ {f}, !.grown = b.grown \ {f},
                          !.lost = b.lost \cup (Owned(s, f) \ FreedBy(s, f))]
<1>1. Truncated(s, f) = t
  BY DEF Truncated, FreedBy
<1>2. s \in ZState /\ OnePlace(s) /\ Mapped(s, {}) /\ NoLoss(s)
  BY DEF ZInv, Tidy
<1>3. /\ b \in ZState /\ b.zmap = s.zmap \ FreedBy(s, f)
      /\ b.direct = s.direct /\ b.single = s.single /\ b.double = s.double /\ SameFiles(b, s)
      /\ \A y \in Zone \ FreedBy(s, f) : b.ptr[y] = s.ptr[y] /\ b.data[y] = s.data[y]
  BY <1>2, ZonesFreed
<1> HIDE DEF b
<1>4. Owned(s, f) = ZonesOf(s, f)
  BY <1>2, PointersAre
<1>5. E \in [0 .. D - 1 -> Pointer] /\ \A i \in 0 .. D - 1 : E[i] = NO_ZONE
  <2>1. b.direct[f] \in [0 .. D - 1 -> Pointer]
    BY <1>3 DEF ZState
  <2> QED BY <2>1 DEF Pointer
<1> HIDE DEF E
<1>6. /\ t.zmap = s.zmap \ FreedBy(s, f) /\ t.ptr = b.ptr /\ t.data = b.data
      /\ t.size = [s.size EXCEPT ![f] = 0] /\ t.direct = [s.direct EXCEPT ![f] = E]
      /\ t.single = [s.single EXCEPT ![f] = NO_ZONE] /\ t.double = [s.double EXCEPT ![f] = NO_ZONE]
      /\ t.meant = [s.meant EXCEPT ![f] = {}] /\ t.failed = s.failed \ {f} /\ t.grown = s.grown \ {f}
      /\ t.lost = s.lost \cup (ZonesOf(s, f) \ FreedBy(s, f))
  BY <1>3, <1>4 DEF ZState, SameFiles
<1>7. t \in ZState
  <2>1. /\ [s.size EXCEPT ![f] = 0] \in [ZoneFile -> 0 .. s_max_size]
        /\ [s.direct EXCEPT ![f] = E] \in [ZoneFile -> [0 .. D - 1 -> Pointer]]
        /\ [s.single EXCEPT ![f] = NO_ZONE] \in [ZoneFile -> Pointer]
        /\ [s.double EXCEPT ![f] = NO_ZONE] \in [ZoneFile -> Pointer]
        /\ [s.meant EXCEPT ![f] = {}] \in [ZoneFile -> SUBSET Nat]
    BY <1>2, <1>5, Sizes DEF ZState, Pointer
  <2>2. /\ s.zmap \ FreedBy(s, f) \subseteq Zone /\ s.failed \ {f} \subseteq ZoneFile /\ s.grown \ {f} \subseteq ZoneFile
        /\ s.lost \cup (ZonesOf(s, f) \ FreedBy(s, f)) \subseteq Zone
        /\ b.ptr \in [Zone -> [Index -> Pointer]] /\ b.data \in [Zone -> [0 .. zone_size - 1 -> {ZERO, MINE, OLD}]]
    BY <1>2, <1>3 DEF ZState, ZonesOf
  <2> DEFINE V1 == [s.size EXCEPT ![f] = 0]
             V2 == [s.direct EXCEPT ![f] = E]
             V3 == [s.single EXCEPT ![f] = NO_ZONE]
             V4 == [s.double EXCEPT ![f] = NO_ZONE]
             V5 == [s.meant EXCEPT ![f] = {}]
             V6 == s.lost \cup (ZonesOf(s, f) \ FreedBy(s, f))
  <2>3. t = [b EXCEPT !.size = V1, !.direct = V2, !.single = V3, !.double = V4, !.meant = V5,
                      !.failed = s.failed \ {f}, !.grown = s.grown \ {f}, !.lost = V6]
    BY <1>3, <1>4 DEF ZState, SameFiles
  <2> HIDE DEF t, V1, V2, V3, V4, V5, V6
  <2> QED BY <2>1, <2>2, <2>3, <1>3 DEF ZState, V1, V2, V3, V4, V5, V6
<1> HIDE DEF t
<1>8. \A z \in FreedBy(s, f) : z \in Zone => z \in ZonesOf(s, f)
  BY FoundAll
<1>9. ASSUME NEW g \in ZoneFile, g # f
      PROVE  /\ ZonesOf(t, g) = ZonesOf(s, g)
             /\ \A h \in Pointer, i \in Nat :
                  /\ IsPlace(t, g, h, i) <=> IsPlace(s, g, h, i)
                  /\ IsPlace(s, g, h, i) => PointerAt(t, g, h, i) = PointerAt(s, g, h, i)
             /\ \A q \in Position : read_map(t, g, q) = read_map(s, g, q)
             /\ \A z \in ZonesOf(s, g) : z \in Zone \ FreedBy(s, f)
  <2>1. \A z \in ZonesOf(s, g) : z \in Zone \ FreedBy(s, f)
    BY <1>2, <1>8, <1>9, OwnApart DEF ZonesOf
  <2>2. t.direct[g] = s.direct[g] /\ t.single[g] = s.single[g] /\ t.double[g] = s.double[g]
    BY <1>2, <1>6, <1>9 DEF ZState
  <2>3. \A z \in Inds(s, g), i \in Index : t.ptr[z][i] = s.ptr[z][i]
    BY <2>1, <1>2, <1>3, <1>6, IndsOwned
  <2> QED BY <2>1, <2>2, <2>3, <1>2, <1>7, SameReads
<1>10. /\ \A h \in Pointer, i \in Nat : IsPlace(t, f, h, i) => PointerAt(t, f, h, i) = NO_ZONE
       /\ \A q \in Position : read_map(t, f, q) = NO_ZONE
  <2>1. t.single[f] = NO_ZONE /\ t.double[f] = NO_ZONE /\ \A i \in 0 .. D - 1 : t.direct[f][i] = NO_ZONE
    BY <1>2, <1>5, <1>6 DEF ZState
  <2>2. Inds(t, f) = {} /\ D \in Nat
    BY <2>1, ZoneFacts, Sizes DEF Inds
  <2>3. ASSUME NEW h \in Pointer, NEW i \in Nat, IsPlace(t, f, h, i) PROVE PointerAt(t, f, h, i) = NO_ZONE
    <3>1. h = 0 /\ i \in 0 .. D + 1
      BY <2>2, <2>3 DEF IsPlace
    <3>2. i = D \/ i = D + 1 \/ i \in 0 .. D - 1
      BY <3>1, <2>2
    <3> QED BY <3>1, <3>2, <2>1, <2>2 DEF PointerAt
  <2>4. ASSUME NEW q \in Position PROVE read_map(t, f, q) = NO_ZONE
    <3>1. ~IsDirect(q) => Single(t, f, q) = NO_ZONE
      BY <2>1 DEF Single
    <3>2. IsDirect(q) => Relative(q) \in 0 .. D - 1
      BY SpotFacts
    <3> QED BY <3>1, <3>2, <2>1 DEF read_map
  <2> QED BY <2>3, <2>4
<1>11. NO_ZONE \notin Zone
  BY ZoneFacts
<1>12. ZonesOf(t, f) = {}
  BY <1>10, <1>11 DEF ZonesOf
<1>13. OnePlace(t)
  <2> SUFFICES ASSUME NEW g \in ZoneFile, NEW g2 \in ZoneFile, NEW k \in Pointer, NEW k2 \in Pointer,
                      NEW j \in Nat, NEW j2 \in Nat, IsPlace(t, g, k, j), IsPlace(t, g2, k2, j2),
                      PointerAt(t, g, k, j) \in Zone, PointerAt(t, g, k, j) = PointerAt(t, g2, k2, j2)
               PROVE  g = g2 /\ k = k2 /\ j = j2
    BY DEF OnePlace
  <2>1. g # f /\ g2 # f
    BY <1>10, <1>11
  <2>2. /\ IsPlace(s, g, k, j) /\ PointerAt(s, g, k, j) = PointerAt(t, g, k, j)
        /\ IsPlace(s, g2, k2, j2) /\ PointerAt(s, g2, k2, j2) = PointerAt(t, g2, k2, j2)
    BY <2>1, <1>9
  <2> QED BY <1>2, <2>2 DEF OnePlace
<1>14. Mapped(t, {})
  <2>1. \A g \in ZoneFile : ZonesOf(t, g) = IF g = f THEN {} ELSE ZonesOf(s, g)
    BY <1>9, <1>12
  <2>2. \A g \in ZoneFile : g # f => ZonesOf(s, g) \cap ZonesOf(s, f) = {} /\ ZonesOf(s, g) \cap FreedBy(s, f) = {}
    BY <1>2, <1>9, OwnApart
  <2>3. /\ \A z \in Zone : z \in s.zmap <=> z \in s.lost \/ \E g \in ZoneFile : z \in ZonesOf(s, g)
        /\ \A g \in ZoneFile : ZonesOf(s, g) \cap s.lost = {}
    BY <1>2 DEF Mapped
  <2>4. ASSUME NEW z \in Zone
        PROVE  z \in t.zmap <=> z \in t.lost \/ z \in {} \/ \E g \in ZoneFile : z \in ZonesOf(t, g)
    <3>1. z \in FreedBy(s, f) => z \in ZonesOf(s, f)
      BY <1>8
    <3>2. z \in t.zmap <=> z \in s.zmap /\ z \notin FreedBy(s, f)
      BY <1>6
    <3>3. z \in t.lost <=> z \in s.lost \/ (z \in ZonesOf(s, f) /\ z \notin FreedBy(s, f))
      BY <1>6
    <3>4. (\E g \in ZoneFile : z \in ZonesOf(t, g)) <=> \E g \in ZoneFile : g # f /\ z \in ZonesOf(s, g)
      BY <2>1
    <3>5. \A g \in ZoneFile : g # f /\ z \in ZonesOf(s, g) => z \notin FreedBy(s, f)
      BY <2>2
    <3>6. z \in s.lost => z \notin FreedBy(s, f)
      BY <3>1, <2>3
    <3> QED BY <3>2, <3>3, <3>4, <3>5, <3>6, <2>3
  <2>5. \A g \in ZoneFile : ZonesOf(t, g) \cap t.lost = {}
    BY <2>1, <2>2, <2>3, <1>6
  <2> QED BY <2>4, <2>5 DEF Mapped
<1>15. NoLoss(t)
  <2>1. f \notin s.failed => ZonesOf(s, f) \subseteq FreedBy(s, f)
    BY FoundAll
  <2> QED BY <2>1, <1>2, <1>6 DEF NoLoss
<1>16. ASSUME NEW g \in ZoneFile PROVE Going(t, g, t.size[g])
  <2>1. CASE g = f
    <3>1. t.size[f] = 0 /\ t.meant[f] = {}
      BY <1>2, <1>6 DEF ZState
    <3>2. \A q \in Position : ~(BlockStart(q) < 0)
      BY InItsBlock
    <3> QED BY <2>1, <3>1, <3>2, <1>10 DEF Going, Extent, Reads
  <2>2. CASE g # f
    <3>1. Undisturbed(s, t, g)
      <4>1. t.size[g] = s.size[g] /\ t.meant[g] = s.meant[g] /\ (g \in t.failed <=> g \in s.failed)
            /\ (g \in t.grown <=> g \in s.grown)
        BY <1>2, <1>6, <2>2 DEF ZState
      <4>2. ASSUME NEW q \in Position, read_map(s, g, q) \in Zone
            PROVE  t.data[read_map(s, g, q)] = s.data[read_map(s, g, q)]
        <5>1. read_map(s, g, q) \in Zone \ FreedBy(s, f)
          BY <4>2, <1>2, <1>9, <2>2, MapFacts
        <5> QED BY <5>1, <1>3, <1>6
      <4> QED BY <4>1, <4>2, <1>9, <2>2 DEF Undisturbed
    <3> QED BY <3>1, <1>2, GoingOn DEF ZInv
  <2> QED BY <2>1, <2>2
<1>17. ZInv(t)
  BY <1>7, <1>13, <1>14, <1>15, <1>16 DEF ZInv, Tidy
<1> QED BY <1>1, <1>17

\* The inductive invariant of the zones.
ZonesInv == geo \in Geometries /\ ZInv(zoned)

\* At first no file has a zone.
LEMMA ZonesInvInit ==
  ASSUME ZonesInit
  PROVE  ZonesInv
<1> DEFINE s == zoned
           D == geo.NR_DZONE_NUM
<1>1. geo \in Geometries /\ D \in Nat \ {0} /\ 0 \notin Zone /\ NO_ZONE = 0 /\ s_max_size \in Nat
  BY Sizes, ZoneFacts DEF ZonesInit
<1>2. /\ s.zmap = {} /\ s.size = [f \in ZoneFile |-> 0]
      /\ s.direct = [f \in ZoneFile |-> [i \in 0 .. D - 1 |-> NO_ZONE]]
      /\ s.single = [f \in ZoneFile |-> NO_ZONE] /\ s.double = [f \in ZoneFile |-> NO_ZONE]
      /\ s.meant = [f \in ZoneFile |-> {}] /\ s.failed = {} /\ s.grown = {} /\ s.lost = {}
  BY DEF ZonesInit
<1>3. s \in ZState
  <2>1. /\ [f \in ZoneFile |-> 0] \in [ZoneFile -> 0 .. s_max_size]
        /\ [f \in ZoneFile |-> [i \in 0 .. D - 1 |-> NO_ZONE]] \in [ZoneFile -> [0 .. D - 1 -> Pointer]]
        /\ [f \in ZoneFile |-> NO_ZONE] \in [ZoneFile -> Pointer]
        /\ [z \in Zone |-> [i \in Index |-> NO_ZONE]] \in [Zone -> [Index -> Pointer]]
        /\ [z \in Zone |-> [u \in 0 .. zone_size - 1 |-> OLD]] \in [Zone -> [0 .. zone_size - 1 -> {ZERO, MINE, OLD}]]
        /\ [f \in ZoneFile |-> {}] \in [ZoneFile -> SUBSET Nat]
    BY <1>1 DEF Pointer
  <2> QED BY <2>1 DEF ZState, ZonesInit
<1>4. ASSUME NEW f \in ZoneFile
      PROVE  /\ Inds(s, f) = {}
             /\ \A h \in Pointer, i \in Nat : IsPlace(s, f, h, i) => PointerAt(s, f, h, i) \notin Zone
             /\ \A q \in Position : read_map(s, f, q) = NO_ZONE
  <2>1. s.single[f] = NO_ZONE /\ s.double[f] = NO_ZONE /\ \A i \in 0 .. D - 1 : s.direct[f][i] = NO_ZONE
    BY <1>2
  <2>2. Inds(s, f) = {}
    BY <2>1, <1>1 DEF Inds
  <2>3. ASSUME NEW h \in Pointer, NEW i \in Nat, IsPlace(s, f, h, i) PROVE PointerAt(s, f, h, i) = NO_ZONE
    <3>1. h = 0 /\ i \in 0 .. D + 1
      BY <2>2, <2>3 DEF IsPlace
    <3>2. i = D \/ i = D + 1 \/ i \in 0 .. D - 1
      BY <3>1, <1>1
    <3> QED BY <3>1, <3>2, <2>1, <1>1 DEF PointerAt
  <2>4. ASSUME NEW q \in Position PROVE read_map(s, f, q) = NO_ZONE
    <3>1. ~IsDirect(q) => Single(s, f, q) = NO_ZONE
      BY <2>1 DEF Single
    <3>2. IsDirect(q) => Relative(q) \in 0 .. D - 1
      BY <1>1, SpotFacts
    <3> QED BY <3>1, <3>2, <2>1 DEF read_map
  <2> QED BY <2>2, <2>3, <2>4, <1>1
<1> HIDE DEF s
<1>5. \A f \in ZoneFile : ZonesOf(s, f) = {}
  BY <1>4 DEF ZonesOf
<1>6. OnePlace(s)
  BY <1>4 DEF OnePlace
<1>7. Mapped(s, {})
  BY <1>2, <1>5 DEF Mapped
<1>8. NoLoss(s)
  BY <1>2 DEF NoLoss
<1>9. ASSUME NEW f \in ZoneFile PROVE Going(s, f, s.size[f])
  <2>1. s.size[f] = 0 /\ s.meant[f] = {}
    BY <1>2
  <2>2. Extent(s, f, 0)
    BY <1>4 DEF Extent
  <2>3. Reads(s, f, 0)
    <3>1. \A q \in Position : ~(BlockStart(q) < 0)
      BY <1>1, InItsBlock
    <3> QED BY <3>1 DEF Reads
  <2> QED BY <2>1, <2>2, <2>3 DEF Going
<1> QED BY <1>1, <1>3, <1>6, <1>7, <1>8, <1>9 DEF ZonesInv, ZInv, Tidy, s

\* Where the geometry stays, what is said of the state is said of it in the next one.
LEMMA SameGeometry ==
  ASSUME geo' = geo, ZInv(zoned')
  PROVE  ZInv(zoned)'
<1>1. Tidy(zoned, {})'
  <2>1. Tidy(zoned', {})
    BY DEF ZInv
  <2> QED BY <2>1 DEF Tidy, ZState, OnePlace, Mapped, IsPlace, PointerAt, ZonesOf, Inds, Pointer, Zone, Index,
                      BLOCK_SIZE, zone_size, s_max_size
<1>2. NoLoss(zoned)'
  BY DEF ZInv, NoLoss
<1>3. ASSUME NEW f \in ZoneFile PROVE (Going(zoned, f, zoned.size[f]))'
  <2>1. PICK M : M = zoned'.size[f]
    OBVIOUS
  <2>2. Going(zoned', f, M)
    BY <2>1 DEF ZInv
  <2>3. Going(zoned, f, M)'
    BY <2>2 DEF Going, Clean, Extent, Reads, ReadAt, Meant, read_map, Single, Within, IsSingle,
                IsDirect, Deep, Excess, Relative, Position, ZoneStart, BlockStart, BlockOf, BLOCK_SIZE, zone_size,
                Index, s_max_size
  <2> QED BY <2>1, <2>3
<1> QED BY <1>1, <1>2, <1>3 DEF ZInv

\* Every call keeps it.
LEMMA ZonesInvNext ==
  ASSUME ZonesInv, [ZonesNext]_zone_vars
  PROVE  ZonesInv'
<1>1. geo' = geo /\ geo \in Geometries /\ ZInv(zoned)
  BY DEF ZonesInv, ZonesNext, zone_vars
<1>2. ZInv(zoned')
  <2>1. ASSUME NEW f \in ZoneFile, WriteFile(f) PROVE ZInv(zoned')
    <3>1. PICK pos \in 0 .. s_max_size, n \in 1 .. geo.max_bytes, bad \in BOOLEAN, cached \in BOOLEAN :
            (bad => geo.bad_copies) /\ zoned' = read_write_file(zoned, f, pos, n, bad, cached)
      BY <2>1 DEF WriteFile
    <3>2. pos \in Nat /\ n \in Nat \ {0}
      BY <1>1, Sizes
    <3> QED BY <3>1, <3>2, <1>1, WriteKeepsFiles
  <2>2. ASSUME NEW f \in ZoneFile, TruncateFile(f) PROVE ZInv(zoned')
    BY <2>2, <1>1, TruncateKeepsFiles DEF TruncateFile
  <2>3. CASE UNCHANGED zone_vars
    BY <2>3, <1>1 DEF zone_vars
  <2> QED BY <2>1, <2>2, <2>3 DEF ZonesNext
<1>3. ZInv(zoned)'
  BY <1>1, <1>2, SameGeometry
<1> QED BY <1>1, <1>3 DEF ZonesInv

\* No zone is at two places: there are as many pointers as zones.
LEMMA AsManyPointers ==
  ASSUME geo \in Geometries, NEW s \in ZState, OnePlace(s)
  PROVE  LET P == UNION {{<<f, p>> : p \in Pointers(s, f)} : f \in ZoneFile}
             O == UNION {Owned(s, f) : f \in ZoneFile}
         IN  Cardinality(P) = Cardinality(O)
<1> DEFINE P == UNION {{<<f, p>> : p \in Pointers(s, f)} : f \in ZoneFile}
           O == UNION {Owned(s, f) : f \in ZoneFile}
           F == [z \in O |-> CHOOSE x \in P : x[2][3] = z]
<1>1. \A z \in O : \E x \in P : x[2][3] = z
  <2> SUFFICES ASSUME NEW z \in O PROVE \E x \in P : x[2][3] = z
    OBVIOUS
  <2>1. PICK f, p : f \in ZoneFile /\ p \in Pointers(s, f) /\ z = p[3]
    BY DEF Owned
  <2>2. <<f, p>> \in P /\ <<f, p>>[2][3] = z
    BY <2>1
  <2> QED BY <2>2
<1>2. \A x \in P : x[2][3] \in O
  <2> SUFFICES ASSUME NEW x \in P PROVE x[2][3] \in O
    OBVIOUS
  <2>1. PICK f, p : f \in ZoneFile /\ p \in Pointers(s, f) /\ x = <<f, p>>
    OBVIOUS
  <2>2. x[2][3] = p[3]
    BY <2>1
  <2> QED BY <2>1, <2>2 DEF Owned
<1>3. ASSUME NEW x \in P, NEW y \in P, x[2][3] = y[2][3] PROVE x = y
  <2>1. PICK f, p : f \in ZoneFile /\ p \in Pointers(s, f) /\ x = <<f, p>>
    OBVIOUS
  <2>2. PICK g, r : g \in ZoneFile /\ r \in Pointers(s, g) /\ y = <<g, r>>
    OBVIOUS
  <2>3. PICK h \in Pointer, i \in Nat :
          IsPlace(s, f, h, i) /\ p = <<h, i, PointerAt(s, f, h, i)>> /\ PointerAt(s, f, h, i) \in Zone
    BY <2>1, PointersAre
  <2>4. PICK k \in Pointer, j \in Nat :
          IsPlace(s, g, k, j) /\ r = <<k, j, PointerAt(s, g, k, j)>> /\ PointerAt(s, g, k, j) \in Zone
    BY <2>2, PointersAre
  <2>5. PointerAt(s, f, h, i) = PointerAt(s, g, k, j)
    BY <1>3, <2>1, <2>2, <2>3, <2>4
  <2>6. f = g /\ h = k /\ i = j
    BY <2>1, <2>2, <2>3, <2>4, <2>5 DEF OnePlace
  <2> QED BY <2>1, <2>2, <2>3, <2>4, <2>6
<1> HIDE DEF P
<1>4. IsFiniteSet(O)
  <2>1. O \subseteq Zone
    <3>1. \A f \in ZoneFile : Owned(s, f) \subseteq Zone
      BY PointersAre DEF ZonesOf
    <3> QED BY <3>1
  <2> HIDE DEF O
  <2> QED BY <2>1, ZoneFacts, FS_Subset
<1> HIDE DEF O
<1>5. \A z \in O : F[z] \in P /\ F[z][2][3] = z
  BY <1>1
<1> HIDE DEF F
<1>6. F \in [O -> P]
  BY <1>5 DEF F
<1>7. \A x \in P : F[x[2][3]] = x
  BY <1>2, <1>3, <1>5
<1>8. F \in Bijection(O, P)
  <2>1. \A y, z \in O : F[y] = F[z] => y = z
    BY <1>5
  <2>2. \A x \in P : \E z \in O : F[z] = x
    BY <1>2, <1>7
  <2> QED BY <1>6, <2>1, <2>2 DEF Bijection, Injection, Surjection, IsInjective
<1>9. Cardinality(O) = Cardinality(P)
  BY <1>4, <1>8, FS_Bijection DEF ExistsBijection
<1> QED BY <1>9 DEF P, O

\* The zones are the files' own, and the files read as they were written.
LEMMA IntactByInv ==
  ASSUME ZonesInv
  PROVE  FilesIntact
<1> DEFINE s == zoned
           O == UNION {Owned(s, f) : f \in ZoneFile}
<1>1. geo \in Geometries /\ s \in ZState /\ OnePlace(s) /\ Mapped(s, {}) /\ NoLoss(s)
      /\ \A f \in ZoneFile : Going(s, f, s.size[f])
  BY DEF ZonesInv, ZInv, Tidy
<1>2. ZonesTypeOK
  BY <1>1 DEF ZonesTypeOK, ZState, Pointer
<1>3. ZonesKept
  <2>1. \A z : z \in O <=> \E f \in ZoneFile : z \in ZonesOf(s, f)
    BY <1>1, PointersAre
  <2> HIDE DEF O
  <2>2. O \subseteq Zone
    BY <2>1 DEF ZonesOf
  <2>3. O \cap s.lost = {}
    BY <1>1, <2>1 DEF Mapped
  <2>4. s.zmap = O \cup s.lost
    <3>1. s.zmap \subseteq Zone /\ s.lost \subseteq Zone
      BY <1>1 DEF ZState
    <3>2. \A z \in Zone : z \in s.zmap <=> z \in s.lost \/ z \in O
      BY <1>1, <2>1 DEF Mapped
    <3> QED BY <3>1, <3>2, <2>2
  <2>5. ~geo.bad_copies => s.lost = {}
    BY <1>1 DEF NoLoss
  <2>6. Cardinality(UNION {{<<f, p>> : p \in Pointers(s, f)} : f \in ZoneFile}) = Cardinality(O)
    BY <1>1, AsManyPointers DEF O
  <2> QED BY <2>3, <2>4, <2>5, <2>6 DEF ZonesKept, O
<1>4. ASSUME NEW f \in ZoneFile \ (zoned.failed \cup zoned.grown), NEW pos \in 0 .. zoned.size[f] - 1
      PROVE  ReadAt(zoned, f, pos) = Meant(zoned, f, pos)
  <2>1. Reads(s, f, s.size[f])
    BY <1>1, <1>4 DEF Going, Clean
  <2>2. s.size[f] \in Nat /\ s.size[f] <= s_max_size /\ s_max_size \in Nat
    BY <1>1, LastPosition, Sizes
  <2>3. pos \in Position
    BY <2>2 DEF Position
  <2>4. BlockStart(pos) \in Nat /\ BlockStart(pos) <= pos /\ pos \in Nat
    BY <2>3, <1>1, InItsBlock
  <2>5. BlockStart(pos) < s.size[f]
    BY <2>2, <2>4
  <2> QED BY <2>1, <2>3, <2>5 DEF Reads
<1> QED BY <1>2, <1>3, <1>4 DEF FilesIntact, ReadsBack

\* Whatever is written where, and however the device fills up, the zones of the files are
\* their own, none is lost unless a copy fails, and the files read as they were written.
THEOREM FilesStayIntact == ZonesSpec => []FilesIntact
<1>1. ZonesInit => ZonesInv
  BY ZonesInvInit
<1>2. ZonesInv /\ [ZonesNext]_zone_vars => ZonesInv'
  BY ZonesInvNext
<1>3. ZonesInv => FilesIntact
  BY IntactByInv
<1> QED BY <1>1, <1>2, <1>3, PTL DEF ZonesSpec
=============================================================================
