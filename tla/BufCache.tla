------------------------------ MODULE BufCache ------------------------------
(***************************************************************************)
(* The block cache of the file system (fs/cache.c), with the flush of      *)
(* do_sync() (fs/misc.c).                                                  *)
(*                                                                         *)
(* FS is one process that does one call at a time and waits for the disk,  *)
(* so each procedure is one action.  What a block contains matters only in *)
(* relation to what was last written to it: `fresh' is the set of buffers, *)
(* and `stored' the set of blocks on disk, that hold that.                 *)
(*                                                                         *)
(* As its procedures call each other, they are operators from a state `c'  *)
(* of the cache to the states it may be left in: a transfer can fail.      *)
(*   dev, blk, count, dirt   b_dev, b_blocknr, b_count, b_dirt = DIRTY     *)
(*   lru     the chain from `front' to `rear'                              *)
(*   hash    the chains that start at buf_hash[]                           *)
(*   in_use  bufs_in_use                                                   *)
(***************************************************************************)
EXTENDS SequencesExt, Integers

CONSTANTS NR_BUFS, NR_BUF_HASH,
          Dev, Block,   \* the devices, and the numbers of their blocks
          Meta,         \* the blocks that are put back with WRITE_IMMED
          NO_DEV,
          Failure,      \* the ways a transfer may fail: "error", "EOF"
          Special,      \* the devices also written through a block special file
          MaxHeld       \* bound on the uses of one buffer

NO_BLOCK == 0
Buf == 1 .. NR_BUFS
BlockAt == Dev \X Block

ASSUME CacheAssumption ==
  /\ NR_BUFS \in Nat \ {0} /\ NR_BUF_HASH \in Nat \ {0}
  /\ NO_DEV \notin Dev /\ Block \subseteq Nat \ {NO_BLOCK}
  /\ Meta \subseteq BlockAt /\ Special \subseteq Dev /\ Failure \subseteq {"error", "EOF"} /\ MaxHeld \in Nat

VARIABLE cache

Chain(n)    == n % NR_BUF_HASH
KeyOf(c, b) == <<c.dev[b], c.blk[b]>>
Used(c)     == {b \in Buf : c.count[b] > 0}
-----------------------------------------------------------------------------
\* A transfer between buffer b and the disk that succeeds.
DiskDone(c, b, flag) ==
  IF flag = "READING"
  THEN [c EXCEPT !.fresh = IF KeyOf(c, b) \in c.stored THEN @ \cup {b} ELSE @ \ {b}]
  ELSE [c EXCEPT !.stored = IF b \in c.fresh THEN @ \cup {KeyOf(c, b)} ELSE @ \ {KeyOf(c, b)}]

\* A block of which something may have been lost: what is said of its contents
\* below holds again when it has been written as a whole.
Spoil(c, k) == [c EXCEPT !.spoilt = @ \cup {k}]

\* rw_block().  A buffer without a device is only marked clean.
rw_block(c, b, flag) ==
  LET clean == [c EXCEPT !.dirt[b] = FALSE]
  IN  IF c.dev[b] = NO_DEV THEN {clean}
      ELSE {DiskDone(clean, b, flag)}
           \cup {Spoil(clean, KeyOf(c, b)) : f \in Failure \ {"EOF"}}
           \cup {[Spoil(clean, KeyOf(c, b)) EXCEPT !.dev[b] = NO_DEV] : f \in Failure \ {"error"}}

\* The buffers that the search of the hash chain for a block accepts.
Found(c, d, n) ==
  IF d = NO_DEV THEN {}
  ELSE {b \in ToSet(c.hash[Chain(n)]) : KeyOf(c, b) = <<d, n>>}

\* The least recently used buffer that nobody uses.
Victim(c) == c.lru[CHOOSE i \in DOMAIN c.lru :
                     /\ c.lru[i] \notin Used(c)
                     /\ \A j \in 1 .. i - 1 : c.lru[j] \in Used(c)]

\* Mutants: a dirty victim is dropped; a buffer stays on the chain it was on.
Evicted_Dropped(c, b) == {c}
Evicted(c, b) == IF c.dirt[b] /\ c.dev[b] # NO_DEV THEN rw_block(c, b, "WRITING") ELSE {c}

Rekeyed_SameChain(c, b, d, n) ==
  [c EXCEPT !.dev[b] = d, !.blk[b] = n, !.count[b] = @ + 1, !.fresh = @ \ {b}]

\* Buffer b, off its hash chain, is given to another block.
Rekeyed(c, b, d, n) ==
  [c EXCEPT !.dev[b] = d, !.blk[b] = n, !.count[b] = @ + 1,
            !.hash[Chain(n)] = <<b>> \o @, !.fresh = @ \ {b}]

\* get_block(d, n, read): the results, each a state and the buffer returned.
get_block(c, d, n, read) ==
  IF Found(c, d, n) # {}
  THEN {[c |-> [c EXCEPT !.count[b] = @ + 1,
                         !.in_use = IF c.count[b] = 0 THEN @ + 1 ELSE @],
         b |-> b] : b \in Found(c, d, n)}
  ELSE LET b     == Victim(c)
           taken == [c EXCEPT !.in_use = @ + 1,
                              !.hash[Chain(c.blk[b])] = RemoveFirst(@, b)]
           ready == {Rekeyed(e, b, d, n) : e \in Evicted(taken, b)}
       IN  {[c |-> r, b |-> b] :
              r \in IF read /\ d # NO_DEV
                    THEN UNION {rw_block(e, b, "READING") : e \in ready} ELSE ready}

\* Mutant: no block is written at once.
put_block_Lazy(c, b, immed, one_shot, super) ==
  IF c.count[b] > 1 THEN {[c EXCEPT !.count[b] = @ - 1]}
  ELSE {[c EXCEPT !.count[b] = 0, !.in_use = @ - 1, !.lru = Append(RemoveFirst(@, b), b)]}

\* put_block(b, type), for the three properties a type can have.
put_block(c, b, immed, one_shot, super) ==
  IF c.count[b] > 1 THEN {[c EXCEPT !.count[b] = @ - 1]}
  ELSE LET rest == RemoveFirst(c.lru, b)
           idle == [c EXCEPT !.count[b] = 0, !.in_use = @ - 1,
                             !.lru = IF one_shot THEN <<b>> \o rest ELSE Append(rest, b)]
           done == IF immed /\ c.dirt[b] /\ c.dev[b] # NO_DEV
                   THEN rw_block(idle, b, "WRITING") ELSE {idle}
       IN  {IF super THEN [e EXCEPT !.dev[b] = NO_DEV] ELSE e : e \in done}

\* The contents of a buffer change, which makes every other copy old.  A buffer
\* of which only a part is written is fresh only if the rest was.
Filled(c, b, whole) ==
  [c EXCEPT !.dirt[b] = TRUE,
            !.stored  = @ \ {KeyOf(c, b)},
            !.spoilt  = IF whole THEN @ \ {KeyOf(c, b)} ELSE @,
            !.fresh   = {x \in @ : KeyOf(c, x) # KeyOf(c, b)}
                          \cup {x \in {b} : c.dev[b] # NO_DEV /\ (whole \/ b \in c.fresh)}]

\* The buffers of the set B have been written, each with its outcome; no two are
\* of one block, so that the order does not matter.
BufsWritten(c, B, outcome) ==
  LET done    == {b \in B : outcome[b] = "done"}
      Keys(S) == {KeyOf(c, b) : b \in S}
  IN  [c EXCEPT !.dirt   = [b \in Buf |-> @[b] /\ b \notin B],
                !.dev    = [b \in Buf |-> IF b \in B /\ outcome[b] = "EOF" THEN NO_DEV ELSE @[b]],
                !.stored = (@ \ Keys(done)) \cup Keys(done \cap c.fresh),
                !.spoilt = @ \cup Keys(B \ done)]

\* rw_block(b, WRITING) for each buffer of B.
WriteAll(c, B) == {BufsWritten(c, B, o) : o \in [B -> {"done"} \cup Failure]}

\* The loop of do_sync() over the buffers.  Mutant: those in use are left out.
Flushed_Idle(c) == WriteAll(c, {b \in Buf \ Used(c) : c.dirt[b] /\ c.dev[b] # NO_DEV})
Flushed(c) == WriteAll(c, {b \in Buf : c.dirt[b] /\ c.dev[b] # NO_DEV})
-----------------------------------------------------------------------------
CacheInit ==
  cache = [dev    |-> [b \in Buf |-> NO_DEV],
           blk    |-> [b \in Buf |-> NO_BLOCK],
           count  |-> [b \in Buf |-> 0],
           dirt   |-> [b \in Buf |-> FALSE],
           lru    |-> [i \in Buf |-> i],
           hash   |-> [h \in 0 .. NR_BUF_HASH - 1 |->
                         IF h = Chain(NO_BLOCK) THEN [i \in Buf |-> i] ELSE <<>>],
           in_use |-> 0,
           fresh  |-> {},
           stored |-> BlockAt,
           spoilt |-> {}]

Room == Used(cache) # Buf   \* else "All buffers in use"

\* A block is wanted: to be read or partly changed, or (Overwrite) to be filled
\* by the caller, who then need not have it read; or a buffer of zeros is.
Get(d, n) ==
  /\ Room /\ \A b \in Found(cache, d, n) : cache.count[b] < MaxHeld
  /\ \E r \in get_block(cache, d, n, TRUE) : cache' = r.c

Overwrite(d, n) ==
  /\ Room /\ \A b \in Found(cache, d, n) : cache.count[b] < MaxHeld
  /\ \E r \in get_block(cache, d, n, FALSE) : cache' = Filled(r.c, r.b, TRUE)

GetZeros ==
  /\ Room
  /\ \E r \in get_block(cache, NO_DEV, NO_BLOCK, TRUE) : cache' = Filled(r.c, r.b, TRUE)

Modify(b) ==
  /\ b \in Used(cache)
  /\ cache' = Filled(cache, b, FALSE)

\* rw_chunk() writes less than a block of a block special file, from its start:
\* as i_size is 0 there, it takes this for a block beyond the end of the file.
WriteSpecial(d, n) ==
  /\ d \in Special
  /\ Room /\ \A b \in Found(cache, d, n) : cache.count[b] < MaxHeld
  /\ \E r \in get_block(cache, d, n, FALSE) :
       \E c \in put_block(Filled(IF r.b \in r.c.fresh THEN r.c ELSE Spoil(r.c, <<d, n>>), r.b, FALSE),
                          r.b, FALSE, FALSE, FALSE) : cache' = c

\* I-node, directory and indirect blocks, and with `one_shot' bit maps, are
\* put back with WRITE_IMMED; data blocks without.
PutBlock(b, one_shot) ==
  /\ b \in Used(cache)
  /\ one_shot => KeyOf(cache, b) \in Meta
  /\ \E c \in put_block(cache, b, KeyOf(cache, b) \in Meta, one_shot, FALSE) : cache' = c

PutSuper(b) ==
  /\ b \in Used(cache) /\ KeyOf(cache, b) \in Meta
  /\ \E c \in put_block(cache, b, TRUE, TRUE, TRUE) : cache' = c

Sync == \E c \in Flushed(cache) : cache' = c

\* do_umount() and do_close() of a block special file: do_sync(), then
\* invalidate(), when no block of the device is in use.
Invalidate(d) ==
  /\ \A b \in Used(cache) : cache.dev[b] # d
  /\ \E c \in Flushed(cache) :
       cache' = [c EXCEPT !.dev = [b \in Buf |-> IF @[b] = d THEN NO_DEV ELSE @[b]]]

CacheNext ==
  \/ \E d \in Dev, n \in Block : Get(d, n) \/ Overwrite(d, n) \/ WriteSpecial(d, n)
  \/ GetZeros
  \/ \E b \in Buf : Modify(b) \/ PutSuper(b) \/ \E one_shot \in BOOLEAN : PutBlock(b, one_shot)
  \/ Sync
  \/ \E d \in Dev : Invalidate(d)

CacheSpec == CacheInit /\ [][CacheNext]_cache
-----------------------------------------------------------------------------
\* The type invariant.
CacheTypeOK ==
  cache \in [dev : [Buf -> Dev \cup {NO_DEV}], blk : [Buf -> Block \cup {NO_BLOCK}],
             count : [Buf -> Nat], dirt : [Buf -> BOOLEAN],
             lru : Seq(Buf), hash : [0 .. NR_BUF_HASH - 1 -> Seq(Buf)],
             in_use : 0 .. NR_BUFS, fresh : SUBSET Buf, stored : SUBSET BlockAt,
             spoilt : SUBSET BlockAt]

Cached(k) == {b \in Buf : KeyOf(cache, b) = k}

\* Both kinds of chain are complete.  Every buffer is on the hash chain of its
\* block number, once, and on no other; one without a device too, since it is on
\* the chain that get_block() looks at when it takes the buffer for another block.
\* All buffers are on the LRU chain, in use or not, and bufs_in_use counts those
\* in use, so that get_block() finds a victim whenever not all are.
ChainsComplete ==
  /\ CacheTypeOK
  /\ \A h \in DOMAIN cache.hash :
       /\ IsInjective(cache.hash[h])
       /\ ToSet(cache.hash[h]) = {b \in Buf : Chain(cache.blk[b]) = h}
  /\ IsInjective(cache.lru) /\ ToSet(cache.lru) = Buf
  /\ cache.in_use = Cardinality(Used(cache))

\* No write is lost, unless by a transfer of the block itself: whoever gets a
\* block, from the cache or from the disk, gets what was last written to it, even
\* were it in two buffers; and if its buffer is clean so does a reader of the disk.
Coherent ==
  /\ ChainsComplete
  /\ \A k \in BlockAt \ cache.spoilt :
       /\ Cached(k) = {} => k \in cache.stored
       /\ \A b \in Cached(k) : b \in cache.fresh /\ (cache.dirt[b] \/ k \in cache.stored)

\* "Blocks whose loss can hurt the integrity of the file system are written to
\* disk immediately": a crash finds on disk what was written to a metadata block
\* that nobody is still using, unless writing it failed or the device is written
\* through its special file as well.
MetaOnDisk ==
  \A k \in {m \in Meta : m[1] \notin Special} \ cache.spoilt :
    (\A b \in Cached(k) : b \notin Used(cache)) => k \in cache.stored

\* After a sync() the disk holds everything it did not fail to write, blocks in
\* use included.
SyncFlushes == [][cache' # cache /\ Sync => BlockAt \subseteq cache'.stored \cup cache'.spoilt]_cache

\* "Normally an existing block to be partially overwritten is first read in"
\* (comment in rw_chunk()): a part of a block is only written into a buffer that
\* holds the rest of the block.
RestReadIn ==
  [][\A d \in Dev, n \in Block :
       WriteSpecial(d, n) => \A b \in Buf : KeyOf(cache', b) = <<d, n>> => b \in cache'.fresh]_cache
=============================================================================
