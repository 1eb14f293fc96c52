-------------------------------- MODULE Zones --------------------------------
(***************************************************************************)
(* Where the contents of regular files are kept: read_write(), rw_chunk()  *)
(* and read_map() of fs/read.c, fs/write.c, truncate() of fs/link.c, and   *)
(* the zone bit map (alloc_zone() and free_zone() of fs/cache.c).          *)
(*                                                                         *)
(* Some files share a device.  A call is one action.  The state `s' has    *)
(*   zmap                    the zones that the bit map has as allocated   *)
(*   size[f]                 i_size                                        *)
(*   direct[f], single[f],   i_zone[]: the direct zones, the indirect and  *)
(*   double[f]               the double indirect zone                      *)
(*   ptr[z]                  the zone numbers in an indirect zone          *)
(*   data[z]                 what the units of a data zone hold: ZERO,     *)
(*                           what the file itself wrote, or older data     *)
(* and as history                                                          *)
(*   meant[f]   the positions written since the file was last truncated    *)
(*   failed     the files for which a copy from the user failed            *)
(*   grown      those that got longer by a write that found no zone        *)
(*   lost       the zones of a file that truncate() did not find           *)
(* Positions are counted in units, of which a block has `unit', and a zone *)
(* has `blocks' blocks.  The cache is left out: a buffer that is neither   *)
(* read in nor found in the cache holds older data.                        *)
(***************************************************************************)
EXTENDS FiniteSetsExt, Integers

CONSTANTS Geometries,   \* [unit, blocks, NR_DZONE_NUM, NR_INDIRECTS, zones, bad_copies, max_bytes],
                        \* max_bytes being the bound on what one call writes
          ZoneFile      \* the files

NO_ZONE == 0
ZERO == "zero"
MINE == "mine"
OLD  == "old"

ASSUME ZoneAssumption ==
  \A g \in Geometries :
    /\ {g.unit, g.blocks, g.NR_DZONE_NUM, g.NR_INDIRECTS, g.zones, g.max_bytes} \subseteq Nat \ {0}
    /\ g.bad_copies \in BOOLEAN

VARIABLES zoned, geo
zone_vars == <<zoned, geo>>

BLOCK_SIZE == geo.unit
zone_size  == geo.unit * geo.blocks
Zone       == 1 .. geo.zones
Index      == 0 .. geo.NR_INDIRECTS - 1
s_max_size == zone_size * (geo.NR_DZONE_NUM + geo.NR_INDIRECTS + geo.NR_INDIRECTS * geo.NR_INDIRECTS)
-----------------------------------------------------------------------------
\* The bit map is looked through from the word of a zone nearby: on a device of one
\* word this finds the lowest free zone.
Free(s) == Zone \ s.zmap
alloc_zone(s) == [s EXCEPT !.zmap = @ \cup {Min(Free(s))}]

\* What was in a zone is of nobody's concern when it is allocated again.
Forgotten(s, zs) ==
  [s EXCEPT !.ptr  = [z \in Zone |-> IF z \in zs THEN [i \in Index |-> NO_ZONE] ELSE @[z]],
            !.data = [z \in Zone |-> IF z \in zs THEN [u \in DOMAIN @[z] |-> OLD] ELSE @[z]]]

\* free_zone(), of some zones; it passes over NO_ZONE.
free_zone(s, zs) == [Forgotten(s, zs) EXCEPT !.zmap = @ \ zs]

\* The block at `unit' u of zone z is zeroed.
zero_block(s, z, u) ==
  [s EXCEPT !.data[z] = [x \in DOMAIN @ |-> IF x \div BLOCK_SIZE = u \div BLOCK_SIZE THEN ZERO ELSE @[x]]]

\* An indirect zone is allocated and zeroed.
NewIndirect(s) == Forgotten(alloc_zone(s), {Min(Free(s))})

\* Which pointer of a file leads to a position: the zone that holds the pointers and
\* the index there.
Relative(pos) == pos \div zone_size
Excess(pos)   == Relative(pos) - geo.NR_DZONE_NUM
Deep(pos)     == Excess(pos) - geo.NR_INDIRECTS
IsDirect(pos) == Excess(pos) < 0
IsSingle(pos) == Excess(pos) \in Index

\* The single indirect zone of a position.
Single(s, f, pos) ==
  IF IsSingle(pos) THEN s.single[f]
  ELSE IF s.double[f] = NO_ZONE THEN NO_ZONE ELSE s.ptr[s.double[f]][Deep(pos) \div geo.NR_INDIRECTS]
Within(pos) == (IF IsSingle(pos) THEN Excess(pos) ELSE Deep(pos)) % geo.NR_INDIRECTS

\* read_map(): the zone at a position, or NO_ZONE.
read_map(s, f, pos) ==
  CASE IsDirect(pos) -> s.direct[f][Relative(pos)]
    [] ~IsDirect(pos) /\ Single(s, f, pos) = NO_ZONE -> NO_ZONE
    [] OTHER -> s.ptr[Single(s, f, pos)][Within(pos)]

\* write_map(): indirect zones are allocated on the way, and stay with the file when
\* there is no zone for the next.
WithDouble(s, f, pos) ==
  IF IsDirect(pos) \/ IsSingle(pos) \/ s.double[f] # NO_ZONE \/ Free(s) = {} THEN s
  ELSE [NewIndirect(s) EXCEPT !.double[f] = Min(Free(s))]

WithSingle(s, f, pos) ==
  IF IsDirect(pos) \/ Single(s, f, pos) # NO_ZONE \/ Free(s) = {} THEN s
  ELSE IF IsSingle(pos) THEN [NewIndirect(s) EXCEPT !.single[f] = Min(Free(s))]
  ELSE IF s.double[f] = NO_ZONE THEN s
  ELSE [NewIndirect(s) EXCEPT !.ptr[s.double[f]][Deep(pos) \div geo.NR_INDIRECTS] = Min(Free(s))]

write_map(s, f, pos, z) ==
  LET t == WithSingle(WithDouble(s, f, pos), f, pos)
  IN  CASE IsDirect(pos) -> [s |-> [s EXCEPT !.direct[f][Relative(pos)] = z], ok |-> TRUE]
        [] ~IsDirect(pos) /\ Single(t, f, pos) = NO_ZONE -> [s |-> t, ok |-> FALSE]
        [] OTHER -> [s |-> [t EXCEPT !.ptr[Single(t, f, pos)][Within(pos)] = z], ok |-> TRUE]

\* clear_zone(): from the block of `next' to the end of the zone.
clear_zone(s, f, pos, whole) ==
  LET from == IF whole THEN (pos \div zone_size) * zone_size ELSE pos
      next == from + BLOCK_SIZE - 1
      z    == read_map(s, f, next)
      u    == ((next % zone_size) \div BLOCK_SIZE) * BLOCK_SIZE
  IN  IF geo.blocks = 1 \/ Relative(next) # Relative(from) \/ z = NO_ZONE THEN s
      ELSE [s EXCEPT !.data[z] = [x \in DOMAIN @ |-> IF x >= u THEN ZERO ELSE @[x]]]

\* Mutant: a zone for which there is no place in the file is not given back.
Unmapped_Kept(s, z) == s

Unmapped(s, z) == free_zone(s, {z})

\* new_block(), where the file has no zone yet.
new_block(s, f, pos) ==
  IF Free(s) = {} THEN [s |-> s, ok |-> FALSE]
  ELSE LET z == Min(Free(s))
           w == write_map(alloc_zone(s), f, pos, z)
           c == IF pos # s.size[f] THEN clear_zone(w.s, f, pos, TRUE) ELSE w.s
       IN  IF w.ok THEN [s |-> zero_block(c, z, pos % zone_size), ok |-> TRUE]
           ELSE [s |-> Unmapped(w.s, z), ok |-> FALSE]

\* The buffer of an existing block before the copy: not read in if all of it will be
\* written, zeroed if it begins at or beyond the end of the file.
Prepared(s, f, z, pos, chunk, bad, cached) ==
  LET u == pos % zone_size
      beyond == pos >= s.size[f] /\ u % BLOCK_SIZE = 0
  IN  CASE chunk < BLOCK_SIZE /\ beyond -> zero_block(s, z, u)
        [] chunk = BLOCK_SIZE /\ bad /\ ~cached ->
             [s EXCEPT !.data[z] = [x \in DOMAIN @ |-> IF x \div BLOCK_SIZE = u \div BLOCK_SIZE THEN OLD ELSE @[x]]]
        [] OTHER -> s

\* rw_chunk(WRITING), of less than a block or a whole one.
rw_chunk(s, f, pos, chunk, bad, cached) ==
  LET z == read_map(s, f, pos)
      n == IF z = NO_ZONE THEN new_block(s, f, pos)
           ELSE [s |-> Prepared(s, f, z, pos, chunk, bad, cached), ok |-> TRUE]
      y == read_map(n.s, f, pos)
      u == pos % zone_size
  IN  IF ~n.ok THEN [s |-> [n.s EXCEPT !.grown = IF pos > s.size[f] THEN @ \cup {f} ELSE @], ok |-> FALSE]
      ELSE IF bad THEN [s |-> [n.s EXCEPT !.failed = @ \cup {f}], ok |-> FALSE]
      ELSE [s |-> [n.s EXCEPT !.data[y] = [x \in DOMAIN @ |-> IF x \in u .. u + chunk - 1 THEN MINE ELSE @[x]],
                              !.meant[f] = @ \cup (pos .. pos + chunk - 1)],
            ok |-> TRUE]

\* The loop of read_write() over chunks that do not span two blocks, each of at least
\* one unit, so that n of them are enough.  It ends at the first that fails.
AfterChunk(r, pos, chunk) == [s |-> r.s, pos |-> IF r.ok THEN pos + chunk ELSE pos, ok |-> r.ok]

Chunk(d, f, end, bad, cached) ==
  LET chunk == Min({end - d.pos, BLOCK_SIZE - (d.pos % BLOCK_SIZE)})
  IN  IF d.pos = end \/ ~d.ok THEN d ELSE AfterChunk(rw_chunk(d.s, f, d.pos, chunk, bad, cached), d.pos, chunk)

Chunks(s, f, pos, n, bad, cached) ==
  LET done[k \in 0 .. n] == IF k = 0 THEN [s |-> s, pos |-> pos, ok |-> TRUE]
                            ELSE Chunk(done[k - 1], f, pos + n, bad, cached)
  IN  done[n]

\* At the end i_size is set.
Lengthened(d, f) == [d.s EXCEPT !.size[f] = Max({@, d.pos})]

\* read_write(WRITING): the file gets as long as the position at which the loop ends,
\* were nothing written there.
read_write_file(s, f, pos, n, bad, cached) ==
  LET from == IF pos > s.size[f] THEN clear_zone(s, f, s.size[f], FALSE) ELSE s
  IN  IF pos > s_max_size - n THEN s ELSE Lengthened(Chunks(from, f, pos, n, bad, cached), f)
-----------------------------------------------------------------------------
\* The pointers of a file to its zones, each with where it is.
Pointers(s, f) ==
  LET In(z) == {<<z, i, s.ptr[z][i]>> : i \in Index}
      top   == {<<NO_ZONE, i, s.direct[f][i]>> : i \in DOMAIN s.direct[f]}
                 \cup {<<NO_ZONE, geo.NR_DZONE_NUM, s.single[f]>>, <<NO_ZONE, geo.NR_DZONE_NUM + 1, s.double[f]>>}
      inds  == {s.single[f]} \cup (IF s.double[f] = NO_ZONE THEN {} ELSE {s.ptr[s.double[f]][i] : i \in Index})
      low   == UNION {In(z) : z \in (inds \cup {s.double[f]}) \ {NO_ZONE}}
  IN  {p \in top \cup low : p[3] # NO_ZONE}
Owned(s, f) == {p[3] : p \in Pointers(s, f)}

\* truncate() and wipe_inode(): the data zones up to i_size, then the indirect ones.
Truncated(s, f) ==
  LET starts  == {pos \in 0 .. s.size[f] - 1 : pos % zone_size = 0}
      inds    == IF s.double[f] = NO_ZONE THEN {} ELSE {s.ptr[s.double[f]][i] : i \in Index}
      found   == {read_map(s, f, pos) : pos \in starts} \cup {s.single[f], s.double[f]} \cup inds
  IN  [free_zone(s, found) EXCEPT !.size[f] = 0, !.direct[f] = [i \in DOMAIN @ |-> NO_ZONE],
                    !.single[f] = NO_ZONE, !.double[f] = NO_ZONE,
                    !.meant[f] = {}, !.failed = @ \ {f}, !.grown = @ \ {f},
                    !.lost = @ \cup (Owned(s, f) \ found)]

ZonesInit ==
  /\ geo \in Geometries
  /\ zoned = [zmap   |-> {}, size |-> [f \in ZoneFile |-> 0],
              direct |-> [f \in ZoneFile |-> [i \in 0 .. geo.NR_DZONE_NUM - 1 |-> NO_ZONE]],
              single |-> [f \in ZoneFile |-> NO_ZONE], double |-> [f \in ZoneFile |-> NO_ZONE],
              ptr    |-> [z \in Zone |-> [i \in Index |-> NO_ZONE]],
              data   |-> [z \in Zone |-> [u \in 0 .. zone_size - 1 |-> OLD]],
              meant  |-> [f \in ZoneFile |-> {}], failed |-> {}, grown |-> {}, lost |-> {}]

WriteFile(f) ==
  \E pos \in 0 .. s_max_size, n \in 1 .. geo.max_bytes, bad, cached \in BOOLEAN :
    /\ IF bad THEN geo.bad_copies ELSE cached
    /\ zoned' = read_write_file(zoned, f, pos, n, bad, cached)

\* creat() of a file that exists, or the end of one without links.
TruncateFile(f) == zoned' = Truncated(zoned, f)

ZonesNext == geo' = geo /\ \E f \in ZoneFile : WriteFile(f) \/ TruncateFile(f)

ZonesSpec == ZonesInit /\ [][ZonesNext]_zone_vars
-----------------------------------------------------------------------------
\* The type invariant.
ZonesTypeOK ==
  /\ zoned.zmap \subseteq Zone /\ zoned.lost \subseteq Zone
  /\ zoned.size \in [ZoneFile -> 0 .. s_max_size]
  /\ zoned.ptr \in [Zone -> [Index -> Zone \cup {NO_ZONE}]]
  /\ zoned.data \in [Zone -> [0 .. zone_size - 1 -> {ZERO, MINE, OLD}]]

\* A zone is at one place of one file or free, however many steps of the writes
\* that allocated it found the device full; the bit map has all others as free.
\* Only zones that a file got for a copy that failed may be lost.
ZonesKept ==
  LET P == UNION {{<<f, p>> : p \in Pointers(zoned, f)} : f \in ZoneFile}
      O == UNION {Owned(zoned, f) : f \in ZoneFile}
  IN  /\ Cardinality(P) = Cardinality(O) /\ O \cap zoned.lost = {}
      /\ zoned.zmap = O \cup zoned.lost
      /\ ~geo.bad_copies => zoned.lost = {}

\* What read() would find at a position.
ReadAt(s, f, pos) ==
  LET z == read_map(s, f, pos)
  IN  IF z = NO_ZONE THEN ZERO ELSE s.data[z][pos % zone_size]
Meant(s, f, pos) == IF pos \in s.meant[f] THEN MINE ELSE ZERO
ReadsBack(f) == \A pos \in 0 .. zoned.size[f] - 1 : ReadAt(zoned, f, pos) = Meant(zoned, f, pos)

\* The zones of the files are their own, and a file reads as it was written: holes,
\* the rest of partly written blocks and of zones of several blocks as zeros, never
\* as what another file left there.  Files for which a copy failed, or that a write
\* on a full device made longer, are excepted.
FilesIntact ==
  ZonesTypeOK /\ ZonesKept /\ \A f \in ZoneFile \ (zoned.failed \cup zoned.grown) : ReadsBack(f)

\* "All unwritten blocks prior to the EOF must read as zeros" (read_write()).
HolesReadAsZeros ==
  \A f \in ZoneFile : \A pos \in 0 .. zoned.size[f] - 1 :
    pos \notin zoned.meant[f] => ReadAt(zoned, f, pos) = ZERO
=============================================================================
