-------------------------------- MODULE Fsck --------------------------------
(***************************************************************************)
(* The file system checker (tools/fsck.c): it walks the tree of a damaged  *)
(* file system, asks before it changes anything, writes each change at     *)
(* once, and at the end compares the maps and link counts on disk with     *)
(* what it saw.  Whoever answers may say no, and may quit at any question. *)
(*                                                                         *)
(* The disk, `volume':                                                     *)
(*   inode[n]    mode, nlinks, size and zones: a direct and an indirect    *)
(*   entries[z]  what zone z holds when it is read as a directory          *)
(*   ptrs[z]     what it holds when it is read as an indirect zone         *)
(*   imap, zmap  the bit maps                                              *)
(* The checker's memory, `memory': its own maps imap, zmap and dirmap, and *)
(* count[n], the links found less those that i_nlinks has.                 *)
(* The recursion of descendtree() is the sequence top, `top[1]' being the  *)
(* i-node that is checked now:                                             *)
(*   ino, node   its number, and the i-node as it was read                 *)
(*   work, pos   the zones, with their levels, that chkzones() has before  *)
(*               it, and how far in the file they begin                    *)
(*   zone, chunk, at, dirty   the directory zone in chkdirzone(), if any,  *)
(*               its copy, the entry that comes next, and if it changed    *)
(*   seen        which of "." and ".." were found;  ok: nothing was wrong  *)
(* Positions are counted in half entries.  An indirect zone and a          *)
(* directory zone are one chunk each, and there are no double indirect     *)
(* zones, special files, listings or read errors.                          *)
(***************************************************************************)
EXTENDS FiniteSetsExt, Integers, Sequences

CONSTANTS s_ninodes,     \* i-nodes on the device
          LastZone,      \* its zones are 1 to this
          NR_INDIRECTS, \* zone numbers in an indirect zone
          LINK_RANGE,    \* numbers that the type `links' has
          Checkings,     \* [volume, sound, answers, makefs]: what is checked, and who answers
          MaxRuns        \* bound on how often who says yes checks the volume; others do so once

RootNode == 1
Node       == 1 .. s_ninodes
DataZone   == 1 .. LastZone
MaxLinks  == LINK_RANGE \div 2 - 1
ENTRY_SIZE == 2
Nulldir    == [name |-> "", ino |-> 0]
Nullnode   == [mode |-> "free", nlinks |-> 0, size |-> 0, zones |-> <<0, 0>>]
\* Questions that one entry can lead to: its number, then its name, then what it names.
Question   == {"truncate", "number", "name", "directory"}

ASSUME FsckAssumption ==
  /\ {s_ninodes, LastZone, NR_INDIRECTS, LINK_RANGE, MaxRuns} \subseteq Nat \ {0}
  /\ \A c \in Checkings : c.answers \in {"yes", "any"} /\ c.makefs \in BOOLEAN

VARIABLES volume, memory, top,
          stage,    \* where chkdev() is
          next_ino, \* the loop variable of chkcount() and chkilist()
          checking, \* the member of Checkings
          untouched,\* the i-nodes that the damage has not touched
          runs      \* how often chkdev() was called
fsck_vars == <<volume, memory, top, stage, next_ino, checking, untouched, runs>>

ZONE_SIZE == ENTRY_SIZE * Len(volume.entries[1])
-----------------------------------------------------------------------------
(* Memory and stack, from one record [volume, memory, top] to the next. *)

Now == [volume |-> volume, memory |-> memory, top |-> top]
Becomes(c) == volume' = c.volume /\ memory' = c.memory /\ top' = c.top

Counted(c, n, k) == [c EXCEPT !.memory.count[n] = (@ + k) % LINK_RANGE]

\* The entry that is looked at, and what of the disk follows from changing it.
DirEntry(f) == f.chunk[f.at]
Rewritten(c, e) ==
  [c EXCEPT !.top[1].chunk[c.top[1].at] = e, !.top[1].dirty = TRUE]
Past(c) == [c EXCEPT !.top[1].at = @ + 1]

\* remove(): the entry goes, and with it one link of what it names.
remove(c) == Rewritten(Counted(c, DirEntry(c.top[1]).ino, -1), Nulldir)

\* How much of a file a missing zone number stands for.
jump(level) == IF level = 0 THEN ZONE_SIZE ELSE ZONE_SIZE * NR_INDIRECTS

\* markzone() refuses zones that are not on the device, or somebody's.
Markable(c, z) == z \in DataZone /\ z \notin c.memory.zmap
-----------------------------------------------------------------------------
(* descendtree(): an i-node that is seen for the first time. *)

FirstSeen(n, node) ==
  [ino |-> n, node |-> node, work |-> <<<<node.zones[1], 0>>, <<node.zones[2], 1>>>>, pos |-> 0,
   zone |-> 0, chunk |-> <<>>, at |-> 1, dirty |-> FALSE, seen |-> {},
   ok |-> TRUE]

\* Mutant: a regular file is not marked in the map of i-nodes that were seen.
chkinode_Unmarked(c, n) ==
  LET node == c.volume.inode[n]
      f    == FirstSeen(n, node)
  IN  IF node.mode = "directory"
      THEN [Counted(c, n, -node.nlinks) EXCEPT !.top = <<f>> \o @, !.memory.imap = @ \cup {n},
                                               !.memory.dirmap = @ \cup {n}]
      ELSE [Counted(c, n, -node.nlinks) EXCEPT !.top = <<f>> \o @]

\* chkinode() and chkmode(), up to where the contents are checked.  An i-node without
\* links is not marked, nor one of a bad mode opened: nothing of it is left to check.
chkinode(c, n) ==
  LET node  == c.volume.inode[n]
      f     == FirstSeen(n, node)
      bad   == [f EXCEPT !.work = <<>>, !.ok = FALSE]
      links == IF node.nlinks > MaxLinks THEN MaxLinks ELSE node.nlinks
      known == [Counted(c, n, -links) EXCEPT !.memory.imap = @ \cup {n}]
  IN  CASE node.nlinks = 0 -> [c EXCEPT !.top = <<bad>> \o @]
        [] node.nlinks # 0 /\ node.mode = "directory" ->
             [known EXCEPT !.top = <<f>> \o @, !.memory.dirmap = @ \cup {n}]
        [] node.nlinks # 0 /\ node.mode = "regular" -> [known EXCEPT !.top = <<f>> \o @]
        [] OTHER -> [known EXCEPT !.top = <<bad>> \o @]

descendtree(c, n) == IF n \in c.memory.imap THEN c ELSE chkinode(c, n)

\* chkdots()
chkdots(c, expected, yes) ==
  LET e == DirEntry(c.top[1])
  IN  IF e.ino = expected \/ "name" \notin yes THEN c
      ELSE Rewritten(Counted(Counted(c, e.ino, -1), expected, 1), [e EXCEPT !.ino = expected])

\* chkentry(), for somebody who says yes to the questions in `yes'.
chkentry(c0, yes) ==
  LET f      == c0.top[1]
      e      == DirEntry(f)
      parent == IF f.ino = RootNode THEN f.ino ELSE c0.top[2].ino
      c      == Counted(c0, e.ino, 1)
      found  == [c EXCEPT !.top[1].seen = @ \cup {e.name}]
  IN  CASE e.ino \notin Node -> Past(IF "number" \in yes THEN Rewritten(c0, Nulldir) ELSE c0)
        [] e.ino \in Node /\ c0.memory.count[e.ino] = MaxLinks /\ "number" \in yes -> Past(remove(c0))
        [] OTHER ->
             CASE e.name = "."  -> Past(chkdots(found, f.ino, yes))
               [] e.name = ".." -> Past(chkdots(found, parent, yes))
               [] e.name \in {"", "/"} /\ "name" \in yes -> Past(remove(c))
               [] OTHER -> IF e.ino \notin c.memory.dirmap THEN descendtree(Past(c), e.ino)
                           ELSE Past(IF "directory" \in yes THEN remove(c) ELSE c)
-----------------------------------------------------------------------------
(* The steps of chktree(): what of top[1] is done next. *)

Walking == stage = "tree" /\ top # <<>>
Saying(yes) == checking.answers = "yes" => yes = Question

\* chkzones(), with markzone() and chkindzone(), for the next zone of the file.
CheckZone ==
  /\ Walking
  /\ LET f == top[1]
         z == f.work[1][1]
         level == f.work[1][2]
         skip  == [f EXCEPT !.work = Tail(@), !.pos = @ + jump(level)]
         mark  == [Now EXCEPT !.memory.zmap = @ \cup {z}]
     IN  /\ f.zone = 0 /\ f.work # <<>> /\ f.pos < f.node.size
         /\ \/ z = 0 /\ Becomes([Now EXCEPT !.top[1] = skip])
            \/ z # 0 /\ ~Markable(Now, z) /\ Becomes([Now EXCEPT !.top[1] = [skip EXCEPT !.ok = FALSE]])
            \/ /\ Markable(Now, z) /\ level = 1
               /\ Becomes([mark EXCEPT !.top[1].work = [i \in 1 .. NR_INDIRECTS |-> <<volume.ptrs[z][i], 0>>] \o Tail(@)])
            \/ /\ Markable(Now, z) /\ level = 0 /\ f.node.mode = "regular"
               /\ Becomes([mark EXCEPT !.top[1] = skip])
            \/ /\ Markable(Now, z) /\ level = 0 /\ f.node.mode = "directory"
               /\ Becomes([mark EXCEPT !.top[1] = [f EXCEPT !.zone = z, !.chunk = volume.entries[z], !.at = 1,
                                                            !.dirty = FALSE]])
  /\ UNCHANGED <<stage, next_ino, checking, untouched, runs>>

\* Where the next entry of the directory zone begins.
EntryPos(f) == f.pos + ENTRY_SIZE * (f.at - 1)
InZone(f) == f.zone # 0 /\ f.at <= Len(f.chunk) /\ EntryPos(f) < f.node.size

\* chkdirzone(): a directory that ends within an entry gets another size, which is not
\* written to the disk; who does not want that leaves the zone, and what changed in it
\* is not written either.
CheckEntry(yes) ==
  /\ Walking /\ Saying(yes) /\ InZone(top[1])
  /\ LET f == top[1]
         short == f.node.size - EntryPos(f) < ENTRY_SIZE
         c == IF short THEN [Now EXCEPT !.top[1].node.size = EntryPos(f), !.top[1].dirty = TRUE] ELSE Now
     IN  IF short /\ "truncate" \notin yes
         THEN Becomes([Now EXCEPT !.top[1] = [f EXCEPT !.zone = 0, !.work = Tail(@), !.ok = FALSE]])
         ELSE Becomes(IF DirEntry(f).ino = 0 THEN Past(c) ELSE chkentry(c, yes))
  /\ UNCHANGED <<stage, next_ino, checking, untouched, runs>>

\* Mutant: the changed copy of a directory zone is dropped.
EndZone_NotWritten ==
  /\ Walking
  /\ LET f == top[1]
         left == [f EXCEPT !.zone = 0, !.work = Tail(@), !.pos = @ + ZONE_SIZE]
     IN  /\ f.zone # 0 /\ ~InZone(f)
         /\ Becomes([Now EXCEPT !.top[1] = left])
  /\ UNCHANGED <<stage, next_ino, checking, untouched, runs>>

EndZone ==
  /\ Walking
  /\ LET f == top[1]
         left == [f EXCEPT !.zone = 0, !.work = Tail(@), !.pos = @ + ZONE_SIZE]
         c == [Now EXCEPT !.top[1] = left]
     IN  /\ f.zone # 0 /\ ~InZone(f)
         /\ Becomes(IF f.dirty THEN [c EXCEPT !.volume.entries[f.zone] = f.chunk] ELSE c)
  /\ UNCHANGED <<stage, next_ino, checking, untouched, runs>>

\* An i-node is removed from the disk, at once, and the link that led to it not counted.
Removed(c, f) ==
  [Counted(c, f.ino, f.node.nlinks - 1) EXCEPT !.memory.imap = @ \ {f.ino},
                                               !.volume.inode[f.ino] = Nullnode]

\* The rest of descendtree(): an i-node with something wrong is removed, if asked for,
\* and its entry from the copy of its directory; without a root the checker gives up.
EndInode(yes) ==
  /\ Walking
  /\ LET f  == top[1]
         up == [Now EXCEPT !.top = Tail(@)]
         fine == f.ok /\ (f.node.mode = "directory" => {".", ".."} \subseteq f.seen)
         gone == Removed(up, f)
     IN  /\ f.zone = 0 /\ (f.work = <<>> \/ f.pos >= f.node.size)
         /\ checking.answers = "yes" => yes
         /\ IF fine \/ ~yes
            THEN Becomes(up) /\ stage' = IF up.top = <<>> THEN "zone map" ELSE "tree"
            ELSE IF up.top = <<>> THEN Becomes(gone) /\ stage' = "fatal"
            ELSE /\ Becomes(Past(Rewritten([gone EXCEPT !.top[1].at = @ - 1], Nulldir)))
                 /\ stage' = stage
  /\ UNCHANGED <<next_ino, checking, untouched, runs>>
-----------------------------------------------------------------------------
(* chkdev(), around the tree. *)

Fresh == [imap |-> {}, zmap |-> {}, dirmap |-> {}, count |-> [n \in Node |-> 0]]

\* makedev(): an empty root directory, and maps that chkmap() will fill in.
makedev(v) ==
  LET z == 1
      dots == <<[name |-> ".", ino |-> RootNode], [name |-> "..", ino |-> RootNode]>>
  IN  [v EXCEPT !.imap = {}, !.zmap = {},
                !.inode = [n \in Node |-> IF n # RootNode THEN Nullnode
                             ELSE [mode |-> "directory", nlinks |-> 2, size |-> 2 * ENTRY_SIZE, zones |-> <<z, 0>>]],
                !.entries[z] = [i \in DOMAIN @ |-> IF i <= 2 THEN dots[i] ELSE Nulldir],
                !.ptrs[z] = [i \in DOMAIN @ |-> 0]]

\* Up to the root's i-node; the volume may be checked again when that is done.
Begin ==
  /\ stage \in {"begin", "done"} /\ runs' = runs + 1
  /\ runs < IF checking.answers = "yes" THEN MaxRuns ELSE 1
  /\ LET v == IF checking.makefs /\ runs = 0 THEN makedev(volume) ELSE volume
     IN  IF v.inode[RootNode].mode # "directory"
         THEN Becomes([volume |-> v, memory |-> Fresh, top |-> <<>>]) /\ stage' = "fatal"
         ELSE Becomes(descendtree([volume |-> v, memory |-> Fresh, top |-> <<>>], RootNode)) /\ stage' = "tree"
  /\ next_ino' = 1 /\ UNCHANGED <<checking, untouched>>

\* chkmap(): nothing is asked of who makes a file system.
Making == checking.makefs /\ runs = 1
MapAnswer(yes) == yes \/ (checking.answers = "any" /\ ~Making)

CheckZoneMap(yes) ==
  /\ stage = "zone map" /\ MapAnswer(yes)
  /\ volume' = IF yes THEN [volume EXCEPT !.zmap = memory.zmap] ELSE volume
  /\ stage' = "counts" /\ UNCHANGED <<memory, top, next_ino, checking, untouched, runs>>

\* chkcount() and counterror() for one i-node: a count that comes out as 0 is fatal.
CheckCount(yes) ==
  /\ stage = "counts" /\ next_ino \in Node /\ MapAnswer(yes)
  /\ LET sum == (memory.count[next_ino] + volume.inode[next_ino].nlinks) % LINK_RANGE
         wrong == memory.count[next_ino] # 0 /\ yes
     IN  /\ volume' = IF wrong /\ sum # 0 THEN [volume EXCEPT !.inode[next_ino].nlinks = sum] ELSE volume
         /\ stage' = IF wrong /\ sum = 0 THEN "fatal" ELSE stage
  /\ next_ino' = next_ino + 1 /\ UNCHANGED <<memory, top, checking, untouched, runs>>

CheckInodeMap(yes) ==
  /\ stage = "counts" /\ next_ino \notin Node /\ MapAnswer(yes)
  /\ volume' = IF yes THEN [volume EXCEPT !.imap = memory.imap] ELSE volume
  /\ stage' = "i-nodes" /\ next_ino' = 1 /\ UNCHANGED <<memory, top, checking, untouched, runs>>

\* chkilist(): its own map, not the one on the disk, says what is free.
CheckInode(yes) ==
  /\ stage = "i-nodes" /\ MapAnswer(yes)
  /\ LET n == next_ino
         stale == n \in Node /\ n \notin memory.imap /\ volume.inode[n].mode # "free" /\ ~Making
     IN  volume' = IF stale /\ yes THEN [volume EXCEPT !.inode[n] = Nullnode] ELSE volume
  /\ stage' = IF next_ino = s_ninodes THEN "done" ELSE stage
  /\ next_ino' = next_ino + 1 /\ UNCHANGED <<memory, top, checking, untouched, runs>>

\* "q" for an answer.
Quit ==
  /\ checking.answers = "any" /\ stage \notin {"begin", "done", "quit", "fatal"}
  /\ stage' = "quit" /\ UNCHANGED <<volume, memory, top, next_ino, checking, untouched, runs>>

-----------------------------------------------------------------------------
(* What is on a disk, without the checker. *)

\* The zones of an i-node, by where they are in the file (0 is the direct one); -1 is
\* its indirect zone.
ZonesOf(v, n) ==
  LET node == v.inode[n]
      map  == IF node.size > ZONE_SIZE THEN node.zones[2] ELSE 0
      at(i) == CASE i = -1 -> map
                 [] i = 0 -> IF node.size > 0 THEN node.zones[1] ELSE 0
                 [] OTHER -> IF node.size > ZONE_SIZE * i /\ map \in DataZone THEN v.ptrs[map][i] ELSE 0
  IN  {z \in {<<i, at(i)>> : i \in -1 .. NR_INDIRECTS} : z[2] # 0}

\* The entries of a directory that lead somewhere.
EntriesOf(v, n) ==
  LET node == v.inode[n]
      at(z, k) == [dir |-> n, zone |-> z[2], at |-> k,
                   name |-> v.entries[z[2]][k].name, ino |-> v.entries[z[2]][k].ino]
      read == {z \in ZonesOf(v, n) : z[1] >= 0 /\ z[2] \in DataZone}
      ends == [z \in read |-> (node.size - ZONE_SIZE * z[1]) \div ENTRY_SIZE]
  IN  IF node.mode # "directory" THEN {}
      ELSE {e \in UNION {{at(z, k) : k \in 1 .. Min({Len(v.entries[1]), ends[z]})} : z \in read} : e.ino # 0}

IsName(e) == e.name \notin {".", ".."}
Reached(v) ==
  LET children(ns) == {e.ino : e \in UNION {EntriesOf(v, n) : n \in ns}} \cap Node
      within[k \in 0 .. s_ninodes] == IF k = 0 THEN {RootNode} ELSE within[k - 1] \cup children(within[k - 1])
  IN  within[s_ninodes]
AllEntries(v) == UNION {EntriesOf(v, n) : n \in Reached(v)}
LinksTo(v, n) == {e \in AllEntries(v) : e.ino = n}

\* No other i-node that can be reached has a zone of n, and n has each once.
OwnZones(v, n) ==
  LET mine == {z[2] : z \in ZonesOf(v, n)}
  IN  /\ mine \subseteq DataZone /\ Cardinality(mine) = Cardinality(ZonesOf(v, n))
      /\ \A m \in Reached(v) \ {n} : mine \cap {z[2] : z \in ZonesOf(v, m)} = {}

\* A directory has "." and "..", which are right, and but for the root one name.
DotsRight(v, n) ==
  LET dots(name) == {e.ino : e \in {x \in EntriesOf(v, n) : x.name = name}}
      names == {e \in LinksTo(v, n) : IsName(e)}
  IN  /\ dots(".") = {n}
      /\ IF n = RootNode THEN names = {} /\ dots("..") = {n}
         ELSE Cardinality(names) = 1 /\ dots("..") = {e.dir : e \in names}

Healthy(v, n) ==
  LET node == v.inode[n]
  IN  /\ node.mode \in {"regular", "directory"} /\ node.nlinks \in 1 .. MaxLinks
      /\ OwnZones(v, n)
      /\ node.mode = "directory" => node.size % ENTRY_SIZE = 0 /\ DotsRight(v, n)

Sound(v) ==
  /\ \A n \in Reached(v) : Healthy(v, n) /\ v.inode[n].nlinks = Cardinality(LinksTo(v, n))
  /\ \A e \in AllEntries(v) : e.ino \in Node /\ e.name \notin {"", "/"}
  /\ v.imap = Reached(v) /\ \A n \in Node \ v.imap : v.inode[n].mode = "free"
  /\ v.zmap = {z[2] : z \in UNION {ZonesOf(v, n) : n \in Reached(v)}}

\* The i-nodes that the damage has not touched, from the root down.
Untouched(v) ==
  LET named(ns) == {e.ino : e \in {x \in UNION {EntriesOf(v, n) : n \in ns} : IsName(x) /\ x.name \notin {"", "/"}}}
      within[k \in 0 .. s_ninodes] ==
        IF k = 0 THEN {n \in {RootNode} : Healthy(v, n) /\ v.inode[n].mode = "directory"}
        ELSE within[k - 1] \cup {n \in named(within[k - 1]) \cap Node : Healthy(v, n)}
  IN  within[s_ninodes]
-----------------------------------------------------------------------------
FsckInit ==
  /\ checking \in Checkings /\ volume = checking.volume
  /\ memory = Fresh /\ top = <<>> /\ stage = "begin" /\ next_ino = 1 /\ runs = 0
  /\ untouched = IF checking.makefs THEN {} ELSE Untouched(volume)

FsckNext ==
  \/ Begin \/ CheckZone \/ EndZone \/ Quit
  \/ \E yes \in SUBSET Question : CheckEntry(yes)
  \/ \E yes \in BOOLEAN : \/ EndInode(yes) \/ CheckZoneMap(yes) \/ CheckCount(yes)
                          \/ CheckInodeMap(yes) \/ CheckInode(yes)
-----------------------------------------------------------------------------
\* The type invariant.
FsckTypeOK ==
  /\ volume.inode \in [Node -> [mode : {"free", "regular", "directory", "bad"}, nlinks : 0 .. LINK_RANGE - 1,
                                size : Nat, zones : Seq(Nat)]]
  /\ memory \in [imap : SUBSET Node, zmap : SUBSET DataZone, dirmap : SUBSET Node,
                  count : [Node -> 0 .. LINK_RANGE - 1]]
  /\ stage \in {"begin", "tree", "zone map", "counts", "i-nodes", "done", "quit", "fatal"}
  /\ next_ino \in 1 .. s_ninodes + 1 /\ runs \in 0 .. MaxRuns

\* A directory whose size is not a whole number of entries.
Torn(v) == \E n \in Node : v.inode[n].mode = "directory" /\ v.inode[n].size % ENTRY_SIZE # 0

\* Whoever says yes to everything has a sound file system in the end: every entry leads
\* to an i-node that is allocated, has its own zones and counts its links, and the bit
\* maps say just that.  One run is not enough, because what led to an i-node that the
\* checker removes was counted before; and the size that chkdirzone() gives to a
\* directory never reaches the disk.
Repaired == stage = "done" /\ checking.answers = "yes" /\ runs = MaxRuns /\ ~Torn(volume) => Sound(volume)

\* Whatever is answered, and wherever somebody quits, the checker does no harm to what
\* the damage has not touched: i-nodes that could be reached without it keep their
\* contents, their names and their bits in the maps, and the checker gives up only
\* where the root itself was damaged.
UntouchedKept ==
  LET v == checking.volume
  IN  /\ FsckTypeOK
      /\ stage = "fatal" => RootNode \notin untouched
      /\ \A n \in untouched :
           /\ \A field \in {"mode", "size", "zones"} : volume.inode[n][field] = v.inode[n][field]
           /\ \A e \in EntriesOf(v, n) : e.ino \in untouched /\ e.name \notin {"", "/"} =>
                                            volume.entries[e.zone][e.at] = v.entries[e.zone][e.at]
           /\ \A z \in ZonesOf(v, n) : /\ volume.ptrs[z[2]] = v.ptrs[z[2]]
                                        /\ z[2] \in v.zmap => z[2] \in volume.zmap
           /\ n \in v.imap => n \in volume.imap
=============================================================================
