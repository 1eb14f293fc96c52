------------------------------ MODULE FileTree ------------------------------
(***************************************************************************)
(* I-nodes, directories and mounted file systems: fs/inode.c, path.c,      *)
(* link.c, open.c, stadir.c, mount.c, the i-node half of super.c, and what *)
(* misc.c, protect.c and time.c do with them.                              *)
(*                                                                         *)
(* FS does one call at a time, so each call is one action, and procedures  *)
(* are operators from a state `s' of FS, most of them to a record of the   *)
(* state they leave, the i-node slot they return and the error code.       *)
(*   ino[i]        the i-node table: i_dev, i_num, i_count, i_dirt, i_mount*)
(*                 and, of i_mode and i_nlinks, type and links             *)
(*   disk[d][n]    the i-nodes on disk                                     *)
(*   imap[d]       the i-nodes that the bit map has as allocated           *)
(*   dir[d][n]     the directory entries, which are written at once        *)
(*   super[k]      s_dev, s_imount, s_isup                                 *)
(*   maps          the devices whose bit maps are loaded                   *)
(*   work, root    fp_workdir and fp_rootdir, or NIL_INODE                 *)
(*   file[f]       a filp slot: its i-node, and who has it open            *)
(* Histories:                                                              *)
(*   torn     a write has left on disk an entry of a free i-node           *)
(*   skewed   an unlink counted down another i-node than the entry's       *)
(*   dropped  the devices where a directory with entries was freed         *)
(*   unheld   bit maps were released that had not been loaded              *)
(*   wild     FS has followed NIL_INODE, or a map it had released; nothing *)
(*            is said of what it does then                                 *)
(* A call finds what it does to an i-node allowed or forbidden, and room   *)
(* in a directory or not, as its caller's record says.  Special files,     *)
(* pipes, and the zones and contents of files are left out; "" is what     *)
(* get_name() finds at the end of a path.                                  *)
(***************************************************************************)
EXTENDS SequencesExt, FiniteSetsExt, Integers

CONSTANTS NR_INODES, NR_SUPERS,
          Device, ROOT_DEV, NO_DEVICE,
          NINODES,       \* s_ninodes, of each device
          Name, DotName, \* the names, and those with a '.' as second character
          Task,          \* the processes that call FS
          MM_PROC,       \* the one of them that is MM
          FileSlot,      \* the filp slots
          Uses,          \* the sets of calls that are looked at together, see `use'
          FirstTree      \* what dir[d] is at first: the entries of each i-node

Slot == 1 .. NR_INODES
Num  == 1 .. Max(Range(NINODES))
InodesOf(d) == 1 .. NINODES[d]
NIL_INODE  == 0
ROOT_INODE == 1
MAX_LINKS  == 127

ASSUME TreeAssumption ==
  /\ NR_INODES \in Nat \ {0} /\ NR_SUPERS \in Nat \ {0} /\ NINODES \in [Device -> Nat \ {0}]
  /\ ROOT_DEV \in Device /\ NO_DEVICE \notin Device /\ DotName \subseteq Name /\ "" \notin Name
  /\ MM_PROC \in Task

VARIABLES tree,
          use   \* what the calls are given: the tasks that may call, callers, [super : BOOLEAN, denied : a subset of
                \* {"R", "W", "X", "room"} \X Device \X Num], paths, [abs, names], pairs of
                \* paths for link(), and the devices for mount()
tree_vars == <<tree, use>>
-----------------------------------------------------------------------------
\* What follows a step: it names the result x, which is computed once.
With(x, Rest(_)) == Rest(x)

Nothing == [n \in Name |-> 0]

\* The entries of device d that name i-node n: of directories that are allocated.
Entries(s, d, n) == {x \in Num \X Name : s.dir[d][x[1]][x[2]] = n}
Mounted(s) == {s.super[k].dev : k \in 1 .. NR_SUPERS} \ {NO_DEVICE}

\* After each write to a disk: what a crash would find.
Written(s) ==
  [s EXCEPT !.torn = @ \/ \E d \in Device \ s.skewed, n \in Num, name \in Name :
                            s.dir[d][n][name] # 0 /\ s.disk[d][s.dir[d][n][name]].type = "none"]

\* rw_inode(WRITING).
rw_inode(s, i) ==
  Written([s EXCEPT !.disk[s.ino[i].dev][s.ino[i].num] = [type |-> s.ino[i].type, links |-> s.ino[i].links],
                    !.ino[i].dirt = FALSE])

\* Of a slot that is not in use only i_mount is looked at again.
Idle(mount) == [dev |-> NO_DEVICE, num |-> 0, count |-> 0, dirt |-> FALSE, mount |-> mount,
                type |-> "none", links |-> 0]

get_inode(s, d, n) ==
  LET same == {i \in Slot : s.ino[i].count > 0 /\ s.ino[i].dev = d /\ s.ino[i].num = n}
      free == {i \in Slot : s.ino[i].count = 0}
      i    == IF same # {} THEN Min(same) ELSE Max(free)
  IN  CASE same # {} -> [s |-> [s EXCEPT !.ino[i].count = @ + 1], ip |-> i, r |-> "OK"]
        [] same = {} /\ free = {} -> [s |-> s, ip |-> NIL_INODE, r |-> "ENFILE"]
        [] OTHER -> [s |-> [s EXCEPT !.ino[i] =
                       [@ EXCEPT !.dev = d, !.num = n, !.count = 1, !.dirt = FALSE,
                                 !.type  = IF d = NO_DEVICE THEN @ ELSE s.disk[d][n].type,
                                 !.links = IF d = NO_DEVICE THEN @ ELSE s.disk[d][n].links]],
                     ip |-> i, r |-> "OK"]

dup_inode(s, i) == [s EXCEPT !.ino[i].count = @ + 1]

\* truncate(): the entries of a directory are gone with its blocks.
truncate(s, i) ==
  LET d == s.ino[i].dev
      n == s.ino[i].num
  IN  [s EXCEPT !.dir[d][n] = Nothing, !.ino[i].dirt = TRUE,
                !.dropped = IF s.dir[d][n] = Nothing THEN @ ELSE @ \cup {d}]

\* The i-node goes back to the pool of available i-nodes.
free_inode(s, i) ==
  LET d == s.ino[i].dev
      t == truncate(s, i)
  IN  [t EXCEPT !.ino[i].type = "none", !.imap[d] = @ \ {s.ino[i].num}, !.wild = @ \/ d \notin s.maps]

put_inode(s, i) ==
  IF i = NIL_INODE THEN s
  ELSE IF s.ino[i].count > 1 THEN [s EXCEPT !.ino[i].count = @ - 1]
  ELSE With(IF s.ino[i].links = 0 THEN free_inode(s, i) ELSE s, LAMBDA t :
         [IF t.ino[i].dirt THEN rw_inode(t, i) ELSE t EXCEPT !.ino[i] = Idle(@.mount)])

\* What a procedure returns, after put_inode() of slot i.
AfterPut(a, i) == [a EXCEPT !.s = put_inode(@, i)]

\* alloc_inode(): the first free bit of the map, and a slot, or neither.
alloc_inode(s, d, type) ==
  IF s.imap[d] = InodesOf(d) THEN [s |-> s, ip |-> NIL_INODE, r |-> "ENFILE"]
  ELSE LET n == Min(InodesOf(d) \ s.imap[d])
       IN  With(get_inode([s EXCEPT !.imap[d] = @ \cup {n}], NO_DEVICE, n), LAMBDA g :
             IF g.ip = NIL_INODE THEN [g EXCEPT !.s = s]
             ELSE [g EXCEPT !.s.ino[g.ip] = [@ EXCEPT !.dev = d, !.type = type, !.links = 0, !.dirt = TRUE]])
-----------------------------------------------------------------------------
forbidden(s, i, bits, c) == \E b \in bits : <<b, s.ino[i].dev, s.ino[i].num>> \in c.denied

\* search_dir(): the error that the directory itself gives, and its three uses.
search_dir(s, i, bits, c) ==
  CASE s.ino[i].type # "dir" -> "ENOTDIR" [] forbidden(s, i, bits, c) -> "EACCES" [] OTHER -> "OK"

Entry(s, i, name) == IF name = "" THEN 0 ELSE s.dir[s.ino[i].dev][s.ino[i].num][name]

LOOK_UP(s, i, name, c) ==
  LET r == search_dir(s, i, {"X"}, c)
  IN  IF r = "OK" /\ Entry(s, i, name) = 0 THEN "ENOENT" ELSE r

ENTER(s, i, name, n, c) ==
  LET r == search_dir(s, i, {"W", "X"}, c)
  IN  CASE r # "OK" -> [s |-> s, r |-> r]
        [] r = "OK" /\ forbidden(s, i, {"room"}, c) -> [s |-> s, r |-> "ENOSPC"]
        [] OTHER -> [s |-> Written([s EXCEPT !.dir[s.ino[i].dev][s.ino[i].num][name] = n, !.ino[i].dirt = TRUE]),
                     r |-> "OK"]

DELETE(s, i, name, c) ==
  LET r == search_dir(s, i, {"W", "X"}, c)
  IN  CASE r # "OK" -> [s |-> s, r |-> r]
        [] r = "OK" /\ Entry(s, i, name) = 0 -> [s |-> s, r |-> "ENOENT"]
        [] OTHER -> [s |-> Written([s EXCEPT !.dir[s.ino[i].dev][s.ino[i].num][name] = 0]), r |-> "OK"]

\* The loop of advance() from an i-node mounted on to the root mounted there.
RECURSIVE Cross(_)
Cross(g) ==
  IF g.ip = NIL_INODE THEN [g EXCEPT !.s.wild = TRUE]
  ELSE IF ~g.s.ino[g.ip].mount THEN g
  ELSE LET k == Min({x \in 1 .. NR_SUPERS : g.s.super[x].imount = g.ip})
       IN  Cross(get_inode(put_inode(g.s, g.ip), g.s.super[k].dev, ROOT_INODE))

\* advance(): the i-node of one component; from the root of a mounted file system
\* ".." goes on where that is mounted.
RECURSIVE advance(_, _, _, _)
advance(s, i, name, c) ==
  LET d  == s.ino[i].dev
      n  == Entry(s, i, name)
      up == {k \in 2 .. NR_SUPERS : s.super[k].dev = d}
      m  == s.ino[s.super[Min(up)].imount]
  IN  CASE name = "" -> get_inode(s, d, s.ino[i].num)
        [] name # "" /\ LOOK_UP(s, i, name, c) # "OK" -> [s |-> s, ip |-> NIL_INODE, r |-> LOOK_UP(s, i, name, c)]
        [] OTHER -> With(get_inode(s, d, n), LAMBDA g :
             IF g.ip = NIL_INODE THEN g
             ELSE IF n = ROOT_INODE /\ s.ino[i].num = ROOT_INODE /\ name \in DotName /\ up # {}
             THEN With(get_inode(put_inode(g.s, g.ip), m.dev, m.num), LAMBDA g2 :
                    Cross(AfterPut(advance(g2.s, g2.ip, name, c), g2.ip)))
             ELSE Cross(g))

\* last_dir(): down to the last directory.
last_dir(s, p, path, c) ==
  LET start == IF path.abs THEN s.root[p] ELSE s.work[p]
      Step(g, name) == IF g.ip = NIL_INODE THEN g ELSE AfterPut(advance(g.s, g.ip, name, c), g.ip)
  IN  FoldLeft(Step, [s |-> dup_inode(s, start), ip |-> start, r |-> "OK"],
               IF path.names = <<>> THEN <<>> ELSE Front(path.names))
Final(path) == IF path.names = <<>> THEN "" ELSE Last(path.names)

eat_path(s, p, path, c) ==
  With(last_dir(s, p, path, c), LAMBDA l :
    IF l.ip = NIL_INODE \/ Final(path) = "" THEN l
    ELSE AfterPut(advance(l.s, l.ip, Final(path), c), l.ip))
-----------------------------------------------------------------------------
\* Mutant: an i-node for which no entry could be made keeps its link.
Unentered_Linked(s, i) == put_inode([s EXCEPT !.ino[i].dirt = TRUE], i)

\* "Pity, have to free disk inode."
Unentered(s, i) == put_inode([s EXCEPT !.ino[i].links = @ - 1, !.ino[i].dirt = TRUE], i)

\* Mutant: the new i-node is left to be written when it is put.
Forced_Later(s, i) == [s EXCEPT !.ino[i].links = @ + 1]

\* "Force inode to the disk before making directory entry."
Forced(s, i) == rw_inode([s EXCEPT !.ino[i].links = @ + 1], i)

\* new_node(): "an inode with no directory entry is much better than the opposite".
new_node(s, p, path, type, c) ==
  With(last_dir(s, p, path, c), LAMBDA l :
    IF l.ip = NIL_INODE THEN l
    ELSE With(advance(l.s, l.ip, Final(path), c), LAMBDA a :
      CASE a.ip # NIL_INODE -> AfterPut([a EXCEPT !.r = "EEXIST"], l.ip)
        [] a.ip = NIL_INODE /\ a.r # "ENOENT" -> AfterPut(a, l.ip)
        [] OTHER -> With(alloc_inode(a.s, l.s.ino[l.ip].dev, type), LAMBDA b :
             IF b.ip = NIL_INODE THEN AfterPut(b, l.ip)
             ELSE With(Forced(b.s, b.ip), LAMBDA t :
               With(ENTER(t, l.ip, Final(path), t.ino[b.ip].num, c), LAMBDA e :
                 IF e.r = "OK" THEN [s |-> put_inode(e.s, l.ip), ip |-> b.ip, r |-> "OK"]
                 ELSE [s |-> Unentered(put_inode(e.s, l.ip), b.ip), ip |-> NIL_INODE, r |-> e.r])))))

\* A filp slot is claimed, after all that can fail.
Claimed(s, p, i) ==
  LET f == Min({x \in FileSlot : s.file[x].by = {}}) IN [s EXCEPT !.file[f] = [ip |-> i, by |-> {p}]]
get_fd_ok(s) == \E f \in FileSlot : s.file[f].by = {}

do_creat(s, p, path, c) ==
  IF ~get_fd_ok(s) THEN s
  ELSE With(new_node(s, p, path, "reg", c), LAMBDA n :
    CASE n.r = "OK" -> Claimed(n.s, p, n.ip)
      [] n.r = "EEXIST" ->
           IF n.s.ino[n.ip].type = "dir" \/ forbidden(n.s, n.ip, {"W"}, c) THEN put_inode(n.s, n.ip)
           ELSE Claimed(truncate(n.s, n.ip), p, n.ip)
      [] OTHER -> n.s)

do_mknod(s, p, path, type, c) ==
  IF ~c.super THEN s ELSE With(new_node(s, p, path, type, c), LAMBDA n : put_inode(n.s, n.ip))

do_open(s, p, path, bits, c) ==
  IF ~get_fd_ok(s) THEN s
  ELSE With(eat_path(s, p, path, c), LAMBDA e :
    CASE e.ip = NIL_INODE -> e.s
      [] e.ip # NIL_INODE /\ (forbidden(e.s, e.ip, bits, c) \/ (e.s.ino[e.ip].type = "dir" /\ "W" \in bits)) ->
           put_inode(e.s, e.ip)
      [] OTHER -> Claimed(e.s, p, e.ip))

\* do_close(); the last to close it gives the i-node back.
ShutFile(s, p, f) ==
  IF p \notin s.file[f].by THEN s
  ELSE IF s.file[f].by # {p} THEN [s EXCEPT !.file[f].by = @ \ {p}]
  ELSE [put_inode(s, s.file[f].ip) EXCEPT !.file[f] = [ip |-> NIL_INODE, by |-> {}]]

\* stat(), access(), chmod(), chown(), utime(): the last three may change the i-node.
Visit(s, p, path, change, c) ==
  With(eat_path(s, p, path, c), LAMBDA e :
    put_inode(IF change /\ e.ip # NIL_INODE THEN [e.s EXCEPT !.ino[e.ip].dirt = TRUE] ELSE e.s, e.ip))

\* The entry for i-node i of do_link(), in the directory l.ip, where a is what was found.
Linked(a, i, dir, name, c) ==
  IF a.ip # NIL_INODE \/ a.r # "ENOENT" \/ a.s.ino[i].dev # a.s.ino[dir].dev THEN put_inode(a.s, a.ip)
  ELSE With(ENTER(a.s, dir, name, a.s.ino[i].num, c), LAMBDA t :
    IF t.r # "OK" THEN t.s ELSE [t.s EXCEPT !.ino[i].links = @ + 1, !.ino[i].dirt = TRUE])

do_link(s, p, path, path2, c) ==
  With(eat_path(s, p, path, c), LAMBDA e :
    IF e.ip = NIL_INODE THEN e.s
    ELSE IF e.s.ino[e.ip].links = MAX_LINKS \/ (e.s.ino[e.ip].type = "dir" /\ ~c.super)
    THEN put_inode(e.s, e.ip)
    ELSE With(last_dir(e.s, p, path2, c), LAMBDA l :
      IF l.ip = NIL_INODE THEN put_inode(l.s, e.ip)
      ELSE put_inode(put_inode(Linked(advance(l.s, l.ip, Final(path2), c), e.ip, l.ip, Final(path2), c), e.ip), l.ip)))

\* do_unlink(): i_nlinks is counted down in the i-node that advance() returned,
\* which is not that of the entry when a mounted file system lies between.
Unlinked(a, dir, name, c) ==
  With(IF a.s.ino[a.ip].type = "dir" /\ ~c.super THEN [s |-> a.s, r |-> "EPERM"] ELSE DELETE(a.s, dir, name, c),
    LAMBDA t : LET i == a.s.ino[a.ip]
                   d == a.s.ino[dir]
               IN  IF t.r # "OK" THEN t.s
                   ELSE [t.s EXCEPT !.ino[a.ip].links = (@ - 1) % 256, !.ino[a.ip].dirt = TRUE,
                                    !.skewed = IF <<i.dev, i.num>> = <<d.dev, Entry(a.s, dir, name)>> THEN @
                                               ELSE @ \cup {i.dev, d.dev}])

do_unlink(s, p, path, c) ==
  With(last_dir(s, p, path, c), LAMBDA l :
    IF l.ip = NIL_INODE THEN l.s
    ELSE With(advance(l.s, l.ip, Final(path), c), LAMBDA a :
      IF a.ip = NIL_INODE THEN put_inode(a.s, l.ip)
      ELSE put_inode(put_inode(Unlinked(a, l.ip, Final(path), c), a.ip), l.ip)))

\* Mutant: the old directory is not released.
Moved_Kept(s, old, new) == s

Moved(s, old, new) == put_inode(s, old)

\* change(): whether the new directory e.ip can be used, for chdir() and chroot().
Usable(e, c) == e.ip # NIL_INODE /\ e.s.ino[e.ip].type = "dir" /\ ~forbidden(e.s, e.ip, {"X"}, c)

do_chdir(s, p, path, c) ==
  With(eat_path(s, p, path, c), LAMBDA e :
    IF ~Usable(e, c) THEN put_inode(e.s, e.ip)
    ELSE [Moved(e.s, s.work[p], e.ip) EXCEPT !.work[p] = e.ip])

do_chroot(s, p, path, c) ==
  IF ~c.super THEN s
  ELSE With(eat_path(s, p, path, c), LAMBDA e :
    IF ~Usable(e, c) THEN put_inode(e.s, e.ip)
    ELSE [Moved(e.s, s.root[p], e.ip) EXCEPT !.root[p] = e.ip])

\* do_chdir() for MM: its working directory becomes that of a user, or its root.
Simulate(s, user, cd_flag) ==
  LET i == IF cd_flag THEN s.root[MM_PROC] ELSE s.work[user]
  IN  dup_inode([put_inode(s, s.work[MM_PROC]) EXCEPT !.work[MM_PROC] = i], i)

\* The i-nodes' part of do_sync().
Saved(s) ==
  LET Save(t, i) == IF t.ino[i].count > 0 /\ t.ino[i].dirt THEN rw_inode(t, i) ELSE t
  IN  FoldLeft(Save, s, [i \in Slot |-> i])
-----------------------------------------------------------------------------
load_bit_maps(s, dev)   == [s EXCEPT !.maps = @ \cup {dev}]
unload_bit_maps(s, dev) == [s EXCEPT !.maps = @ \ {dev}, !.unheld = @ \/ dev \notin s.maps]

\* do_mount() of a device that name_to_dev() found, whose maps fit in the cache if
\* `fit'.  What is given up after an error includes maps that could not be loaded.
do_mount(s, p, dev, path, fit, c) ==
  LET sp       == Max({k \in 1 .. NR_SUPERS : s.super[k].dev = NO_DEVICE})
      Freed(t) == [t EXCEPT !.super[sp].dev = NO_DEVICE]
  IN  IF ~c.super \/ dev \in Mounted(s) \/ Mounted(s) = {s.super[k].dev : k \in 1 .. NR_SUPERS} THEN s
      ELSE With(eat_path([s EXCEPT !.super[sp].dev = dev], p, path, c), LAMBDA e :
        IF e.ip = NIL_INODE THEN Freed(e.s)
        ELSE IF e.s.ino[e.ip].count > 1 THEN Freed(Saved(put_inode(e.s, e.ip)))
        ELSE With(get_inode(e.s, dev, ROOT_INODE), LAMBDA g :
          LET Given(t) == put_inode(put_inode(t, e.ip), g.ip)
              loads    == IF fit THEN load_bit_maps(g.s, dev) ELSE g.s
              clash    == e.s.ino[e.ip].type = "dir" /\ g.s.ino[g.ip].type # "dir"
          IN  IF g.ip = NIL_INODE \/ g.s.ino[g.ip].type = "none" THEN Freed(Saved(Given(g.s)))
              ELSE IF ~fit \/ clash THEN Freed(Saved(unload_bit_maps(Given(loads), dev)))
              ELSE [loads EXCEPT !.ino[e.ip].mount = TRUE,
                                 !.super[sp] = [dev |-> dev, imount |-> e.ip, isup |-> g.ip]]))

\* Mutant: the device may be in use.
Busy_Never(s, dev) == FALSE

\* "Only 1 inode using it should be open -- the root inode -- and that inode only
\* 1 time."
Busy(s, dev) ==
  LET I == {i \in Slot : s.ino[i].count > 0 /\ s.ino[i].dev = dev}
  IN  Cardinality(I) > 1 \/ \E i \in I : s.ino[i].count > 1

do_umount(s, p, dev, c) ==
  LET k == Min({x \in 1 .. NR_SUPERS : s.super[x].dev = dev})
      m == s.super[k].imount
      t == [Saved(unload_bit_maps(s, dev)) EXCEPT !.ino[m].mount = FALSE]
  IN  IF ~c.super \/ Busy(s, dev) THEN s
      ELSE IF dev \notin Mounted(s) THEN Saved(s)
      ELSE [put_inode(put_inode(t, m), s.super[k].isup)
              EXCEPT !.super[k] = [@ EXCEPT !.dev = NO_DEVICE, !.imount = NIL_INODE]]

\* do_fork() and do_exit(), but for pipes.
Inherited(s, p, child) ==
  LET t == [s EXCEPT !.work[child] = s.work[p], !.root[child] = s.root[p],
                     !.file = [f \in FileSlot |->
                        [@[f] EXCEPT !.by = IF p \in @ THEN @ \cup {child} ELSE @]]]
  IN  dup_inode(dup_inode(t, s.root[p]), s.work[p])

Left(s, p) ==
  LET Shut(t, f) == ShutFile(t, p, f)
      closed == FoldLeft(Shut, s, SetToSeq(FileSlot))
  IN  [put_inode(put_inode(closed, s.root[p]), s.work[p])
         EXCEPT !.work[p] = NIL_INODE, !.root[p] = NIL_INODE]
-----------------------------------------------------------------------------
\* The types and links of the i-nodes that the directories of FirstTree give.
FirstInode(d, n) ==
  LET E == {x \in Num \X Name : FirstTree[d][x[1]][x[2]] = n}
  IN  [type  |-> IF E = {} THEN "none" ELSE "dir", links |-> Cardinality(E)]

\* fs_init() and load_super(): MM and INIT are in the root, and the super block of
\* the root device refers to it twice.
TreeInit ==
  use \in Uses /\ \E first \in use.tasks \ {MM_PROC} :
    LET here == [p \in Task |-> IF p \in {MM_PROC, first} THEN NR_INODES ELSE NIL_INODE]
    IN  tree =
      [ino   |-> [i \in Slot |-> IF i # NR_INODES THEN Idle(FALSE)
                   ELSE [dev |-> ROOT_DEV, num |-> ROOT_INODE, count |-> 6, dirt |-> FALSE, mount |-> FALSE,
                         type |-> "dir", links |-> FirstInode(ROOT_DEV, ROOT_INODE).links]],
       disk  |-> [d \in Device |-> [n \in Num |-> FirstInode(d, n)]],
       imap  |-> [d \in Device |-> {n \in Num : FirstInode(d, n).type # "none"}],
       dir   |-> FirstTree,
       super |-> [k \in 1 .. NR_SUPERS |->
                    IF k = 1 THEN [dev |-> ROOT_DEV, imount |-> NR_INODES, isup |-> NR_INODES]
                    ELSE [dev |-> NO_DEVICE, imount |-> NIL_INODE, isup |-> NIL_INODE]],
       maps  |-> {ROOT_DEV}, work |-> here, root |-> here,
       file  |-> [f \in FileSlot |-> [ip |-> NIL_INODE, by |-> {}]],
       torn  |-> FALSE, skewed |-> {}, dropped |-> {}, unheld |-> FALSE, wild |-> FALSE]

Lives(p) == tree.work[p] # NIL_INODE

\* A call with a path; MM makes some of them too, for exec() and core dumps.
FileCall(p) ==
  /\ Lives(p)
  /\ \E c \in use.callers, path \in use.paths :
       \/ tree' = do_creat(tree, p, path, c)
       \/ \E bits \in {{"R"}, {"W"}} : tree' = do_open(tree, p, path, bits, c)
       \/ \E change \in BOOLEAN : tree' = Visit(tree, p, path, change, c)

Close(p) == \E f \in FileSlot : p \in tree.file[f].by /\ tree' = ShutFile(tree, p, f)

UserCall(p) ==
  /\ Lives(p) /\ p # MM_PROC
  /\ \E c \in use.callers, path \in use.paths :
       \/ tree' = do_mknod(tree, p, path, "dir", c)
       \/ tree' = do_unlink(tree, p, path, c)
       \/ tree' = do_chdir(tree, p, path, c)
       \/ tree' = do_chroot(tree, p, path, c)
       \/ \E dev \in use.devices, fit \in BOOLEAN : tree' = do_mount(tree, p, dev, path, fit, c)

OtherCall(p) ==
  /\ Lives(p) /\ p # MM_PROC
  /\ \/ \E c \in use.callers, x \in use.links : tree' = do_link(tree, p, x[1], x[2], c)
     \/ \E c \in use.callers, dev \in use.devices : tree' = do_umount(tree, p, dev, c)
     \/ tree' = Saved(tree)

\* MM's own calls.
Manage ==
  MM_PROC \in use.tasks /\ \E p \in Task \ {MM_PROC} :
    /\ Lives(p)
    /\ \/ \E cd_flag \in BOOLEAN : tree' = Simulate(tree, p, cd_flag)
       \/ \E child \in use.tasks : ~Lives(child) /\ tree' = Inherited(tree, p, child)
       \/ (\E q \in Task \ {MM_PROC, p} : Lives(q)) /\ tree' = Left(tree, p)

TreeNext == ~tree.wild /\ use' = use /\ (Manage \/ \E p \in use.tasks : FileCall(p) \/ Close(p) \/ UserCall(p) \/ OtherCall(p))

TreeSpec == TreeInit /\ [][TreeNext]_tree_vars
-----------------------------------------------------------------------------
\* The type invariant.
TreeTypeOK ==
  /\ tree.ino \in [Slot -> [dev : Device \cup {NO_DEVICE}, num : Num \cup {0}, count : Nat, dirt : BOOLEAN,
                            mount : BOOLEAN, type : {"none", "dir", "reg"}, links : 0 .. 255]]
  /\ tree.disk \in [Device -> [Num -> [type : {"none", "dir", "reg"}, links : 0 .. 255]]]
  /\ tree.imap \in [Device -> SUBSET Num] /\ tree.dir \in [Device -> [Num -> [Name -> Num \cup {0}]]]
  /\ tree.super \in [1 .. NR_SUPERS -> [dev : Device \cup {NO_DEVICE}, imount : Slot \cup {NIL_INODE},
                                        isup : Slot \cup {NIL_INODE}]]
  /\ tree.work \in [Task -> Slot \cup {NIL_INODE}] /\ tree.root \in [Task -> Slot \cup {NIL_INODE}]
  /\ tree.file \in [FileSlot -> [ip : Slot \cup {NIL_INODE}, by : SUBSET Task]]

\* All that refers to slot i between calls.
References(i) ==
  {<<"work", p>> : p \in {q \in Task : tree.work[q] = i}}
    \cup {<<"root", p>> : p \in {q \in Task : tree.root[q] = i}}
    \cup {<<"file", f>> : f \in {x \in FileSlot : tree.file[x].by # {} /\ tree.file[x].ip = i}}
    \cup {<<"imount", k>> : k \in {x \in 1 .. NR_SUPERS : tree.super[x].dev # NO_DEVICE /\ tree.super[x].imount = i}}
    \cup {<<"isup", k>> : k \in {x \in 1 .. NR_SUPERS : tree.super[x].dev # NO_DEVICE /\ tree.super[x].isup = i}}

InUse == {i \in Slot : tree.ino[i].count > 0}

\* Every call, whichever of its steps failed, gives back the i-nodes it took and
\* keeps those it should: a slot's i_count is the number of directories, open files
\* and mounts that refer to it.  No i-node is in two slots, none is of a device
\* that is not mounted ("can't umount a busy file system"), and i_mount is set
\* where a file system is mounted and nowhere else.
UsesCounted ==
  ~tree.wild =>
    /\ TreeTypeOK
    /\ \A i \in Slot : tree.ino[i].count = Cardinality(References(i))
    /\ \A i, j \in InUse : <<tree.ino[i].dev, tree.ino[i].num>> = <<tree.ino[j].dev, tree.ino[j].num>> => i = j
    /\ \A i \in InUse : tree.ino[i].dev \in Mounted(tree)
    /\ \A i \in Slot : tree.ino[i].mount <=> \E k \in 2 .. NR_SUPERS : tree.super[k].imount = i

\* What the i-node's link count says now, in its slot or on disk.
LinksOf(d, n) ==
  LET I == {i \in InUse : tree.ino[i].dev = d /\ tree.ino[i].num = n}
  IN  IF I = {} THEN tree.disk[d][n].links ELSE tree.ino[Min(I)].links

\* A link count is the number of directory entries of its i-node (or more, where a
\* superuser unlinked a directory with entries), so that no i-node is freed that
\* still has a name.  The bit map has as allocated the i-nodes with a name or a
\* user, no others: none is lost and none is given away while in use.  An unlink
\* of something that is mounted on, or of ".." in a mounted root, breaks the rule
\* for both devices.
LinksExact ==
  ~tree.wild =>
    \A d \in Device \ tree.skewed, n \in Num :
      LET entries == Cardinality(Entries(tree, d, n))
          used    == \E i \in InUse : tree.ino[i].dev = d /\ tree.ino[i].num = n
      IN  /\ entries <= LinksOf(d, n)
          /\ d \notin tree.dropped => entries = LinksOf(d, n)
          /\ n \in tree.imap[d] <=> used \/ LinksOf(d, n) > 0

\* "An inode with no directory entry is much better than the opposite": at no time
\* would a crash leave on disk an entry of an i-node that is not allocated there.
CrashLeavesNoTornEntry == ~tree.torn

\* advance(): "If it can't be done, return NIL_INODE": FS does not follow NIL_INODE.
NilNotFollowed == ~tree.wild

\* "If error, return the super block and both inodes; release the maps": those
\* that were loaded.
MapsReleasedOnce == ~tree.unheld
=============================================================================
