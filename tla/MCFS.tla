-------------------------------- MODULE MCFS --------------------------------
(***************************************************************************)
(* The file system above its block cache in one run: its pipes, its tree   *)
(* of i-nodes and directories, where it keeps the contents of files, and   *)
(* the checker that repairs its disks.  One part is driven at a time; the  *)
(* others stay as they start.                                              *)
(***************************************************************************)
EXTENDS PipeFS, FileTree, Zones, Fsck

CONSTANTS root, other  \* the devices of the tree: the root device, and one to be mounted

\* Both devices of the tree have a root directory, and root an empty one in it, "m".
Dots == [n \in Name |-> IF n \in {".", ".."} THEN 1 ELSE 0]
FewNodes == [x \in Device |-> 3]
SomeTree ==
  [x \in Device |-> [n \in Num |->
     CASE n = 1 /\ x = root -> [Dots EXCEPT !["m"] = 2] [] n = 1 /\ x # root -> Dots [] OTHER -> Nothing]]

Abs(names) == [abs |-> TRUE, names |-> names]
Rel(names) == [abs |-> FALSE, names |-> names]
Superuser  == [super |-> TRUE, denied |-> {}]
ReadOnly   == [super |-> TRUE, denied |-> {"W"} \X Device \X Num]

\* Files and links, for MM and a user, with callers who find directories full or
\* closed; mounting, with MM, by callers who may change no directory, one of whom may
\* not even enter the root; unlinking what is mounted on.
SomeUses ==
  {[tasks   |-> {0, 2}, paths |-> {Abs(<<"m", "a">>), Abs(<<"a">>)},
    links   |-> {<<Abs(<<"m", "a">>), Abs(<<"a">>)>>}, devices |-> {},
    callers |-> {Superuser, [super  |-> FALSE,
                             denied |-> {<<"room", root, 1>>, <<"room", root, 2>>, <<"X", root, 2>>}]}],
   [tasks   |-> {0, 2, 3}, paths |-> {Abs(<<"m">>), Abs(<<"m", "m">>), Rel(<<"..">>)},
    links   |-> {}, devices |-> {other},
    callers |-> {ReadOnly, [super |-> FALSE, denied |-> ReadOnly.denied \cup {<<"X", root, 1>>}]}],
   [tasks   |-> {2}, paths |-> {Abs(<<"m">>), Abs(<<"m", "a">>)}, links |-> {}, devices |-> {other},
    callers |-> {[super |-> TRUE, denied |-> {<<"W", root, 1>>}]}],
   [tasks   |-> {2}, paths |-> {Abs(<<"m">>)}, links |-> {}, devices |-> {other}, callers |-> {Superuser}]}

\* Two pointers in an indirect zone; two blocks in a zone; blocks that are partly
\* written, and copies that fail.
SomeGeometries ==
  {[unit |-> 1, blocks |-> 1, NR_DZONE_NUM |-> 1, NR_INDIRECTS |-> 2, zones |-> 4,
    bad_copies |-> FALSE, max_bytes |-> 1],
   [unit |-> 1, blocks |-> 2, NR_DZONE_NUM |-> 1, NR_INDIRECTS |-> 1, zones |-> 3,
    bad_copies |-> FALSE, max_bytes |-> 2],
   [unit |-> 2, blocks |-> 1, NR_DZONE_NUM |-> 1, NR_INDIRECTS |-> 1, zones |-> 2,
    bad_copies |-> TRUE, max_bytes |-> 2]}

TwoBlocksPerZone == {g \in SomeGeometries : g.blocks = 2}

\* A file system as it should be: the root has a directory and a file, which is in that
\* directory, too, and has an indirect zone.
Dir(name, n) == [name |-> name, ino |-> n]
Bytes == [k \in 1 .. 4 |-> Dir("x", 7)]
SoundVolume ==
  [inode |-> <<[mode |-> "directory", nlinks |-> 3, size |-> 8, zones |-> <<1, 0>>],
               [mode |-> "directory", nlinks |-> 2, size |-> 6, zones |-> <<2, 0>>],
               [mode |-> "regular", nlinks |-> 2, size |-> 16, zones |-> <<3, 4>>]>>,
   entries |-> <<<<Dir(".", 1), Dir("..", 1), Dir("x", 2), Dir("y", 3)>>,
                 <<Dir(".", 2), Dir("..", 1), Dir("x", 3), Dir("", 0)>>, Bytes, Bytes, Bytes, Bytes>>,
   ptrs |-> [z \in 1 .. 6 |-> IF z = 4 THEN <<5, 0>> ELSE <<7, 7>>], imap |-> 1 .. 3, zmap |-> 1 .. 5]

\* One thing wrong with a volume.
Damages(v) ==
  {v} \cup {[v EXCEPT !.entries[z][k].ino = n] : z \in {1, 2}, k \in 1 .. 4, n \in 0 .. 4}
      \cup {[v EXCEPT !.entries[z][k].name = x] : z \in {1, 2}, k \in 1 .. 4, x \in {"/", ".", "x"}}
      \cup {[v EXCEPT !.inode[n].mode = m] : n \in 1 .. 3, m \in {"free", "bad", "regular", "directory"}}
      \cup {[v EXCEPT !.inode[n].nlinks = m] : n \in 1 .. 3, m \in {0, 1, 3, MaxLinks}}
      \cup {[v EXCEPT !.inode[n].size = m] : n \in 1 .. 3, m \in {0, 3, 4, 5, 16}}
      \cup {[v EXCEPT !.inode[n].zones[k] = z] : n \in 1 .. 3, k \in {1, 2}, z \in {0, 1, 3, 6, 7}}
      \cup {[v EXCEPT !.ptrs[4][k] = z] : k \in {1, 2}, z \in {0, 1, 3, 6, 7}}
      \cup {[v EXCEPT !.imap = @ \ {n}] : n \in 1 .. 3} \cup {[v EXCEPT !.zmap = @ \ {z}] : z \in 1 .. 5}
      \cup {[v EXCEPT !.zmap = @ \cup {6}]}

\* Damage of two i-nodes or entries at once; and damage that leads to every question.
OneZone == [SoundVolume EXCEPT !.inode[2].zones[1] = 4]
MoreDamages ==
  {OneZone, [SoundVolume EXCEPT !.inode[3].mode = "directory"]}

Questionable ==
  {[v EXCEPT !.entries[1][4].name = "/"] : v \in MoreDamages}
    \cup {[v EXCEPT !.inode[2].size = 5] : v \in MoreDamages}
    \cup {[SoundVolume EXCEPT !.entries[2][3].ino = n] : n \in {2, 4}}
    \cup {[SoundVolume EXCEPT !.inode[n].nlinks = m] : n \in {2, 3}, m \in {0, MaxLinks}}

Check(vs, answers) == {[volume |-> v, answers |-> answers, makefs |-> FALSE] : v \in vs}
SomeCheckings ==
  Check(UNION {Damages(v) : v \in {SoundVolume, OneZone}}, "yes") \cup Check(Questionable, "any")
    \cup {[volume |-> SoundVolume, answers |-> "yes", makefs |-> TRUE]}

VARIABLE part
fs_vars == <<part, pipe_vars, tree_vars, zone_vars, fsck_vars>>

\* What the parts that are not driven start with.
Starts(p, S, rest) == IF part = p THEN S ELSE {rest}

MCInit ==
  /\ part \in {"pipes", "tree", "zones", "checker"}
  /\ use \in Starts("tree", Uses, CHOOSE u \in Uses : TRUE)
  /\ geo \in Starts("zones", Geometries, CHOOSE g \in Geometries : TRUE)
  /\ checking \in Starts("checker", Checkings, CHOOSE c \in Checkings : c.makefs)
  /\ PipeInit /\ TreeInit /\ ZonesInit /\ FsckInit

MCNext ==
  /\ part' = part
  /\ \/ part = "pipes" /\ PipeNext /\ UNCHANGED <<tree_vars, zone_vars, fsck_vars>>
     \/ part = "tree" /\ TreeNext /\ UNCHANGED <<pipe_vars, zone_vars, fsck_vars>>
     \/ part = "zones" /\ ZonesNext /\ UNCHANGED <<pipe_vars, tree_vars, fsck_vars>>
     \/ part = "checker" /\ FsckNext /\ UNCHANGED <<pipe_vars, tree_vars, zone_vars>>

MCSpec == MCInit /\ [][MCNext]_fs_vars
=============================================================================
