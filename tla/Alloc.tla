-------------------------------- MODULE Alloc --------------------------------
(***************************************************************************)
(* The core map of the memory manager (mm/alloc.c) and the calls that use  *)
(* it: do_fork() and cleanup() (mm/forkexit.c) and new_mem() (mm/exec.c).  *)
(*                                                                         *)
(* The list of holes is a sequence; what is not on it of the NR_HOLES      *)
(* table slots is on free_slots.  An image is the text, data, gap and      *)
(* stack of a process, which MM allocates and frees as one block.          *)
(***************************************************************************)
EXTENDS SequencesExt, Integers

CONSTANTS NR_HOLES,  \* entries in the hole table
          CLICKS,    \* the size of memory
          RESERVED,  \* the clicks at its start that do_brk2() allocates
          InitSize,  \* the size of INIT, which lies among them
          Sizes,     \* the sizes an image can be given by EXEC
          Slots,     \* the other slots of mproc
          INIT_SLOT, \* the slot of INIT
          NoImage

ASSUME AllocAssumption ==
  /\ CLICKS \in Nat /\ RESERVED \in 1 .. CLICKS - 1
  /\ Sizes \subseteq 1 .. CLICKS /\ InitSize \in Sizes
  /\ IsFiniteSet(Slots) /\ INIT_SLOT \notin Slots
  /\ NR_HOLES \in Nat /\ NR_HOLES >= Cardinality(Slots) + 2
  /\ NoImage \notin [base : Nat, len : Nat]

VARIABLES holes,  \* the holes from hole_head on, each [base, len]
          image   \* the image of every slot in use

alloc_vars == <<holes, image>>

Owners == {p \in Slots : image[p] # NoImage}
-----------------------------------------------------------------------------
(* alloc.c *)

\* The holes that are big enough.  Mutant: those that are bigger.
Enough_Bigger(h, n) == {i \in DOMAIN h : h[i].len > n}
Enough(h, n) == {i \in DOMAIN h : h[i].len >= n}

First(h, n) == CHOOSE i \in Enough(h, n) : \A j \in Enough(h, n) : i <= j

\* alloc_mem(), when it does not return NO_MEM.  The block is h[First].base.
alloc_mem(h, n) ==
  LET i == First(h, n)
  IN  IF h[i].len = n THEN RemoveAt(h, i)
      ELSE [h EXCEPT ![i] = [base |-> @.base + n, len |-> @.len - n]]

\* Entry i takes in its successor if that begins where it ends.
Absorb(h, i) ==
  IF i < Len(h) /\ h[i].base + h[i].len = h[i + 1].base
  THEN RemoveAt([h EXCEPT ![i].len = @ + h[i + 1].len], i + 1)
  ELSE h

\* Mutant: the second of the three holes is never compared with the third.
merge_Once(h, i) == Absorb(h, i)

\* merge() of the three holes that start at i.
merge(h, i) == LET g == Absorb(h, i)
               IN  IF g # h THEN Absorb(g, i) ELSE Absorb(h, i + 1)

\* free_mem(), with a slot left for the new entry.
free_mem(h, base, n) ==
  LET before == Cardinality({i \in DOMAIN h : h[i].base < base})
      new    == InsertAt(h, before + 1, [base |-> base, len |-> n])
  IN  merge(new, IF before = 0 THEN 1 ELSE before)

\* max_hole() is at least n.
max_hole_fits(h, n) == Enough(h, n) # {}
-----------------------------------------------------------------------------
(* The calls.  mem_init() makes all of memory one hole, and do_brk2() takes *)
(* from it what lies below INIT's children.                                    *)

AllocInit == /\ holes = alloc_mem(<<[base |-> 0, len |-> CLICKS]>>, RESERVED)
        /\ image = [p \in Slots |-> NoImage]

SizeOf(p) == IF p = INIT_SLOT THEN InitSize ELSE image[p].len

Give(p, h, n) ==
  /\ holes' = alloc_mem(h, n)
  /\ image' = [image EXCEPT ![p] = [base |-> h[First(h, n)].base, len |-> n]]

\* do_fork(): the child gets as much memory as its parent has.
ForkImage(parent, child) ==
  /\ parent \in Owners \cup {INIT_SLOT} /\ child \in Slots \ Owners
  /\ Enough(holes, SizeOf(parent)) # {}
  /\ Give(child, holes, SizeOf(parent))

\* new_mem(): the old image is freed once it is known that the new one fits.
ExecImage(p, n) ==
  /\ p \in Owners
  /\ max_hole_fits(holes, n)
  /\ Give(p, free_mem(holes, image[p].base, image[p].len), n)

\* Mutant: the block freed lacks the last click.
ExitImage_OneShort(p) ==
  /\ p \in Owners
  /\ holes' = free_mem(holes, image[p].base, image[p].len - 1)
  /\ image' = [image EXCEPT ![p] = NoImage]

\* cleanup(): the child's memory is released.
ExitImage(p) ==
  /\ p \in Owners
  /\ holes' = free_mem(holes, image[p].base, image[p].len)
  /\ image' = [image EXCEPT ![p] = NoImage]

AllocNext ==
  \/ \E parent \in Slots \cup {INIT_SLOT}, child \in Slots : ForkImage(parent, child)
  \/ \E p \in Slots, n \in Sizes : ExecImage(p, n)
  \/ \E p \in Slots : ExitImage(p)

AllocSpec == AllocInit /\ [][AllocNext]_alloc_vars
-----------------------------------------------------------------------------
Run(b, n) == b .. b + n - 1
HoleClicks(h) == UNION {Run(h[i].base, h[i].len) : i \in DOMAIN h}
Click == 0 .. CLICKS - 1

\* The type invariant.
AllocTypeOK ==
  /\ holes \in Seq([base : Click, len : 1 .. CLICKS])
  /\ image \in [Slots -> [base : Click, len : Sizes] \cup {NoImage}]

\* The holes are in the order of their addresses and no two of them touch:
\* merge() looks at three holes only, and that is enough.
Separate(h) == \A i, j \in DOMAIN h : i < j => h[i].base + h[i].len < h[j].base
HolesSeparate == AllocTypeOK /\ Separate(holes)

\* free_mem() never panics with "Hole table full": before a block is put back
\* there are at most as many holes as blocks and one more.
HoleSlotLeft == Len(holes) <= Cardinality(Owners) + 1

\* The hole list implements the set of free clicks: no click is lost and none has
\* two owners, memory is found whenever a large enough run of free clicks exists, and found at the lowest address.
Map == INSTANCE Memory WITH free <- HoleClicks(holes)
ImplementsMemory == Map!Spec
=============================================================================
