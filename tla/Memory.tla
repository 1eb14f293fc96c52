------------------------------- MODULE Memory -------------------------------
(***************************************************************************)
(* What MM's core map promises: memory is a set of free clicks, and each   *)
(* process in use has an image, a run of clicks of its own.  FORK, EXEC    *)
(* and the end of a process are the only ones who change it.  An image is  *)
(* always placed as low in memory as it fits.                              *)
(***************************************************************************)
EXTENDS Naturals

CONSTANTS CLICKS,    \* the size of memory
          RESERVED,  \* the clicks at its start taken by MINIX and the RAM disk
          Sizes,     \* the sizes an image can have
          Slots,     \* the slots of MM's process table that FORK can fill
          NoImage    \* the image of a slot that is not in use

VARIABLES free,  \* the free clicks
          image  \* the image of each slot, [base, len]

Run(b, n)   == b .. b + n - 1
Places(S, n) == {b \in S : Run(b, n) \subseteq S}
Lowest(S)   == CHOOSE b \in S : \A c \in S : b <= c
Clicks(i)   == Run(i.base, i.len)

Init == /\ free = Run(RESERVED, CLICKS - RESERVED)
        /\ image = [p \in Slots |-> NoImage]

\* The new image of p is taken from the clicks of S.
Place(p, n, S) ==
  LET new == [base |-> Lowest(Places(S, n)), len |-> n]
  IN  /\ Places(S, n) # {}
      /\ image' = [image EXCEPT ![p] = new]
      /\ free' = S \ Clicks(new)

Fork(child, n) == image[child] = NoImage /\ Place(child, n, free)

\* The new image must fit beside the old one, but may then take its place.
Exec(p, n) == /\ image[p] # NoImage
              /\ Places(free, n) # {}
              /\ Place(p, n, free \cup Clicks(image[p]))

Exit(p) == /\ image[p] # NoImage
           /\ image' = [image EXCEPT ![p] = NoImage]
           /\ free' = free \cup Clicks(image[p])

Next == \E p \in Slots : Exit(p) \/ \E n \in Sizes : Fork(p, n) \/ Exec(p, n)

Spec == Init /\ [][Next]_<<free, image>>
=============================================================================
