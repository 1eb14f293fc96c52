------------------------------ MODULE MCDevices ------------------------------
(***************************************************************************)
(* The devices of one kernel in one run, and the cache in which FS keeps   *)
(* the blocks of the disks: terminal, screen, printer, diskette and cache  *)
(* share no state that the models keep, so one of them is driven at a time.*)
(***************************************************************************)
EXTENDS Tty, Screen, Printer, Floppy, BufCache

CONSTANTS Driven,  \* the devices of the run
          d1, d2   \* the disks of the cache; d2 has a file system

\* Two combinations that differ in all that a block's position hangs on.
SomeSectors == [d \in Densities |-> IF d = 0 THEN 2 ELSE 3]
SomeBlocks  == [d \in Densities |-> IF d = 0 THEN 8 ELSE 12]

TwoDevs  == {d1, d2}
OneDev   == {d1}
SomeMeta == {<<d2, 1>>}

\* Three blocks take turns in the cache, d2 having one only, and two are in use at a time,
\* or one twice.
FewBlocks == \A b \in Buf : KeyOf(cache, b) # <<d2, 2>>
FewUses   == \A b, c \in Buf : b # c => cache.count[b] + cache.count[c] <= MaxHeld

\* The transfers of one block fail, as often as they like.
FewFailures == Cardinality(cache.spoilt) <= 1

VARIABLE device

MCInit == /\ device \in Driven
          /\ TtyInit /\ ScreenInit /\ PrinterInit /\ FloppyInit /\ CacheInit

MCNext ==
  /\ device' = device
  /\ \/ device = "terminal" /\ TtyNext /\ UNCHANGED <<scr, prn, floppy_vars, cache>>
     \/ device = "screen" /\ ScreenNext /\ UNCHANGED <<tty_vars, prn, floppy_vars, cache>>
     \/ device = "printer" /\ PrinterNext /\ UNCHANGED <<tty_vars, scr, floppy_vars, cache>>
     \/ device = "diskette" /\ FloppyNext /\ UNCHANGED <<tty_vars, scr, prn, cache>>
     \/ device = "cache" /\ CacheNext /\ FewBlocks' /\ FewUses' /\ FewFailures'
          /\ UNCHANGED <<tty_vars, scr, prn, floppy_vars>>

MCSpec ==
  /\ MCInit /\ [][MCNext]_<<device, tty_vars, scr, prn, floppy_vars, cache>>
  /\ TtyFairness /\ PrinterFairness
=============================================================================
