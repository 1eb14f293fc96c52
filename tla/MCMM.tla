-------------------------------- MODULE MCMM --------------------------------
(***************************************************************************)
(* The two halves of the memory manager in one run, its process table and  *)
(* its core map; they share no state that the models keep.                 *)
(***************************************************************************)
EXTENDS MMProcs, Alloc

VARIABLE part

\* Alarms and terminals with two users, three users who only kill each other, and
\* two users under a superuser who kills all.
SomeSetups ==
  {[slots |-> 3, alarms |-> {3, 4}, terminals |-> {3, 4}, killall |-> FALSE],
   [slots |-> 4, alarms |-> {}, terminals |-> {}, killall |-> FALSE],
   [slots |-> 3, alarms |-> {}, terminals |-> {}, killall |-> TRUE]}

AlarmSetups == {[slots |-> 3, alarms |-> {3, 4}, terminals |-> {}, killall |-> FALSE]}

MCInit ==
  /\ part \in {"processes", "map"} /\ MMInit /\ AllocInit
  /\ part = "map" => setup = CHOOSE s \in Setups : TRUE

MCNext ==
  /\ part' = part
  /\ \/ part = "processes" /\ MMNext /\ UNCHANGED alloc_vars
     \/ part = "map" /\ AllocNext /\ UNCHANGED mm_vars

MCSpec ==
  /\ MCInit /\ [][MCNext]_<<part, mm_vars, alloc_vars>>
  /\ WF_mm_vars(part = "processes" /\ Wait(INIT_PROC_NR) /\ UNCHANGED <<part, setup, alloc_vars>>)
=============================================================================
