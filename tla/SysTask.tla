------------------------------- MODULE SysTask -------------------------------
(***************************************************************************)
(* The system task of the kernel (kernel/system.c): processes are created, *)
(* given a memory map, replaced by EXEC and destroyed at the request of    *)
(* MM, in a kernel (Proc) where every other process keeps calling and      *)
(* interrupts keep coming.                                                 *)
(*                                                                         *)
(* SYSTASK runs its loop (receive, work, reply) with interrupts enabled;   *)
(* its handlers are single actions, since an interrupt cannot take the CPU *)
(* from a task and touches only tasks that wait.  What FS asks for         *)
(* (sys_copy) and what only reads or fills in other fields (getsp, times,  *)
(* sig) changes none of the state here.                                    *)
(***************************************************************************)
EXTENDS Proc

CONSTANTS MaxDrift,   \* bound on how far fork may take sig_procs from the truth
          Unasked     \* tasks that also send to FS when it does not wait for them

ASSUME SysAssumption == MaxDrift \in Nat /\ Unasked \subseteq Task

VARIABLES sys_pc,   \* where SYSTASK is in its loop
          sys_if    \* the interrupt flag in SYSTASK's psw

sys_vars == <<vars, sys_pc, sys_if>>

INIT_NR == LOW_USER

\* MM and FS alone call SYSTASK, with BOTH, as they call every task; and no
\* task or server waits for a message of one user.
ServersCallSystem ==
  \A c \in Calls : c[2] < LOW_USER =>
    /\ c[3] = SYSTASK => c[1] = BOTH /\ c[2] \in {MM, FS}
    /\ c[1] = SEND /\ c[3] \in Task => c[2] \in Task
    /\ c[3] \in User => c[1] = SEND

Alive(k, p) == "P_SLOT_FREE" \notin k.flags[p]
\* The child between sys_fork() and sys_newmap(), if MM is in do_fork().
Unmapped == {p \in User : "NO_MAP" \in kern.flags[p]}

-----------------------------------------------------------------------------
(* The handlers, from one kernel state to the next. *)

\* Mutant: the child's flags are set instead of added to.
Forked_OnlyNoMap(k, k1, k2) ==
  [k EXCEPT !.flags[k2] = {"NO_MAP"}, !.getfrom[k2] = k.getfrom[k1], !.mess[k2] = k.mess[k1]]

\* do_fork() copies the whole slot, p_callerq and p_pending included.
Forked(k, k1, k2) ==
  [k EXCEPT !.flags[k2]   = k.flags[k1] \cup {"NO_MAP"},
            !.getfrom[k2] = k.getfrom[k1],
            !.callerq[k2] = k.callerq[k1],
            !.mess[k2]    = k.mess[k1],
            !.pending     = IF k1 \in @ THEN @ \cup {k2} ELSE @ \ {k2}]

\* do_newmap(): ready only if the map was what the process was missing.
Mapped(k, p) == IF k.flags[p] # {} THEN Deblock(k, p, "NO_MAP") ELSE k

Execed(k, p) == Deblock(k, p, "RECEIVING")

\* Mutant: a process killed while SENDING stays on the caller queue.
Exited_StillQueued(k, p) == [Unready(k, p) EXCEPT !.flags[p] = {"P_SLOT_FREE"}]

\* do_xit(): the process leaves the ready list and every caller queue.
Exited(k, p) ==
  [Unready(k, p) EXCEPT
     !.callerq = [d \in Proc |-> IF "SENDING" \in k.flags[p] THEN RemoveFirst(@[d], p)
                                                            ELSE @[d]],
     !.flags[p] = {"P_SLOT_FREE"}]

-----------------------------------------------------------------------------
SysInit == Init /\ sys_pc = "receive" /\ sys_if = TRUE

\* What the servers' code restricts: they reply to a process that waits for them
\* (a reply to one just killed fails, and changes nothing); MM does nothing but
\* call FS and SYSTASK while its do_fork() is under way.
ServerDoes(c) ==
  /\ c[1] = SEND /\ c[3] \in User => Served(c[2], c[3])
  /\ c[2] = MM /\ Unmapped # {} => c[1] = BOTH /\ c[3] \in {FS, SYSTASK}

\* What the tasks' code restricts: they answer who waits for the answer, except
\* TTY and the printer, which tell FS that a process can go on (REVIVE).
TaskDoes(c) ==
  c[1] # RECEIVE /\ c[2] \in Task \ Unasked => Waiting(kern, c[2], c[3])

\* Every process but SYSTASK, the clock and the terminal.
Others ==
  /\ \/ \E c \in Calls : c[2] # SYSTASK /\ ServerDoes(c) /\ TaskDoes(c) /\ SysCall(c[1], c[2], c[3])
     \/ \E p \in LOW_USER .. LAST_LIVE : kern.cur # SYSTASK /\ CauseSignal(p)
     \/ TakeLostTicks
     \/ Reschedule
  /\ UNCHANGED <<sys_pc, sys_if>>

\* An interrupt reaches a running SYSTASK only while its psw allows it.
SysInterrupt ==
  /\ kern.cur = SYSTASK => sys_if
  /\ \E t \in Devices : Interrupt(t)
  /\ UNCHANGED <<sys_pc, sys_if>>

Receive ==
  /\ sys_pc = "receive"
  /\ SysCall(RECEIVE, SYSTASK, ANY)
  /\ sys_pc' = "work"
  /\ UNCHANGED sys_if

\* SYSTASK, running, serves a request of MM, which waits for the reply.
Serving == /\ sys_pc = "work" /\ kern.cur = SYSTASK
           /\ kern.mess[SYSTASK] = MM

Then(k) == /\ kern' = k
           /\ sys_pc' = "reply"
           /\ UNCHANGED <<busy_map, lost_ticks>>

DoFork(k1, k2) ==
  /\ Serving /\ Unmapped = {}
  /\ Served(MM, k1)                    \* k1 has called FORK
  /\ k2 # INIT_NR /\ ~Alive(kern, k2)
  /\ Cardinality(Forked(kern, k1, k2).pending) - kern.sig_procs
       \in -MaxDrift .. MaxDrift
  /\ Then(Forked(kern, k1, k2))
  /\ UNCHANGED sys_if

DoNewMap(p) ==
  /\ Serving
  /\ IF Unmapped # {} THEN p \in Unmapped
                      ELSE Served(MM, p)   \* BRK, EXEC
  /\ Then(Mapped(kern, p))
  /\ UNCHANGED sys_if

DoExec(p) ==
  /\ Serving /\ Unmapped = {}
  /\ Served(MM, p)
  /\ Then(Execed(kern, p))
  /\ UNCHANGED sys_if

\* Any process but INIT can be killed in any state.  unready() returns without
\* restore() when it does not find the process on its list.
DoXit(p) ==
  /\ Serving /\ Unmapped = {}
  /\ p # INIT_NR /\ Alive(kern, p)
  /\ Then(Exited(kern, p))
  /\ sys_if' = (sys_if /\ kern.flags[p] = {})

\* do_copy() for FS or MM, do_getsp(), do_times(), do_sig().
DoOther ==
  /\ sys_pc = "work" /\ kern.cur = SYSTASK
  /\ sys_pc' = "reply"
  /\ UNCHANGED <<vars, sys_if>>

\* The reply goes to m.m_source.
Reply ==
  /\ sys_pc = "reply"
  /\ SysCall(SEND, SYSTASK, kern.mess[SYSTASK])
  /\ sys_pc' = "receive"
  /\ UNCHANGED sys_if

SysNext ==
  \/ Others
  \/ SysInterrupt
  \/ Receive
  \/ \E k1, k2 \in User : DoFork(k1, k2)
  \/ \E p \in User : DoNewMap(p) \/ DoExec(p) \/ DoXit(p)
  \/ DoOther
  \/ Reply

SysSpec == SysInit /\ [][SysNext]_sys_vars
-----------------------------------------------------------------------------
\* The type invariant.
SysTypeOK == /\ TypeOK
             /\ sys_pc \in {"receive", "work", "reply"}
             /\ sys_if \in BOOLEAN

\* A destroyed process leaves nothing behind in the message system: it is on no
\* caller queue, nobody is queued for it and nobody waits for it, so that its
\* slot can be given to a child; and what Proc says of the lists and queues
\* (ListsKept) stays true while slots are copied and destroyed.
FreeSlotsUnused ==
  SysTypeOK /\ ListsKept /\
  \A p \in User : ~Alive(kern, p) =>
    /\ kern.callerq[p] = <<>>
    /\ \A d \in Proc : p \notin ToSet(kern.callerq[d])
    /\ \A d \in Proc : Waiting(kern, p, d) => kern.getfrom[d] = ANY

\* A child does not run, and is sent nothing, before it has a memory map.
UnmappedHeld ==
  \A p \in Unmapped : "RECEIVING" \in kern.flags[p] /\ p \notin ToSet(kern.rdy[USER_Q])

\* Slots are clean when they are empty, and quiet until they can run.
SlotsKept == FreeSlotsUnused /\ UnmappedHeld

\* inform() composes its message in the buffer of SYSTASK's requests, but never
\* while a request is there that SYSTASK has not replied to; and the reply finds
\* the caller waiting, so that SYSTASK never blocks on it.  So it is if Unasked is
\* empty; with TTY in it, FS's request for a copy can be overwritten.
RequestIntact ==
  /\ sys_pc # "receive" /\ "RECEIVING" \notin kern.flags[SYSTASK]
       => kern.mess[SYSTASK] \in {MM, FS}
  /\ sys_pc = "reply" => Waiting(kern, SYSTASK, kern.mess[SYSTASK])
=============================================================================
