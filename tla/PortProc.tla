------------------------------ MODULE PortProc ------------------------------
(***************************************************************************)
(* The 65816 port's processes and messages (port/kernel/proc.c), entered   *)
(* from the vertical-blank interrupt and the BRK trap, with the clock task *)
(* (port/kernel/clock.c).                                                  *)
(*                                                                         *)
(* All of it runs with interrupts off, on the kernel's stack, so that each *)
(* of the two dispatchers is one action that ends in restart().  A kernel  *)
(* state is a record `k', as in Proc:                                      *)
(*   flags, getfrom   p_flags as a set of names, p_getfrom                 *)
(*   callerq          the list from p_callerq, linked by p_sendlink        *)
(*   rdy              the lists rdy_head[q] .. rdy_tail[q]                 *)
(*   cur, ptr         cur_proc, proc_ptr                                   *)
(* What a message says matters only for the clock: `tick' says that CLOCK  *)
(* was given a tick it has not yet looked at.                              *)
(***************************************************************************)
EXTENDS SequencesExt, Integers

CONSTANTS NR_TASKS,    \* number of tasks, HARDWARE included
          NR_PROCS,
          SCHED_RATE,  \* ticks between two rotations of TASK_Q
          Created,     \* the tasks that kmain() creates, in the order it does
          Calls        \* the <<function, caller, src_dest>> that are made

HARDWARE == -1
CLOCK    == -NR_TASKS
ANY      == NR_PROCS + 100
IDLE     == -999
NONE     == 0

TASK_Q   == 1
SERVER_Q == 2
USER_Q   == 3

Queue    == {TASK_Q, SERVER_Q, USER_Q}

Proc == (-NR_TASKS) .. NR_PROCS - 1
Flag == {"P_SLOT_FREE", "SENDING", "RECEIVING"}

ASSUME PortAssumption ==
  /\ NR_TASKS \in 2 .. 998 /\ NR_PROCS \in Nat \ {0} /\ SCHED_RATE \in Nat \ {0}
  /\ Created \in Seq(Proc \ {HARDWARE}) /\ IsInjective(Created) /\ CLOCK \in ToSet(Created)
  /\ Calls \subseteq {"SEND", "RECEIVE"} \X ToSet(Created) \X (Proc \cup {ANY})
  /\ \A c \in Calls : c[1] = "SEND" => c[3] # ANY /\ c[3] # c[2]

VARIABLES kern, sched_ticks,
          tick    \* CLOCK has a tick in its message buffer

vars == <<kern, sched_ticks, tick>>
-----------------------------------------------------------------------------
QueueOf(p) == IF p < 0 THEN TASK_Q ELSE IF p < NR_PROCS THEN SERVER_Q ELSE USER_Q

PickProc(k) ==
  LET q == IF k.rdy[TASK_Q] # <<>> THEN TASK_Q
           ELSE IF k.rdy[SERVER_Q] # <<>> THEN SERVER_Q ELSE USER_Q
  IN  IF k.rdy[q] # <<>> THEN [k EXCEPT !.cur = Head(k.rdy[q]), !.ptr = Head(k.rdy[q])]
                         ELSE [k EXCEPT !.cur = IDLE, !.ptr = HARDWARE]

Ready(k, p) == [k EXCEPT !.rdy[QueueOf(p)] = Append(@, p)]

Unready(k, p) ==
  LET q == QueueOf(p)
      r == [k EXCEPT !.rdy[q] = RemoveFirst(@, p)]
  IN  IF k.rdy[q] # <<>> /\ Head(k.rdy[q]) = p THEN PickProc(r) ELSE r

\* Mutant: sched() as in MINIX, which rotates only the user queue.
Sched_Users(k) ==
  PickProc(IF Len(k.rdy[USER_Q]) < 2 THEN k
           ELSE [k EXCEPT !.rdy[USER_Q] = Append(Tail(@), Head(@))])

\* The head of TASK_Q, the running task or one that was readied, goes to its tail.
Sched(k) ==
  PickProc(IF Len(k.rdy[TASK_Q]) < 2 THEN k
           ELSE [k EXCEPT !.rdy[TASK_Q] = Append(Tail(@), Head(@))])

Deblock(k, p, f) ==
  LET r == [k EXCEPT !.flags[p] = @ \ {f}]
  IN  IF r.flags[p] = {} THEN Ready(r, p) ELSE r

Waiting(k, c, d) == "RECEIVING" \in k.flags[d] /\ k.getfrom[d] \in {ANY, c}

\* mini_send(), but for its errors.
MiniSend(k, c, d) ==
  IF Waiting(k, c, d) THEN Deblock(k, d, "RECEIVING")
  ELSE [Unready([k EXCEPT !.flags[c] = @ \cup {"SENDING"}], c)
          EXCEPT !.callerq[d] = Append(@, c)]

SendFails(k, c, d) ==
  "P_SLOT_FREE" \in k.flags[d] \/ (c = HARDWARE /\ ~Waiting(k, c, d))

\* Mutant: only the first sender is looked at.
Accepted_First(k, c, s) == {i \in DOMAIN k.callerq[c] : i = 1 /\ s \in {ANY, k.callerq[c][i]}}
\* The places in c's caller queue where a message from s waits.
Accepted(k, c, s) == {i \in DOMAIN k.callerq[c] : s \in {ANY, k.callerq[c][i]}}

MiniRec(k, c, s) ==
  IF Accepted(k, c, s) # {}
  THEN LET i == CHOOSE x \in Accepted(k, c, s) : \A y \in Accepted(k, c, s) : x <= y
       IN  [Deblock(k, k.callerq[c][i], "SENDING") EXCEPT !.callerq[c] = RemoveAt(@, i)]
  ELSE Unready([k EXCEPT !.getfrom[c] = s, !.flags[c] = @ \cup {"RECEIVING"}], c)
-----------------------------------------------------------------------------
\* The created tasks of a class in the order in which they were made ready.
ReadyOrders(q) ==
  LET S == {p \in ToSet(Created) : QueueOf(p) = q}
  IN  {o \in [1 .. Cardinality(S) -> S] :
         /\ ToSet(o) = S
         /\ \A i, j \in DOMAIN o : i < j =>
              \E a, b \in DOMAIN Created : a < b /\ Created[a] = o[i] /\ Created[b] = o[j]}

\* proc_init(), then kmain() creates and readies its tasks and starts the first.
Init ==
  /\ \E t \in ReadyOrders(TASK_Q), s \in ReadyOrders(SERVER_Q), u \in ReadyOrders(USER_Q) :
       kern = PickProc(
         [flags   |-> [p \in Proc |-> IF p \in ToSet(Created) THEN {} ELSE {"P_SLOT_FREE"}],
          getfrom |-> [p \in Proc |-> NONE],
          callerq |-> [p \in Proc |-> <<>>],
          rdy     |-> <<t, s, u>>,
          cur     |-> IDLE,
          ptr     |-> HARDWARE])
  /\ sched_ticks = SCHED_RATE
  /\ tick = FALSE

\* Mutant: a new pick only when the tasks are rotated.
irq_dispatch_NoPick ==
  LET sent == ~SendFails(kern, HARDWARE, CLOCK)
      k    == IF sent THEN MiniSend(kern, HARDWARE, CLOCK) ELSE kern
  IN  /\ tick' = (tick \/ sent)
      /\ IF sched_ticks = 1 THEN sched_ticks' = SCHED_RATE /\ kern' = Sched(k)
                            ELSE sched_ticks' = sched_ticks - 1 /\ kern' = k

\* irq_dispatch(); what mini_send() returns is not looked at.
irq_dispatch ==
  LET sent == ~SendFails(kern, HARDWARE, CLOCK)
      k    == IF sent THEN MiniSend(kern, HARDWARE, CLOCK) ELSE kern
  IN  /\ tick' = (tick \/ sent)
      /\ IF sched_ticks = 1 THEN sched_ticks' = SCHED_RATE /\ kern' = Sched(k)
                            ELSE sched_ticks' = sched_ticks - 1 /\ kern' = PickProc(k)

\* brk_dispatch(): the trap of the running process.  One that is refused only
\* returns an error.
brk_dispatch(fn, c, sd) ==
  /\ kern.cur = c
  /\ c = CLOCK => ~tick
  /\ fn = "SEND" => ~SendFails(kern, c, sd)
  /\ kern' = IF fn = "RECEIVE" THEN MiniRec(kern, c, sd) ELSE MiniSend(kern, c, sd)
  /\ UNCHANGED <<sched_ticks, tick>>

\* The clock task comes back from recv() with a tick and counts it.
CountTick ==
  /\ kern.cur = CLOCK /\ tick
  /\ tick' = FALSE
  /\ UNCHANGED <<kern, sched_ticks>>

Traps(p) == \E c \in Calls : c[2] = p /\ brk_dispatch(c[1], c[2], c[3])

Next == irq_dispatch \/ CountTick \/ \E p \in ToSet(Created) : Traps(p)

(***************************************************************************)
(* The interrupt keeps coming, and CLOCK, when it gets the CPU again and   *)
(* again, gets on with its loop.  The other tasks owe nobody anything.     *)
(***************************************************************************)
Spec == /\ Init /\ [][Next]_vars
        /\ WF_vars(irq_dispatch)
        /\ SF_vars(CountTick) /\ SF_vars(Traps(CLOCK))
-----------------------------------------------------------------------------
Kernel == [flags   : [Proc -> SUBSET Flag],
           getfrom : [Proc -> Proc \cup {ANY}],
           callerq : [Proc -> Seq(Proc)],
           rdy     : [Queue -> Seq(Proc)],
           cur     : Proc \cup {IDLE},
           ptr     : Proc]

\* The type invariant.
TypeOK == /\ kern \in Kernel
          /\ sched_ticks \in 1 .. SCHED_RATE
          /\ tick \in BOOLEAN

\* "A process is runnable iff p_flags == 0" (proc.h): exactly the processes whose
\* flags are 0 are on a ready list, on the one of their class and once.
Listed(k) ==
  \A q \in Queue : /\ IsInjective(k.rdy[q])
                   /\ ToSet(k.rdy[q]) = {p \in Proc : QueueOf(p) = q /\ k.flags[p] = {}}

\* The running process heads its ready list, or the machine idles.
AtHead(k) ==
  IF k.cur = IDLE THEN k.ptr = HARDWARE
  ELSE /\ k.ptr = k.cur
       /\ k.rdy[QueueOf(k.cur)] # <<>> /\ Head(k.rdy[QueueOf(k.cur)]) = k.cur

\* "proc_ptr MUST point at the running process whenever the CPU is in process
\* code" (proc.h), and that process may run: after every dispatcher it is the
\* head of its ready list, or the machine idles and nobody can run.
RunnerPicked ==
  /\ TypeOK /\ Listed(kern) /\ AtHead(kern)
  /\ kern.cur = IDLE => \A p \in Proc : kern.flags[p] # {}

\* A task that can run gets its turn, round robin (a server may wait for ever
\* behind tasks that never block), and a tick that CLOCK has been given is counted:
\* neither rotations nor tasks that never block keep a task from the CPU.
EveryTaskRuns ==
  /\ tick ~> ~tick
  /\ \A p \in {t \in ToSet(Created) : QueueOf(t) = TASK_Q} :
       (kern.flags[p] = {}) ~> (kern.cur = p \/ kern.flags[p] # {})

(***************************************************************************)
(* The port implements the same rendezvous as the MINIX kernel.            *)
(***************************************************************************)
BlockedOn(p) == IF "SENDING" \in kern.flags[p]
                THEN CHOOSE d \in Proc : p \in ToSet(kern.callerq[d]) ELSE IDLE
WaitsFor(p)  == IF "RECEIVING" \in kern.flags[p] THEN kern.getfrom[p] ELSE IDLE

IPC == INSTANCE Rendezvous WITH Nobody  <- IDLE,
                                HW      <- HARDWARE,
                                sending <- [p \in Proc |-> BlockedOn(p)],
                                wanting <- [p \in Proc |-> WaitsFor(p)]
ImplementsRendezvous == IPC!Spec
=============================================================================
