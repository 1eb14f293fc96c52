-------------------------------- MODULE Proc --------------------------------
(***************************************************************************)
(* The process and message core of the MINIX 1.2 kernel: kernel/proc.c     *)
(* (interrupt, sys_call, mini_send, mini_rec, pick_proc, ready, unready,   *)
(* sched), and cause_sig() and inform() of kernel/system.c, which          *)
(* mini_rec() calls.                                                       *)
(*                                                                         *)
(* All of proc.c runs with interrupts off (a trap or an interrupt clears   *)
(* IF; ready(), unready() and sched() lock()), so each entry point is one  *)
(* action.  So is cause_sig(): the task that calls it can be interrupted,  *)
(* but an interrupt then touches only tasks that wait and busy_map.        *)
(* The kernel's procedures call each other, so they are operators from one *)
(* kernel state to the next, and a kernel state is a record `k`:           *)
(*   flags     p_flags, as a set of flag names                             *)
(*   getfrom   p_getfrom                                                   *)
(*   callerq   the list that starts at p_callerq, linked by p_sendlink     *)
(*   mess      what is in the buffer p_messbuf points at, abstracted to    *)
(*             the process that composed it                                *)
(*   rdy       the three lists rdy_head[q] .. rdy_tail[q]                  *)
(*   cur, prev, bill        cur_proc, prev_proc, bill_ptr                  *)
(*   pending, sig_procs     the processes with p_pending # 0, their count  *)
(* RET_REG, the segment maps and the address checks on them are left out.  *)
(***************************************************************************)
EXTENDS SequencesExt, Integers

CONSTANTS NR_TASKS,   \* number of tasks, HARDWARE included
          NR_PROCS,   \* number of slots for MM, FS and the user processes
          LAST_LIVE,  \* the last user slot in use at the start
          Calls,      \* the <<function, caller, src_dest>> that are made
          Devices,    \* the tasks that have interrupts
          MaxLost     \* bound on lost_ticks

MM       == 0
FS       == 1
LOW_USER == 2
HARDWARE == -1
SYSTASK  == -2
CLOCK    == -3
ANY      == NR_PROCS + 100
IDLE     == -999
NOBODY   == IDLE   \* not a process

TASK_Q   == 1
SERVER_Q == 2
USER_Q   == 3
Queue    == {TASK_Q, SERVER_Q, USER_Q}

Task   == (-NR_TASKS) .. -1
Slot   == 0 .. NR_PROCS - 1
Proc   == Task \cup Slot
Live   == Task \cup (0 .. LAST_LIVE)
User   == LOW_USER .. NR_PROCS - 1
Source == Proc \cup {ANY}
Flag   == {"P_SLOT_FREE", "NO_MAP", "SENDING", "RECEIVING"}

(***************************************************************************)
(* A user process may put anything in its call, since sys_call() and       *)
(* mini_send() check it.  "Calls from the tasks, MM, and FS are trusted"   *)
(* (mini_rec): they name a process, never themselves or HARDWARE, as a     *)
(* destination.                                                            *)
(***************************************************************************)
SEND    == "SEND"
RECEIVE == "RECEIVE"
BOTH    == "BOTH"
TrustedCall(c) == /\ c[2] # c[3]
                  /\ c[1] # RECEIVE => c[3] \in Proc \ {HARDWARE}

ASSUME ConstantAssumption ==
  /\ NR_TASKS \in 3 .. 99 /\ NR_PROCS \in Nat /\ NR_PROCS > LOW_USER
  /\ LAST_LIVE \in LOW_USER .. NR_PROCS - 1
  /\ MaxLost \in Nat
  /\ CLOCK \in Devices /\ Devices \subseteq Task \ {HARDWARE, SYSTASK}
  /\ Calls \subseteq {SEND, RECEIVE, BOTH} \X (Proc \ {HARDWARE}) \X Source
  /\ \A c \in Calls : c[2] < LOW_USER => TrustedCall(c)

VARIABLES kern,       \* the process table, the ready lists and cur_proc
          busy_map,   \* tasks with an interrupt message pending
          lost_ticks  \* clock interrupts CLOCK was not waiting for

vars == <<kern, busy_map, lost_ticks>>
-----------------------------------------------------------------------------
(* Scheduling. *)

QueueOf(p) == IF p < 0 THEN TASK_Q ELSE IF p < LOW_USER THEN SERVER_Q ELSE USER_Q

\* The head of the highest-priority list that is not empty, or IDLE.
Highest(k) == IF k.rdy[TASK_Q] # <<>> THEN Head(k.rdy[TASK_Q])
              ELSE IF k.rdy[SERVER_Q] # <<>> THEN Head(k.rdy[SERVER_Q])
              ELSE IF k.rdy[USER_Q] # <<>> THEN Head(k.rdy[USER_Q])
              ELSE IDLE

PickProc(k) ==
  LET p == Highest(k)
  IN  [k EXCEPT !.prev = k.cur,
                !.cur  = p,
                !.bill = IF p = IDLE THEN HARDWARE
                         ELSE IF p >= LOW_USER THEN p ELSE k.bill]

Ready(k, p) == [k EXCEPT !.rdy[QueueOf(p)] = Append(@, p)]

\* Only the removal of a list's head picks another process.
Unready(k, p) ==
  LET q == QueueOf(p)
      r == [k EXCEPT !.rdy[q] = RemoveFirst(@, p)]
  IN  IF k.rdy[q] # <<>> /\ Head(k.rdy[q]) = p THEN PickProc(r) ELSE r

\* A process gets a flag that keeps it from running.
Block(k, p, f) == Unready([k EXCEPT !.flags[p] = @ \cup {f}], p)

Sched(k) ==
  IF k.rdy[USER_Q] = <<>> THEN k
  ELSE PickProc([k EXCEPT !.rdy[USER_Q] = Append(Tail(@), Head(@))])
-----------------------------------------------------------------------------
(* Messages. *)

\* `d' is blocked waiting for a message that `c' may send.
Waiting(k, c, d) == "RECEIVING" \in k.flags[d] /\ k.getfrom[d] \in {c, ANY}

\* p's request has been received and p waits for the reply of server s.
Served(s, p) == kern.flags[p] = {"RECEIVING"} /\ kern.getfrom[p] = s

\* Mutant: readied without looking at the other flags.
Deblock_Always(k, p, f) == Ready([k EXCEPT !.flags[p] = @ \ {f}], p)

\* p_flags loses f; a process whose flags become 0 is readied.
Deblock(k, p, f) ==
  LET r == [k EXCEPT !.flags[p] = @ \ {f}]
  IN  IF r.flags[p] = {} THEN Ready(r, p) ELSE r

SendFails(k, c, d) ==
  \/ c >= LOW_USER /\ d \notin {FS, MM}
  \/ "P_SLOT_FREE" \in k.flags[d]
  \/ c = HARDWARE /\ ~Waiting(k, c, d)

\* mini_send() when it does not fail.
MiniSend(k, c, d) ==
  IF Waiting(k, c, d)
  THEN Deblock([k EXCEPT !.mess[d] = k.mess[c]], d, "RECEIVING")
  ELSE [Block(k, c, "SENDING") EXCEPT !.callerq[d] = Append(@, c)]

\* Mutant: MM is told although it waits for somebody in particular.
Inform_AnySource(k) ==
  IF "RECEIVING" \in k.flags[MM] /\ k.pending # {}
  THEN LET p == CHOOSE x \in k.pending : \A y \in k.pending : x <= y
       IN  [MiniSend(k, HARDWARE, MM) EXCEPT !.sig_procs = @ - 1,
                                             !.pending = @ \ {p},
                                             !.mess[SYSTASK] = HARDWARE]
  ELSE k

\* inform() composes the KSIG message in `m', the buffer SYSTASK receives in.
Inform(k) ==
  IF Waiting(k, HARDWARE, MM) /\ k.getfrom[MM] = ANY /\ k.pending # {}
  THEN LET p == CHOOSE x \in k.pending : \A y \in k.pending : x <= y
       IN  [MiniSend(k, HARDWARE, MM) EXCEPT !.sig_procs = @ - 1,
                                             !.pending = @ \ {p},
                                             !.mess[SYSTASK] = HARDWARE]
  ELSE k

CauseSig(k, p) ==
  Inform([k EXCEPT !.sig_procs = IF p \in k.pending THEN @ ELSE @ + 1,
                   !.pending = @ \cup {p}])

\* Mutant: only the head of the queue is looked at.
Found_HeadOnly(k, c, s) ==
  {i \in DOMAIN k.callerq[c] : i = 1 /\ s \in {ANY, k.callerq[c][i]}}

\* Where in its caller queue `c' finds a message from `s'.
Found(k, c, s) == {i \in DOMAIN k.callerq[c] : s \in {ANY, k.callerq[c][i]}}

\* Mutant: a blocking MM is not told of signals.
MiniRec_NoInform(k, c, s) ==
  IF Found(k, c, s) # {}
  THEN LET i == CHOOSE x \in Found(k, c, s) : \A y \in Found(k, c, s) : x <= y
           w == k.callerq[c][i]
       IN  [Deblock([k EXCEPT !.mess[c] = k.mess[w]], w, "SENDING")
              EXCEPT !.callerq[c] = RemoveAt(@, i)]
  ELSE Block([k EXCEPT !.getfrom[c] = s], c, "RECEIVING")

MiniRec(k, c, s) ==
  IF Found(k, c, s) # {}
  THEN LET i == CHOOSE x \in Found(k, c, s) : \A y \in Found(k, c, s) : x <= y
           w == k.callerq[c][i]
       IN  [Deblock([k EXCEPT !.mess[c] = k.mess[w]], w, "SENDING")
              EXCEPT !.callerq[c] = RemoveAt(@, i)]
  ELSE LET r == Block([k EXCEPT !.getfrom[c] = s], c, "RECEIVING")
       IN  IF r.sig_procs > 0 /\ c = MM /\ s = ANY THEN Inform(r) ELSE r


\* sys_call() with parameters it accepts.  A caller that sends has just
\* composed the message in its buffer.
SysCallResult(k, fn, c, sd) ==
  LET own == [k EXCEPT !.mess[c] = c]
  IN  CASE fn = SEND    -> MiniSend(own, c, sd)
        [] fn = RECEIVE -> MiniRec(k, c, sd)
        [] fn = BOTH    -> MiniRec(MiniSend(own, c, sd), c, sd)
-----------------------------------------------------------------------------
(***************************************************************************)
(* main() of kernel/main.c readies every task but HARDWARE, then MM, FS    *)
(* and INIT, in the order of their numbers; LAST_LIVE > LOW_USER adds the  *)
(* children INIT has forked.  cur_proc and prev_proc start as 0.           *)
(***************************************************************************)
Numbers(from, to) == [i \in 1 .. to - from + 1 |-> from + i - 1]

Init ==
  /\ kern = PickProc(
       [flags     |-> [p \in Proc |-> IF p \in Live THEN {} ELSE {"P_SLOT_FREE"}],
        getfrom   |-> [p \in Proc |-> ANY],
        callerq   |-> [p \in Proc |-> <<>>],
        mess      |-> [p \in Proc |-> p],
        rdy       |-> <<Numbers(-NR_TASKS, HARDWARE - 1), Numbers(MM, FS),
                        Numbers(LOW_USER, LAST_LIVE)>>,
        cur       |-> 0,
        prev      |-> 0,
        bill      |-> HARDWARE,
        pending   |-> {},
        sig_procs |-> 0])
  /\ busy_map = {}
  /\ lost_ticks = 0

\* A trap of the running process that sys_call() and mini_send() accept; one
\* they refuse only sets RET_REG.
SysCall(fn, c, sd) ==
  /\ kern.cur = c
  /\ fn # BOTH => c < LOW_USER                          \* E_NO_PERM
  /\ fn # RECEIVE => sd # ANY /\ ~SendFails(kern, c, sd)
  /\ kern' = SysCallResult(kern, fn, c, sd)
  /\ UNCHANGED <<busy_map, lost_ticks>>

\* Mutant: the scan stops one task early.
Woken_OffByOne(k, busy) ==
  {t \in busy : -t \in 2 .. NR_TASKS - 1 /\ ~SendFails(k, HARDWARE, t)}

\* The busy tasks that interrupt() finds listening, from 2 to NR_TASKS.
Woken(k, busy) == {t \in busy : -t \in 2 .. NR_TASKS /\ ~SendFails(k, HARDWARE, t)}

\* All tasks of S get their interrupt message; `order' lists those it readies.
SendPending(k, S, order) ==
  [k EXCEPT !.flags = [p \in Proc |-> IF p \in S THEN @[p] \ {"RECEIVING"} ELSE @[p]],
            !.mess  = [p \in Proc |-> IF p \in S THEN HARDWARE ELSE @[p]],
            !.rdy[TASK_Q] = @ \o order]

\* The order in which the scan readies a set of tasks.
ScanOrders(S) ==
  {o \in [1 .. Cardinality(S) -> S] :
     /\ ToSet(o) = S
     /\ \A i, j \in DOMAIN o : i < j => o[i] > o[j]}

\* Mutant: an idle machine, cur_proc = -999, is taken for a task.
Preempt_NotIdle(k) == IF k.rdy[TASK_Q] # <<>> /\ k.cur >= 0 THEN PickProc(k) ELSE k

\* "If a task has just been readied and a user is running, run the task."
Preempt(k) ==
  IF k.rdy[TASK_Q] # <<>> /\ (k.cur >= 0 \/ k.cur = IDLE) THEN PickProc(k) ELSE k

(***************************************************************************)
(* An interrupt for task t.  If t is not waiting, its message is recorded  *)
(* in busy_map (a clock tick is counted instead) and only the tasks that   *)
(* were busy before are tried again; else t's bit is cleared first.        *)
(***************************************************************************)
Interrupt(t) ==
  LET sent  == ~SendFails(kern, HARDWARE, t)
      k     == IF sent THEN MiniSend(kern, HARDWARE, t) ELSE kern
      old   == IF sent THEN busy_map \ {t} ELSE busy_map
      woken == Woken(k, old)
  IN  /\ busy_map' = (IF sent \/ t = CLOCK THEN old ELSE busy_map \cup {t}) \ woken
      /\ IF ~sent /\ t = CLOCK
         THEN lost_ticks < MaxLost /\ lost_ticks' = lost_ticks + 1
         ELSE UNCHANGED lost_ticks
      /\ \E order \in ScanOrders({i \in woken : k.flags[i] = {"RECEIVING"}}) :
           kern' = Preempt(SendPending(k, woken, order))

\* A running task (CLOCK for SIGALRM, TTY for DEL) calls cause_sig() for a user.
CauseSignal(p) ==
  /\ kern.cur \in Task
  /\ kern' = CauseSig(kern, p)
  /\ UNCHANGED <<busy_map, lost_ticks>>


\* do_clocktick() of kernel/clock.c takes the lost ticks, and may call sched().
TakeLostTicks ==
  /\ kern.cur = CLOCK
  /\ lost_ticks' = 0
  /\ UNCHANGED <<kern, busy_map>>

Reschedule ==
  /\ kern.cur = CLOCK
  /\ kern' = Sched(kern)
  /\ UNCHANGED <<busy_map, lost_ticks>>

Next ==
  \/ \E c \in Calls : SysCall(c[1], c[2], c[3])
  \/ \E t \in Devices : Interrupt(t)
  \/ \E p \in LOW_USER .. LAST_LIVE : CauseSignal(p)
  \/ TakeLostTicks
  \/ Reschedule

Spec == Init /\ [][Next]_vars
-----------------------------------------------------------------------------
Kernel == [flags     : [Proc -> SUBSET Flag],
           getfrom   : [Proc -> Source],
           callerq   : [Proc -> Seq(Proc)],
           mess      : [Proc -> Proc],
           rdy       : [Queue -> Seq(Proc)],
           cur       : Proc \cup {IDLE},
           prev      : Proc \cup {IDLE},
           bill      : Proc,
           pending   : SUBSET Slot,
           sig_procs : Int]

\* The type invariant.
TypeOK == /\ kern \in Kernel
          /\ busy_map \in SUBSET Task
          /\ lost_ticks \in 0 .. MaxLost

\* "A process is runnable iff p_flags == 0" (proc.h): a process is on the list
\* of its own class exactly when its flags are 0, once, and on no other list,
\* whatever sequence of sends, receives and interrupts blocked and freed it.
Listed(k) ==
  /\ \A q \in Queue : IsInjective(k.rdy[q])
  /\ \A q \in Queue, p \in Proc :
       p \in ToSet(k.rdy[q]) <=> q = QueueOf(p) /\ k.flags[p] = {} /\ p # HARDWARE
ReadyLists == Listed(kern)

\* A process is on a caller queue exactly while it is SENDING, on one queue
\* only and once: mini_rec() and mini_send() agree on who is queued.
Queued(k) ==
  /\ \A d \in Proc : IsInjective(k.callerq[d])
  /\ \A p, d, e \in Proc :
       p \in ToSet(k.callerq[d]) /\ p \in ToSet(k.callerq[e]) => d = e
  /\ \A p \in Proc :
       "SENDING" \in k.flags[p] <=> \E d \in Proc : p \in ToSet(k.callerq[d])
CallerQueues == Queued(kern)

\* No rendezvous is missed: a process blocked in mini_rec() never has a sender
\* it would accept on its caller queue (either side looks for the other first).
Matched(k) == \A d \in Proc : \A p \in ToSet(k.callerq[d]) : ~Waiting(k, p, d)
NoMissedMatch == Matched(kern)

\* The running process is the head of its list, which is what lets unready()
\* and sched() tell that they move the running process.
AtHead(k) ==
  k.cur # IDLE => /\ k.rdy[QueueOf(k.cur)] # <<>>
                  /\ Head(k.rdy[QueueOf(k.cur)]) = k.cur
RunningIsHead == AtHead(kern)

\* The three together, which the procedures need of each other: ready() may only
\* be called for who is on no list, and unready() picks only if it moves the head.
ListsKept == TypeOK /\ ReadyLists /\ CallerQueues /\ RunningIsHead

\* The process a task freed when the task's own message was received by a BOTH
\* that had queued its caller on that task: the caller's buffer holds it (or, in
\* SYSTASK's case, the message inform() has composed there since).
CalledBack(k, t) ==
  \E p \in ToSet(k.callerq[t]) : k.mess[p] = t \/ (t = SYSTASK /\ k.mess[p] = HARDWARE)

\* Nobody runs, or idles, in the place of a process of a higher class, though
\* ready() itself never preempts: interrupt(), unready() and the order of
\* mini_send() and mini_rec() see to it.  There are two exceptions, in which
\* mini_rec() readies a process after it has blocked its caller, when unready()
\* has already picked the next one; nothing picks again before an interrupt:
\* CalledBack, and inform(), after which the machine may idle with MM ready.
PriorityKept ==
  /\ kern.cur >= LOW_USER \/ kern.cur = IDLE =>
       \A t \in ToSet(kern.rdy[TASK_Q]) : CalledBack(kern, t)
  /\ kern.cur = IDLE =>
       \A p \in Proc \ {HARDWARE, MM} : kern.flags[p] = {} => CalledBack(kern, p)

\* Requests go one way, from users to MM and FS, from MM to FS and from both to
\* tasks: no two processes call each other with BOTH, once FS has reported its
\* size to MM at initialization (fs/main.c).
OneWay == \A c \in Calls : c[1] = BOTH => <<BOTH, c[3], c[2]>> \notin Calls

\* While MM waits for any message no signal is pending: cause_sig() tells MM at
\* once and mini_rec() tells it of the rest when it next blocks.
SignalsReachMM == Waiting(kern, HARDWARE, MM) /\ kern.getfrom[MM] = ANY => kern.pending = {}

\* sig_procs counts the processes with p_pending # 0 (glo.h).
SigProcsCounts == kern.sig_procs = Cardinality(kern.pending)

\* After an interrupt no task that was busy before it is both still busy and
\* waiting for its message: "see if any tasks that were previously busy are
\* now listening" leaves none behind.
BusyTasksServed ==
  [][\A t \in Devices : Interrupt(t) =>
       \A i \in busy_map' : ~Waiting(kern', HARDWARE, i)]_vars

\* mini_send() queues a caller that must wait; the message it will deliver is
\* the one the caller composed.  The code violates this for BOTH, whose one
\* buffer is also the buffer the reply is received in.
QueuedMessageIntact ==
  \A p \in Proc : "SENDING" \in kern.flags[p] => kern.mess[p] = p

(***************************************************************************)
(* The kernel implements Rendezvous: who is blocked on whom changes as its *)
(* actions say, whatever the queues and the scheduler do.                  *)
(***************************************************************************)
BlockedOn(p) == IF "SENDING" \in kern.flags[p]
                THEN CHOOSE d \in Proc : p \in ToSet(kern.callerq[d]) ELSE NOBODY
WaitsFor(p)  == IF "RECEIVING" \in kern.flags[p] THEN kern.getfrom[p] ELSE NOBODY

IPC == INSTANCE Rendezvous WITH Nobody  <- NOBODY,
                                HW      <- HARDWARE,
                                sending <- [p \in Proc |-> BlockedOn(p)],
                                wanting <- [p \in Proc |-> WaitsFor(p)]
ImplementsRendezvous == IPC!Spec
=============================================================================
