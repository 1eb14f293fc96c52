------------------------------- MODULE MMProcs -------------------------------
(***************************************************************************)
(* The process table of the memory manager: fork, exit and wait            *)
(* (mm/forkexit.c), signals, alarms and pause (mm/signal.c), and the       *)
(* replies of its main loop (mm/main.c).                                   *)
(*                                                                         *)
(* MM takes one message and does the whole call, so a call is one action.  *)
(* Its procedures are operators from one state `m' to the next:            *)
(*   flags[p]   mp_flags, as a set of flag names                           *)
(*   parent[p]  mp_parent                                                  *)
(*   where[p]   the process as the kernel has it: it "runs", is blocked in *)
(*              a call of "mm" or of "fs", or is "free"                    *)
(*   timer      the processes whose p_alarm is set in the kernel           *)
(*   pend[p]    p_pending, the signals that MM has not been told of        *)
(*   procs_in_use                                                          *)
(*   misfits    the processes that got a reply of MM while in no call of   *)
(*              it; HARDWARE, if MM sent to that                           *)
(*   twice      has a process been told to FS as dead twice?               *)
(* A process whose message MM has not yet received counts as running: if   *)
(* it is killed first the kernel drops the message.  FS answers in its own *)
(* time, so what it does about UNPAUSE is among its answers.  Pids, users  *)
(* and groups are in the choice of who gets a signal, and the signals that *)
(* processes catch and ignore in what it does to each.                     *)
(***************************************************************************)
EXTENDS FiniteSetsExt, Integers

CONSTANTS NR_PROCS,
          Setups,      \* what the system is used for, see Setup
          BeforeTable  \* do the bytes before mproc[0] look like a slot in use?

HARDWARE == -1
MM_PROC_NR == 0   \* the parent of INIT, and in free slots of nobody
INIT_PROC_NR == 2
User  == INIT_PROC_NR + 1 .. NR_PROCS - 1
Proc  == INIT_PROC_NR .. NR_PROCS - 1
Flag  == {"IN_USE", "WAITING", "HANGING", "PAUSED", "ALARM_ON"}
Signal == {"SIGALRM", "SIGINT", "SIGKILL"}
Fate  == {"spared", "caught", "killed"}

\* How many slots are used at most, who calls alarm(), to whose slots the terminals
\* send SIGINT, and whether somebody uses kill(-1) as superuser, or F9.
Setup == [slots : 1 .. NR_PROCS - INIT_PROC_NR, alarms : SUBSET User,
          terminals : SUBSET User, killall : BOOLEAN]

ASSUME MMAssumption == /\ NR_PROCS \in Nat /\ NR_PROCS > INIT_PROC_NR + 1
                       /\ Setups \subseteq Setup /\ BeforeTable \in BOOLEAN

VARIABLES mm,
          setup

mm_vars == <<mm, setup>>

Has(m, p, flag) == flag \in m.flags[p]
InUse(m)   == {p \in Proc : Has(m, p, "IN_USE")}
Dead(m)    == {p \in InUse(m) : Has(m, p, "HANGING")}
Alive(m)   == InUse(m) \ Dead(m)
Children(m, p) == {c \in InUse(m) : m.parent[c] = p}
-----------------------------------------------------------------------------
(* main.c, forkexit.c *)

\* reply(): nothing is sent to a process that has gone or is dead.
reply(m, p) ==
  IF p \notin Alive(m) THEN m
  ELSE [m EXCEPT !.where[p] = "runs",
                 !.misfits = IF m.where[p] = "mm" THEN @ ELSE @ \cup {p}]

\* The first half of cleanup(): the parent gets its reply, the slot is freed.
\* What else is in a free slot nobody reads before do_fork() overwrites it.
Collected(m, c) ==
  LET parent == m.parent[c]
      r == reply(m, parent)
      freed == [r EXCEPT !.flags[c] = @ \cap {"ALARM_ON"}, !.parent[c] = MM_PROC_NR,
                         !.procs_in_use = @ - 1]
  IN  [freed EXCEPT !.flags[parent] = @ \ {"WAITING"}]

\* "If exiting process has children, disinherit them.  INIT is new parent."
Disinherited(m, c) ==
  [m EXCEPT !.parent = [p \in Proc |-> IF @[p] = c THEN INIT_PROC_NR ELSE @[p]]]

\* Mutant: INIT, which waits, is not told of the dead it inherits.
cleanup_NoOrphans(m, c) == Disinherited(Collected(m, c), c)

\* cleanup(): if INIT waits, the first of the dead it inherits is cleaned up in
\* turn, and then INIT waits no more.
cleanup(m, c) ==
  LET r == Collected(m, c)
      orphans == {p \in Proc : r.parent[p] = c /\ Has(r, p, "HANGING")}
      s == Disinherited(r, c)
  IN  IF Has(r, INIT_PROC_NR, "WAITING") /\ orphans # {}
      THEN LET o == Min(orphans) IN Disinherited(Collected(s, o), o)
      ELSE s

\* mm_exit(): "if parent is waiting for it, clean it up, else hang"; then the
\* clock, the kernel and FS are told.
mm_exit(m, p) ==
  LET e == IF Has(m, m.parent[p], "WAITING") THEN cleanup(m, p)
           ELSE [m EXCEPT !.flags[p] = @ \cup {"HANGING"}]
  IN  [e EXCEPT !.flags[p] = @ \ {"ALARM_ON"},
                !.timer = @ \ {p}, !.where[p] = "free",
                !.twice = @ \/ m.where[p] = "free"]

\* Mutant: the main loop replies although cleanup() has done so.
do_wait_Replied(m, p) ==
  LET dead == Children(m, p) \cap Dead(m)
  IN  IF dead # {} THEN reply(cleanup(m, Min(dead)), p)
      ELSE IF Children(m, p) # {} THEN [m EXCEPT !.flags[p] = @ \cup {"WAITING"}]
      ELSE reply(m, p)

\* do_wait(): a dead child is collected now; without children it is an error.
do_wait(m, p) ==
  LET dead == Children(m, p) \cap Dead(m)
  IN  IF dead # {} THEN cleanup(m, Min(dead))
      ELSE IF Children(m, p) # {} THEN [m EXCEPT !.flags[p] = @ \cup {"WAITING"}]
      ELSE reply(m, p)

\* do_fork(), once there is memory: the child's slot, and in the kernel its
\* pending signals and its alarm, are its parent's.
do_fork(m, p, child) ==
  LET copied == [m EXCEPT !.flags[child] = m.flags[p], !.parent[child] = p,
                          !.procs_in_use = @ + 1, !.where[child] = "mm",
                          !.pend[child] = m.pend[p],
                          !.timer = IF p \in @ THEN @ \cup {child} ELSE @ \ {child}]
  IN  reply(reply(copied, child), p)
-----------------------------------------------------------------------------
(* signal.c *)

\* unpause(): "if the process is hanging on a system call, the system call must
\* be terminated with EINTR".
unpause(m, p) ==
  LET hangs == {"PAUSED", "WAITING"} \cap m.flags[p]
  IN  IF Has(m, p, "HANGING") \/ hangs = {} THEN m
      ELSE reply([m EXCEPT !.flags[p] =
             @ \ (IF "PAUSED" \in hangs THEN {"PAUSED"} ELSE {"WAITING"})], p)

\* The passage of check_sig()'s loop for slot p.  `sg' is the signal: what it
\* does to each process, whether it is SIGALRM, whether it is sent to the dead
\* as well ("send_uid == SUPER_USER && proc_id == -1").
Visit(m, p, sg) ==
  LET s == IF sg.alarm THEN [m EXCEPT !.flags[p] = @ \ {"ALARM_ON"}] ELSE m
  IN  IF p \notin InUse(m) \/ (sg.alarm /\ ~Has(m, p, "ALARM_ON")) THEN m
      ELSE IF sg.fate[p] = "spared" \/ (p \in Dead(m) /\ ~sg.all) THEN s
      ELSE IF sg.fate[p] = "caught" THEN unpause(s, p)
      ELSE unpause(mm_exit(s, p), p)

\* check_sig(): the loop ends early when the one process meant has been signalled.
check_sig(m, sg) ==
  LET met(p) == /\ sg.id = p /\ p \in Alive(m) /\ sg.fate[p] # "spared"
                /\ sg.alarm => Has(m, p, "ALARM_ON")
      last == IF \E p \in User : met(p) THEN sg.id ELSE NR_PROCS - 1
      after[p \in Proc] == IF p = INIT_PROC_NR THEN m ELSE Visit(after[p - 1], p, sg)
  IN  after[last]

\* The signals that kill() and the kernel send: to one process, to a group or to
\* all of one user (NOBODY is no pid), or to all there are.
NOBODY == 0
Sent(id, alarm, fate, all) == [id |-> id, alarm |-> alarm, fate |-> fate, all |-> all]
Fates(m) == {[q \in User |-> IF q \in DOMAIN f THEN f[q] ELSE "spared"] :
               f \in [User \cap Alive(m) -> Fate]}
Alone(p, f) == [q \in User |-> IF q = p THEN f ELSE "spared"]
ToOne(p)   == {Sent(p, FALSE, Alone(p, f), FALSE) : f \in Fate}
ToMany(m)  == {Sent(NOBODY, FALSE, f, FALSE) : f \in Fates(m)}
ToAll      == {Sent(NOBODY, FALSE, [q \in User |-> f], TRUE) : f \in Fate \ {"spared"}}
Alrm(p)    == {Sent(p, TRUE, Alone(p, f), FALSE) : f \in Fate}

\* do_ksig() for the signals of p that the kernel collected, in the order of their
\* numbers; "don't reply to the kernel".
do_ksig(m, p) ==
  LET taken == [m EXCEPT !.pend[p] = {}]
      Then(ms, sig, sgs(_)) ==
        IF sig \notin m.pend[p] THEN ms
        ELSE UNION {{check_sig(s, sg) : sg \in sgs(s)} : s \in ms}
      int  == Then({taken}, "SIGINT", ToMany)
      kill == Then(int, "SIGKILL", LAMBDA s : ToAll)
  IN  Then(kill, "SIGALRM", LAMBDA s : Alrm(p))

\* For a process that is dead do_ksig() returns early, and main() then calls
\* reply(HARDWARE), which looks at mproc[-1] and may send to nobody, for ever.
do_ksig_dead(m, p) ==
  [m EXCEPT !.pend[p] = {}, !.misfits = IF BeforeTable THEN @ \cup {HARDWARE} ELSE @]
-----------------------------------------------------------------------------
MMInit ==
  /\ setup \in Setups
  /\ mm = [flags  |-> [p \in Proc |-> IF p = INIT_PROC_NR THEN {"IN_USE"} ELSE {}],
           parent |-> [p \in Proc |-> MM_PROC_NR],
           where  |-> [p \in Proc |-> IF p = INIT_PROC_NR THEN "runs" ELSE "free"],
           timer  |-> {}, pend |-> [p \in Proc |-> {}],
           procs_in_use |-> 1, misfits |-> {}, twice |-> FALSE]

\* p, which runs, calls MM.
Calls(p) == mm.where[p] = "runs"
Called(p) == [mm EXCEPT !.where[p] = "mm"]

Fork(p) ==
  /\ Calls(p) /\ mm.procs_in_use < setup.slots
  /\ mm' = do_fork(Called(p), p, Min(Proc \ InUse(mm)))

Exit(p) == Calls(p) /\ p # INIT_PROC_NR /\ mm' = mm_exit(Called(p), p)

Wait(p) == Calls(p) /\ mm' = do_wait(Called(p), p)

Pause(p) ==
  /\ Calls(p) /\ p # INIT_PROC_NR
  /\ mm' = [Called(p) EXCEPT !.flags[p] = @ \cup {"PAUSED"}]

\* do_alarm() with some seconds, and with none.
Alarm(p) ==
  /\ Calls(p) /\ p \in setup.alarms
  /\ \/ mm' = [mm EXCEPT !.flags[p] = @ \cup {"ALARM_ON"}, !.timer = @ \cup {p}]
     \/ mm' = [mm EXCEPT !.flags[p] = @ \ {"ALARM_ON"}, !.timer = @ \ {p}]

\* An EXEC that succeeds: the kernel takes the process out of its call.
Exec(p) == Calls(p) /\ p # INIT_PROC_NR /\ mm' = [mm EXCEPT !.timer = @ \ {p}]

Kill(p) ==
  /\ Calls(p) /\ p # INIT_PROC_NR
  /\ \E sg \in UNION {ToOne(q) : q \in User} \cup ToMany(mm)
               \cup (IF setup.killall THEN ToAll ELSE {}) :
       mm' = reply(check_sig(Called(p), sg), p)

\* The kernel's signals, of which it tells MM when MM listens, and FS's SIGPIPE.
Ksig(p) ==
  \/ mm.pend[p] # {} /\ p \in Alive(mm) /\ mm' \in do_ksig(mm, p)
  \/ mm.pend[p] # {} /\ p \notin Alive(mm) /\ mm' = do_ksig_dead(mm, p)
  \/ mm.where[p] = "fs" /\ \E sg \in ToOne(p) : mm' = check_sig(mm, sg)

\* The clock's alarm goes off; somebody types DEL, or F9 which sends SIGKILL to
\* INIT's slot.
Expire(p) ==
  p \in mm.timer /\ mm' = [mm EXCEPT !.timer = @ \ {p}, !.pend[p] = @ \cup {"SIGALRM"}]
Type(p, sig) ==
  /\ \/ sig = "SIGINT" /\ p \in setup.terminals
     \/ sig = "SIGKILL" /\ p = INIT_PROC_NR /\ setup.killall
  /\ mm' = [mm EXCEPT !.pend[p] = @ \cup {sig}]

\* p's call of FS, which may block there as long as it likes.
CallFS(p)    == Calls(p) /\ p # INIT_PROC_NR /\ mm' = [mm EXCEPT !.where[p] = "fs"]
FSAnswers(p) == mm.where[p] = "fs" /\ mm' = [mm EXCEPT !.where[p] = "runs"]

MMNext ==
  /\ \E p \in Proc :
       \/ Fork(p) \/ Exit(p) \/ Wait(p) \/ Pause(p) \/ Alarm(p) \/ Exec(p) \/ Kill(p)
       \/ Ksig(p) \/ Expire(p) \/ CallFS(p) \/ FSAnswers(p)
       \/ \E sig \in {"SIGINT", "SIGKILL"} : Type(p, sig)
  /\ UNCHANGED setup

\* INIT does nothing but wait for its children, and replace them.
MMSpec == MMInit /\ [][MMNext]_mm_vars /\ WF_mm_vars(Wait(INIT_PROC_NR) /\ UNCHANGED setup)
-----------------------------------------------------------------------------
\* The type invariant.
MMTypeOK ==
  /\ mm \in [flags : [Proc -> SUBSET Flag], parent : [Proc -> Proc \cup {MM_PROC_NR}],
             where : [Proc -> {"runs", "mm", "fs", "free"}],
             timer : SUBSET Proc, pend : [Proc -> SUBSET Signal],
             procs_in_use : 1 .. Cardinality(Proc), misfits : SUBSET (Proc \cup {HARDWARE}),
             twice : BOOLEAN]

\* The processes are a tree under INIT: everybody's parent has a slot, the dead
\* and the free can not run and have no alarm in the kernel, and whoever
\* waits has children, all of them alive, unless it is dead itself.
Ancestors(p) ==
  LET up[n \in 1 .. NR_PROCS] == IF n = 1 THEN {mm.parent[p]}
                                 ELSE up[n - 1] \cup {mm.parent[q] : q \in up[n - 1] \cap Proc}
  IN  up[NR_PROCS]
TreeKept ==
  /\ MMTypeOK
  /\ mm.procs_in_use = Cardinality(InUse(mm))
  /\ \A p \in InUse(mm) \cap User :
       mm.parent[p] \in InUse(mm) /\ INIT_PROC_NR \in Ancestors(p)
  /\ \A p \in Proc : mm.where[p] = "free" <=> p \notin Alive(mm)
  /\ mm.timer \subseteq Alive(mm)
  /\ \A p \in InUse(mm) : Has(mm, p, "WAITING") =>
       /\ Children(mm, p) \cap Dead(mm) = {}
       /\ p \in Alive(mm) => Children(mm, p) # {}

\* Each call of MM is answered once, now or when what the caller pauses or waits
\* for happens, and nobody gets an answer who is in no call of MM or is dead.
AnsweredOnce ==
  /\ mm.misfits = {}
  /\ \A p \in Alive(mm) :
       mm.where[p] = "mm" <=> {"PAUSED", "WAITING"} \cap mm.flags[p] # {}

\* INIT collects the dead that it has or inherits, however their parents ended:
\* one stays only if it is passed over for ever, since do_wait() takes the lowest
\* slot, for others that die again and again.
Orphan(p) == p \in Dead(mm) /\ mm.parent[p] = INIT_PROC_NR
OrphansCollected ==
  \A p \in User : <>[]Orphan(p) => []<>(\E q \in User : q < p /\ Orphan(q))

\* "If a process has already exited, it can't receive signals": nobody is killed
\* twice, so that FS would give up the descriptors and directories of a slot again.
ExitsOnce == ~mm.twice

\* "Turn off ALARM_ON bit when timer goes off to keep it accurate": a process
\* whose alarm runs has ALARM_ON, without which check_sig() drops the signal.
AlarmsAccurate == \A p \in mm.timer : Has(mm, p, "ALARM_ON")
=============================================================================
