-------------------------------- MODULE Clock --------------------------------
(***************************************************************************)
(* The clock task (kernel/clock.c) in a kernel (Proc) where servers and    *)
(* users go on calling: ticks, alarms and the users' quantum.              *)
(*                                                                         *)
(* do_clocktick() runs with interrupts enabled, so the three statements    *)
(* that move the lost ticks to `realtime' are steps of their own, and so   *)
(* is each of its signals.  The rest of the task touches nothing that an   *)
(* interrupt touches but lost_ticks, and is one step per handler.          *)
(* `lost_ticks -= t' is taken to be the one subtraction from memory that   *)
(* the 8088 has.                                                           *)
(*                                                                         *)
(* `realtime' only ever grows, so the times that the code compares with it *)
(* are kept as their distance from it.  The time of day (boot_time), the   *)
(* times charged to processes, the watchdog functions of tasks and the     *)
(* printer restart are left out.                                           *)
(***************************************************************************)
EXTENDS Proc

CONSTANTS SCHED_RATE,  \* ticks in a quantum
          MaxDelta     \* bound on the ticks asked for in SET_ALARM

VARIABLES clk_pc,       \* where CLOCK is in its loop
          t,            \* do_clocktick()'s copy of lost_ticks
          alarm,        \* p_alarm - realtime; OFF if p_alarm is 0
          next_alarm,   \* next_alarm - realtime; OFF is MAX_P_LONG
          sched_ticks, prev_ptr,
          owed          \* history: clock interrupts not yet in realtime

clock == <<clk_pc, t, alarm, next_alarm, sched_ticks, prev_ptr, owed>>
clock_vars == <<vars, clock>>

OFF == 32767

(***************************************************************************)
(* Alarms are asked for well before realtime gets to MAX_P_LONG.  SYSTASK  *)
(* only replies to who calls it, which CLOCK does not.                     *)
(***************************************************************************)
ASSUME ClockAssumption ==
  /\ SCHED_RATE \in Nat \ {0} /\ MaxDelta \in 0 .. OFF - 1
  /\ \A c \in Calls : c[1] # RECEIVE /\ c[2] = SYSTASK => c[3] # CLOCK

Earliest(S) == CHOOSE d \in S \cup {OFF} : \A e \in S : d <= e
Elapse(d, ticks) == IF d = OFF THEN OFF ELSE d - ticks
-----------------------------------------------------------------------------
ClockInit ==
  /\ Init
  /\ clk_pc = "receive" /\ t = 0
  /\ alarm = [p \in User |-> OFF] /\ next_alarm = OFF
  /\ sched_ticks = SCHED_RATE /\ prev_ptr = NOBODY
  /\ owed = 0

\* The calls of every process but CLOCK.  Servers reply to callers that wait.
ProcCalls(p) ==
  /\ \E c \in Calls : /\ c[2] = p
                      /\ c[1] = SEND /\ c[3] \in User => Served(p, c[3])
                      /\ SysCall(c[1], p, c[3])
  /\ UNCHANGED clock

Tick ==
  /\ Interrupt(CLOCK)
  /\ owed' = owed + 1
  /\ UNCHANGED <<clk_pc, t, alarm, next_alarm, sched_ticks, prev_ptr>>

\* do_exec() and do_xit() of SYSTASK turn p's timer off; do_fork() copies it.
AlarmOff(p) ==
  /\ kern.cur = SYSTASK
  /\ alarm' = [alarm EXCEPT ![p] = OFF]
  /\ UNCHANGED <<vars, clk_pc, t, next_alarm, sched_ticks, prev_ptr, owed>>

AlarmForked(p, child) ==
  /\ kern.cur = SYSTASK /\ Served(MM, p)
  /\ "P_SLOT_FREE" \in kern.flags[child]
  /\ alarm' = [alarm EXCEPT ![child] = alarm[p]]
  /\ UNCHANGED <<vars, clk_pc, t, next_alarm, sched_ticks, prev_ptr, owed>>
-----------------------------------------------------------------------------
(* clock_task(). *)

Receive ==
  /\ clk_pc = "receive"
  /\ SysCall(RECEIVE, CLOCK, ANY)
  /\ clk_pc' = "dispatch"
  /\ UNCHANGED <<t, alarm, next_alarm, sched_ticks, prev_ptr, owed>>

\* CLOCK runs and is at `pc', with a message from `src' in mc.
At(pc, src) == kern.cur = CLOCK /\ clk_pc = pc /\ kern.mess[CLOCK] \in src

\* Mutant: an alarm that is not the first leaves next_alarm alone.
SetAlarm_KeepNext(p, delta) ==
  /\ At("dispatch", {MM})
  /\ alarm' = [alarm EXCEPT ![p] = IF delta = 0 THEN OFF ELSE delta]
  /\ next_alarm' = IF next_alarm = OFF /\ delta # 0 THEN delta ELSE next_alarm
  /\ clk_pc' = "reply"
  /\ UNCHANGED <<vars, t, sched_ticks, prev_ptr, owed>>

\* do_setalarm() for MM; a delta of 0 turns the alarm off.
SetAlarm(p, delta) ==
  /\ At("dispatch", {MM})
  /\ alarm' = [alarm EXCEPT ![p] = IF delta = 0 THEN OFF ELSE delta]
  /\ next_alarm' = Earliest({alarm'[q] : q \in User})
  /\ clk_pc' = "reply"
  /\ UNCHANGED <<vars, t, sched_ticks, prev_ptr, owed>>

\* do_get_time() and do_set_time(), for FS.
Time ==
  /\ At("dispatch", {FS})
  /\ clk_pc' = "reply"
  /\ UNCHANGED <<vars, t, alarm, next_alarm, sched_ticks, prev_ptr, owed>>

Reply ==
  /\ clk_pc = "reply"
  /\ SysCall(SEND, CLOCK, kern.mess[CLOCK])
  /\ clk_pc' = "receive"
  /\ UNCHANGED <<t, alarm, next_alarm, sched_ticks, prev_ptr, owed>>

(* do_clocktick(): "To guard against race conditions, first copy           *)
(* 'lost_ticks' to a local variable, add this to 'realtime', and then      *)
(* subtract it from 'lost_ticks'."                                         *)
CopyLost ==
  /\ At("dispatch", {HARDWARE})
  /\ t' = lost_ticks
  /\ clk_pc' = "add"
  /\ UNCHANGED <<vars, alarm, next_alarm, sched_ticks, prev_ptr, owed>>

AddLost ==
  /\ At("add", {HARDWARE})
  /\ alarm' = [p \in User |-> Elapse(alarm[p], t + 1)]
  /\ next_alarm' = Elapse(next_alarm, t + 1)
  /\ owed' = owed - (t + 1)
  /\ clk_pc' = "subtract"
  /\ UNCHANGED <<vars, t, sched_ticks, prev_ptr>>

\* Mutant: the counter is cleared, with what was lost since it was copied.
SubtractLost_Clear ==
  /\ At("subtract", {HARDWARE})
  /\ lost_ticks' = 0 /\ t' = 0
  /\ clk_pc' = "alarms"
  /\ UNCHANGED <<kern, busy_map, alarm, next_alarm, sched_ticks, prev_ptr, owed>>

SubtractLost ==
  /\ At("subtract", {HARDWARE})
  /\ lost_ticks' = lost_ticks - t /\ t' = 0
  /\ clk_pc' = "alarms"
  /\ UNCHANGED <<kern, busy_map, alarm, next_alarm, sched_ticks, prev_ptr, owed>>

Due == IF next_alarm <= 0 THEN {p \in User : alarm[p] <= 0} ELSE {}

\* The users whose alarm is due are signalled, in the order of their numbers; an
\* interrupt may come between one signal and the next.
SignalDue(p) ==
  /\ At("alarms", {HARDWARE})
  /\ p \in Due /\ \A q \in Due : p <= q
  /\ kern' = CauseSig(kern, p)
  /\ alarm' = [alarm EXCEPT ![p] = OFF]
  /\ UNCHANGED <<busy_map, lost_ticks, clk_pc, t, next_alarm, sched_ticks, prev_ptr, owed>>

\* The loop ends with the first of the alarms that are left, if it was gone through.
AlarmsDone ==
  /\ At("alarms", {HARDWARE}) /\ Due = {}
  /\ next_alarm' = IF next_alarm <= 0 THEN Earliest({alarm[p] : p \in User})
                                      ELSE next_alarm
  /\ clk_pc' = "quantum"
  /\ UNCHANGED <<vars, t, alarm, sched_ticks, prev_ptr, owed>>

\* Mutant: the process that was billed is not remembered.
Quantum_KeepPrev ==
  /\ At("quantum", {HARDWARE})
  /\ IF sched_ticks > 1
     THEN sched_ticks' = sched_ticks - 1 /\ UNCHANGED <<kern, prev_ptr>>
     ELSE /\ kern' = IF kern.bill = prev_ptr THEN Sched(kern) ELSE kern
          /\ sched_ticks' = SCHED_RATE
          /\ UNCHANGED prev_ptr
  /\ clk_pc' = "receive"
  /\ UNCHANGED <<busy_map, lost_ticks, t, alarm, next_alarm, owed>>

\* "If a user process has been running too long, pick another one."
Quantum ==
  /\ At("quantum", {HARDWARE})
  /\ IF sched_ticks > 1
     THEN sched_ticks' = sched_ticks - 1 /\ UNCHANGED <<kern, prev_ptr>>
     ELSE /\ kern' = IF kern.bill = prev_ptr THEN Sched(kern) ELSE kern
          /\ sched_ticks' = SCHED_RATE
          /\ prev_ptr' = kern.bill
  /\ clk_pc' = "receive"
  /\ UNCHANGED <<busy_map, lost_ticks, t, alarm, next_alarm, owed>>

ClockStep ==
  \/ Receive
  \/ \E p \in User, delta \in 0 .. MaxDelta : SetAlarm(p, delta)
  \/ Time \/ Reply
  \/ CopyLost \/ AddLost \/ SubtractLost
  \/ (\E p \in User : SignalDue(p)) \/ AlarmsDone
  \/ Quantum

ClockNext ==
  \/ \E p \in Proc \ {HARDWARE, CLOCK} : ProcCalls(p)
  \/ Tick
  \/ \E p \in User : AlarmOff(p) \/ \E child \in User : AlarmForked(p, child)
  \/ ClockStep

ClockSpec == ClockInit /\ [][ClockNext]_clock_vars

(***************************************************************************)
(* The clock ticks, and CLOCK, which no interrupt takes the CPU from, goes *)
(* on.  A task or server may be interrupted each time it runs, but a       *)
(* process that gets the CPU again and again gets on with its work.  The   *)
(* users owe nobody anything.                                              *)
(***************************************************************************)
Fairness == /\ WF_clock_vars(Tick)
            /\ WF_clock_vars(ClockStep)
            /\ \A p \in {SYSTASK, MM, FS} : SF_clock_vars(ProcCalls(p))
FairSpec == ClockSpec /\ Fairness
-----------------------------------------------------------------------------
\* The type invariant.
ClockTypeOK ==
  /\ TypeOK
  /\ clk_pc \in {"receive", "dispatch", "reply", "add", "subtract", "alarms", "quantum"}
  /\ t \in 0 .. MaxLost
  /\ \A p \in User : alarm[p] \in {OFF} \cup (-MaxLost .. MaxDelta)
  /\ next_alarm \in Int
  /\ sched_ticks \in 1 .. SCHED_RATE
  /\ prev_ptr \in Proc \cup {NOBODY}

\* No clock interrupt is lost and none is counted twice, however interrupts
\* fall between the statements of do_clocktick().
TicksConserved ==
  ClockTypeOK /\
  owed = CASE clk_pc = "subtract" -> lost_ticks - t
           [] clk_pc = "add" -> lost_ticks + 1
           [] clk_pc = "dispatch" /\ "RECEIVING" \notin kern.flags[CLOCK]
                /\ kern.mess[CLOCK] = HARDWARE -> lost_ticks + 1
           [] OTHER -> lost_ticks

\* Whenever CLOCK waits for the next message, all armed alarms are still in the
\* future and next_alarm, "probable time of next alarm", is not after the first
\* of them, though exits and forks change p_alarm behind CLOCK's back.
AlarmsAhead ==
  clk_pc \in {"receive", "dispatch"} =>
    \A p \in User : alarm[p] # OFF => alarm[p] > 0 /\ next_alarm <= alarm[p]

\* Users that only compute all get their turn: a quantum that is up moves the
\* running user behind the others.
EveryUserRuns ==
  \A p \in User : (kern.flags[p] = {}) ~> (kern.flags[p] # {} \/ kern.cur = p)
=============================================================================
