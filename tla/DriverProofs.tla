---------------------------- MODULE DriverProofs ----------------------------
(***************************************************************************)
(* Three drivers, each with its interrupt, and two of them with CLOCK,     *)
(* beside it, and the console's screen.                                    *)
(*                                                                         *)
(* The printer: whoever waits for it is the one it prints for, for any     *)
(* number of writers and any length of their requests.  pr_char() is       *)
(* called from the task, from the interrupt and from CLOCK, and may find   *)
(* the printer in any state; the argument needs of it only that it leaves  *)
(* alone who prints, see PrCharFacts.                                      *)
(*                                                                         *)
(* The diskette: the driver, CLOCK and the controller agree on who waits   *)
(* for whom, and no watchdog stops a motor in use, for any number of       *)
(* drives, densities and retries.                                          *)
(*                                                                         *)
(* The terminal: the task and FS agree on who hangs, and nobody hangs      *)
(* before a line that is in the queue, for any size of the queue and of    *)
(* the driver's buffer and any number of readers and writers.  tty_lfct    *)
(* is the number of the lines in the queue as long as no end of file was   *)
(* erased and the ring did not overrun, see Counted.                       *)
(*                                                                         *)
(* The screen: each action changes what is seen as a terminal would, for   *)
(* any size of the screen, of its lines, of the video RAM and of the       *)
(* queue.  The argument counts places from the origin of the window        *)
(* (Cell): there a copy goes where it should (CopyFacts) wherever the      *)
(* window is in the RAM, and a scroll shifts all places by a line.         *)
(***************************************************************************)
EXTENDS Printer, Floppy, Tty, Screen, SeqLemmas, FiniteSetTheorems

\* The type invariant.
PrinterType ==
  [busy : BOOLEAN, pcount : Int, orig : Nat, proc : Writers \cup {CANCELED}, offset : Int,
   task : {"receive", "write", "done", "revive"}, status : {"OK", "error"},
   int_mess : {"OK", "error"}, late : BOOLEAN,
   clk : {"elsewhere", "loop", "output", "count"}, moved : BOOLEAN,
   hw : {"idle", "busy", "error"}, irq : BOOLEAN,
   user : [Writers -> {"runs", "prints"}], paper : Seq(Int)]

\* What a part of the driver that only prints leaves alone.
SameRequest(s, r) == /\ r.busy = s.busy /\ r.proc = s.proc /\ r.user = s.user /\ r.clk = s.clk
                     /\ r.orig = s.orig
                     /\ r.task = s.task \/ (s.task = "receive" /\ r.task = "done")

LEMMA InterruptFacts ==
  ASSUME NEW s \in PrinterType, NEW result \in {"OK", "error"}
  PROVE  interrupt(s, result) \in PrinterType /\ SameRequest(s, interrupt(s, result))
BY DEF interrupt, PrinterType, SameRequest

LEMMA TellFacts ==
  ASSUME NEW s \in PrinterType
  PROVE  Tell(s) \in PrinterType /\ SameRequest(s, Tell(s))
BY InterruptFacts DEF Tell

LEMMA OutputFacts ==
  ASSUME NEW s \in PrinterType, NEW k \in Nat
  PROVE  Output(s, k) \in PrinterType /\ SameRequest(s, Output(s, k))
<1> DEFINE out == [i \in 1 .. k |-> s.offset + i - 1]
           paper == s.paper \o out
<1>1. s.offset \in Int /\ s.pcount \in Int /\ s.paper \in Seq(Int)
  BY DEF PrinterType
<1>2. out \in Seq(Int)
  BY <1>1
<1>3. paper \in Seq(Int)
  BY <1>1, <1>2
<1> HIDE DEF out
<1>4. Output(s, k) = [s EXCEPT !.offset = s.offset + k, !.pcount = s.pcount - k,
                               !.moved = TRUE, !.hw = "busy", !.paper = paper]
  BY DEF Output, out
<1> HIDE DEF paper
<1>5. s.offset + k \in Int /\ s.pcount - k \in Int
  BY <1>1
<1>6. Output(s, k) \in PrinterType
  BY <1>3, <1>4, <1>5, ZenonT(60) DEF PrinterType
<1>7. SameRequest(s, Output(s, k))
  BY <1>4 DEF PrinterType, SameRequest
<1> QED BY <1>6, <1>7

\* pr_char() prints, and may tell the task, but never touches who prints.
LEMMA PrCharFacts ==
  ASSUME NEW s \in PrinterType, NEW r \in pr_char(s)
  PROVE  r \in PrinterType /\ SameRequest(s, r)
<1>1. s.pcount \in Int /\ SameRequest(s, s)
  BY DEF PrinterType, SameRequest
<1>2. CASE r = s
  BY <1>1, <1>2
<1>3. CASE r = Tell(s)
  BY <1>3, TellFacts
<1>4. CASE ~(r = s \/ r = Tell(s))
  <2>1. PICK k \in 1 .. s.pcount :
          LET o == [Output(s, k) EXCEPT !.irq = @ \/ k > 1]
          IN  r \in IF o.pcount = 0 THEN {Tell(o)} ELSE {o, Tell([o EXCEPT !.hw = "error"])}
    BY <1>4 DEF pr_char
  <2> DEFINE u == Output(s, k)
             o == [u EXCEPT !.irq = @ \/ k > 1]
             e == [o EXCEPT !.hw = "error"]
  <2>2. u \in PrinterType /\ SameRequest(s, u)
    BY <1>1, OutputFacts
  <2> HIDE DEF u
  <2>3. (u.irq \/ k > 1) \in BOOLEAN
    OBVIOUS
  <2>4. /\ o \in PrinterType /\ SameRequest(s, o)
        /\ e \in PrinterType /\ SameRequest(s, e)
    BY <2>2, <2>3, ZenonT(60) DEF PrinterType, SameRequest
  <2>5. r \in {o, Tell(o), Tell(e)}
    BY <2>1 DEF u
  <2> HIDE DEF o, e
  <2>6. /\ Tell(o) \in PrinterType /\ SameRequest(o, Tell(o))
        /\ Tell(e) \in PrinterType /\ SameRequest(e, Tell(e))
    BY <2>4, TellFacts
  <2> QED BY <2>4, <2>5, <2>6 DEF SameRequest
<1> QED BY <1>2, <1>3, <1>4
-----------------------------------------------------------------------------
\* do_write() has the task at "write" only within its step.
PrinterInv == prn \in PrinterType /\ prn.task # "write" /\ WriterServed

LEMMA PrinterInitKeeps ==
  ASSUME PrinterInit
  PROVE  PrinterInv
<1>1. <<>> \in Seq(Int)
  OBVIOUS
<1> QED BY <1>1 DEF PrinterInit, PrinterInv, PrinterType, WriterServed

\* Who prints for whom survives what prints for the same request.
LEMMA SameRequestKeeps ==
  ASSUME PrinterInv, prn' \in PrinterType, SameRequest(prn, prn')
  PROVE  PrinterInv'
BY DEF PrinterInv, SameRequest, WriterServed

LEMMA WriteKeeps ==
  ASSUME PrinterInv, NEW p \in Writers, NEW n \in 1 .. MaxPrint, pr_write(p, n)
  PROVE  PrinterInv'
<1> DEFINE w == [prn EXCEPT !.busy = TRUE, !.pcount = n, !.orig = n, !.proc = p,
                            !.offset = 1, !.paper = <<>>, !.task = "write"]
<1>1. w \in PrinterType
  <2>1. n \in Nat /\ n \in Int /\ <<>> \in Seq(Int) /\ 1 \in Int
    BY PrinterAssumption
  <2>2. prn \in PrinterType
    BY DEF PrinterInv
  <2> QED BY <2>1, <2>2 DEF PrinterType
<1>2. w.busy /\ w.proc = p /\ w.user = prn.user
  BY DEF PrinterInv, PrinterType
<1>3. PICK s \in pr_char(w) : prn' = [s EXCEPT !.task = "receive", !.user[p] = "prints"]
  BY DEF pr_write
<1> HIDE DEF w
<1>4. s \in PrinterType /\ s.busy /\ s.proc = p /\ s.user = prn.user
  BY <1>1, <1>2, PrCharFacts DEF SameRequest
<1>5. \A q \in Writers : prn.user[q] # "prints"
  BY DEF pr_write, PrinterInv, WriterServed
<1>6. prn' \in PrinterType /\ prn'.task = "receive"
  BY <1>3, <1>4 DEF PrinterType
<1>7. /\ prn'.busy /\ prn'.proc = p
      /\ prn'.user = [prn.user EXCEPT ![p] = "prints"]
  BY <1>3, <1>4 DEF PrinterType
<1>8. prn.user \in [Writers -> {"runs", "prints"}]
  BY DEF PrinterInv, PrinterType
<1> QED BY <1>5, <1>6, <1>7, <1>8 DEF PrinterInv, WriterServed

\* The task is done with a request: nobody else waits for it.
LEMMA DoneKeeps ==
  ASSUME PrinterInv, PrinterTask
  PROVE  PrinterInv'
<1>1. CASE do_done
  <2>1. /\ prn \in PrinterType /\ prn.user \in [Writers -> {"runs", "prints"}]
        /\ \A p \in Writers : prn.user[p] = "prints" => prn.busy /\ prn.proc = p
    BY DEF PrinterInv, PrinterType, WriterServed
  <2>2. CASE prn.proc = CANCELED /\ prn' = [prn EXCEPT !.busy = FALSE, !.task = "receive"]
    <3>1. \A p \in Writers : prn.user[p] # "prints"
      BY <2>1, <2>2, PrinterAssumption
    <3>2. prn' \in PrinterType /\ prn'.task = "receive" /\ prn'.user = prn.user
      BY <2>1, <2>2 DEF PrinterType
    <3> QED BY <3>1, <3>2 DEF PrinterInv, WriterServed
  <2>3. CASE prn' = [prn EXCEPT !.task = "revive"]
    <3>1. /\ prn' \in PrinterType /\ prn'.task = "revive" /\ prn'.user = prn.user
          /\ prn'.busy = prn.busy /\ prn'.proc = prn.proc
      BY <2>1, <2>3 DEF PrinterType
    <3> QED BY <2>1, <3>1 DEF PrinterInv, WriterServed
  <2> QED BY <1>1, <2>2, <2>3 DEF do_done
<1>2. CASE Revive
  BY <1>2 DEF Revive, PrinterInv, PrinterType, WriterServed
<1> QED BY <1>1, <1>2 DEF PrinterTask

LEMMA CancelKeeps ==
  ASSUME PrinterInv, NEW p \in Writers, pr_cancel(p)
  PROVE  PrinterInv'
<1>1. prn \in PrinterType /\ prn.user \in [Writers -> {"runs", "prints"}]
  BY DEF PrinterInv, PrinterType
<1>2. \A q \in Writers : prn.user[q] = "prints" => q = p
  BY DEF pr_cancel, PrinterInv, WriterServed
<1>3. prn' = [prn EXCEPT !.busy = FALSE, !.pcount = 0, !.proc = CANCELED, !.user[p] = "runs"]
  BY DEF pr_cancel
<1> DEFINE u == [prn.user EXCEPT ![p] = "runs"]
<1>4. u \in [Writers -> {"runs", "prints"}] /\ \A q \in Writers : u[q] # "prints"
  BY <1>1, <1>2
<1>5. prn' = [prn EXCEPT !.busy = FALSE, !.pcount = 0, !.proc = CANCELED, !.user = u]
  BY <1>1, <1>3 DEF PrinterType
<1>6. prn'.user = u /\ prn'.task = prn.task
  BY <1>1, <1>5 DEF PrinterType
<1> HIDE DEF u
<1>7. prn' \in PrinterType
  <2>1. FALSE \in BOOLEAN /\ 0 \in Int /\ CANCELED \in Writers \cup {CANCELED}
    OBVIOUS
  <2>2. PICK b \in BOOLEAN, k \in Int, c \in Writers \cup {CANCELED},
             v \in [Writers -> {"runs", "prints"}] :
          prn' = [prn EXCEPT !.busy = b, !.pcount = k, !.proc = c, !.user = v]
    BY <1>4, <1>5, <2>1
  <2> QED BY <1>1, <2>2 DEF PrinterType
<1> QED BY <1>1, <1>4, <1>6, <1>7 DEF PrinterInv, WriterServed

\* CLOCK's restart of the printer, which other interrupts may divide.
LEMMA RestartKeeps ==
  ASSUME PrinterInv, ClockRestarts
  PROVE  PrinterInv'
<1>1. prn \in PrinterType /\ Tell(prn) \in PrinterType /\ SameRequest(prn, Tell(prn))
  BY TellFacts DEF PrinterInv
<1>2. ASSUME NEW s \in PrinterType, s.busy = prn.busy, s.proc = prn.proc, s.user = prn.user,
             s.task # "write", NEW c \in {"elsewhere", "loop", "output", "count"}, NEW m \in BOOLEAN
      PROVE  /\ [s EXCEPT !.clk = c, !.moved = m] \in PrinterType
             /\ prn' = [s EXCEPT !.clk = c, !.moved = m] => PrinterInv'
  <2> DEFINE r == [s EXCEPT !.clk = c, !.moved = m]
  <2>1. r \in PrinterType
    BY <1>2 DEF PrinterType
  <2>2. r.busy = s.busy /\ r.proc = s.proc /\ r.user = s.user /\ r.task = s.task
    BY <1>2 DEF PrinterType
  <2> HIDE DEF r
  <2>3. ASSUME prn' = r
        PROVE  PrinterInv'
    BY <1>2, <2>1, <2>2, <2>3 DEF PrinterInv, WriterServed
  <2> QED BY <2>1, <2>3 DEF r
<1>3. CASE Restart
  BY <1>1, <1>3, ZenonT(60) DEF Restart, PrinterInv, PrinterType, WriterServed
<1>4. CASE RestartLoop
  <2>1. CASE prn' = Ends(Tell(prn))
    <3> DEFINE s == Tell(prn)
    <3>1. /\ s \in PrinterType /\ s.busy = prn.busy /\ s.proc = prn.proc /\ s.user = prn.user
          /\ s.task # "write"
      BY <1>1 DEF SameRequest, PrinterInv
    <3> HIDE DEF s
    <3>2. prn' = [s EXCEPT !.clk = "elsewhere", !.moved = FALSE]
      BY <2>1 DEF Ends, s
    <3> QED BY <1>2, <3>1, <3>2
  <2>2. CASE prn' = Ends(prn)
    BY <1>1, <2>2, ZenonT(60) DEF Ends, PrinterInv, PrinterType, WriterServed
  <2>3. CASE prn' = [prn EXCEPT !.clk = "output"]
    BY <1>1, <2>3 DEF PrinterInv, PrinterType, WriterServed
  <2> QED BY <1>4, <2>1, <2>2, <2>3 DEF RestartLoop
<1>5. CASE RestartOutput
  <2>1. Append(prn.paper, prn.offset) \in Seq(Int)
    BY <1>1 DEF PrinterType
  <2> QED BY <1>1, <1>5, <2>1, ZenonT(60) DEF RestartOutput, PrinterInv, PrinterType, WriterServed
<1>6. CASE RestartCount
  <2> DEFINE f == prn.offset + 1
             n == prn.pcount - 1
  <2>1. f \in Int /\ n \in Int
    BY <1>1 DEF PrinterType
  <2>2. prn' = [prn EXCEPT !.clk = "loop", !.offset = f, !.pcount = n]
    BY <1>6 DEF RestartCount
  <2> HIDE DEF f, n
  <2>3. prn' \in PrinterType
    BY <1>1, <2>1, <2>2 DEF PrinterType
  <2>4. prn'.busy = prn.busy /\ prn'.proc = prn.proc /\ prn'.user = prn.user /\ prn'.task = prn.task
    BY <1>1, <2>2 DEF PrinterType
  <2> QED BY <2>3, <2>4 DEF PrinterInv, WriterServed
<1> QED BY <1>3, <1>4, <1>5, <1>6 DEF ClockRestarts

\* Interrupts, and what the printer does by itself.
LEMMA DeviceKeeps ==
  ASSUME PrinterInv, PrinterInterrupt \/ OtherInterrupt \/ Acknowledge \/ Offline \/ Online
  PROVE  PrinterInv'
<1>1. prn \in PrinterType
  BY DEF PrinterInv
<1>2. CASE PrinterInterrupt
  <2> DEFINE s == [prn EXCEPT !.irq = FALSE]
  <2>1. s \in PrinterType /\ SameRequest(prn, s)
    BY <1>1 DEF PrinterType, SameRequest
  <2>2. prn' \in pr_char(s) \/ prn' = s
    BY <1>2 DEF PrinterInterrupt
  <2> HIDE DEF s
  <2>3. prn' \in PrinterType /\ SameRequest(s, prn')
    BY <2>1, <2>2, PrCharFacts DEF SameRequest
  <2>4. SameRequest(prn, prn')
    BY <2>1, <2>3 DEF SameRequest
  <2> QED BY <2>3, <2>4, SameRequestKeeps
<1>3. CASE OtherInterrupt
  <2>1. prn.int_mess \in {"OK", "error"}
    BY <1>1 DEF PrinterType
  <2> QED BY <1>1, <1>3, <2>1, InterruptFacts, SameRequestKeeps DEF OtherInterrupt
<1>4. CASE Acknowledge
  <2>1. PICK lost \in BOOLEAN : prn' = [prn EXCEPT !.hw = "idle", !.irq = @ \/ ~lost]
    BY <1>4 DEF Acknowledge
  <2>2. (prn.irq \/ ~lost) \in BOOLEAN
    OBVIOUS
  <2>3. prn' \in PrinterType /\ SameRequest(prn, prn')
    BY <1>1, <2>1, <2>2 DEF PrinterType, SameRequest
  <2> QED BY <2>3, SameRequestKeeps
<1>5. CASE Offline \/ Online
  <2>1. prn' \in PrinterType /\ SameRequest(prn, prn')
    BY <1>1, <1>5 DEF Offline, Online, PrinterType, SameRequest
  <2> QED BY <2>1, SameRequestKeeps
<1> QED BY <1>2, <1>3, <1>4, <1>5

\* PrinterInv is inductive: each entry of the driver keeps the types and who prints for whom.
THEOREM PrinterInvariance == PrinterSpec => []PrinterInv
<1>1. PrinterInv /\ [PrinterNext]_prn => PrinterInv'
  <2> SUFFICES ASSUME PrinterInv, [PrinterNext]_prn
               PROVE  PrinterInv'
    OBVIOUS
  <2>1. CASE UNCHANGED prn
    BY <2>1 DEF PrinterInv, WriterServed
  <2> QED BY <2>1, WriteKeeps, DoneKeeps, CancelKeeps, RestartKeeps, DeviceKeeps DEF PrinterNext
<1> QED BY <1>1, PrinterInitKeeps, PTL DEF PrinterSpec

\* Nobody waits for a printer that believes itself idle, or that prints for another,
\* through cancellations, late messages, restarts and errors.
THEOREM WritersServed == PrinterSpec => []WriterServed
<1>1. PrinterInv => WriterServed
  BY DEF PrinterInv
<1> QED BY <1>1, PrinterInvariance, PTL
-----------------------------------------------------------------------------
(* The diskette driver. *)

\* The fields of a request.
JobShape ==
  job \in [drive : Drives, block : {job.block}, position : {job.position},
           errors : {job.errors}, back : {"seek", "recalibrate"}, again : {job.again}]

\* From the moment the motor is on until the driver is done, the goal is what runs, so
\* that stop_motor() has nothing to do.
GoalKept == /\ motors.goal \subseteq motors.status
            /\ pc \notin {"receive", "try", "set_stop"} => motors.goal = motors.status

\* A motor that is on has its speed, but for one that is being waited for.
Starting == pc \in {"set_start", "spinning"} /\ ~sends
AtSpeed ==
  /\ \A x \in motors.status : /\ motors.speed[x] # "off"
                              /\ motors.speed[x] = "full" \/ (Starting /\ x = job.drive)
  /\ pc \in {"seek", "recalibrate", "transfer", "set_start", "spinning", "recalibrating",
             "seeking", "transferring"} => job.drive \in motors.status

\* Who waits for whom.
Agreed ==
  /\ (fdc # "idle") = (pc \in Awaits)
  /\ (pc = "spinning") = (watchdog = "send_mess" \/ sends)
  /\ sends => watchdog = "none"

FInv == FloppyTypeOK /\ JobShape /\ Agreed /\ GoalKept /\ AtSpeed

\* FInv implies what the run checks.
LEMMA FInvImplies == FInv => FloppyAgrees
BY DEF FInv, FloppyAgrees, Agreed, AtSpeed, Starting, FloppyTypeOK, Awaits

LEMMA FloppyInitKeeps ==
  ASSUME FloppyInit
  PROVE  FInv
<1>1. 0 \in Drives
  BY FloppyAssumption DEF Drives
<1>2. FloppyTypeOK /\ JobShape
  BY <1>1 DEF FloppyInit, FloppyTypeOK, JobShape, Awaits
<1> QED BY <1>1, <1>2 DEF FloppyInit, FInv, Agreed, GoalKept, AtSpeed, Starting, Awaits

\* What an output to DOR makes of the motors.
LEMMA TurnedFacts ==
  ASSUME NEW speed \in [Drives -> {"off", "starting", "full"}], NEW on \in SUBSET Drives
  PROVE  /\ Turned(speed, on) \in [Drives -> {"off", "starting", "full"}]
         /\ \A x \in on : /\ Turned(speed, on)[x] # "off"
                          /\ speed[x] # "off" => Turned(speed, on)[x] = speed[x]
BY DEF Turned

\* start_motor(): if it need not wait, the motor was at speed.
LEMMA StartMotorKeeps ==
  ASSUME FInv, NEW next, start_motor(next), next \in {"seek", "recalibrate"},
         pc \notin {"set_start", "spinning"}, ~sends, watchdog # "send_mess",
         UNCHANGED clock_side, JobShape', job'.drive = job.drive, fdc' = "idle"
  PROVE  FInv'
<1> DEFINE on == {job.drive} \cup (motors.status \cap motors.prev)
           speed == Turned(motors.speed, on)
<1>1. /\ job.drive \in Drives /\ on \in SUBSET Drives
      /\ motors.speed \in [Drives -> {"off", "starting", "full"}]
  BY DEF FInv, FloppyTypeOK
<1>2. /\ speed \in [Drives -> {"off", "starting", "full"}]
      /\ \A x \in on : speed[x] # "off" /\ (motors.speed[x] # "off" => speed[x] = motors.speed[x])
  BY <1>1, TurnedFacts
<1>3. motors' = [status |-> on, goal |-> on, prev |-> {job.drive}, speed |-> speed]
  BY DEF start_motor, Started
<1>4. pc' = IF job.drive \in motors.status THEN next ELSE "set_start"
  BY DEF start_motor
<1>5. \A x \in motors.status : motors.speed[x] = "full"
  BY DEF FInv, AtSpeed, Starting
<1>6. \A x \in on : x \in motors.status \/ x = job.drive
  OBVIOUS
<1>7. job.drive \in on
  OBVIOUS
<1> HIDE DEF on, speed
<1>8. /\ motors'.status = on /\ motors'.goal = on /\ motors'.speed = speed
      /\ motors' \in [status : SUBSET Drives, goal : SUBSET Drives, prev : SUBSET Drives,
                      speed : [Drives -> {"off", "starting", "full"}]]
  BY <1>1, <1>2, <1>3
<1>9. FloppyTypeOK'
  BY <1>4, <1>8 DEF FInv, FloppyTypeOK, JobShape, clock_side, Awaits
<1>10. Agreed'
  BY <1>4 DEF FInv, Agreed, clock_side, Awaits
<1>11. GoalKept'
  BY <1>8 DEF GoalKept
<1>12. AtSpeed'
  BY <1>2, <1>4, <1>5, <1>6, <1>7, <1>8 DEF AtSpeed, Starting, clock_side
<1> QED BY <1>9, <1>10, <1>11, <1>12 DEF FInv

\* A step that leaves the motors alone, between places where that is right.
LEMMA MotorsLeft ==
  ASSUME FInv, UNCHANGED motors, JobShape', job'.drive = job.drive, FloppyTypeOK', Agreed',
         pc \notin {"set_start", "spinning"} \/ sends \/ UNCHANGED <<pc, sends>>
           \/ (pc = "set_start" /\ pc' = "spinning" /\ ~sends'),
         pc' \in {"receive", "try", "set_stop"}
           \/ pc \notin {"receive", "try", "set_stop", "resetting"}
           \/ UNCHANGED pc
  PROVE  FInv'
<1>1. GoalKept'
  BY DEF FInv, GoalKept
<1>2. AtSpeed'
  <2>1. \A x \in motors.status : motors.speed[x] = "full" \/ (Starting' /\ x = job'.drive)
    BY DEF FInv, AtSpeed, Starting
  <2>2. pc' \in {"seek", "recalibrate", "transfer", "set_start", "spinning", "recalibrating",
                 "seeking", "transferring"} => job.drive \in motors.status
    BY DEF FInv, AtSpeed, FloppyTypeOK, Awaits
  <2> QED BY <2>1, <2>2 DEF FInv, AtSpeed
<1> QED BY <1>1, <1>2 DEF FInv

\* The request is over: only the goal changes.
LEMMA FinishKeeps ==
  ASSUME FInv, NEW result, Finish(result), pc \notin {"set_start", "spinning"}, ~sends,
         watchdog # "send_mess", UNCHANGED clock_side, UNCHANGED job, fdc' = "idle"
  PROVE  FInv'
<1>1. /\ motors'.status = motors.status /\ motors'.goal = {} /\ motors'.speed = motors.speed
      /\ motors' \in [status : SUBSET Drives, goal : SUBSET Drives, prev : SUBSET Drives,
                      speed : [Drives -> {"off", "starting", "full"}]]
  BY DEF Finish, FInv, FloppyTypeOK
<1>2. pc' = "set_stop"
  BY DEF Finish
<1>3. FloppyTypeOK' /\ JobShape'
  BY <1>1, <1>2 DEF FInv, FloppyTypeOK, JobShape, clock_side
<1>4. Agreed' /\ GoalKept'
  BY <1>1, <1>2 DEF FInv, Agreed, GoalKept, clock_side, Awaits
<1>5. AtSpeed'
  BY <1>1, <1>2 DEF FInv, AtSpeed, Starting, clock_side
<1> QED BY <1>3, <1>4, <1>5 DEF FInv
-----------------------------------------------------------------------------
LEMMA RequestKeeps ==
  ASSUME FInv, NEW x \in Drives, NEW block \in Asked, do_rdwt(x, block)
  PROVE  FInv'
<1>1. /\ job' = [drive |-> x, block |-> block, position |-> Position(block, density[x]),
                 errors |-> 0, back |-> "seek", again |-> FALSE]
      /\ pc = "receive" /\ pc' = "try" /\ UNCHANGED <<motors, clock_side, fdc>>
  BY DEF do_rdwt
<1>2. JobShape' /\ job'.drive \in Drives /\ job'.back = "seek"
  BY <1>1 DEF JobShape
<1>3. FloppyTypeOK'
  BY <1>1, <1>2 DEF FInv, FloppyTypeOK, clock_side
<1>4. Agreed' /\ GoalKept'
  BY <1>1 DEF FInv, Agreed, GoalKept, clock_side, Awaits
<1>5. AtSpeed'
  BY <1>1 DEF FInv, AtSpeed, Starting, clock_side
<1> QED BY <1>2, <1>3, <1>4, <1>5 DEF FInv

LEMMA TryKeeps ==
  ASSUME FInv, Try
  PROVE  FInv'
<1>1. /\ job' = [job EXCEPT !.errors = job.errors + 1, !.back = "seek", !.again = FALSE]
      /\ \/ pc' = "try" /\ UNCHANGED <<motors, fdc>>
         \/ /\ pc' = "resetting" /\ fdc' = "works"
            /\ motors' = [motors EXCEPT !.status = {}, !.goal = {}, !.speed = Turned(@, {})]
         \/ start_motor("seek") /\ UNCHANGED fdc
  BY DEF Try
<1>2. pc = "try" /\ UNCHANGED clock_side /\ fdc = "idle" /\ ~sends /\ watchdog # "send_mess"
  BY DEF Try, FInv, Agreed, FloppyTypeOK, Awaits, clock_side
<1>3. JobShape' /\ job'.drive = job.drive /\ job'.back = "seek" /\ job'.drive \in Drives
  BY <1>1 DEF FInv, JobShape
<1>4. CASE pc' = "try" /\ UNCHANGED <<motors, fdc>>
  <2>1. FloppyTypeOK' /\ Agreed'
    BY <1>2, <1>3, <1>4 DEF FInv, FloppyTypeOK, Agreed, clock_side
  <2> QED BY <1>2, <1>3, <1>4, <2>1, MotorsLeft
<1>5. CASE /\ pc' = "resetting" /\ fdc' = "works"
           /\ motors' = [motors EXCEPT !.status = {}, !.goal = {}, !.speed = Turned(@, {})]
  <2>1. /\ motors'.status = {} /\ motors'.goal = {}
        /\ motors' \in [status : SUBSET Drives, goal : SUBSET Drives, prev : SUBSET Drives,
                        speed : [Drives -> {"off", "starting", "full"}]]
    BY <1>5, TurnedFacts DEF FInv, FloppyTypeOK
  <2>2. FloppyTypeOK'
    BY <1>2, <1>3, <1>5, <2>1 DEF FInv, FloppyTypeOK, Awaits, clock_side
  <2>3. Agreed' /\ GoalKept' /\ AtSpeed'
    BY <1>2, <1>5, <2>1 DEF FInv, Agreed, GoalKept, AtSpeed, Awaits, clock_side
  <2> QED BY <1>3, <2>2, <2>3 DEF FInv
<1>6. CASE start_motor("seek") /\ UNCHANGED fdc
  BY <1>2, <1>3, <1>6, StartMotorKeeps
<1> QED BY <1>1, <1>4, <1>5, <1>6

LEMMA GiveUpKeeps ==
  ASSUME FInv, GiveUp
  PROVE  FInv'
<1>1. pc = "try" /\ UNCHANGED clock_side /\ fdc' = "idle" /\ ~sends /\ watchdog # "send_mess"
  BY DEF GiveUp, FInv, Agreed, FloppyTypeOK, Awaits, clock_side
<1> QED BY <1>1, FinishKeeps DEF GiveUp

\* What an interrupt that the driver takes finds.
LEMMA InterruptedFacts ==
  ASSUME FInv, NEW wait \in Awaits, Interrupted(wait)
  PROVE  /\ pc = wait /\ fdc' = "idle" /\ ~sends /\ watchdog # "send_mess"
         /\ pc \notin {"set_start", "spinning"}
BY DEF Interrupted, FInv, Agreed, Awaits

LEMMA ResetKeeps ==
  ASSUME FInv, Reset
  PROVE  FInv'
<1>1. JobShape' /\ job'.drive = job.drive /\ UNCHANGED clock_side
  BY DEF Reset, FInv, JobShape
<1>2. "resetting" \in Awaits /\ Interrupted("resetting") /\ start_motor("seek")
  BY DEF Reset, Awaits
<1> QED BY <1>1, <1>2, InterruptedFacts, StartMotorKeeps

LEMMA CallRecalibrateFacts ==
  ASSUME FInv, NEW again, CallRecalibrate(again)
  PROVE  JobShape' /\ job'.drive = job.drive /\ start_motor("recalibrate")
<1>1. job' = [job EXCEPT !.back = "recalibrate", !.again = again] /\ start_motor("recalibrate")
  BY DEF CallRecalibrate
<1> QED BY <1>1 DEF FInv, JobShape

LEMMA SeekUncalibratedKeeps ==
  ASSUME FInv, SeekUncalibrated
  PROVE  FInv'
<1>1. pc = "seek" /\ UNCHANGED clock_side /\ fdc' = "idle" /\ ~sends /\ watchdog # "send_mess"
  BY DEF SeekUncalibrated, FInv, Agreed, FloppyTypeOK, Awaits
<1>2. CallRecalibrate(FALSE)
  BY DEF SeekUncalibrated
<1> QED BY <1>1, <1>2, CallRecalibrateFacts, StartMotorKeeps

LEMMA SoughtKeeps ==
  ASSUME FInv, Sought
  PROVE  FInv'
<1>1. UNCHANGED clock_side /\ "seeking" \in Awaits /\ Interrupted("seeking")
  BY DEF Sought, Awaits
<1>2. CASE CallRecalibrate(TRUE)
  BY <1>1, <1>2, InterruptedFacts, CallRecalibrateFacts, StartMotorKeeps
<1>3. CASE pc' = "transfer" /\ UNCHANGED <<job, motors>>
  <2>1. /\ pc = "seeking" /\ fdc' = "idle" /\ ~sends /\ watchdog # "send_mess"
        /\ UNCHANGED <<watchdog, sends>> /\ JobShape'
    BY <1>1, <1>3, InterruptedFacts DEF clock_side, FInv, JobShape
  <2>2. FloppyTypeOK' /\ Agreed'
    BY <1>3, <2>1 DEF FInv, FloppyTypeOK, Agreed, Awaits
  <2> QED BY <1>3, <2>1, <2>2, MotorsLeft
<1> QED BY <1>2, <1>3 DEF Sought

\* fdc_out() of a command whose drive runs.
LEMMA CommandKeeps ==
  ASSUME FInv, NEW wait \in Awaits \ {"resetting"}, Command(wait),
         pc \in {"seek", "recalibrate", "transfer"}, UNCHANGED <<job, motors, clock_side>>
  PROVE  FInv'
<1>1. /\ fdc = "idle" /\ ~sends /\ watchdog # "send_mess" /\ UNCHANGED <<watchdog, sends>>
      /\ JobShape'
  BY DEF FInv, FloppyTypeOK, Agreed, Awaits, clock_side, JobShape
<1>2. (pc' = wait /\ fdc' = "works") \/ (pc' = "try" /\ fdc' = "idle")
  BY <1>1 DEF Command
<1>3. FloppyTypeOK' /\ Agreed'
  BY <1>1, <1>2 DEF FInv, FloppyTypeOK, Agreed, Awaits
<1> QED BY <1>1, <1>2, <1>3, MotorsLeft DEF Awaits

LEMMA SeekKeeps ==
  ASSUME FInv, Seek \/ Recalibrate
  PROVE  FInv'
BY CommandKeeps DEF Seek, Recalibrate, Awaits

LEMMA TransferKeeps ==
  ASSUME FInv, Transfer
  PROVE  FInv'
<1>1. pc = "transfer" /\ UNCHANGED <<job, motors, clock_side>>
  BY DEF Transfer
<1>2. CASE Command("transferring")
  BY <1>1, <1>2, CommandKeeps DEF Awaits
<1>3. CASE pc' = "try" /\ UNCHANGED <<sick, fdc>>
  <2>1. ~sends /\ watchdog # "send_mess" /\ UNCHANGED <<watchdog, sends>> /\ JobShape'
    BY <1>1 DEF FInv, Agreed, clock_side, JobShape
  <2>2. FloppyTypeOK' /\ Agreed'
    BY <1>1, <1>3, <2>1 DEF FInv, FloppyTypeOK, Agreed, Awaits
  <2> QED BY <1>1, <1>3, <2>1, <2>2, MotorsLeft
<1> QED BY <1>2, <1>3 DEF Transfer

\* A try that has failed after its interrupt.
LEMMA RetryKeeps ==
  ASSUME FInv, NEW wait \in Awaits \ {"resetting"}, Interrupted(wait),
         pc' \in {"try", "seek"}, UNCHANGED <<job, motors, clock_side>>
  PROVE  FInv'
<1>1. /\ pc = wait /\ fdc' = "idle" /\ ~sends /\ watchdog # "send_mess"
      /\ UNCHANGED <<watchdog, sends>> /\ JobShape'
  BY InterruptedFacts DEF clock_side, FInv, JobShape
<1>2. FloppyTypeOK' /\ Agreed'
  BY <1>1 DEF FInv, FloppyTypeOK, Agreed, Awaits
<1> QED BY <1>1, <1>2, MotorsLeft DEF Awaits

LEMMA RecalibratedKeeps ==
  ASSUME FInv, Recalibrated
  PROVE  FInv'
<1>1. /\ "recalibrating" \in Awaits \ {"resetting"} /\ Interrupted("recalibrating")
      /\ pc' \in {"try", "seek"} /\ UNCHANGED <<job, motors, clock_side>>
  BY DEF Recalibrated, Awaits
<1> QED BY <1>1, RetryKeeps

LEMMA TransferredKeeps ==
  ASSUME FInv, Transferred
  PROVE  FInv'
<1>1. /\ "transferring" \in Awaits \ {"resetting"} /\ Interrupted("transferring")
      /\ UNCHANGED <<job, clock_side>>
  BY DEF Transferred, Awaits
<1>2. CASE Finish("OK") \/ Finish("EIO")
  BY <1>1, <1>2, InterruptedFacts, FinishKeeps
<1>3. CASE pc' = "try" /\ UNCHANGED motors
  BY <1>1, <1>3, RetryKeeps
<1> QED BY <1>2, <1>3 DEF Transferred

\* The driver's calls of CLOCK.
LEMMA ClockCallsKeep ==
  ASSUME FInv, SetStart \/ Spun \/ SetStop
  PROVE  FInv'
<1>1. /\ UNCHANGED <<motors, fdc>> /\ JobShape' /\ job'.drive = job.drive
      /\ job'.back = job.back
  BY DEF SetStart, Spun, SetStop, FInv, JobShape
<1>2. job.back \in {"seek", "recalibrate"}
  BY DEF FInv, FloppyTypeOK
<1>3. CASE SetStart
  <2>1. FloppyTypeOK' /\ Agreed'
    BY <1>1, <1>3 DEF SetStart, FInv, FloppyTypeOK, Agreed, Awaits
  <2> QED BY <1>1, <1>3, <2>1, MotorsLeft DEF SetStart
<1>4. CASE Spun
  <2>1. /\ pc = "spinning" /\ sends /\ ~sends' /\ pc' \in {"seek", "recalibrate"}
        /\ watchdog = "none" /\ watchdog' = "none"
    BY <1>2, <1>4 DEF Spun, FInv, Agreed
  <2>2. sends' = FALSE
    BY <1>4 DEF Spun
  <2>3. FloppyTypeOK'
    BY <1>1, <2>1, <2>2 DEF FInv, FloppyTypeOK
  <2>4. Agreed'
    BY <1>1, <2>1 DEF FInv, Agreed, Awaits
  <2> QED BY <1>1, <2>1, <2>3, <2>4, MotorsLeft
<1>5. CASE SetStop
  <2>1. FloppyTypeOK' /\ Agreed'
    BY <1>1, <1>5 DEF SetStop, FInv, FloppyTypeOK, Agreed, Awaits
  <2> QED BY <1>1, <1>5, <2>1, MotorsLeft DEF SetStop
<1> QED BY <1>3, <1>4, <1>5

LEMMA FdcInterruptKeeps ==
  ASSUME FInv, FdcInterrupt
  PROVE  FInv'
<1>1. UNCHANGED <<pc, sends, watchdog, job, motors>> /\ JobShape'
  BY DEF FdcInterrupt, clock_side, FInv, JobShape
<1>2. FloppyTypeOK' /\ Agreed'
  BY <1>1 DEF FdcInterrupt, FInv, FloppyTypeOK, Agreed
<1> QED BY <1>1, <1>2, MotorsLeft

\* CLOCK's watchdogs: stop_motor() takes from what runs nothing that is in use.
LEMMA StopMotorKeeps ==
  ASSUME FInv, stop_motor
  PROVE  FInv'
<1> DEFINE speed == Turned(motors.speed, motors.goal)
<1>1. /\ motors.goal \in SUBSET Drives /\ motors.goal \subseteq motors.status
      /\ motors.speed \in [Drives -> {"off", "starting", "full"}]
  BY DEF FInv, FloppyTypeOK, GoalKept
<1>2. /\ speed \in [Drives -> {"off", "starting", "full"}]
      /\ \A x \in motors.goal : /\ speed[x] # "off"
                                /\ motors.speed[x] # "off" => speed[x] = motors.speed[x]
  BY <1>1, TurnedFacts
<1>3. motors' = [motors EXCEPT !.status = motors.goal, !.speed = speed]
  BY DEF stop_motor
<1> HIDE DEF speed
<1>4. /\ motors'.status = motors.goal /\ motors'.goal = motors.goal /\ motors'.speed = speed
      /\ motors' \in [status : SUBSET Drives, goal : SUBSET Drives, prev : SUBSET Drives,
                      speed : [Drives -> {"off", "starting", "full"}]]
  BY <1>1, <1>2, <1>3 DEF FInv, FloppyTypeOK
<1>5. /\ UNCHANGED <<pc, job, sends, fdc>> /\ watchdog = "stop_motor" /\ watchdog' = "none"
      /\ pc \notin {"try", "seek", "recalibrate", "transfer"}
  BY DEF stop_motor, Running
<1>6. FloppyTypeOK' /\ JobShape' /\ Agreed' /\ GoalKept'
  BY <1>4, <1>5 DEF FInv, FloppyTypeOK, JobShape, Agreed, GoalKept
<1>7. \A x \in motors.goal : /\ motors.speed[x] # "off"
                             /\ motors.speed[x] = "full" \/ (Starting /\ x = job.drive)
  BY <1>1 DEF FInv, AtSpeed
<1>8. Starting' = Starting
  BY <1>5 DEF Starting
<1>9. AtSpeed'
  BY <1>2, <1>4, <1>5, <1>7, <1>8 DEF FInv, AtSpeed, GoalKept
<1> QED BY <1>6, <1>9 DEF FInv

LEMMA SendMessKeeps ==
  ASSUME FInv, send_mess
  PROVE  FInv'
<1> DEFINE speed == [x \in Drives |-> IF motors.speed[x] = "starting" THEN "full"
                                      ELSE motors.speed[x]]
<1>1. /\ motors.status \in SUBSET Drives
      /\ motors.speed \in [Drives -> {"off", "starting", "full"}]
  BY DEF FInv, FloppyTypeOK
<1>2. /\ speed \in [Drives -> {"off", "starting", "full"}]
      /\ \A x \in motors.status : motors.speed[x] # "off" => speed[x] = "full"
  BY <1>1
<1>3. motors' = [motors EXCEPT !.speed = speed]
  BY DEF send_mess
<1> HIDE DEF speed
<1>4. /\ motors'.status = motors.status /\ motors'.goal = motors.goal /\ motors'.speed = speed
      /\ motors' \in [status : SUBSET Drives, goal : SUBSET Drives, prev : SUBSET Drives,
                      speed : [Drives -> {"off", "starting", "full"}]]
  BY <1>2, <1>3 DEF FInv, FloppyTypeOK
<1>5. /\ UNCHANGED <<pc, job, fdc>> /\ watchdog = "send_mess" /\ ~sends
      /\ watchdog' = "none" /\ sends'
  BY DEF send_mess
<1>6. FloppyTypeOK' /\ JobShape' /\ Agreed' /\ GoalKept'
  BY <1>4, <1>5 DEF send_mess, FInv, FloppyTypeOK, JobShape, Agreed, GoalKept
<1>7. AtSpeed'
  BY <1>2, <1>4, <1>5 DEF FInv, AtSpeed
<1> QED BY <1>6, <1>7 DEF FInv
-----------------------------------------------------------------------------
\* FInv is inductive: no step of the driver, of CLOCK or of the controller breaks it.
THEOREM FloppyInvariance == FloppySpec => []FInv
<1>1. FInv /\ [FloppyNext]_floppy_vars => FInv'
  <2> SUFFICES ASSUME FInv, [FloppyNext]_floppy_vars
               PROVE  FInv'
    OBVIOUS
  <2>1. CASE UNCHANGED floppy_vars
    BY <2>1 DEF floppy_vars, drive_vars, clock_side, FInv, FloppyTypeOK, JobShape, Agreed,
                GoalKept, AtSpeed, Starting
  <2>2. CASE FloppyNext
    BY <2>2, RequestKeeps, GiveUpKeeps, TryKeeps, ResetKeeps, SeekKeeps, SeekUncalibratedKeeps,
       RecalibratedKeeps, SoughtKeeps, TransferKeeps, TransferredKeeps, ClockCallsKeep,
       StopMotorKeeps, SendMessKeeps, FdcInterruptKeeps DEF FloppyNext
  <2> QED BY <2>1, <2>2
<1>2. FloppyInit => FInv
  BY FloppyInitKeeps
<1> QED BY <1>1, <1>2, PTL DEF FloppySpec

\* The driver never waits for an interrupt or a message that does not come, none comes
\* that it does not wait for, and the motor of a drive that works is never stopped.
THEOREM DriverAgrees == FloppySpec => []FloppyAgrees
<1>1. FInv => FloppyAgrees
  BY FInvImplies
<1> QED BY <1>1, FloppyInvariance, PTL
-----------------------------------------------------------------------------
(* The terminal. *)

\* The type of the task's state.
TtyState ==
  [inq : Seq(Stored), lfct : Int, escaped : BOOLEAN, mode : Modes,
   inhibited : BOOLEAN, inleft : 0 .. MaxCount, reader : Users \cup {NoUser},
   outleft : 0 .. MaxCount, waiting : Users \cup {NoUser}, copied : Seq(Key),
   console : {"no", "XON", "WRITE"},
   user : [Users -> {"runs", "reads", "writes"}], lost : BOOLEAN]

\* The lines that are counted are those in the queue.
Counted(t) == ~t.lost => t.lfct = Cardinality(LineEnds(t.inq))

\* Whoever waits in a write is the one the task is to answer, and that one does wait.
WritersKnown(t) ==
  /\ \A p \in Users : t.user[p] = "writes" => p = t.waiting
  /\ ~t.lost /\ t.waiting # NoUser => t.user[t.waiting] = "writes"

\* Whoever hangs in a read is the one for whom characters are still needed.
ReaderKnown(t) ==
  /\ \A p \in Users : t.user[p] = "reads" => t.inleft > 0 /\ p = t.reader
  /\ ~t.lost /\ t.inleft > 0 => t.reader \in Users /\ t.user[t.reader] = "reads"

\* Who hangs does so because there is no line.
Hungry(t) == ~t.lost /\ t.inleft > 0 => t.lfct = 0

TtyGood(t) == /\ t \in TtyState /\ Len(t.inq) <= TTY_IN_BYTES + 1
              /\ Counted(t) /\ WritersKnown(t) /\ ReaderKnown(t)

\* The largest of some numbers.
LEMMA LargestIndex ==
  ASSUME NEW n \in Nat, NEW S \in SUBSET (0 .. n), S # {}
  PROVE  Max(S) \in S /\ \A y \in S : y <= Max(S)
<1> DEFINE T == {i \in 0 .. n : n - i \in S}
<1>1. PICK s \in S : TRUE
  OBVIOUS
<1>2. n - s \in T
  BY <1>1
<1>3. T \in SUBSET Nat /\ T # {}
  BY <1>2
<1>4. PICK m \in T : \A y \in T : m <= y
  <2> HIDE DEF T
  <2>1. LET m == CHOOSE x \in T : \A y \in T : x <= y
        IN  m \in T /\ \A y \in T : m <= y
    BY <1>3, LeastIndex
  <2>2. \E m \in T : \A y \in T : m <= y
    BY <2>1, Zenon
  <2> QED BY <2>2
<1>5. n - m \in S /\ \A y \in S : n - m >= y
  <2> SUFFICES ASSUME NEW y \in S
               PROVE  n - m >= y
    BY <1>4
  <2>1. n - y \in T
    OBVIOUS
  <2>2. m <= n - y /\ m \in 0 .. n /\ y \in 0 .. n
    BY <1>4, <2>1
  <2> HIDE DEF T
  <2> QED BY <2>2
<1> QED BY <1>5 DEF Max

\* The lines in a queue.
LEMMA EndsFinite ==
  ASSUME NEW q \in Seq(Stored)
  PROVE  /\ Len(q) \in Nat /\ DOMAIN q = 1 .. Len(q) /\ LineEnds(q) \in SUBSET (1 .. Len(q))
         /\ IsFiniteSet(LineEnds(q)) /\ Cardinality(LineEnds(q)) \in Nat
         /\ Cardinality(LineEnds(q)) = 0 <=> LineEnds(q) = {}
<1>1. Len(q) \in Nat /\ DOMAIN q = 1 .. Len(q)
  BY LenProperties
<1>2. LineEnds(q) \in SUBSET (1 .. Len(q))
  BY <1>1 DEF LineEnds
<1>3. IsFiniteSet(1 .. Len(q))
  BY <1>1, FS_Interval
<1>4. IsFiniteSet(LineEnds(q))
  BY <1>2, <1>3, FS_Subset
<1> QED BY <1>1, <1>2, <1>4, FS_CardinalityType, FS_EmptySet

\* A character more.
LEMMA EndsAppended ==
  ASSUME NEW q \in Seq(Stored), NEW c \in Stored
  PROVE  /\ Append(q, c) \in Seq(Stored) /\ Len(Append(q, c)) = Len(q) + 1
         /\ Cardinality(LineEnds(Append(q, c))) =
              Cardinality(LineEnds(q)) + (IF c \in {"nl", "MARKER"} THEN 1 ELSE 0)
<1> DEFINE n == Len(q)
           r == Append(q, c)
<1>1. /\ n \in Nat /\ DOMAIN q = 1 .. n /\ LineEnds(q) \in SUBSET (1 .. n)
      /\ IsFiniteSet(LineEnds(q)) /\ Cardinality(LineEnds(q)) \in Nat
  BY EndsFinite
<1>2. /\ r \in Seq(Stored) /\ Len(r) = n + 1 /\ DOMAIN r = 1 .. n + 1
      /\ r[n + 1] = c /\ \A i \in 1 .. n : r[i] = q[i]
  BY <1>1, AppendProperties
<1> HIDE DEF r
<1>3. /\ 1 .. n + 1 = (1 .. n) \cup {n + 1}
      /\ n + 1 \notin 1 .. n
  BY <1>1
<1>4. LineEnds(r) = LineEnds(q) \cup {i \in {n + 1} : c \in {"nl", "MARKER"}}
  <2>1. ASSUME NEW i \in 1 .. n
        PROVE  i \in LineEnds(r) <=> i \in LineEnds(q)
    <3>1. r[i] = q[i] /\ i \in DOMAIN q /\ i \in DOMAIN r
      BY <1>1, <1>2, <1>3
    <3> QED BY <3>1 DEF LineEnds
  <2>2. n + 1 \in LineEnds(r) <=> c \in {"nl", "MARKER"}
    <3>1. n + 1 \in DOMAIN r
      BY <1>2, <1>3
    <3> QED BY <3>1, <1>2 DEF LineEnds
  <2>3. LineEnds(r) \subseteq 1 .. n + 1
    BY <1>2 DEF LineEnds
  <2> QED BY <1>1, <1>3, <2>1, <2>2, <2>3
<1>5. CASE c \in {"nl", "MARKER"}
  <2>1. n + 1 \notin LineEnds(q)
    BY <1>1, <1>3
  <2>2. Cardinality(LineEnds(q) \cup {n + 1}) = Cardinality(LineEnds(q)) + 1
    BY <1>1, <2>1, FS_AddElement
  <2>3. LineEnds(r) = LineEnds(q) \cup {n + 1}
    BY <1>4, <1>5
  <2> QED BY <1>2, <1>5, <2>2, <2>3 DEF r
<1>6. CASE c \notin {"nl", "MARKER"}
  <2>1. LineEnds(r) = LineEnds(q)
    BY <1>4, <1>6
  <2> QED BY <1>1, <1>2, <1>6, <2>1 DEF r
<1> QED BY <1>5, <1>6

\* What is left when the first characters are read.
LEMMA EndsRead ==
  ASSUME NEW q \in Seq(Stored), NEW ct \in 0 .. Len(q)
  PROVE  LET r == SubSeq(q, ct + 1, Len(q))
         IN  /\ r \in Seq(Stored) /\ Len(r) = Len(q) - ct
             /\ Cardinality(LineEnds(r)) =
                  Cardinality(LineEnds(q)) - Cardinality(LineEnds(q) \cap (1 .. ct))
<1> DEFINE n == Len(q)
           r == SubSeq(q, ct + 1, n)
           H == LineEnds(q) \cap (1 .. ct)
           U == LineEnds(q) \ H
<1>1. /\ n \in Nat /\ DOMAIN q = 1 .. n /\ LineEnds(q) \in SUBSET (1 .. n)
      /\ IsFiniteSet(LineEnds(q)) /\ ct \in Nat /\ ct <= n
  BY EndsFinite
<1>2. \A i \in ct + 1 .. n : q[i] \in Stored
  BY <1>1, ElementOfSeq
<1>3. /\ r \in Seq(Stored) /\ Len(r) = n - ct
      /\ \A i \in 1 .. n - ct : r[i] = q[ct + i]
  <2>1. /\ r \in Seq(Stored) /\ Len(r) = IF ct + 1 <= n THEN n - (ct + 1) + 1 ELSE 0
        /\ \A i \in 1 .. n - (ct + 1) + 1 : r[i] = q[(ct + 1) + i - 1]
    <3>1. ct + 1 \in Int /\ n \in Int
      BY <1>1
    <3> QED BY <1>2, <3>1, SubSeqProperties
  <2> HIDE DEF r
  <2>2. Len(r) = n - ct
    <3> HIDE DEF n
    <3> QED BY <1>1, <2>1
  <2>3. ASSUME NEW i \in 1 .. n - ct
        PROVE  r[i] = q[ct + i]
    <3>1. i \in 1 .. n - (ct + 1) + 1 /\ (ct + 1) + i - 1 = ct + i
      BY <1>1
    <3> QED BY <2>1, <3>1
  <2> QED BY <2>1, <2>2, <2>3
<1> HIDE DEF r
<1>4. DOMAIN r = 1 .. n - ct
  BY <1>3, LenProperties
<1>5. /\ IsFiniteSet(H) /\ IsFiniteSet(U) /\ H \cap U = {} /\ H \cup U = LineEnds(q)
      /\ Cardinality(H) \in Nat /\ Cardinality(U) \in Nat
  <2>1. IsFiniteSet(H) /\ IsFiniteSet(U)
    BY <1>1, FS_Subset
  <2> QED BY <2>1, FS_CardinalityType
<1>6. Cardinality(LineEnds(q)) = Cardinality(H) + Cardinality(U)
  <2> HIDE DEF H, U
  <2>0. Cardinality({}) = 0
    BY FS_EmptySet
  <2>1. Cardinality(H \cup U) = Cardinality(H) + Cardinality(U) - Cardinality(H \cap U)
    BY <1>5, FS_Union
  <2>2. Cardinality(H \cap U) = 0
    BY <1>5, <2>0
  <2>3. Cardinality(LineEnds(q)) = Cardinality(H \cup U)
    BY <1>5
  <2> QED BY <1>5, <2>1, <2>2, <2>3
<1>7. Cardinality(U) = Cardinality(LineEnds(r))
  <2> DEFINE f == [i \in U |-> i - ct]
  <2>1. \A i : i \in U <=> i \in ct + 1 .. n /\ q[i] \in {"nl", "MARKER"}
    BY <1>1 DEF LineEnds
  <2>2. \A j : j \in LineEnds(r) <=> j \in 1 .. n - ct /\ q[ct + j] \in {"nl", "MARKER"}
    BY <1>3, <1>4 DEF LineEnds
  <2> HIDE DEF U
  <2>3. \A i \in U : i \in Int /\ i - ct \in LineEnds(r)
    <3> SUFFICES ASSUME NEW i \in U
                 PROVE  i \in Int /\ i - ct \in LineEnds(r)
      OBVIOUS
    <3>1. i \in ct + 1 .. n /\ q[i] \in {"nl", "MARKER"}
      BY <2>1
    <3>2. i \in Int /\ i - ct \in 1 .. n - ct /\ ct + (i - ct) = i
      BY <1>1, <3>1
    <3> QED BY <2>2, <3>1, <3>2
  <2>4. \A j \in LineEnds(r) : j \in Int /\ ct + j \in U /\ (ct + j) - ct = j
    <3> SUFFICES ASSUME NEW j \in LineEnds(r)
                 PROVE  j \in Int /\ ct + j \in U /\ (ct + j) - ct = j
      OBVIOUS
    <3>1. j \in 1 .. n - ct /\ q[ct + j] \in {"nl", "MARKER"}
      BY <2>2
    <3>2. j \in Int /\ ct + j \in ct + 1 .. n /\ (ct + j) - ct = j
      BY <1>1, <3>1
    <3> QED BY <2>1, <3>1, <3>2
  <2>5. f \in Bijection(U, LineEnds(r))
    <3>1. f \in [U -> LineEnds(r)]
      BY <2>3
    <3>2. \A a, b \in U : f[a] = f[b] => a = b
      BY <1>1, <2>3
    <3>3. \A j \in LineEnds(r) : \E i \in U : f[i] = j
      BY <2>4
    <3> HIDE DEF f
    <3>4. IsInjective(f)
      BY <3>1, <3>2 DEF IsInjective
    <3> QED BY <3>1, <3>3, <3>4 DEF Bijection, Injection, Surjection
  <2> QED BY <1>5, <2>5, FS_Bijection DEF ExistsBijection
<1> HIDE DEF H, U
<1>8. Cardinality(LineEnds(r)) = Cardinality(LineEnds(q)) - Cardinality(H)
  BY <1>5, <1>6, <1>7
<1> QED BY <1>3, <1>8 DEF r, H

\* What is left when the last characters, which end no line, are erased.
LEMMA EndsErased ==
  ASSUME NEW q \in Seq(Stored), NEW keep \in 0 .. Len(q),
         \A i \in keep + 1 .. Len(q) : q[i] \notin {"nl", "MARKER"}
  PROVE  SubSeq(q, 1, keep) \in Seq(Stored) /\ LineEnds(SubSeq(q, 1, keep)) = LineEnds(q)
<1> DEFINE n == Len(q)
           r == SubSeq(q, 1, keep)
<1>1. n \in Nat /\ DOMAIN q = 1 .. n /\ keep \in Nat
  BY EndsFinite
<1>2. \A i \in 1 .. keep : q[i] \in Stored
  BY <1>1, ElementOfSeq
<1>3. r \in Seq(Stored) /\ Len(r) = keep /\ \A i \in 1 .. keep : r[i] = q[i]
  BY <1>1, <1>2, SubSeqProperties
<1> HIDE DEF r
<1>4. DOMAIN r = 1 .. keep
  BY <1>3, LenProperties
<1>5. \A i : i \in LineEnds(q) <=> i \in LineEnds(r)
  BY <1>1, <1>3, <1>4 DEF LineEnds
<1> QED BY <1>3, <1>5 DEF r

\* The procedures that put characters into the queue, or take them out again, let
\* everybody wait who waits.
QueueOnly(t, u) ==
  /\ u \in TtyState
  /\ u.user = t.user /\ u.inleft = t.inleft /\ u.reader = t.reader
  /\ u.waiting = t.waiting /\ u.escaped = t.escaped /\ u.mode = t.mode
  /\ t.lost => u.lost

\* They keep what is to be shown if they count the lines.
LEMMA QueueGood ==
  ASSUME NEW t, NEW u, TtyGood(t), QueueOnly(t, u), Counted(u),
         Len(u.inq) <= TTY_IN_BYTES + 1
  PROVE  TtyGood(u)
BY DEF QueueOnly, TtyGood, WritersKnown, ReaderKnown

\* Store() puts a character at the end, or loses the count.
LEMMA StoreFacts ==
  ASSUME NEW t \in TtyState, NEW c \in Stored
  PROVE  /\ QueueOnly(t, Store(t, c)) /\ Store(t, c).lfct = t.lfct
         /\ Len(Store(t, c).inq) = Len(t.inq) + 1
         /\ ~Store(t, c).lost =>
              Cardinality(LineEnds(Store(t, c).inq)) =
                Cardinality(LineEnds(t.inq)) + (IF c \in {"nl", "MARKER"} THEN 1 ELSE 0)
<1> DEFINE q == Append(t.inq, c)
           u == Store(t, c)
<1>1. t.inq \in Seq(Stored) /\ t.lost \in BOOLEAN
  BY DEF TtyState
<1>2. /\ q \in Seq(Stored) /\ Len(q) = Len(t.inq) + 1
      /\ Cardinality(LineEnds(q)) =
           Cardinality(LineEnds(t.inq)) + (IF c \in {"nl", "MARKER"} THEN 1 ELSE 0)
  BY <1>1, EndsAppended
<1>3. CASE Len(t.inq) < TTY_IN_BYTES
  <2>1. u = [t EXCEPT !.inq = q]
    BY <1>3 DEF Store
  <2> HIDE DEF q, u
  <2> QED BY <1>1, <1>2, <2>1 DEF TtyState, QueueOnly, u
<1>4. CASE ~(Len(t.inq) < TTY_IN_BYTES)
  <2> DEFINE r == [q EXCEPT ![1] = c]
  <2>1. u = [t EXCEPT !.inq = r, !.lost = TRUE]
    BY <1>4 DEF Store
  <2> HIDE DEF q, u
  <2>2. r \in Seq(Stored) /\ Len(r) = Len(q)
    BY <1>2, ExceptSeq
  <2> HIDE DEF r
  <2>3. /\ u \in TtyState /\ u.inq = r /\ u.lost = TRUE /\ u.lfct = t.lfct
        /\ u.user = t.user /\ u.inleft = t.inleft /\ u.reader = t.reader
        /\ u.waiting = t.waiting /\ u.escaped = t.escaped /\ u.mode = t.mode
    BY <2>1, <2>2 DEF TtyState
  <2> QED BY <1>2, <2>2, <2>3 DEF QueueOnly, u
<1> QED BY <1>3, <1>4

\* So does the end of in_char(), which counts a line.
LEMMA KeptFacts ==
  ASSUME NEW t \in TtyState, NEW c \in Stored
  PROVE  /\ QueueOnly(t, Kept(t, c)) /\ Len(Kept(t, c).inq) = Len(t.inq) + 1
         /\ Counted(t) => Counted(Kept(t, c))
<1> DEFINE u == Store(t, c)
           d == IF c \in {"nl", "MARKER"} THEN 1 ELSE 0
<1>1. /\ QueueOnly(t, u) /\ u.lfct = t.lfct /\ Len(u.inq) = Len(t.inq) + 1
      /\ ~u.lost => Cardinality(LineEnds(u.inq)) = Cardinality(LineEnds(t.inq)) + d
  BY StoreFacts
<1>2. Kept(t, c) = [u EXCEPT !.lfct = @ + d]
  <2>1. u \in TtyState /\ u.lfct \in Int /\ d = IF c \in {"nl", "MARKER"} THEN 1 ELSE 0
    BY <1>1 DEF QueueOnly, TtyState
  <2>2. Kept(t, c) = [u EXCEPT !.lfct = IF c \in {"nl", "MARKER"} THEN @ + 1 ELSE @]
    BY DEF Kept
  <2> HIDE DEF u, d
  <2>3. (IF c \in {"nl", "MARKER"} THEN u.lfct + 1 ELSE u.lfct) = u.lfct + d
    BY <2>1
  <2> QED BY <2>2, <2>3
<1>3. d \in Int
  OBVIOUS
<1> HIDE DEF u, d
<1>4. t.lfct \in Int /\ Cardinality(LineEnds(t.inq)) \in Nat
  BY EndsFinite DEF TtyState
<1> DEFINE v == Kept(t, c)
<1>5. v = [u EXCEPT !.lfct = u.lfct + d] /\ u \in TtyState /\ u.lfct + d \in Int
  BY <1>1, <1>2, <1>3 DEF QueueOnly, TtyState
<1> HIDE DEF v
<1>6. /\ v \in TtyState /\ v.user = u.user /\ v.inleft = u.inleft /\ v.reader = u.reader
      /\ v.waiting = u.waiting /\ v.escaped = u.escaped /\ v.mode = u.mode
      /\ v.lost = u.lost /\ v.inq = u.inq /\ v.lfct = t.lfct + d
  BY <1>1, <1>5 DEF TtyState
<1>7. QueueOnly(t, v)
  BY <1>1, <1>6 DEF QueueOnly
<1>8. Counted(t) => Counted(v)
  BY <1>1, <1>6 DEF Counted, QueueOnly
<1> QED BY <1>1, <1>6, <1>7, <1>8 DEF v

\* The character, with the backslash before it.
LEMMA PlainFacts ==
  ASSUME NEW t \in TtyState, NEW k \in Key
  PROVE  /\ QueueOnly(t, Plain(t, k)) /\ Len(Plain(t, k).inq) <= Len(t.inq) + 2
         /\ Counted(t) => Counted(Plain(t, k))
<1> DEFINE s == IF k \in {"erase", "kill", "eof"} THEN t ELSE Store(t, "x")
           n == IF k = "nl" THEN "nl" ELSE "x"
           c == IF k = "nl" THEN "nl"
                ELSE IF Cooked(t) /\ k = "eof" THEN "MARKER" ELSE "x"
<1>0. n \in Stored /\ c \in Stored /\ "x" \in Stored
  BY DEF Stored
<1>1. Len(t.inq) \in Nat /\ Cardinality(LineEnds(t.inq)) \in Nat
  BY EndsFinite DEF TtyState
<1>2. /\ QueueOnly(t, s) /\ Len(s.inq) \in Len(t.inq) .. Len(t.inq) + 1
      /\ Counted(t) => Counted(s)
  <2>1. CASE k \in {"erase", "kill", "eof"}
    BY <1>1, <2>1 DEF QueueOnly
  <2>2. CASE k \notin {"erase", "kill", "eof"}
    <3>1. s = Store(t, "x")
      BY <2>2
    <3>2. /\ QueueOnly(t, Store(t, "x")) /\ Store(t, "x").lfct = t.lfct
          /\ Len(Store(t, "x").inq) = Len(t.inq) + 1
          /\ ~Store(t, "x").lost =>
               Cardinality(LineEnds(Store(t, "x").inq)) = Cardinality(LineEnds(t.inq))
      BY <1>0, <1>1, StoreFacts
    <3> HIDE DEF s
    <3> QED BY <1>1, <3>1, <3>2 DEF QueueOnly, Counted
  <2> QED BY <2>1, <2>2
<1>3. Plain(t, k) = IF Cooked(t) /\ t.escaped THEN Kept(s, n) ELSE Kept(t, c)
  BY DEF Plain
<1> HIDE DEF s, n, c
<1>4. s \in TtyState
  BY <1>2 DEF QueueOnly
<1>5. /\ QueueOnly(s, Kept(s, n)) /\ Len(Kept(s, n).inq) = Len(s.inq) + 1
      /\ Counted(s) => Counted(Kept(s, n))
  BY <1>0, <1>4, KeptFacts
<1>6. /\ QueueOnly(t, Kept(t, c)) /\ Len(Kept(t, c).inq) = Len(t.inq) + 1
      /\ Counted(t) => Counted(Kept(t, c))
  BY <1>0, KeptFacts
<1>7. CASE Cooked(t) /\ t.escaped
  <2>1. Plain(t, k) = Kept(s, n)
    BY <1>3, <1>7
  <2>2. QueueOnly(t, Kept(s, n))
    BY <1>2, <1>5 DEF QueueOnly
  <2>3. Len(Kept(s, n).inq) <= Len(t.inq) + 2
    BY <1>1, <1>2, <1>5
  <2> QED BY <1>2, <1>5, <2>1, <2>2, <2>3
<1>8. CASE ~(Cooked(t) /\ t.escaped)
  BY <1>1, <1>3, <1>6, <1>8
<1> QED BY <1>7, <1>8

\* chuck() stops at a line feed, and an end of file that it takes away is lost.
LEMMA ChuckFacts ==
  ASSUME NEW t \in TtyState, NEW n \in Nat
  PROVE  /\ QueueOnly(t, chuck(t, n)) /\ Len(chuck(t, n).inq) <= Len(t.inq)
         /\ Counted(t) => Counted(chuck(t, n))
<1> DEFINE q == t.inq
           I == {i \in 1 .. Len(q) : q[i] = "nl"}
           nl == SelectLastInSeq(q, LAMBDA c : c = "nl")
           keep == Max({nl, Len(q) - n})
           gone == \E i \in keep + 1 .. Len(q) : q[i] = "MARKER"
<1>1. q \in Seq(Stored) /\ Len(q) \in Nat /\ DOMAIN q = 1 .. Len(q) /\ t.lost \in BOOLEAN
  BY EndsFinite DEF TtyState
<1>2. nl \in 0 .. Len(q) /\ \A i \in I : i <= nl
  <2>1. nl = IF I # {} THEN Max(I) ELSE 0
    BY DEF SelectLastInSeq
  <2>2. I \in SUBSET (0 .. Len(q))
    BY <1>1
  <2> HIDE DEF nl
  <2>3. CASE I # {}
    <3> HIDE DEF I
    <3>1. Max(I) \in I /\ \A i \in I : i <= Max(I)
      BY <1>1, <2>2, <2>3, LargestIndex
    <3> QED BY <2>1, <2>2, <2>3, <3>1
  <2>4. CASE I = {}
    BY <1>1, <2>1, <2>4
  <2> QED BY <2>3, <2>4
<1> HIDE DEF nl
<1>3. keep \in 0 .. Len(q) /\ nl <= keep
  <2>1. nl \in Int /\ Len(q) - n \in Int /\ Len(q) - n <= Len(q)
    BY <1>1, <1>2
  <2>2. \E x \in {nl, Len(q) - n} : \A y \in {nl, Len(q) - n} : x >= y
    BY <2>1
  <2>3. keep \in {nl, Len(q) - n} /\ \A y \in {nl, Len(q) - n} : keep >= y
    BY <2>2 DEF Max
  <2> HIDE DEF keep
  <2> QED BY <1>2, <2>1, <2>3
<1> HIDE DEF keep
<1>4. chuck(t, n) = [t EXCEPT !.inq = SubSeq(q, 1, keep), !.lost = @ \/ gone]
  BY DEF chuck, keep, nl
<1>5. gone \in BOOLEAN
  OBVIOUS
<1>6. SubSeq(q, 1, keep) \in Seq(Stored) /\ Len(SubSeq(q, 1, keep)) = keep
  <2>1. \A i \in 1 .. keep : q[i] \in Stored
    BY <1>1, <1>3, ElementOfSeq
  <2> QED BY <1>3, <2>1, SubSeqProperties
<1>7. ~gone => LineEnds(SubSeq(q, 1, keep)) = LineEnds(q)
  <2> SUFFICES ASSUME ~gone
               PROVE  LineEnds(SubSeq(q, 1, keep)) = LineEnds(q)
    OBVIOUS
  <2>1. \A i \in keep + 1 .. Len(q) : q[i] \notin {"nl", "MARKER"}
    BY <1>1, <1>2, <1>3
  <2> QED BY <1>1, <1>3, <2>1, EndsErased
<1> DEFINE r == SubSeq(q, 1, keep)
<1> HIDE DEF gone, I, r
<1>8. /\ chuck(t, n) = [t EXCEPT !.inq = r, !.lost = t.lost \/ gone]
      /\ r \in Seq(Stored) /\ Len(r) = keep /\ (~gone => LineEnds(r) = LineEnds(q))
  BY <1>4, <1>6, <1>7 DEF r
<1> HIDE DEF q
<1>9. chuck(t, n) \in TtyState /\ chuck(t, n).inq = r /\ chuck(t, n).lost = (t.lost \/ gone)
  BY <1>5, <1>8, <1>1 DEF TtyState
<1>10. QueueOnly(t, chuck(t, n)) /\ chuck(t, n).lfct = t.lfct
  BY <1>5, <1>8, <1>9 DEF TtyState, QueueOnly
<1>11. ~chuck(t, n).lost => ~t.lost /\ LineEnds(chuck(t, n).inq) = LineEnds(t.inq)
  BY <1>6, <1>7, <1>9 DEF r, q
<1>12. Len(chuck(t, n).inq) <= Len(t.inq)
  BY <1>1, <1>3, <1>6, <1>9 DEF r, q
<1> HIDE DEF r, keep, gone
<1> QED BY <1>10, <1>11, <1>12 DEF Counted

\* rd_chars() takes one line, or what there is, and counts the lines it took.
LEMMA ReadFacts ==
  ASSUME NEW t \in TtyState, t.inq # <<>>, t.inleft > 0
  PROVE  \E q \in Seq(Stored), n \in Int :
           /\ rd_chars(t) = [t EXCEPT !.inq = q, !.lfct = n, !.inleft = 0]
           /\ Len(q) <= Len(t.inq)
           /\ t.lfct = Cardinality(LineEnds(t.inq)) => n = Cardinality(LineEnds(q))
<1> DEFINE E == LineEnds(t.inq)
           got == Min({t.inleft, Len(t.inq)})
           ends == {i \in E : i <= got}
           ct == IF Cooked(t) /\ ends # {} THEN Min(ends) ELSE got
           left == IF Cooked(t) /\ ends # {} THEN 1 ELSE Cardinality(ends)
           q == SubSeq(t.inq, ct + 1, Len(t.inq))
<1>1. /\ t.inq \in Seq(Stored) /\ Len(t.inq) \in Nat /\ E \in SUBSET (1 .. Len(t.inq))
      /\ t.lfct \in Int /\ t.inleft \in Nat /\ IsFiniteSet(E) /\ Cardinality(E) \in Nat
  BY EndsFinite, TtyAssumption DEF TtyState
<1>2. got \in 0 .. Len(t.inq)
  <2>1. \E x \in {t.inleft, Len(t.inq)} : \A y \in {t.inleft, Len(t.inq)} : x <= y
    BY <1>1
  <2>2. got \in {t.inleft, Len(t.inq)} /\ \A y \in {t.inleft, Len(t.inq)} : got <= y
    BY <2>1 DEF Min
  <2> HIDE DEF got
  <2> QED BY <1>1, <2>2
<1> HIDE DEF got, E
<1>3. ends = E \cap (1 .. got) /\ IsFiniteSet(ends) /\ Cardinality(ends) \in Nat
  <2>0. \A i \in E : i \in Nat /\ 1 <= i
    BY <1>1
  <2>1. ends = E \cap (1 .. got)
    <3>1. \A i \in E : i <= got <=> i \in 1 .. got
      BY <1>2, <2>0
    <3> QED BY <3>1, Zenon
  <2>2. IsFiniteSet(ends)
    BY <1>1, FS_Subset
  <2> QED BY <2>1, <2>2, FS_CardinalityType
<1>4. ct \in 0 .. Len(t.inq) /\ left = Cardinality(E \cap (1 .. ct)) /\ left \in Nat
  <2>1. CASE Cooked(t) /\ ends # {}
    <3>1. ends \in SUBSET Nat
      BY <1>2, <1>3
    <3> DEFINE m == Min(ends)
    <3>2. m \in ends /\ \A y \in ends : m <= y
      <4> HIDE DEF ends
      <4>1. LET x == CHOOSE x \in ends : \A y \in ends : x <= y
            IN  x \in ends /\ \A y \in ends : x <= y
        BY <2>1, <3>1, LeastIndex
      <4> QED BY <4>1, Zenon DEF Min
    <3> HIDE DEF m
    <3>3. m \in 1 .. got /\ m \in E
      BY <1>1, <1>2, <1>3, <3>2
    <3>4. E \cap (1 .. m) = {m}
      <4>1. ASSUME NEW i \in E, i \in 1 .. m
            PROVE  i = m
        <5>1. i \in ends
          BY <1>2, <3>3, <4>1
        <5> QED BY <1>1, <3>2, <3>3, <4>1, <5>1
      <4> QED BY <3>3, <4>1
    <3>5. Cardinality({m}) = 1
      BY FS_Singleton
    <3>6. ct = m /\ left = 1
      BY <2>1 DEF m
    <3>7. m \in 0 .. Len(t.inq)
      BY <1>1, <1>2, <3>3
    <3>8. Cardinality(E \cap (1 .. m)) = 1
      BY <3>4, <3>5
    <3> HIDE DEF ct, left
    <3> QED BY <3>6, <3>7, <3>8
  <2>2. CASE ~(Cooked(t) /\ ends # {})
    BY <1>2, <1>3, <2>2
  <2> QED BY <2>1, <2>2
<1>5. rd_chars(t) = [t EXCEPT !.inq = q, !.lfct = @ - left, !.inleft = 0]
  BY DEF rd_chars, got, E
<1> HIDE DEF ct, left
<1>6. /\ q \in Seq(Stored) /\ Len(q) = Len(t.inq) - ct
      /\ Cardinality(LineEnds(q)) = Cardinality(E) - Cardinality(E \cap (1 .. ct))
  BY <1>1, <1>4, EndsRead DEF E
<1> HIDE DEF q
<1>7. t.lfct - left \in Int
  BY <1>1, <1>4
<1>8. t.lfct = Cardinality(E) => t.lfct - left = Cardinality(LineEnds(q))
  BY <1>4, <1>6
<1>9. Len(q) <= Len(t.inq)
  BY <1>1, <1>4, <1>6
<1> QED BY <1>5, <1>6, <1>7, <1>8, <1>9 DEF E

\* What a reader that need not hang any more leaves.
LEMMA ReadGood ==
  ASSUME NEW t, TtyGood(t), t.inq # <<>>, t.inleft > 0,
         \A p \in Users : p # t.reader => t.user[p] # "reads",
         NEW u, u = [rd_chars(t) EXCEPT !.user[t.reader] = "runs"]
  PROVE  TtyGood(u) /\ Hungry(u)
<1>1. t \in TtyState
  BY DEF TtyGood
<1>2. PICK q \in Seq(Stored), n \in Int :
        /\ rd_chars(t) = [t EXCEPT !.inq = q, !.lfct = n, !.inleft = 0]
        /\ Len(q) <= Len(t.inq)
        /\ t.lfct = Cardinality(LineEnds(t.inq)) => n = Cardinality(LineEnds(q))
  BY <1>1, ReadFacts
<1>3. /\ u \in TtyState /\ u.inq = q /\ u.lfct = n /\ u.inleft = 0 /\ u.lost = t.lost
      /\ u.waiting = t.waiting /\ u.reader = t.reader
      /\ u.user = [t.user EXCEPT ![t.reader] = "runs"]
  <2> DEFINE v == rd_chars(t)
  <2>1. 0 \in 0 .. MaxCount
    BY TtyAssumption
  <2>2. v = [t EXCEPT !.inq = q, !.lfct = n, !.inleft = 0]
    BY <1>2
  <2>3. u = [v EXCEPT !.user[t.reader] = "runs"]
    OBVIOUS
  <2> HIDE DEF v
  <2>4. /\ v \in TtyState /\ v.inq = q /\ v.lfct = n /\ v.inleft = 0 /\ v.lost = t.lost
        /\ v.waiting = t.waiting /\ v.reader = t.reader /\ v.user = t.user
    BY <1>1, <2>1, <2>2 DEF TtyState
  <2> DEFINE w == [v.user EXCEPT ![t.reader] = "runs"]
  <2>5. w \in [Users -> {"runs", "reads", "writes"}]
    BY <2>4 DEF TtyState
  <2>6. u = [v EXCEPT !.user = w]
    BY <2>3
  <2>7. w = [t.user EXCEPT ![t.reader] = "runs"]
    BY <2>4
  <2> HIDE DEF w
  <2> QED BY <2>4, <2>5, <2>6, <2>7 DEF TtyState
<1>4. Len(q) \in Nat /\ Len(t.inq) \in Nat
  BY <1>1, EndsFinite DEF TtyState
<1>5. Len(u.inq) <= TTY_IN_BYTES + 1
  BY <1>2, <1>3, <1>4, TtyAssumption DEF TtyGood
<1>6. Counted(u)
  BY <1>2, <1>3 DEF TtyGood, Counted
<1>7. /\ t.user \in [Users -> {"runs", "reads", "writes"}] /\ t.reader \in Users \cup {NoUser}
      /\ t.waiting \in Users \cup {NoUser} /\ WritersKnown(t) /\ ReaderKnown(t)
  BY <1>1 DEF TtyState, TtyGood
<1>8. WritersKnown(u)
  <2>1. \A p \in Users : u.user[p] = "writes" => p = u.waiting
    BY <1>3, <1>7 DEF WritersKnown
  <2>2. ~t.lost /\ t.waiting # NoUser => t.waiting \in Users /\ t.waiting # t.reader
    BY <1>7 DEF WritersKnown, ReaderKnown
  <2> QED BY <1>3, <1>7, <2>1, <2>2 DEF WritersKnown
<1>9. ReaderKnown(u)
  BY <1>3, <1>7 DEF ReaderKnown
<1> QED BY <1>3, <1>5, <1>6, <1>8, <1>9 DEF TtyGood, Hungry

\* After do_charint() nobody hangs who could have a line.
LEMMA ServedGood ==
  ASSUME NEW t, TtyGood(t)
  PROVE  TtyGood(Served(t)) /\ Hungry(Served(t))
<1>1. /\ t \in TtyState /\ Len(t.inq) \in Nat /\ Cardinality(LineEnds(t.inq)) \in Nat
      /\ t.lfct \in Int /\ t.inleft \in Nat /\ t.inq \in Seq(Stored)
  BY EndsFinite, TtyAssumption DEF TtyGood, TtyState
<1>2. /\ t.user \in [Users -> {"runs", "reads", "writes"}] /\ t.reader \in Users \cup {NoUser}
      /\ t.waiting \in Users \cup {NoUser}
      /\ Counted(t) /\ WritersKnown(t) /\ ReaderKnown(t)
  BY <1>1 DEF TtyState, TtyGood
<1> DEFINE asks == t.inleft > 0 /\ (t.lfct > 0 \/ (~Cooked(t) /\ t.inq # <<>>))
<1>3. CASE ~asks
  <2>1. Served(t) = t
    BY <1>3 DEF Served
  <2>2. Hungry(t)
    BY <1>1, <1>2, <1>3 DEF Hungry, Counted
  <2> QED BY <2>1, <2>2
<1>4. CASE asks /\ Nothing(t)
  <2> DEFINE w == [t.user EXCEPT ![t.reader] = "runs"]
             u == [t EXCEPT !.user = w]
  <2>1. Served(t) = u
    BY <1>4 DEF Served
  <2>2. t.lost
    <3>1. Cardinality(LineEnds(<<>>)) = 0
      BY FS_EmptySet DEF LineEnds
    <3> QED BY <1>1, <1>2, <1>4, <3>1 DEF Nothing, Counted
  <2>3. w \in [Users -> {"runs", "reads", "writes"}]
    BY <1>2
  <2>4. \A p \in Users : w[p] = "runs" \/ w[p] = t.user[p]
    BY <1>2
  <2> HIDE DEF w
  <2>5. /\ u \in TtyState /\ u.user = w /\ u.lost = t.lost /\ u.inq = t.inq
        /\ u.inleft = t.inleft /\ u.reader = t.reader /\ u.waiting = t.waiting
    BY <1>1, <2>3 DEF TtyState
  <2> HIDE DEF u
  <2>6. WritersKnown(u) /\ ReaderKnown(u)
    BY <1>2, <2>2, <2>4, <2>5 DEF WritersKnown, ReaderKnown
  <2>7. Counted(u) /\ Hungry(u)
    BY <2>2, <2>5 DEF Counted, Hungry
  <2> QED BY <2>1, <2>5, <2>6, <2>7 DEF TtyGood
<1>5. CASE asks /\ ~Nothing(t)
  <2> DEFINE u == [rd_chars(t) EXCEPT !.user[t.reader] = "runs"]
  <2>1. Served(t) = u
    BY <1>5 DEF Served
  <2>2. t.inq # <<>> /\ t.inleft > 0
    BY <1>5 DEF Nothing
  <2>3. \A p \in Users : p # t.reader => t.user[p] # "reads"
    BY <1>2 DEF ReaderKnown
  <2>4. u = [rd_chars(t) EXCEPT !.user[t.reader] = "runs"]
    OBVIOUS
  <2> HIDE DEF u
  <2> QED BY <2>1, <2>2, <2>3, <2>4, ReadGood
<1> QED BY <1>3, <1>4, <1>5

\* finish() answers the writer, and nobody else.
LEMMA FinishGood ==
  ASSUME NEW t, TtyGood(t)
  PROVE  /\ TtyGood(finish(t)) /\ finish(t).waiting = NoUser
         /\ finish(t).inq = t.inq /\ finish(t).lfct = t.lfct /\ finish(t).lost = t.lost
         /\ finish(t).inleft = t.inleft
<1> DEFINE w == [p \in Users |-> IF p = t.waiting THEN "runs" ELSE t.user[p]]
           u == finish(t)
<1>1. t \in TtyState /\ Counted(t) /\ WritersKnown(t) /\ ReaderKnown(t)
  BY DEF TtyGood
<1>2. t.user \in [Users -> {"runs", "reads", "writes"}] /\ t.waiting \in Users \cup {NoUser}
  BY <1>1 DEF TtyState
<1>3. u = [t EXCEPT !.outleft = 0, !.waiting = NoUser, !.user = w]
  BY DEF finish
<1>4. w \in [Users -> {"runs", "reads", "writes"}] /\ 0 \in 0 .. MaxCount
  BY <1>2, TtyAssumption
<1>5. \A p \in Users : w[p] = IF p = t.waiting THEN "runs" ELSE t.user[p]
  OBVIOUS
<1> HIDE DEF w, u
<1>6. /\ u \in TtyState /\ u.user = w /\ u.waiting = NoUser /\ u.inq = t.inq
      /\ u.lfct = t.lfct /\ u.lost = t.lost /\ u.inleft = t.inleft /\ u.reader = t.reader
  BY <1>1, <1>3, <1>4 DEF TtyState
<1>7. Counted(u) /\ WritersKnown(u)
  BY <1>1, <1>5, <1>6 DEF Counted, WritersKnown
<1>8. ReaderKnown(u)
  <2>1. ~t.lost /\ t.inleft > 0 => t.reader # t.waiting
    BY <1>1, <1>2, TtyAssumption DEF WritersKnown, ReaderKnown
  <2> QED BY <1>1, <1>5, <1>6, <2>1 DEF ReaderKnown
<1> QED BY <1>6, <1>7, <1>8 DEF TtyGood, u

\* sigchar() answers the writer and empties the queue.
LEMMA SigcharGood ==
  ASSUME NEW t, TtyGood(t)
  PROVE  TtyGood(sigchar(t))
<1> DEFINE f == finish(t)
           u == sigchar(t)
           l == f.lost /\ t.inleft > 0
<1>1. TtyGood(f) /\ f.waiting = NoUser /\ f.inleft = t.inleft
  BY FinishGood
<1>2. f \in TtyState
  BY <1>1 DEF TtyGood
<1>3. u = [f EXCEPT !.inhibited = FALSE, !.inq = <<>>, !.lfct = 0, !.lost = l]
  BY DEF sigchar
<1>4. l \in BOOLEAN /\ <<>> \in Seq(Stored) /\ Len(<<>>) = 0 /\ 0 \in Int
  BY EmptySeq
<1>5. Cardinality(LineEnds(<<>>)) = 0
  BY FS_EmptySet DEF LineEnds
<1>6. l = (f.lost /\ f.inleft > 0)
  BY <1>1
<1> HIDE DEF f, u, l
<1>7. /\ u \in TtyState /\ u.inq = <<>> /\ u.lfct = 0 /\ u.lost = l /\ u.user = f.user
      /\ u.waiting = f.waiting /\ u.reader = f.reader /\ u.inleft = f.inleft
  BY <1>2, <1>3, <1>4 DEF TtyState
<1>8. Counted(u) /\ Len(u.inq) <= TTY_IN_BYTES + 1
  BY <1>4, <1>5, <1>7, TtyAssumption DEF Counted
<1>9. WritersKnown(u) /\ ReaderKnown(u)
  BY <1>1, <1>6, <1>7 DEF TtyGood, WritersKnown, ReaderKnown
<1> QED BY <1>7, <1>8, <1>9 DEF TtyGood, u

\* The flags of the terminal, and who called console(), matter to nobody who waits.
FlagsOnly(t, u) ==
  /\ u \in TtyState
  /\ u.inq = t.inq /\ u.lfct = t.lfct /\ u.lost = t.lost /\ u.user = t.user
  /\ u.inleft = t.inleft /\ u.reader = t.reader /\ u.waiting = t.waiting

\* A change of them keeps everything.
LEMMA FlagsGood ==
  ASSUME NEW t, TtyGood(t), NEW u, FlagsOnly(t, u)
  PROVE  TtyGood(u) /\ (Hungry(t) => Hungry(u))
<1>1. Counted(u) /\ (Hungry(t) => Hungry(u))
  BY DEF TtyGood, FlagsOnly, Counted, Hungry
<1>2. WritersKnown(u) /\ ReaderKnown(u)
  BY DEF TtyGood, FlagsOnly, WritersKnown, ReaderKnown
<1> QED BY <1>1, <1>2 DEF TtyGood, FlagsOnly

\* in_char(), for every key.
LEMMA InCharGood ==
  ASSUME NEW t, TtyGood(t), NEW k \in Key
  PROVE  TtyGood(in_char(t, k))
<1> DEFINE editing == Cooked(t) /\ ~t.escaped
           rest == [t EXCEPT !.escaped = IF Cooked(t) THEN FALSE ELSE @]
           shown == IF Cooked(t) /\ t.escaped THEN Store(rest, "x") ELSE rest
           u == in_char(t, k)
<1>1. t \in TtyState /\ Len(t.inq) \in Nat /\ Counted(t) /\ t.escaped \in BOOLEAN
  BY EndsFinite DEF TtyGood, TtyState
<1>2. CASE Len(t.inq) >= TTY_IN_BYTES
  BY <1>2 DEF in_char
<1>3. CASE ~(Len(t.inq) >= TTY_IN_BYTES)
  <2>1. u = CASE editing /\ k = "erase"        -> chuck(t, 1)
              [] editing /\ k = "kill"         -> chuck(t, TTY_IN_BYTES + 1)
              [] editing /\ k = "esc"          -> [t EXCEPT !.escaped = TRUE]
              [] t.mode # "RAW" /\ k = "intr"  -> sigchar(shown)
              [] t.mode # "RAW" /\ k = "xoff"  -> [shown EXCEPT !.inhibited = TRUE]
              [] t.mode # "RAW" /\ k = "xon"   -> [shown EXCEPT !.inhibited = FALSE,
                                                                !.console = "XON"]
              [] OTHER -> [Plain(t, k) EXCEPT !.escaped = rest.escaped]
    BY <1>3 DEF in_char
  <2>2. Len(t.inq) < TTY_IN_BYTES /\ TTY_IN_BYTES \in Nat
    BY <1>1, <1>3, TtyAssumption
  <2>3. ASSUME NEW n \in Nat
        PROVE  TtyGood(chuck(t, n))
    <3>1. /\ QueueOnly(t, chuck(t, n)) /\ Len(chuck(t, n).inq) <= Len(t.inq)
          /\ Counted(t) => Counted(chuck(t, n))
      BY <1>1, ChuckFacts
    <3>2. Len(chuck(t, n).inq) \in Nat
      BY <3>1, EndsFinite DEF QueueOnly, TtyState
    <3>3. Len(chuck(t, n).inq) <= TTY_IN_BYTES + 1
      BY <1>1, <2>2, <3>1, <3>2
    <3> QED BY <1>1, <3>1, <3>3, QueueGood
  <2>4. TtyGood([t EXCEPT !.escaped = TRUE])
    <3>1. FlagsOnly(t, [t EXCEPT !.escaped = TRUE])
      BY <1>1 DEF TtyState, FlagsOnly
    <3> QED BY <3>1, FlagsGood
  <2>5. TtyGood(rest) /\ rest.inq = t.inq
    <3> DEFINE e == IF Cooked(t) THEN FALSE ELSE t.escaped
    <3>1. rest = [t EXCEPT !.escaped = e] /\ e \in BOOLEAN
      BY <1>1
    <3> HIDE DEF e, rest
    <3>2. FlagsOnly(t, rest)
      BY <1>1, <3>1 DEF TtyState, FlagsOnly
    <3> QED BY <3>2, FlagsGood DEF FlagsOnly
  <2>6. TtyGood(shown)
    <3> DEFINE v == Store(rest, "x")
    <3>1. rest \in TtyState /\ "x" \in Stored /\ Counted(rest)
      BY <2>5 DEF TtyGood, Stored
    <3> HIDE DEF rest
    <3>2. /\ QueueOnly(rest, v) /\ v.lfct = rest.lfct /\ Len(v.inq) = Len(rest.inq) + 1
          /\ ~v.lost => Cardinality(LineEnds(v.inq)) = Cardinality(LineEnds(rest.inq)) + 0
      BY <3>1, StoreFacts
    <3>3. Cardinality(LineEnds(rest.inq)) \in Nat
      BY <3>1, EndsFinite DEF TtyState
    <3>4. Counted(v)
      BY <3>1, <3>2, <3>3 DEF Counted, QueueOnly
    <3>5. Len(v.inq) <= TTY_IN_BYTES + 1
      BY <1>1, <2>2, <2>5, <3>2
    <3>6. TtyGood(v)
      BY <2>5, <3>2, <3>4, <3>5, QueueGood
    <3> QED BY <2>5, <3>6
  <2> HIDE DEF shown, rest
  <2>7. shown \in TtyState
    BY <2>6 DEF TtyGood
  <2>8. ASSUME NEW i \in BOOLEAN, NEW c \in {"no", "XON", "WRITE"}
        PROVE  TtyGood([shown EXCEPT !.inhibited = i, !.console = c])
    <3>1. FlagsOnly(shown, [shown EXCEPT !.inhibited = i, !.console = c])
      BY <2>7 DEF TtyState, FlagsOnly
    <3> QED BY <2>6, <3>1, FlagsGood
  <2>9. TtyGood([shown EXCEPT !.inhibited = TRUE])
    <3>1. FlagsOnly(shown, [shown EXCEPT !.inhibited = TRUE])
      BY <2>7 DEF TtyState, FlagsOnly
    <3> QED BY <2>6, <3>1, FlagsGood
  <2>10. TtyGood([Plain(t, k) EXCEPT !.escaped = rest.escaped])
    <3> DEFINE v == Plain(t, k)
    <3>1. /\ QueueOnly(t, v) /\ Len(v.inq) <= Len(t.inq) + 2
          /\ Counted(t) => Counted(v)
      BY <1>1, PlainFacts
    <3> HIDE DEF v
    <3>2. Len(v.inq) \in Nat
      BY <3>1, EndsFinite DEF QueueOnly, TtyState
    <3>3. Len(v.inq) <= TTY_IN_BYTES + 1
      BY <1>1, <2>2, <3>1, <3>2
    <3>4. TtyGood(v)
      BY <1>1, <3>1, <3>3, QueueGood
    <3>5. rest.escaped \in BOOLEAN
      BY <2>5 DEF TtyGood, TtyState
    <3>6. FlagsOnly(v, [v EXCEPT !.escaped = rest.escaped])
      BY <3>4, <3>5 DEF TtyGood, TtyState, FlagsOnly
    <3>7. TtyGood([v EXCEPT !.escaped = rest.escaped])
      BY <3>4, <3>6, FlagsGood
    <3> QED BY <3>7 DEF v
  <2> HIDE DEF u
  <2>11. CASE editing /\ k = "erase"
    <3>1. u = chuck(t, 1)
      BY <2>1, <2>11
    <3> QED BY <2>3, <3>1 DEF u
  <2>12. CASE editing /\ k = "kill"
    <3>1. TTY_IN_BYTES + 1 \in Nat /\ u = chuck(t, TTY_IN_BYTES + 1)
      BY <2>1, <2>2, <2>12
    <3> QED BY <2>3, <3>1 DEF u
  <2>13. CASE editing /\ k = "esc"
    BY <2>1, <2>4, <2>13 DEF u
  <2>14. CASE ~(editing /\ k \in {"erase", "kill", "esc"}) /\ t.mode # "RAW" /\ k = "intr"
    <3>1. u = sigchar(shown)
      BY <2>1, <2>14
    <3> QED BY <2>6, <3>1, SigcharGood DEF u
  <2>15. CASE ~(editing /\ k \in {"erase", "kill", "esc"}) /\ t.mode # "RAW" /\ k = "xoff"
    BY <2>1, <2>9, <2>15 DEF u
  <2>16. CASE ~(editing /\ k \in {"erase", "kill", "esc"}) /\ t.mode # "RAW" /\ k = "xon"
    <3>1. u = [shown EXCEPT !.inhibited = FALSE, !.console = "XON"]
      BY <2>1, <2>16
    <3> QED BY <2>8, <3>1 DEF u
  <2>17. CASE /\ ~(editing /\ k \in {"erase", "kill", "esc"})
              /\ ~(t.mode # "RAW" /\ k \in {"intr", "xoff", "xon"})
    BY <2>1, <2>10, <2>17 DEF u
  <2> QED BY <2>11, <2>12, <2>13, <2>14, <2>15, <2>16, <2>17
<1> QED BY <1>2, <1>3

\* The inductive invariant.  Only while console() runs for CTRL-Q, of whatever was typed
\* before, may somebody hang who could have a line: do_charint() has still to serve him.
TtyInv ==
  /\ TtyGood(tty)
  /\ tty.console # "XON" => Hungry(tty)
  /\ driver_buf \in Seq(Key) /\ Len(driver_buf) <= MAX_OVERRUN

\* Initially nobody waits.
LEMMA TtyInitially == TtyInit => TtyInv
<1> SUFFICES ASSUME TtyInit
             PROVE  TtyInv
  OBVIOUS
<1>1. /\ <<>> \in Seq(Stored) /\ <<>> \in Seq(Key) /\ Len(<<>>) = 0
      /\ 0 \in 0 .. MaxCount /\ 0 \in Int
  BY EmptySeq, TtyAssumption
<1>2. Cardinality(LineEnds(<<>>)) = 0
  BY FS_EmptySet DEF LineEnds
<1>3. tty \in TtyState
  BY <1>1, TtyAssumption DEF TtyInit, TtyState
<1>4. TtyGood(tty)
  BY <1>1, <1>2, <1>3, TtyAssumption
  DEF TtyInit, TtyGood, Counted, WritersKnown, ReaderKnown
<1> QED BY <1>1, <1>4, TtyAssumption DEF TtyInit, TtyInv, Hungry

\* The steps that change flags only.
LEMMA FlagStep ==
  ASSUME TtyInv, FlagsOnly(tty, tty'), tty.console = tty'.console \/ tty.console # "XON",
         driver_buf' \in Seq(Key), Len(driver_buf') <= MAX_OVERRUN
  PROVE  TtyInv'
<1>1. TtyGood(tty') /\ (Hungry(tty) => Hungry(tty'))
  BY FlagsGood DEF TtyInv
<1> QED BY <1>1 DEF TtyInv

\* A key.
LEMMA KeyboardStep ==
  ASSUME TtyInv, NEW k \in Key, Keyboard(k)
  PROVE  TtyInv'
<1>1. tty \in TtyState /\ driver_buf \in Seq(Key) /\ Len(driver_buf) <= MAX_OVERRUN
  BY DEF TtyInv, TtyGood
<1>2. CASE k = "xoff" /\ tty.mode # "RAW"
  <2>1. tty' = [tty EXCEPT !.inhibited = TRUE] /\ UNCHANGED driver_buf
    BY <1>2 DEF Keyboard
  <2>2. FlagsOnly(tty, tty') /\ tty'.console = tty.console
    BY <1>1, <2>1 DEF TtyState, FlagsOnly
  <2> QED BY <1>1, <2>1, <2>2, FlagStep
<1>3. CASE ~(k = "xoff" /\ tty.mode # "RAW")
  <2>1. Len(driver_buf) < MAX_OVERRUN /\ driver_buf' = Append(driver_buf, k) /\ tty' = tty
    BY <1>3 DEF Keyboard
  <2>2. driver_buf' \in Seq(Key) /\ Len(driver_buf') = Len(driver_buf) + 1
        /\ Len(driver_buf) \in Nat
    BY <1>1, <2>1, AppendProperties, LenProperties
  <2>3. Len(driver_buf') <= MAX_OVERRUN
    BY <2>1, <2>2, TtyAssumption
  <2> QED BY <2>1, <2>2, <2>3 DEF TtyInv
<1> QED BY <1>2, <1>3

\* do_charint() copies the buffer of the driver.
LEMMA CopyStep ==
  ASSUME TtyInv, do_charint
  PROVE  TtyInv'
<1>1. tty \in TtyState /\ driver_buf \in Seq(Key) /\ <<>> \in Seq(Key) /\ Len(<<>>) = 0
  BY EmptySeq DEF TtyInv, TtyGood
<1>2. /\ tty' = [tty EXCEPT !.copied = driver_buf] /\ driver_buf' = <<>>
      /\ tty.console = "no"
  BY DEF do_charint, Receives
<1>3. FlagsOnly(tty, tty')
  BY <1>1, <1>2 DEF TtyState, FlagsOnly
<1> QED BY <1>1, <1>2, <1>3, TtyAssumption, FlagStep

\* A typed character, and the reader it may be for.
LEMMA CharInStep ==
  ASSUME TtyInv, CharIn
  PROVE  TtyInv'
<1> DEFINE k == Head(tty.copied)
           s == [tty EXCEPT !.copied = Tail(@)]
           t == in_char(s, k)
<1>1. tty \in TtyState /\ tty.copied \in Seq(Key) /\ tty.copied # <<>> /\ TtyGood(tty)
  BY DEF TtyInv, TtyGood, CharIn, TtyState
<1>2. k \in Key /\ Tail(tty.copied) \in Seq(Key)
  BY <1>1, HeadTailProperties
<1>3. tty' = (IF t.console = "XON" THEN t ELSE Served(t)) /\ UNCHANGED driver_buf
  BY DEF CharIn
<1>4. FlagsOnly(tty, s)
  BY <1>1, <1>2 DEF TtyState, FlagsOnly
<1>5. TtyGood(s)
  BY <1>1, <1>4, FlagsGood
<1> HIDE DEF s, k
<1>6. TtyGood(t)
  BY <1>2, <1>5, InCharGood
<1> HIDE DEF t
<1>7. TtyGood(Served(t)) /\ Hungry(Served(t))
  BY <1>6, ServedGood
<1> QED BY <1>3, <1>6, <1>7 DEF TtyInv

\* A character on the screen, or the end of console().
LEMMA ConsoleStep ==
  ASSUME TtyInv, Console
  PROVE  TtyInv'
<1> DEFINE rest == [tty EXCEPT !.console = "no"]
           t == IF tty.outleft = 0 THEN finish(rest) ELSE rest
<1>1. tty \in TtyState /\ TtyGood(tty) /\ tty.outleft \in 0 .. MaxCount
  BY DEF TtyInv, TtyGood, TtyState
<1>2. /\ tty' = IF tty.outleft > 0 /\ ~tty.inhibited THEN [tty EXCEPT !.outleft = @ - 1]
                ELSE IF tty.console = "XON" THEN Served(t) ELSE t
      /\ UNCHANGED driver_buf
  BY DEF Console
<1>3. FlagsOnly(tty, rest)
  BY <1>1 DEF TtyState, FlagsOnly
<1>4. TtyGood(rest) /\ (Hungry(tty) => Hungry(rest))
  BY <1>1, <1>3, FlagsGood
<1> HIDE DEF rest
<1>5. TtyGood(t) /\ (Hungry(tty) => Hungry(t))
  <2>1. TtyGood(finish(rest)) /\ (Hungry(rest) => Hungry(finish(rest)))
    BY <1>4, FinishGood DEF Hungry
  <2> QED BY <1>4, <2>1
<1> HIDE DEF t
<1>6. CASE tty.outleft > 0 /\ ~tty.inhibited
  <2>1. tty' = [tty EXCEPT !.outleft = tty.outleft - 1]
    BY <1>2, <1>6
  <2>2. tty.outleft - 1 \in 0 .. MaxCount
    BY <1>1, <1>6, TtyAssumption
  <2>3. FlagsOnly(tty, tty') /\ tty'.console = tty.console
    BY <1>1, <2>1, <2>2 DEF TtyState, FlagsOnly
  <2> QED BY <1>2, <2>3, FlagStep DEF TtyInv
<1>7. CASE ~(tty.outleft > 0 /\ ~tty.inhibited) /\ tty.console = "XON"
  <2>1. TtyGood(Served(t)) /\ Hungry(Served(t))
    BY <1>5, ServedGood
  <2>2. tty' = Served(t)
    BY <1>2, <1>7
  <2> QED BY <1>2, <2>1, <2>2 DEF TtyInv
<1>8. CASE ~(tty.outleft > 0 /\ ~tty.inhibited) /\ tty.console # "XON"
  <2>1. tty' = t
    BY <1>2, <1>8
  <2> QED BY <1>2, <1>5, <1>8, <2>1 DEF TtyInv
<1> QED BY <1>6, <1>7, <1>8

\* A read, which hangs or not.
LEMMA ReadStep ==
  ASSUME TtyInv, NEW p \in Users, NEW n \in 1 .. MaxCount, do_read(p, n)
  PROVE  TtyInv'
<1> DEFINE t == [tty EXCEPT !.reader = p, !.inleft = n]
<1>1. /\ tty \in TtyState /\ Len(tty.inq) \in Nat /\ Len(tty.inq) <= TTY_IN_BYTES + 1
      /\ Counted(tty) /\ WritersKnown(tty) /\ ReaderKnown(tty)
      /\ tty.user \in [Users -> {"runs", "reads", "writes"}]
      /\ tty.waiting \in Users \cup {NoUser}
  BY EndsFinite DEF TtyInv, TtyGood, TtyState
<1>0. /\ tty.inleft = 0 /\ tty.user[p] = "runs"
      /\ \A q \in Users : tty.user[q] # "writes"
  BY DEF do_read, FSCalls
<1>2. /\ tty' = (IF Nothing(t) THEN [t EXCEPT !.user[p] = "reads"] ELSE rd_chars(t))
      /\ UNCHANGED driver_buf
  BY DEF do_read
<1>3. ~tty.lost => tty.waiting = NoUser
  BY <1>0, <1>1 DEF WritersKnown
<1>4. \A q \in Users : tty.user[q] # "reads"
  BY <1>0, <1>1 DEF ReaderKnown
<1>5. n \in 0 .. MaxCount /\ n > 0 /\ n \in Nat
  BY TtyAssumption
<1>6. /\ t \in TtyState /\ t.inq = tty.inq /\ t.lfct = tty.lfct /\ t.lost = tty.lost
      /\ t.user = tty.user /\ t.waiting = tty.waiting /\ t.mode = tty.mode
      /\ t.inleft = n /\ t.reader = p
  BY <1>1, <1>5 DEF TtyState
<1> HIDE DEF t
<1>7. CASE Nothing(t)
  <2> DEFINE w == [tty.user EXCEPT ![p] = "reads"]
  <2>1. tty' = [t EXCEPT !.user = w]
    BY <1>2, <1>6, <1>7
  <2>2. w \in [Users -> {"runs", "reads", "writes"}]
    BY <1>1
  <2>3. \A q \in Users : w[q] = IF q = p THEN "reads" ELSE tty.user[q]
    BY <1>1
  <2> HIDE DEF w
  <2>4. /\ tty' \in TtyState /\ tty'.inq = tty.inq /\ tty'.lfct = tty.lfct
        /\ tty'.lost = tty.lost /\ tty'.user = w /\ tty'.waiting = tty.waiting
        /\ tty'.inleft = n /\ tty'.reader = p
    BY <1>6, <2>1, <2>2 DEF TtyState
  <2>5. WritersKnown(tty') /\ ReaderKnown(tty')
    BY <1>0, <1>3, <1>4, <1>5, <2>3, <2>4 DEF WritersKnown, ReaderKnown
  <2>6. ~tty.lost => tty.lfct = 0
    <3>1. Cardinality(LineEnds(<<>>)) = 0
      BY FS_EmptySet DEF LineEnds
    <3> QED BY <1>1, <1>6, <1>7, <3>1 DEF Nothing, Counted
  <2>7. Counted(tty') /\ Hungry(tty')
    BY <1>1, <2>4, <2>6 DEF Counted, Hungry
  <2> QED BY <1>1, <1>2, <2>4, <2>5, <2>7 DEF TtyInv, TtyGood
<1>8. CASE ~Nothing(t)
  <2>1. t.inq # <<>> /\ t.inleft > 0 /\ tty' = rd_chars(t)
    BY <1>2, <1>5, <1>6, <1>8 DEF Nothing
  <2>2. PICK q \in Seq(Stored), l \in Int :
          /\ rd_chars(t) = [t EXCEPT !.inq = q, !.lfct = l, !.inleft = 0]
          /\ Len(q) <= Len(t.inq)
          /\ t.lfct = Cardinality(LineEnds(t.inq)) => l = Cardinality(LineEnds(q))
    BY <1>6, <2>1, ReadFacts
  <2>3. 0 \in 0 .. MaxCount
    BY TtyAssumption
  <2>4. /\ tty' \in TtyState /\ tty'.inq = q /\ tty'.lfct = l /\ tty'.lost = tty.lost
        /\ tty'.user = tty.user /\ tty'.waiting = tty.waiting /\ tty'.inleft = 0
        /\ tty'.reader = p
    BY <1>6, <2>1, <2>2, <2>3 DEF TtyState
  <2>5. Counted(tty') /\ Hungry(tty')
    BY <1>1, <1>6, <2>2, <2>4 DEF Counted, Hungry
  <2>6. WritersKnown(tty') /\ ReaderKnown(tty')
    BY <1>0, <1>3, <1>4, <2>4 DEF WritersKnown, ReaderKnown
  <2>7. Len(q) \in Nat
    BY EndsFinite
  <2>8. Len(tty'.inq) <= TTY_IN_BYTES + 1
    BY <1>1, <1>6, <2>2, <2>4, <2>7, TtyAssumption
  <2> QED BY <1>2, <2>4, <2>5, <2>6, <2>8 DEF TtyInv, TtyGood
<1> QED BY <1>7, <1>8

\* A write.
LEMMA WriteStep ==
  ASSUME TtyInv, NEW p \in Users, NEW n \in 1 .. MaxCount, do_write(p, n)
  PROVE  TtyInv'
<1>1. /\ tty \in TtyState /\ Len(tty.inq) <= TTY_IN_BYTES + 1
      /\ Counted(tty) /\ WritersKnown(tty) /\ ReaderKnown(tty)
      /\ tty.user \in [Users -> {"runs", "reads", "writes"}]
  BY DEF TtyInv, TtyGood, TtyState
<1> DEFINE w == [tty.user EXCEPT ![p] = "writes"]
<1>2. /\ tty.console = "no" /\ tty.user[p] = "runs"
      /\ \A q \in Users : tty.user[q] # "writes"
      /\ tty' = [tty EXCEPT !.outleft = n, !.waiting = p, !.user = w, !.console = "WRITE"]
      /\ UNCHANGED driver_buf
  BY DEF do_write, FSCalls, Receives
<1>3. w \in [Users -> {"runs", "reads", "writes"}] /\ n \in 0 .. MaxCount
  BY <1>1, TtyAssumption
<1>4. \A q \in Users : w[q] = IF q = p THEN "writes" ELSE tty.user[q]
  BY <1>1
<1> HIDE DEF w
<1>5. /\ tty' \in TtyState /\ tty'.inq = tty.inq /\ tty'.lfct = tty.lfct
      /\ tty'.lost = tty.lost /\ tty'.user = w /\ tty'.waiting = p
      /\ tty'.inleft = tty.inleft /\ tty'.reader = tty.reader
  BY <1>1, <1>2, <1>3 DEF TtyState
<1>6. WritersKnown(tty') /\ ReaderKnown(tty')
  BY <1>1, <1>2, <1>4, <1>5 DEF WritersKnown, ReaderKnown
<1>7. Counted(tty') /\ Hungry(tty')
  BY <1>1, <1>2, <1>5 DEF Counted, Hungry, TtyInv
<1> QED BY <1>1, <1>2, <1>5, <1>6, <1>7 DEF TtyInv, TtyGood

\* Another mode.
LEMMA IoctlStep ==
  ASSUME TtyInv, NEW p \in Users, NEW mode \in Modes, do_ioctl(p, mode)
  PROVE  TtyInv'
<1>1. /\ tty \in TtyState /\ tty.console = "no"
      /\ tty' = [tty EXCEPT !.mode = mode] /\ UNCHANGED driver_buf
  BY DEF TtyInv, TtyGood, do_ioctl, FSCalls, Receives
<1>2. FlagsOnly(tty, tty')
  BY <1>1 DEF TtyState, FlagsOnly
<1> QED BY <1>1, <1>2, FlagStep DEF TtyInv

\* A signal for who hangs.
LEMMA CancelStep ==
  ASSUME TtyInv, NEW p \in Users, do_cancel(p)
  PROVE  TtyInv'
<1>1. /\ tty \in TtyState /\ ReaderKnown(tty)
      /\ tty.user \in [Users -> {"runs", "reads", "writes"}]
  BY DEF TtyInv, TtyGood, TtyState
<1> DEFINE w == [tty.user EXCEPT ![p] = "runs"]
<1>2. /\ tty.user[p] = "reads" /\ \A q \in Users : tty.user[q] # "writes"
      /\ tty' = [tty EXCEPT !.inq = <<>>, !.lfct = 0, !.inleft = 0, !.outleft = 0,
                            !.waiting = NoUser, !.inhibited = FALSE, !.user = w,
                            !.lost = FALSE]
      /\ UNCHANGED driver_buf
  BY DEF do_cancel
<1>3. /\ w \in [Users -> {"runs", "reads", "writes"}] /\ 0 \in 0 .. MaxCount /\ 0 \in Int
      /\ <<>> \in Seq(Stored) /\ Len(<<>>) = 0
  BY <1>1, TtyAssumption, EmptySeq
<1>4. \A q \in Users : w[q] = IF q = p THEN "runs" ELSE tty.user[q]
  BY <1>1
<1>5. \A q \in Users : w[q] = "runs"
  BY <1>1, <1>2, <1>4 DEF ReaderKnown
<1> HIDE DEF w
<1>6. /\ tty' \in TtyState /\ tty'.inq = <<>> /\ tty'.lfct = 0 /\ tty'.user = w
      /\ tty'.waiting = NoUser /\ tty'.inleft = 0
  BY <1>1, <1>2, <1>3 DEF TtyState
<1>7. Cardinality(LineEnds(<<>>)) = 0
  BY FS_EmptySet DEF LineEnds
<1>8. Counted(tty') /\ Hungry(tty') /\ Len(tty'.inq) <= TTY_IN_BYTES + 1
  BY <1>3, <1>6, <1>7, TtyAssumption DEF Counted, Hungry
<1>9. WritersKnown(tty') /\ ReaderKnown(tty')
  BY <1>5, <1>6 DEF WritersKnown, ReaderKnown
<1> QED BY <1>2, <1>6, <1>8, <1>9 DEF TtyInv, TtyGood

\* Every step keeps the invariant.
THEOREM TtyInvariance == TtySpec => []TtyInv
<1>1. ASSUME TtyInv, [TtyNext]_tty_vars
      PROVE  TtyInv'
  <2>1. CASE UNCHANGED tty_vars
    BY <1>1, <2>1 DEF TtyInv, tty_vars
  <2>2. CASE \E k \in Key : Keyboard(k)
    BY <1>1, <2>2, KeyboardStep
  <2>3. CASE TtyTask
    BY <1>1, <2>3, CopyStep, CharInStep, ConsoleStep DEF TtyTask
  <2>4. CASE \E p \in Users : \E n \in 1 .. MaxCount : do_read(p, n) \/ do_write(p, n)
    BY <1>1, <2>4, ReadStep, WriteStep
  <2>5. CASE \E p \in Users : \E mode \in Modes : do_ioctl(p, mode)
    BY <1>1, <2>5, IoctlStep
  <2>6. CASE \E p \in Users : do_cancel(p)
    BY <1>1, <2>6, CancelStep
  <2> QED BY <1>1, <2>1, <2>2, <2>3, <2>4, <2>5, <2>6 DEF TtyNext
<1> QED BY <1>1, TtyInitially, PTL DEF TtySpec

\* The task and FS agree on who hangs (do_read(), do_write(), do_charint(), finish()),
\* for every size of the queue and of the driver's buffer and any number of users.
THEOREM ReadersAndWritersKnown == TtySpec => []AnswersAgree
<1>1. TtyInv => AnswersAgree
  <2> SUFFICES ASSUME TtyInv
               PROVE  AnswersAgree
    OBVIOUS
  <2>1. /\ tty \in TtyState /\ WritersKnown(tty) /\ ReaderKnown(tty)
        /\ tty.waiting \in Users \cup {NoUser}
    BY DEF TtyInv, TtyGood, TtyState
  <2>2. TtyTypeOK
    BY DEF TtyInv, TtyGood, TtyState, TtyTypeOK
  <2>3. ASSUME ~tty.lost
        PROVE  {p \in Users : tty.user[p] = "writes"} = {tty.waiting} \ {NoUser}
    BY <2>1, <2>3, TtyAssumption DEF WritersKnown
  <2>4. ASSUME ~tty.lost
        PROVE  {p \in Users : tty.user[p] = "reads"} =
                 IF tty.inleft > 0 THEN {tty.reader} ELSE {}
    BY <2>1, <2>4 DEF ReaderKnown
  <2> QED BY <2>2, <2>3, <2>4 DEF AnswersAgree
<1> QED BY <1>1, TtyInvariance, PTL

\* Nobody hangs in COOKED mode before a line that is in the queue (do_charint(),
\* rd_chars()), for every size of the queue.
THEOREM LinesReachTheReader == TtySpec => []NoLineWithheld
<1>1. TtyInv => NoLineWithheld
  <2> SUFFICES ASSUME TtyInv, Receives, tty.inleft > 0, ~tty.lost
               PROVE  LineEnds(tty.inq) = {}
    BY DEF NoLineWithheld
  <2>1. /\ tty.inq \in Seq(Stored) /\ tty.lfct = 0
        /\ tty.lfct = Cardinality(LineEnds(tty.inq))
    BY DEF TtyInv, TtyGood, TtyState, Receives, Hungry, Counted
  <2> QED BY <2>1, EndsFinite
<1> QED BY <1>1, TtyInvariance, PTL
-----------------------------------------------------------------------------
\* Remainders.
LEMMA Remainder ==
  ASSUME NEW n \in Nat \ {0}, NEW a \in Int
  PROVE  a % n \in 0 .. n - 1 /\ a \div n \in Int /\ a = ((a \div n) * n) + (a % n)
OBVIOUS

\* A number has one.
LEMMA RemainderIs ==
  ASSUME NEW n \in Nat \ {0}, NEW a \in Int, NEW q \in Int, NEW r \in 0 .. n - 1, a = q * n + r
  PROVE  a % n = r
OBVIOUS

\* Numbers that are a multiple of n apart have the same.
LEMMA SameRemainder ==
  ASSUME NEW n \in Nat \ {0}, NEW a \in Int, NEW b \in Int, \E k \in Int : a = b + k * n
  PROVE  a % n = b % n
<1> DEFINE q == b \div n
           r == b % n
<1>1. q \in Int /\ r \in 0 .. n - 1 /\ b = q * n + r
  BY Remainder
<1> HIDE DEF q, r
<1>2. PICK k \in Int : a = b + k * n
  OBVIOUS
<1>3. q + k \in Int /\ (q + k) * n = q * n + k * n
  BY <1>1
<1>4. a = (q + k) * n + r
  <2>1. q * n \in Int /\ k * n \in Int /\ (q + k) * n \in Int
    BY <1>1, <1>3
  <2> QED BY <1>1, <1>2, <1>3, <2>1
<1>5. a % n = r
  BY <1>1, <1>3, <1>4, RemainderIs
<1> QED BY <1>5 DEF r

\* And then so have those that are as far from both.
LEMMA RemaindersShift ==
  ASSUME NEW n \in Nat \ {0}, NEW a \in Int, NEW b \in Int, a % n = b % n, NEW c \in Int
  PROVE  (a + c) % n = (b + c) % n
<1> DEFINE q == a \div n
           r == b \div n
           t == a % n
<1>1. q \in Int /\ r \in Int /\ t \in Int /\ a = q * n + t /\ b = r * n + t
  BY Remainder
<1> HIDE DEF q, r, t
<1>2. q - r \in Int /\ (q - r) * n = q * n - r * n /\ q * n \in Int /\ r * n \in Int
  BY <1>1
<1>3. a + c = (b + c) + (q - r) * n /\ a + c \in Int /\ b + c \in Int
  BY <1>1, <1>2
<1>4. \E k \in Int : a + c = (b + c) + k * n
  BY <1>2, <1>3
<1> QED BY <1>3, <1>4, SameRemainder
-----------------------------------------------------------------------------
\* The place of a line in the window, which begins with the top line.
Line(y) == (SCR_LINES - 1 - y) * LINE_WIDTH

\* The word of the RAM that is at an address: it repeats itself.
Word(a) == a % VID_WORDS

\* What is p words after the origin.
Cell(s, p) == s.ram[Word(s.org + p)]

\* The type of the screen's state.
Scr == [ram : [0 .. VID_WORDS - 1 -> Printable], org : 0 .. VID_WORDS - 1, vid : Int,
        queue : Seq(Printable), column : 0 .. LINE_WIDTH, row : 0 .. SCR_LINES - 1,
        esc : 0 .. 2, echar : {"none", "~", "z", "column"}]

\* The lines follow each other and are all in the window.
LEMMA LineFacts ==
  /\ VID_WORDS \in Nat \ {0} /\ LINE_WIDTH \in Nat \ {0} /\ SCR_LINES \in Nat /\ SCR_LINES > 1
  /\ \A y \in 0 .. SCR_LINES - 1 : Line(y) \in Nat /\ Line(y) + LINE_WIDTH <= VID_WORDS
  /\ \A y \in 0 .. SCR_LINES - 2 : Line(y) = Line(y + 1) + LINE_WIDTH
  /\ \A y, z \in 0 .. SCR_LINES - 1 : y < z => Line(z) + LINE_WIDTH <= Line(y)
  /\ Line(SCR_LINES - 1) = 0 /\ Line(0) = (SCR_LINES - 1) * LINE_WIDTH
  /\ \A y \in 0 .. SCR_LINES - 1 : /\ LINE_WIDTH * (y + 1) \in Nat
                                   /\ LINE_WIDTH * (y + 1) >= LINE_WIDTH
                                   /\ Line(y) + LINE_WIDTH * (y + 1) <= VID_WORDS
                                   /\ \A z \in 0 .. SCR_LINES - 1 :
                                        Line(z) + LINE_WIDTH <= Line(y) + LINE_WIDTH * (y + 1)
<1> DEFINE W == LINE_WIDTH
           L == SCR_LINES
<1>1. VID_WORDS \in Nat \ {0} /\ W \in Nat \ {0} /\ L \in Nat /\ L > 1 /\ W * L <= VID_WORDS
  BY ScreenAssumption
<1> HIDE DEF W, L
<1>2. \A a, b \in Nat : a <= b => a * W \in Nat /\ b * W \in Nat /\ a * W <= b * W
  BY <1>1
<1>3. \A a \in Nat : (a + 1) * W = a * W + W /\ a * W \in Nat /\ a * W = W * a
  BY <1>1
<1>4. \A a, b \in Nat : a * W + b * W = (a + b) * W
  BY <1>1
<1>5. ASSUME NEW y \in 0 .. L - 1
      PROVE  /\ Line(y) = (L - 1 - y) * W /\ Line(y) \in Nat /\ Line(y) + W = (L - y) * W
             /\ L - y \in Nat /\ L - 1 - y \in Nat /\ L - y <= L
  <2>1. L - 1 - y \in Nat /\ (L - 1 - y) + 1 = L - y /\ L - y \in Nat /\ L - y <= L
    BY <1>1
  <2>2. Line(y) = (L - 1 - y) * W
    BY DEF Line, W, L
  <2> QED BY <1>3, <2>1, <2>2
<1>6. L * W \in Nat /\ L * W <= VID_WORDS
  BY <1>1, <1>3
<1>7. \A y \in 0 .. L - 1 : Line(y) \in Nat /\ Line(y) + W <= VID_WORDS
  <2> SUFFICES ASSUME NEW y \in 0 .. L - 1
               PROVE  Line(y) \in Nat /\ Line(y) + W <= VID_WORDS
    OBVIOUS
  <2>1. (L - y) * W <= L * W /\ (L - y) * W \in Nat
    BY <1>1, <1>2, <1>5
  <2> QED BY <1>1, <1>5, <1>6, <2>1
<1>8. \A y \in 0 .. L - 2 : Line(y) = Line(y + 1) + W
  <2> SUFFICES ASSUME NEW y \in 0 .. L - 2
               PROVE  Line(y) = Line(y + 1) + W
    OBVIOUS
  <2>1. y \in 0 .. L - 1 /\ y + 1 \in 0 .. L - 1 /\ L - (y + 1) = L - 1 - y
    BY <1>1
  <2> QED BY <1>5, <2>1
<1>9. \A y, z \in 0 .. L - 1 : y < z => Line(z) + W <= Line(y)
  <2> SUFFICES ASSUME NEW y \in 0 .. L - 1, NEW z \in 0 .. L - 1, y < z
               PROVE  Line(z) + W <= Line(y)
    OBVIOUS
  <2>1. L - z <= L - 1 - y
    BY <1>1
  <2>2. (L - z) * W <= (L - 1 - y) * W
    BY <1>2, <1>5, <2>1
  <2> QED BY <1>5, <2>2
<1>10. Line(L - 1) = 0 /\ Line(0) = (L - 1) * W
  <2>1. L - 1 \in 0 .. L - 1 /\ 0 \in 0 .. L - 1 /\ L - 1 - (L - 1) = 0 /\ L - 1 - 0 = L - 1
    BY <1>1
  <2>2. 0 * W = 0
    BY <1>1
  <2> QED BY <1>5, <2>1, <2>2
<1>11. ASSUME NEW y \in 0 .. L - 1
       PROVE  /\ W * (y + 1) \in Nat /\ W * (y + 1) >= W /\ Line(y) + W * (y + 1) <= VID_WORDS
              /\ \A z \in 0 .. L - 1 : Line(z) + W <= Line(y) + W * (y + 1)
  <2>1. y \in Nat /\ y + 1 \in Nat /\ W * (y + 1) = (y + 1) * W
    BY <1>1, <1>3
  <2>2. (y + 1) * W = y * W + W /\ y * W \in Nat
    BY <1>3, <2>1
  <2>3. Line(y) + (y + 1) * W = L * W
    <3>1. (L - 1 - y) + (y + 1) = L /\ L - 1 - y \in Nat
      BY <1>1
    <3>2. Line(y) + (y + 1) * W = ((L - 1 - y) + (y + 1)) * W
      BY <1>4, <1>5, <2>1
    <3> QED BY <3>1, <3>2
  <2>4. \A z \in 0 .. L - 1 : Line(z) + W <= L * W
    <3> SUFFICES ASSUME NEW z \in 0 .. L - 1
                 PROVE  Line(z) + W <= L * W
      OBVIOUS
    <3>1. (L - z) * W <= L * W
      BY <1>1, <1>2, <1>5
    <3> QED BY <1>5, <3>1
  <2> QED BY <1>1, <1>6, <2>1, <2>2, <2>3, <2>4
<1> QED BY <1>1, <1>7, <1>8, <1>9, <1>10, <1>11 DEF W, L

\* Of a state with the type.
LEMMA ScrFields ==
  ASSUME NEW s \in Scr
  PROVE  /\ s.ram \in [0 .. VID_WORDS - 1 -> Printable] /\ s.org \in Int /\ s.vid \in Int
         /\ s.queue \in Seq(Printable) /\ Len(s.queue) \in Nat
         /\ s.column \in Nat /\ s.column <= LINE_WIDTH
         /\ s.row \in Nat /\ s.row \in 0 .. SCR_LINES - 1
BY LineFacts, LenProperties DEF Scr

\* Blanks are characters.
LEMMA BlanksFacts ==
  ASSUME NEW n \in Nat
  PROVE  /\ Blanks(n) \in Seq(Printable) /\ Len(Blanks(n)) = n
         /\ \A i \in 1 .. n : Blanks(n)[i] = BLANK
<1>1. Blanks(n) = [i \in 1 .. n |-> BLANK] /\ BLANK \in Printable
  BY ScreenAssumption DEF Blanks
<1>2. Blanks(n) \in [1 .. n -> Printable]
  BY <1>1
<1>3. Blanks(n) \in Seq(Printable)
  BY <1>2, IsASeq
<1>4. Len(Blanks(n)) = n
  BY <1>1, <1>3, LenProperties
<1> QED BY <1>1, <1>3, <1>4

\* The RAM has a word at each address, and copies of it above and below.
LEMMA WordFacts ==
  /\ \A a \in Int : Word(a) \in 0 .. VID_WORDS - 1 /\ Word(a) \in Int /\ Word(Word(a)) = Word(a)
  /\ \A a \in 0 .. VID_WORDS - 1 : Word(a) = a
  /\ \A a \in Int : a < 0 /\ a + VID_WORDS >= 0 => Word(a) = a + VID_WORDS
  /\ \A a, b, c \in Int : Word(a) = Word(b) => Word(a + c) = Word(b + c)
<1>1. VID_WORDS \in Nat \ {0}
  BY LineFacts
<1>2. ASSUME NEW a \in Int
      PROVE  Word(a) \in 0 .. VID_WORDS - 1
  BY <1>1, Remainder DEF Word
<1>3. ASSUME NEW a \in 0 .. VID_WORDS - 1
      PROVE  Word(a) = a
  <2>1. a \in Int /\ 0 \in Int /\ a = 0 * VID_WORDS + a
    BY <1>1
  <2> QED BY <1>1, <2>1, RemainderIs DEF Word
<1>4. ASSUME NEW a \in Int, a < 0, a + VID_WORDS >= 0
      PROVE  Word(a) = a + VID_WORDS
  <2>1. a + VID_WORDS \in 0 .. VID_WORDS - 1 /\ a = (-1) * VID_WORDS + (a + VID_WORDS) /\ -1 \in Int
    BY <1>1, <1>4
  <2> QED BY <1>1, <2>1, RemainderIs DEF Word
<1>5. \A a, b, c \in Int : Word(a) = Word(b) => Word(a + c) = Word(b + c)
  BY <1>1, RemaindersShift DEF Word
<1>6. \A a \in Int : Word(a) \in Int
  BY <1>1, <1>2
<1> QED BY <1>2, <1>3, <1>4, <1>5, <1>6

\* What is as far from one address as from another that is the same word, is the same word.
LEMMA WordShift ==
  ASSUME NEW a \in Int, NEW b \in Int, Word(a) = Word(b), NEW c \in Int
  PROVE  Word(a + c) = Word(b + c)
BY WordFacts

\* All but the RAM is as it was.
ScrKept(s, u) == /\ u \in Scr /\ u.org = s.org /\ u.vid = s.vid /\ u.queue = s.queue
              /\ u.column = s.column /\ u.row = s.row /\ u.esc = s.esc /\ u.echar = s.echar

\* What vid_copy() changes, if it copies to p words after the origin.
Copied(s, p, cs, u) ==
  /\ ScrKept(s, u)
  /\ \A i \in 0 .. VID_WORDS - 1 :
       Cell(u, i) = IF p <= i /\ i < p + Len(cs) THEN cs[i - p + 1] ELSE Cell(s, i)

\* Wherever it copies to, it does.
LEMMA CopyKeeps ==
  ASSUME NEW s \in Scr, NEW at \in Int, NEW cs \in Seq(Printable)
  PROVE  /\ ScrKept(s, vid_copy(s, at, cs))
         /\ \A i \in 0 .. VID_WORDS - 1 :
              vid_copy(s, at, cs).ram[i] =
                IF Word(i - at) < Len(cs) THEN cs[Word(i - at) + 1] ELSE s.ram[i]
<1> DEFINE V == VID_WORDS
           n == Len(cs)
           New(i) == LET k == Word(i - at) IN IF k < n THEN cs[k + 1] ELSE s.ram[i]
           ram == [i \in 0 .. V - 1 |-> New(i)]
           u == [s EXCEPT !.ram = ram]
<1>1. /\ V \in Nat \ {0} /\ n \in Nat /\ s.org \in Int /\ s.ram \in [0 .. V - 1 -> Printable]
      /\ \A k \in 1 .. n : cs[k] \in Printable
  BY LineFacts, ScrFields, LenProperties, ElementOfSeq
<1>2. vid_copy(s, at, cs) = u
  <2>1. DOMAIN s.ram = 0 .. V - 1
    BY <1>1
  <2> QED BY <2>1 DEF vid_copy, Scr, Word
<1>3. ASSUME NEW i \in 0 .. V - 1
      PROVE  New(i) \in Printable
  <2> DEFINE k == Word(i - at)
  <2>1. k \in 0 .. V - 1
    <3>1. i - at \in Int
      BY <1>1
    <3> QED BY <3>1, WordFacts
  <2> HIDE DEF k
  <2>2. k < n => cs[k + 1] \in Printable
    BY <1>1, <2>1
  <2> QED BY <1>1, <2>2 DEF k
<1>4. /\ ram \in [0 .. V - 1 -> Printable]
      /\ \A i \in 0 .. V - 1 : ram[i] = IF Word(i - at) < n THEN cs[Word(i - at) + 1] ELSE s.ram[i]
  BY <1>3
<1> HIDE DEF ram
<1>5. u.ram = ram /\ ScrKept(s, u)
  BY <1>4 DEF Scr, ScrKept
<1> HIDE DEF u
<1> QED BY <1>2, <1>4, <1>5

\* It does so wherever the window is in the RAM, as long as it stays in it.
LEMMA CopyFacts ==
  ASSUME NEW s \in Scr, NEW at \in Int, NEW p \in Nat, Word(at) = Word(s.org + p),
         NEW cs \in Seq(Printable), p + Len(cs) <= VID_WORDS
  PROVE  Copied(s, p, cs, vid_copy(s, at, cs))
<1> DEFINE V == VID_WORDS
           n == Len(cs)
           u == vid_copy(s, at, cs)
           ram == u.ram
<1>1. V \in Nat \ {0} /\ n \in Nat /\ s.org \in Int /\ p + n <= V
  BY LineFacts, ScrFields
<1>2. /\ ScrKept(s, u)
      /\ \A i \in 0 .. V - 1 : ram[i] = IF Word(i - at) < n THEN cs[Word(i - at) + 1] ELSE s.ram[i]
  BY CopyKeeps
<1> HIDE DEF u
<1>3. ASSUME NEW i \in 0 .. V - 1
      PROVE  ram[Word(s.org + i)] = IF p <= i /\ i < p + n THEN cs[i - p + 1]
                                    ELSE s.ram[Word(s.org + i)]
  <2> DEFINE j == Word(s.org + i)
             k == Word(j - at)
  <2>1. s.org + i \in Int /\ s.org + p \in Int /\ i \in Int /\ i - p \in Int
    BY <1>1
  <2>2. j \in 0 .. V - 1 /\ j \in Int /\ Word(j) = Word(s.org + i)
    BY <2>1, WordFacts
  <2> HIDE DEF j
  <2>3. k = Word(i - p)
    <3>1. Word(j + (-at)) = Word((s.org + i) + (-at))
      <4>1. -at \in Int
        OBVIOUS
      <4> QED BY <2>1, <2>2, <4>1, WordShift
    <3>2. Word(at + (i - p - at)) = Word((s.org + p) + (i - p - at))
      <4>1. i - p - at \in Int
        BY <2>1
      <4> QED BY <2>1, <4>1, WordShift
    <3>3. /\ j + (-at) = j - at /\ at + (i - p - at) = i - p
          /\ (s.org + p) + (i - p - at) = (s.org + i) + (-at)
      BY <1>1, <2>1, <2>2
    <3> QED BY <3>1, <3>2, <3>3
  <2>4. CASE p <= i
    <3>1. Word(i - p) = i - p
      <4>1. i - p \in 0 .. V - 1
        BY <1>1, <2>1, <2>4
      <4> QED BY <4>1, WordFacts
    <3>2. ram[j] = IF i - p < n THEN cs[i - p + 1] ELSE s.ram[j]
      BY <1>2, <2>2, <2>3, <3>1
    <3>3. i - p < n <=> i < p + n
      BY <1>1, <2>1
    <3> QED BY <2>4, <3>2, <3>3 DEF j
  <2>5. CASE i < p
    <3>1. i - p < 0 /\ i - p + V >= 0 /\ ~(i - p + V < n) /\ ~(p <= i)
      BY <1>1, <2>1, <2>5
    <3>2. Word(i - p) = i - p + V
      BY <2>1, <3>1, WordFacts
    <3>3. ram[j] = s.ram[j]
      BY <1>2, <2>2, <2>3, <3>1, <3>2
    <3> QED BY <3>1, <3>3 DEF j
  <2>6. p <= i \/ i < p
    BY <2>1
  <2> QED BY <2>4, <2>5, <2>6
<1>4. u.org = s.org
  BY <1>2 DEF ScrKept
<1> QED BY <1>2, <1>3, <1>4 DEF Cell, Copied, u
-----------------------------------------------------------------------------
\* What flush() changes, if the queue goes to p words after the origin.
Flushed(s, p, u) ==
  /\ u \in Scr /\ u.org = s.org /\ u.vid = s.vid + Len(s.queue) /\ u.queue = <<>>
  /\ u.column = s.column /\ u.row = s.row /\ u.esc = s.esc /\ u.echar = s.echar
  /\ \A i \in 0 .. VID_WORDS - 1 :
       Cell(u, i) = IF p <= i /\ i < p + Len(s.queue) THEN s.queue[i - p + 1] ELSE Cell(s, i)

\* Wherever that is, all but the RAM is known.
LEMMA FlushKeeps ==
  ASSUME NEW s \in Scr
  PROVE  /\ flush(s) \in Scr /\ flush(s).org = s.org /\ flush(s).vid = s.vid + Len(s.queue)
         /\ flush(s).queue = <<>> /\ flush(s).column = s.column /\ flush(s).row = s.row
         /\ flush(s).esc = s.esc /\ flush(s).echar = s.echar
         /\ flush(s).ram = vid_copy(s, s.vid, s.queue).ram
<1> DEFINE k == vid_copy(s, s.vid, s.queue)
<1>1. s.vid \in Int /\ s.queue \in Seq(Printable) /\ Len(s.queue) \in Nat
  BY ScrFields
<1>2. ScrKept(s, k)
  BY <1>1, CopyKeeps
<1>3. flush(s) = [k EXCEPT !.vid = @ + Len(s.queue), !.queue = <<>>]
  BY DEF flush
<1> HIDE DEF k
<1>4. s.vid + Len(s.queue) \in Int /\ <<>> \in Seq(Printable)
  BY <1>1
<1>5. k \in Scr
  BY <1>2 DEF ScrKept
<1>6. /\ flush(s) \in Scr /\ flush(s).ram = k.ram /\ flush(s).org = k.org
      /\ flush(s).vid = k.vid + Len(s.queue) /\ flush(s).queue = <<>>
      /\ flush(s).column = k.column /\ flush(s).row = k.row /\ flush(s).esc = k.esc
      /\ flush(s).echar = k.echar
  <2> DEFINE v == k.vid + Len(s.queue)
  <2>1. v \in Int
    BY <1>2, <1>4 DEF ScrKept
  <2>2. flush(s) = [k EXCEPT !.vid = v, !.queue = <<>>]
    BY <1>3
  <2> HIDE DEF v
  <2>3. [k EXCEPT !.vid = v, !.queue = <<>>] \in Scr
    BY <1>4, <1>5, <2>1 DEF Scr
  <2>4. /\ flush(s).ram = k.ram /\ flush(s).org = k.org
        /\ flush(s).vid = v /\ flush(s).queue = <<>>
        /\ flush(s).column = k.column /\ flush(s).row = k.row /\ flush(s).esc = k.esc
        /\ flush(s).echar = k.echar
    BY <1>5, <2>2 DEF Scr
  <2> QED BY <2>2, <2>3, <2>4 DEF v
<1> QED BY <1>2, <1>6 DEF ScrKept, k

\* The queue is in the window.
LEMMA FlushFacts ==
  ASSUME NEW s \in Scr, NEW p \in Nat, Word(s.vid) = Word(s.org + p),
         p + Len(s.queue) <= VID_WORDS
  PROVE  Flushed(s, p, flush(s))
<1> DEFINE k == vid_copy(s, s.vid, s.queue)
<1>1. s.vid \in Int /\ s.queue \in Seq(Printable)
  BY ScrFields
<1>2. Copied(s, p, s.queue, k)
  BY <1>1, CopyFacts
<1> HIDE DEF k
<1>3. \A i \in 0 .. VID_WORDS - 1 : Cell(flush(s), i) = Cell(k, i)
  BY <1>2, FlushKeeps DEF Cell, Copied, ScrKept, k
<1> QED BY <1>2, <1>3, FlushKeeps DEF Flushed, Copied

\* Nothing is queued.
LEMMA FlushNothing ==
  ASSUME NEW s \in Scr, s.queue = <<>>
  PROVE  \A i \in 0 .. VID_WORDS - 1 : Cell(flush(s), i) = Cell(s, i)
<1> DEFINE p == Word(s.vid - s.org)
<1>1. s.vid \in Int /\ s.org \in Int /\ s.vid - s.org \in Int /\ VID_WORDS \in Nat
  <2>1. s.vid \in Int /\ s.org \in Int /\ VID_WORDS \in Nat
    BY ScrFields, LineFacts
  <2> QED BY <2>1
<1>2. p \in 0 .. VID_WORDS - 1 /\ p \in Int /\ Word(p) = Word(s.vid - s.org)
  BY <1>1, WordFacts
<1> HIDE DEF p
<1>3. Word(s.vid) = Word(s.org + p)
  <2>1. Word(p + s.org) = Word((s.vid - s.org) + s.org)
    BY <1>1, <1>2, WordShift
  <2>2. p + s.org = s.org + p /\ (s.vid - s.org) + s.org = s.vid
    BY <1>1, <1>2
  <2> QED BY <2>1, <2>2
<1>4. Len(s.queue) = 0 /\ p \in Nat /\ p + Len(s.queue) <= VID_WORDS
  BY <1>1, <1>2
<1>5. Flushed(s, p, flush(s))
  BY <1>3, <1>4, FlushFacts
<1> QED BY <1>1, <1>2, <1>4, <1>5 DEF Flushed

\* What is seen is what is in the window.
LEMMA ShownFacts ==
  ASSUME NEW s \in Scr
  PROVE  /\ Shown(s) = [y \in 0 .. SCR_LINES - 1 |->
                          [x \in 0 .. LINE_WIDTH - 1 |-> Cell(flush(s), Line(y) + x)]]
         /\ \A y \in 0 .. SCR_LINES - 1, x \in 0 .. LINE_WIDTH :
              Place(s, x, y) = s.org + (Line(y) + x)
<1>1. \A y \in 0 .. SCR_LINES - 1, x \in 0 .. LINE_WIDTH :
        Place(s, x, y) = s.org + (Line(y) + x)
  <2> SUFFICES ASSUME NEW y \in 0 .. SCR_LINES - 1, NEW x \in 0 .. LINE_WIDTH
               PROVE  Place(s, x, y) = s.org + (Line(y) + x)
    OBVIOUS
  <2>1. Place(s, x, y) = s.org + Line(y) + x
    BY DEF Place, Line
  <2>2. s.org \in Int /\ Line(y) \in Int /\ x \in Int
    BY LineFacts, ScrFields
  <2> QED BY <2>1, <2>2
<1>2. flush(s).org = s.org
  BY FlushKeeps
<1>3. ASSUME NEW y \in 0 .. SCR_LINES - 1, NEW x \in 0 .. LINE_WIDTH - 1
      PROVE  flush(s).ram[Place(s, x, y) % VID_WORDS] = Cell(flush(s), Line(y) + x)
  <2>1. x \in 0 .. LINE_WIDTH
    BY LineFacts
  <2> QED BY <1>1, <1>2, <2>1 DEF Cell, Word
<1> QED BY <1>1, <1>3 DEF Shown
-----------------------------------------------------------------------------
\* Where the queue goes in the window, if the cursor has its place.
Start(s) == Line(s.row) + s.column - Len(s.queue)

\* The inductive invariant: what is queued was put in the line, and nothing is within an
\* escape sequence.
SInv(s) == s \in Scr /\ Len(s.queue) <= s.column /\ (s.esc # 0 => s.queue = <<>>)

\* The cursor has its place.
InPlace(s) == SInv(s) /\ Word(s.vid) = Word(s.org + Start(s))

\* The queue is in the window.
LEMMA StartFacts ==
  ASSUME NEW s, SInv(s)
  PROVE  /\ s \in Scr /\ Start(s) \in Nat /\ Len(s.queue) \in Nat /\ Line(s.row) \in Nat
         /\ Start(s) + Len(s.queue) = Line(s.row) + s.column
         /\ Start(s) >= Line(s.row)
         /\ Start(s) + Len(s.queue) <= Line(s.row) + LINE_WIDTH
         /\ Start(s) + Len(s.queue) <= VID_WORDS
<1>1. s \in Scr /\ Len(s.queue) <= s.column
  BY DEF SInv
<1>2. /\ Len(s.queue) \in Nat /\ s.column \in Nat /\ s.column <= LINE_WIDTH
      /\ s.row \in 0 .. SCR_LINES - 1
  BY <1>1, ScrFields
<1>3. /\ Line(s.row) \in Nat /\ Line(s.row) + LINE_WIDTH <= VID_WORDS
      /\ LINE_WIDTH \in Nat /\ VID_WORDS \in Nat
  BY <1>2, LineFacts
<1> QED BY <1>1, <1>2, <1>3 DEF Start

\* Adrift() says that it has not.
LEMMA AdriftIs ==
  ASSUME NEW s, SInv(s)
  PROVE  ~Adrift(s) <=> InPlace(s)
<1> DEFINE b == s.org + Start(s)
           v == s.vid
<1>1. /\ s \in Scr /\ Start(s) \in Nat /\ Len(s.queue) \in Nat /\ Line(s.row) \in Nat
      /\ Start(s) + Len(s.queue) = Line(s.row) + s.column
  BY StartFacts
<1>2. /\ s.org \in Int /\ v \in Int /\ s.column \in 0 .. LINE_WIDTH
      /\ s.row \in 0 .. SCR_LINES - 1
  BY <1>1, ScrFields
<1>3. Place(s, s.column, s.row) = s.org + (Line(s.row) + s.column)
  BY <1>1, <1>2, ShownFacts
<1>4. v + Len(s.queue) - Place(s, s.column, s.row) = v - b /\ b \in Int /\ v - b \in Int
  <2>1. \A o, st, l, n : o \in Int /\ st \in Nat /\ l \in Nat =>
          /\ o + st \in Int /\ v - (o + st) \in Int
          /\ st + l = n => v + l - (o + n) = v - (o + st)
    BY <1>2
  <2> QED BY <1>1, <1>2, <1>3, <2>1
<1>5. ~Adrift(s) <=> Word(v - b) = 0
  BY <1>4 DEF Adrift, Word
<1> HIDE DEF b, v
<1>6. Word(0) = 0
  BY WordFacts, LineFacts
<1>7. Word(v - b) = 0 => Word(v) = Word(b)
  <2> SUFFICES ASSUME Word(v - b) = 0
               PROVE  Word(v) = Word(b)
    OBVIOUS
  <2>1. Word((v - b) + b) = Word(0 + b)
    BY <1>4, <1>6, WordShift
  <2>2. (v - b) + b = v /\ 0 + b = b
    BY <1>2, <1>4
  <2> QED BY <2>1, <2>2
<1>8. Word(v) = Word(b) => Word(v - b) = 0
  <2> SUFFICES ASSUME Word(v) = Word(b)
               PROVE  Word(v - b) = 0
    OBVIOUS
  <2>1. -b \in Int /\ v + (-b) = v - b /\ b + (-b) = 0
    BY <1>2, <1>4
  <2>2. Word(v + (-b)) = Word(b + (-b))
    BY <1>2, <1>4, <2>1, WordShift
  <2> QED BY <1>6, <2>1, <2>2
<1> QED BY <1>5, <1>7, <1>8 DEF InPlace, b, v

\* What is seen p words after the origin.
Seen(s, p) == Cell(flush(s), p)

\* Two screens look alike.
Alike(s, u) == \A p \in 0 .. VID_WORDS - 1 : Seen(u, p) = Seen(s, p)

\* It is the queue, and what was there elsewhere.
LEMMA SeenIs ==
  ASSUME NEW s, InPlace(s), NEW p \in 0 .. VID_WORDS - 1
  PROVE  Seen(s, p) = IF Start(s) <= p /\ p < Start(s) + Len(s.queue)
                      THEN s.queue[p - Start(s) + 1] ELSE Cell(s, p)
<1>1. /\ SInv(s) /\ s \in Scr /\ Start(s) \in Nat
      /\ Start(s) + Len(s.queue) <= VID_WORDS /\ Word(s.vid) = Word(s.org + Start(s))
  BY StartFacts DEF InPlace
<1>2. Flushed(s, Start(s), flush(s))
  BY <1>1, FlushFacts
<1> QED BY <1>2 DEF Flushed, Seen

\* Of a screen with nothing queued, what is in the RAM is seen.
LEMMA SeenRam ==
  ASSUME NEW s \in Scr, s.queue = <<>>
  PROVE  \A p \in 0 .. VID_WORDS - 1 : Seen(s, p) = Cell(s, p)
BY FlushNothing DEF Seen

\* flush() changes nothing that is seen, and leaves the cursor where it is.
LEMMA FlushAlike ==
  ASSUME NEW s, SInv(s)
  PROVE  /\ SInv(flush(s)) /\ Alike(s, flush(s))
         /\ InPlace(s) => InPlace(flush(s))
<1>1. /\ s \in Scr /\ Start(s) \in Nat /\ Len(s.queue) \in Nat /\ Line(s.row) \in Nat
      /\ Start(s) + Len(s.queue) = Line(s.row) + s.column
  BY StartFacts
<1>2. /\ flush(s) \in Scr /\ flush(s).org = s.org /\ flush(s).vid = s.vid + Len(s.queue)
      /\ flush(s).queue = <<>> /\ flush(s).column = s.column /\ flush(s).row = s.row
      /\ flush(s).esc = s.esc
  BY <1>1, FlushKeeps
<1>3. s.column \in Nat /\ s.org \in Int /\ s.vid \in Int
  BY <1>1, ScrFields
<1>4. SInv(flush(s))
  BY <1>2, <1>3 DEF SInv
<1>5. Alike(s, flush(s))
  BY <1>2, FlushNothing DEF Alike, Seen
<1>6. ASSUME InPlace(s)
      PROVE  InPlace(flush(s))
  <2>1. Word(s.vid + Len(s.queue)) = Word(s.org + Start(s) + Len(s.queue))
    <3>1. Word(s.vid) = Word(s.org + Start(s)) /\ s.org + Start(s) \in Int
      BY <1>1, <1>3, <1>6 DEF InPlace
    <3> QED BY <1>1, <1>3, <3>1, WordShift
  <2>2. Start(flush(s)) = Line(s.row) + s.column
    <3>1. Len(<<>>) = 0 /\ Line(s.row) + s.column - 0 = Line(s.row) + s.column
      BY <1>1, <1>3
    <3> QED BY <1>2, <3>1 DEF Start
  <2>3. s.org + Start(s) + Len(s.queue) = s.org + Start(flush(s))
    BY <1>1, <1>3, <2>2
  <2> QED BY <1>2, <1>4, <2>1, <2>3 DEF InPlace
<1> QED BY <1>4, <1>5, <1>6
\* A character that fits in the line is queued, once the queue went out if it was full.
Queue(f, c) == [f EXCEPT !.queue = Append(@, c), !.column = @ + 1]

\* It then appears at the cursor and nowhere else.
LEMMA QueueFacts ==
  ASSUME NEW f, SInv(f), f.esc = 0, f.column < LINE_WIDTH, NEW c \in Printable
  PROVE  /\ SInv(Queue(f, c)) /\ Queue(f, c).column = f.column + 1
         /\ Queue(f, c).row = f.row /\ Queue(f, c).esc = 0
         /\ InPlace(f) => /\ InPlace(Queue(f, c))
                          /\ \A p \in 0 .. VID_WORDS - 1 :
                               Seen(Queue(f, c), p) = IF p = Line(f.row) + f.column THEN c
                                                      ELSE Seen(f, p)
<1> DEFINE u == Queue(f, c)
           q == Append(f.queue, c)
           n == Len(f.queue)
<1>1. /\ f \in Scr /\ Start(f) \in Nat /\ n \in Nat /\ Line(f.row) \in Nat
      /\ Start(f) + n = Line(f.row) + f.column /\ n <= f.column
  BY StartFacts DEF SInv
<1>2. /\ f.column \in Nat /\ f.queue \in Seq(Printable) /\ f.column + 1 \in 0 .. LINE_WIDTH
      /\ f.org \in Int /\ f.vid \in Int
  <2>1. /\ f.column \in Nat /\ f.queue \in Seq(Printable) /\ LINE_WIDTH \in Nat
        /\ f.org \in Int /\ f.vid \in Int
    BY <1>1, ScrFields, LineFacts
  <2> QED BY <2>1
<1>3. /\ q \in Seq(Printable) /\ Len(q) = n + 1 /\ q[n + 1] = c
      /\ \A i \in 1 .. n : q[i] = f.queue[i]
  BY <1>2, AppendProperties
<1> HIDE DEF q
<1>4. u = [f EXCEPT !.queue = q, !.column = f.column + 1]
  BY DEF Queue, q
<1>5. /\ u \in Scr /\ u.ram = f.ram /\ u.org = f.org /\ u.vid = f.vid /\ u.queue = q
      /\ u.column = f.column + 1 /\ u.row = f.row /\ u.esc = f.esc
  BY <1>1, <1>2, <1>3, <1>4 DEF Scr
<1> HIDE DEF u, n
<1>6. SInv(u)
  BY <1>1, <1>2, <1>3, <1>5 DEF SInv
<1>7. Start(u) = Start(f)
  <2>1. Start(u) = Line(f.row) + (f.column + 1) - (n + 1)
    BY <1>3, <1>5 DEF Start
  <2> QED BY <1>1, <1>2, <2>1
<1>8. ASSUME InPlace(f)
      PROVE  /\ InPlace(u)
             /\ \A p \in 0 .. VID_WORDS - 1 :
                  Seen(u, p) = IF p = Line(f.row) + f.column THEN c ELSE Seen(f, p)
  <2>1. InPlace(u)
    BY <1>5, <1>6, <1>7, <1>8 DEF InPlace
  <2>2. ASSUME NEW p \in 0 .. VID_WORDS - 1
        PROVE  Seen(u, p) = IF p = Line(f.row) + f.column THEN c ELSE Seen(f, p)
    <3>1. Seen(u, p) = IF Start(f) <= p /\ p < Start(f) + (n + 1)
                       THEN q[p - Start(f) + 1] ELSE Cell(f, p)
      BY <1>3, <1>5, <1>7, <2>1, SeenIs DEF Cell
    <3>2. Seen(f, p) = IF Start(f) <= p /\ p < Start(f) + n
                       THEN f.queue[p - Start(f) + 1] ELSE Cell(f, p)
      BY <1>8, SeenIs DEF n
    <3>3. CASE p = Line(f.row) + f.column
      <4>1. Start(f) <= p /\ p < Start(f) + (n + 1) /\ p - Start(f) + 1 = n + 1
        BY <1>1, <3>3
      <4> QED BY <1>3, <3>1, <3>3, <4>1
    <3>4. CASE p # Line(f.row) + f.column
      <4>1. p # Start(f) + n /\ p \in Int
        BY <1>1, <3>4
      <4>2. p < Start(f) + (n + 1) <=> p < Start(f) + n
        BY <1>1, <4>1
      <4>3. Start(f) <= p /\ p < Start(f) + n => p - Start(f) + 1 \in 1 .. n
        BY <1>1, <4>1
      <4> QED BY <1>3, <3>1, <3>2, <3>4, <4>2, <4>3
    <3> QED BY <3>3, <3>4
  <2> QED BY <2>1, <2>2
<1> QED BY <1>5, <1>6, <1>8 DEF u

\* A character appears at the cursor and nowhere else, and beyond the line not at all.
LEMMA PrintFacts ==
  ASSUME NEW s, SInv(s), s.esc = 0, NEW c \in Printable
  PROVE  LET u == PrintChar(s, c)
             full == s.column = LINE_WIDTH
         IN  /\ SInv(u) /\ u.row = s.row /\ u.esc = 0
             /\ u.column = IF full THEN s.column ELSE s.column + 1
             /\ InPlace(s) => /\ InPlace(u)
                              /\ \A p \in 0 .. VID_WORDS - 1 :
                                   Seen(u, p) = IF ~full /\ p = Line(s.row) + s.column
                                                THEN c ELSE Seen(s, p)
<1> DEFINE u == PrintChar(s, c)
<1>1. s \in Scr /\ s.column \in Nat /\ s.column <= LINE_WIDTH /\ LINE_WIDTH \in Nat
  BY ScrFields, LineFacts DEF SInv
<1>2. CASE s.column = LINE_WIDTH
  <2>1. u = s
    BY <1>1, <1>2 DEF PrintChar
  <2> QED BY <1>2, <2>1
<1>3. CASE s.column # LINE_WIDTH
  <2> DEFINE f == IF Len(s.queue) = TTY_RAM_WORDS THEN flush(s) ELSE s
  <2>1. s.column < LINE_WIDTH /\ ~(s.column >= LINE_WIDTH)
    BY <1>1, <1>3
  <2>2. u = Queue(f, c)
    BY <2>1 DEF PrintChar, Queue
  <2>3. /\ SInv(f) /\ f.column = s.column /\ f.row = s.row /\ f.esc = 0
        /\ Alike(s, f) /\ (InPlace(s) => InPlace(f))
    <3>1. Alike(s, s)
      BY DEF Alike
    <3> QED BY <1>1, <3>1, FlushAlike, FlushKeeps
  <2> HIDE DEF f
  <2>4. /\ SInv(u) /\ u.row = s.row /\ u.esc = 0 /\ u.column = s.column + 1
        /\ InPlace(s) => /\ InPlace(u)
                         /\ \A p \in 0 .. VID_WORDS - 1 :
                              Seen(u, p) = IF p = Line(s.row) + s.column
                                           THEN c ELSE Seen(f, p)
    BY <2>1, <2>2, <2>3, QueueFacts
  <2> QED BY <1>3, <2>3, <2>4 DEF Alike
<1> QED BY <1>2, <1>3

\* The cursor moves to its place, or stays in it when there is none, and nothing else
\* changes; the move takes it home if it had lost its place.
LEMMA MoveFacts ==
  ASSUME NEW s, SInv(s), NEW x \in Int, NEW y \in Int
  PROVE  LET u == move_to(s, x, y)
             seen == x \in 0 .. LINE_WIDTH - 1 /\ y \in 0 .. SCR_LINES - 1
         IN  /\ SInv(u) /\ Alike(s, u) /\ u.queue = <<>> /\ u.esc = s.esc /\ u.org = s.org
             /\ u.ram = flush(s).ram
             /\ u.column = IF seen THEN x ELSE s.column
             /\ u.row = IF seen THEN y ELSE s.row
             /\ seen \/ InPlace(s) => InPlace(u)
<1> DEFINE u == move_to(s, x, y)
           f == flush(s)
<1>1. s \in Scr
  BY DEF SInv
<1>2. /\ SInv(f) /\ Alike(s, f) /\ (InPlace(s) => InPlace(f)) /\ f \in Scr /\ f.queue = <<>>
      /\ f.esc = s.esc /\ f.org = s.org /\ f.column = s.column /\ f.row = s.row
  BY <1>1, FlushAlike, FlushKeeps
<1>3. CASE ~(x \in 0 .. LINE_WIDTH - 1 /\ y \in 0 .. SCR_LINES - 1)
  <2>1. u = f
    BY <1>3 DEF move_to
  <2> HIDE DEF u, f
  <2>2. u.ram = f.ram
    BY <2>1
  <2> QED BY <1>2, <1>3, <2>1, <2>2 DEF u, f
<1>4. CASE x \in 0 .. LINE_WIDTH - 1 /\ y \in 0 .. SCR_LINES - 1
  <2> DEFINE v == s.org + (Line(y) + x)
  <2>1. /\ Line(y) \in Nat /\ s.org \in Int /\ x \in 0 .. LINE_WIDTH /\ x \in Nat /\ v \in Int
        /\ y \in 0 .. SCR_LINES - 1 /\ Line(y) + x \in Nat
    <3>1. LINE_WIDTH \in Nat /\ s.org \in Int
      BY <1>1, LineFacts, ScrFields
    <3>2. Line(y) \in Nat
      BY <1>4, LineFacts
    <3>3. x \in 0 .. LINE_WIDTH /\ x \in Nat
      BY <1>4, <3>1
    <3> QED BY <1>4, <3>1, <3>2, <3>3
  <2>2. Place(s, x, y) = v
    BY <1>1, <2>1, ShownFacts
  <2>3. u = [f EXCEPT !.column = x, !.row = y, !.vid = v]
    BY <1>4, <2>2 DEF move_to
  <2> HIDE DEF u, f, v
  <2>4. /\ u \in Scr /\ u.ram = f.ram /\ u.org = f.org /\ u.vid = v /\ u.queue = f.queue
        /\ u.column = x /\ u.row = y /\ u.esc = f.esc
    BY <1>2, <2>1, <2>3 DEF Scr
  <2>5. Len(u.queue) = 0 /\ u.queue = <<>>
    BY <1>2, <2>4
  <2>6. SInv(u)
    BY <2>1, <2>4, <2>5 DEF SInv
  <2>7. InPlace(u)
    <3>1. Start(u) = Line(y) + x
      BY <2>1, <2>4, <2>5 DEF Start
    <3> QED BY <1>2, <2>4, <2>6, <3>1 DEF InPlace, v
  <2>8. Alike(s, u)
    <3>1. \A p \in 0 .. VID_WORDS - 1 : Seen(u, p) = Cell(u, p) /\ Seen(f, p) = Cell(f, p)
      BY <1>2, <2>4, <2>5, SeenRam
    <3>2. \A p : Cell(u, p) = Cell(f, p)
      BY <2>4 DEF Cell
    <3> QED BY <1>2, <3>1, <3>2 DEF Alike
  <2> QED BY <1>2, <1>4, <2>4, <2>5, <2>6, <2>7, <2>8 DEF u, f
<1> QED BY <1>3, <1>4
\* Screens with the same RAM, queue and places look alike, whatever their lines are.
LEMMA SameLook ==
  ASSUME NEW s \in Scr, NEW u \in Scr, u.ram = s.ram, u.org = s.org, u.vid = s.vid,
         u.queue = s.queue
  PROVE  Alike(s, u)
<1> SUFFICES ASSUME NEW p \in 0 .. VID_WORDS - 1
             PROVE  Seen(u, p) = Seen(s, p)
  BY DEF Alike
<1>1. s.org \in Int /\ s.vid \in Int /\ s.queue \in Seq(Printable) /\ p \in Int
      /\ VID_WORDS \in Nat
  BY ScrFields, LineFacts
<1>2. Word(s.org + p) \in 0 .. VID_WORDS - 1
  BY <1>1, WordFacts
<1> DEFINE i == Word(s.org + p)
<1> HIDE DEF i
<1>3. vid_copy(u, u.vid, u.queue).ram[i] = vid_copy(s, s.vid, s.queue).ram[i]
  <2>1. i \in 0 .. VID_WORDS - 1
    BY <1>2 DEF i
  <2> DEFINE New == IF Word(i - s.vid) < Len(s.queue)
                    THEN s.queue[Word(i - s.vid) + 1] ELSE s.ram[i]
  <2>2. vid_copy(s, s.vid, s.queue).ram[i] = New
    BY <1>1, <2>1, CopyKeeps
  <2>3. vid_copy(u, s.vid, s.queue).ram[i] = New
    BY <1>1, <2>1, CopyKeeps
  <2> HIDE DEF New
  <2> QED BY <2>2, <2>3
<1> QED BY <1>3, FlushKeeps DEF Seen, Cell, i

\* A scroll moves the window by a line, and blanks the line that comes into it.
LEMMA ScrollFacts ==
  ASSUME NEW s \in Scr, NEW lines \in {-1, 1}
  PROVE  LET u == scroll_screen(s, lines)
             new == IF lines > 0 THEN Line(0) ELSE 0
         IN  /\ u \in Scr /\ u.org = Word(s.org + lines * LINE_WIDTH) /\ u.vid = s.vid
             /\ u.queue = s.queue /\ u.column = s.column /\ u.row = s.row /\ u.esc = s.esc
             /\ \A p \in 0 .. VID_WORDS - 1 :
                  Cell(u, p) = IF new <= p /\ p < new + LINE_WIDTH THEN BLANK
                               ELSE Cell(s, p + lines * LINE_WIDTH)
<1> DEFINE d == lines * LINE_WIDTH
           org == Word(s.org + d)
           b == [s EXCEPT !.org = org]
           new == IF lines > 0 THEN Line(0) ELSE 0
           at == IF lines > 0 THEN org + (SCR_LINES - 1) * LINE_WIDTH ELSE org
           cs == Blanks(LINE_WIDTH)
           u == scroll_screen(s, lines)
<1>1. /\ LINE_WIDTH \in Nat /\ d \in Int /\ s.org \in Int /\ VID_WORDS \in Nat
      /\ SCR_LINES \in Nat /\ SCR_LINES > 1
  <2>1. /\ LINE_WIDTH \in Nat /\ s.org \in Int /\ VID_WORDS \in Nat
        /\ SCR_LINES \in Nat /\ SCR_LINES > 1
    BY LineFacts, ScrFields
  <2>2. d = LINE_WIDTH \/ d = -LINE_WIDTH
    BY <2>1
  <2> QED BY <2>1, <2>2
<1>2. new \in Nat /\ new + LINE_WIDTH <= VID_WORDS
  <2>1. 0 \in 0 .. SCR_LINES - 1 /\ SCR_LINES - 1 \in 0 .. SCR_LINES - 1
    BY <1>1
  <2>2. Line(0) \in Nat /\ Line(0) + LINE_WIDTH <= VID_WORDS /\ 0 + LINE_WIDTH <= VID_WORDS
    BY <2>1, LineFacts
  <2> QED BY <2>2
<1>3. cs \in Seq(Printable) /\ Len(cs) = LINE_WIDTH /\ \A i \in 1 .. LINE_WIDTH : cs[i] = BLANK
  BY <1>1, BlanksFacts
<1>4. s.org + d \in Int /\ org \in 0 .. VID_WORDS - 1 /\ org \in Int /\ Word(org) = Word(s.org + d)
  <2>1. s.org + d \in Int
    BY <1>1
  <2> QED BY <2>1, WordFacts
<1>5. u = vid_copy(b, at, cs)
  BY DEF scroll_screen, Word
<1>6. at \in Int /\ at = org + new
  BY <1>1, <1>2, <1>4, LineFacts
<1> HIDE DEF d, org, new, at, cs, u
<1>7. /\ b \in Scr /\ b.ram = s.ram /\ b.org = org /\ b.vid = s.vid /\ b.queue = s.queue
      /\ b.column = s.column /\ b.row = s.row /\ b.esc = s.esc
  BY <1>4 DEF Scr
<1> HIDE DEF b
<1>8. Copied(b, new, cs, u)
  BY <1>2, <1>3, <1>5, <1>6, <1>7, CopyFacts
<1>9. ASSUME NEW p \in 0 .. VID_WORDS - 1
      PROVE  Cell(u, p) = IF new <= p /\ p < new + LINE_WIDTH THEN BLANK ELSE Cell(s, p + d)
  <2>1. Cell(b, p) = Cell(s, p + d)
    <3>1. Word(org + p) = Word((s.org + d) + p)
      BY <1>1, <1>4, WordShift
    <3>2. (s.org + d) + p = s.org + (p + d)
      BY <1>1
    <3> QED BY <1>7, <3>1, <3>2 DEF Cell
  <2>2. new <= p /\ p < new + LINE_WIDTH => cs[p - new + 1] = BLANK
    <3>1. new <= p /\ p < new + LINE_WIDTH => p - new + 1 \in 1 .. LINE_WIDTH
      BY <1>1, <1>2
    <3> QED BY <1>3, <3>1
  <2>3. Cell(u, p) = IF new <= p /\ p < new + LINE_WIDTH THEN cs[p - new + 1] ELSE Cell(b, p)
    BY <1>3, <1>8 DEF Copied
  <2> QED BY <2>1, <2>2, <2>3
<1>10. /\ u \in Scr /\ u.org = org /\ u.vid = s.vid /\ u.queue = s.queue
       /\ u.column = s.column /\ u.row = s.row /\ u.esc = s.esc
  BY <1>7, <1>8 DEF Copied, ScrKept
<1> QED BY <1>9, <1>10 DEF u, new, org, d

\* A line feed on the bottom line scrolls before what is queued goes out: it goes to
\* where it would have, now a line higher.
LEMMA ScrollUp ==
  ASSUME NEW s, InPlace(s), s.row = 0
  PROVE  LET u == scroll_screen(s, 1)
         IN  /\ SInv(u) /\ u.row = 0 /\ u.column = s.column /\ u.esc = s.esc
             /\ \A p \in 0 .. VID_WORDS - 1 :
                  /\ p < Line(0) => /\ p + LINE_WIDTH < VID_WORDS
                                    /\ Seen(u, p) = Seen(s, p + LINE_WIDTH)
                  /\ Line(0) <= p /\ p < Line(0) + LINE_WIDTH => Seen(u, p) = BLANK
<1> DEFINE W == LINE_WIDTH
           V == VID_WORDS
           u == scroll_screen(s, 1)
           n == Len(s.queue)
           z == Start(s)
           q == z - W
<1>1. /\ SInv(s) /\ s \in Scr /\ z \in Nat /\ n \in Nat /\ z >= Line(0)
      /\ z + n <= Line(0) + W /\ Word(s.vid) = Word(s.org + z)
  BY StartFacts DEF InPlace
<1>2. /\ W \in Nat /\ V \in Nat /\ Line(0) \in Nat /\ Line(0) >= W /\ Line(0) + W <= V
      /\ s.org \in Int /\ s.vid \in Int
  <2>1. /\ W \in Nat /\ V \in Nat /\ 0 \in 0 .. SCR_LINES - 1 /\ 0 \in 0 .. SCR_LINES - 2
        /\ 0 + 1 \in 0 .. SCR_LINES - 1
    BY LineFacts
  <2>2. Line(0) \in Nat /\ Line(0) + W <= V /\ Line(0) = Line(0 + 1) + W /\ Line(0 + 1) \in Nat
    BY <2>1, LineFacts
  <2> QED BY <1>1, <2>1, <2>2, ScrFields
<1>3. /\ u \in Scr /\ u.org = Word(s.org + W) /\ u.vid = s.vid
      /\ u.queue = s.queue /\ u.column = s.column /\ u.row = s.row /\ u.esc = s.esc
      /\ \A p \in 0 .. V - 1 :
           Cell(u, p) = IF Line(0) <= p /\ p < Line(0) + W THEN BLANK ELSE Cell(s, p + W)
  <2>1. 1 * W = W
    BY <1>2
  <2> QED BY <1>1, <2>1, ScrollFacts
<1> HIDE DEF u, n, z, W, V
<1>4. q \in Nat /\ q + n <= Line(0) /\ q + n <= V
  BY <1>1, <1>2
<1>5. Word(u.vid) = Word(u.org + q)
  <2>1. s.org + W \in Int /\ u.org \in Int /\ Word(u.org) = Word(s.org + W)
    <3>1. s.org + W \in Int
      BY <1>2
    <3> QED BY <1>3, <3>1, WordFacts
  <2>2. Word(u.org + q) = Word((s.org + W) + q)
    BY <1>4, <2>1, WordShift
  <2>3. (s.org + W) + q = s.org + z
    BY <1>1, <1>2
  <2> QED BY <1>1, <1>3, <2>2, <2>3
<1> HIDE DEF q
<1>6. Flushed(u, q, flush(u))
  <2>1. q + Len(u.queue) <= VID_WORDS
    BY <1>3, <1>4 DEF n, V
  <2> QED BY <1>3, <1>4, <1>5, <2>1, FlushFacts
<1>7. ASSUME NEW p \in 0 .. V - 1
      PROVE  /\ p < Line(0) => p + W < V /\ Seen(u, p) = Seen(s, p + W)
             /\ Line(0) <= p /\ p < Line(0) + W => Seen(u, p) = BLANK
  <2>1. Seen(u, p) = IF q <= p /\ p < q + n THEN s.queue[p - q + 1] ELSE Cell(u, p)
    BY <1>3, <1>6 DEF Flushed, Seen, n, V
  <2>2. ASSUME p < Line(0)
        PROVE  p + W < V /\ Seen(u, p) = Seen(s, p + W)
    <3>1. p + W < V /\ p + W \in 0 .. V - 1 /\ p \in Nat /\ ~(Line(0) <= p)
      BY <1>2, <2>2
    <3>2. Seen(s, p + W) = IF z <= p + W /\ p + W < z + n
                           THEN s.queue[p + W - z + 1] ELSE Cell(s, p + W)
      <4> DEFINE k == p + W
      <4>1. k \in 0 .. VID_WORDS - 1
        BY <3>1 DEF V
      <4> HIDE DEF k
      <4>2. Seen(s, k) = IF z <= k /\ k < z + n THEN s.queue[k - z + 1] ELSE Cell(s, k)
        BY <4>1, SeenIs DEF z, n
      <4> QED BY <1>1, <1>2, <4>1, <4>2 DEF k
    <3>3. /\ z <= p + W <=> q <= p
          /\ p + W < z + n <=> p < q + n
          /\ p + W - z = p - q
      BY <1>1, <1>2, <3>1 DEF q
    <3> QED BY <1>3, <2>1, <3>1, <3>2, <3>3
  <2>3. ASSUME Line(0) <= p, p < Line(0) + W
        PROVE  Seen(u, p) = BLANK
    <3>1. ~(p < q + n)
      BY <1>1, <1>2, <1>4, <2>3
    <3> QED BY <1>3, <2>1, <2>3, <3>1
  <2> QED BY <2>2, <2>3
<1>8. SInv(u)
  BY <1>1, <1>3 DEF SInv
<1> QED BY <1>3, <1>7, <1>8 DEF u, W, V

\* ESC ~ 1: there is nothing queued, and the screen goes down.
LEMMA ScrollDown ==
  ASSUME NEW s, SInv(s), s.queue = <<>>
  PROVE  LET u == scroll_screen(s, -1)
         IN  /\ SInv(u)
             /\ \A p \in 0 .. VID_WORDS - 1 :
                  Seen(u, p) = IF p < LINE_WIDTH THEN BLANK ELSE Seen(s, p - LINE_WIDTH)
<1> DEFINE u == scroll_screen(s, -1)
<1>1. /\ s \in Scr /\ LINE_WIDTH \in Nat /\ -1 * LINE_WIDTH = -LINE_WIDTH
      /\ VID_WORDS \in Nat
  BY LineFacts DEF SInv
<1>2. /\ u \in Scr /\ u.queue = <<>> /\ u.column = s.column /\ u.esc = s.esc
      /\ \A p \in 0 .. VID_WORDS - 1 :
           Cell(u, p) = IF 0 <= p /\ p < 0 + LINE_WIDTH THEN BLANK ELSE Cell(s, p + -LINE_WIDTH)
  BY <1>1, ScrollFacts
<1> HIDE DEF u
<1>3. ASSUME NEW p \in 0 .. VID_WORDS - 1
      PROVE  Seen(u, p) = IF p < LINE_WIDTH THEN BLANK ELSE Seen(s, p - LINE_WIDTH)
  <2>1. Seen(u, p) = Cell(u, p)
    BY <1>2, SeenRam
  <2>2. p >= LINE_WIDTH => /\ p - LINE_WIDTH \in 0 .. VID_WORDS - 1
                           /\ p + -LINE_WIDTH = p - LINE_WIDTH
    BY <1>1
  <2>3. p >= LINE_WIDTH => Seen(s, p - LINE_WIDTH) = Cell(s, p - LINE_WIDTH)
    BY <1>1, <2>2, SeenRam
  <2>4. 0 <= p /\ 0 + LINE_WIDTH = LINE_WIDTH /\ (p < LINE_WIDTH \/ p >= LINE_WIDTH)
    BY <1>1
  <2> QED BY <1>1, <1>2, <2>1, <2>2, <2>3, <2>4
<1>4. SInv(u)
  BY <1>2 DEF SInv
<1> QED BY <1>3, <1>4 DEF u
\* ESC ~ 0 blanks what is after the cursor.
LEMMA ClearFacts ==
  ASSUME NEW s, SInv(s), s.queue = <<>>
  PROVE  LET u == Clear(s)
             from == Line(s.row) + s.column
         IN  /\ SInv(u)
             /\ InPlace(s) =>
                  /\ InPlace(u)
                  /\ \A p \in 0 .. VID_WORDS - 1 :
                       Seen(u, p) = IF from <= p /\ p < Line(s.row) + LINE_WIDTH * (s.row + 1)
                                    THEN BLANK ELSE Seen(s, p)
<1> DEFINE u == Clear(s)
           from == Line(s.row) + s.column
           a == LINE_WIDTH * (s.row + 1)
           n == a - s.column
           cs == Blanks(n)
<1>1. /\ s \in Scr /\ s.column \in Nat /\ s.column <= LINE_WIDTH /\ s.row \in 0 .. SCR_LINES - 1
      /\ s.vid \in Int /\ LINE_WIDTH \in Nat /\ VID_WORDS \in Nat
  BY ScrFields, LineFacts DEF SInv
<1>2. Line(s.row) \in Nat /\ a \in Nat /\ a >= LINE_WIDTH /\ Line(s.row) + a <= VID_WORDS
  BY <1>1, LineFacts
<1> HIDE DEF a
<1>3. n \in Nat /\ from \in Nat /\ from + n = Line(s.row) + a
  BY <1>1, <1>2
<1>4. u = vid_copy(s, s.vid, cs)
  BY DEF Clear, a
<1> HIDE DEF n, u
<1>5. cs \in Seq(Printable) /\ Len(cs) = n /\ \A i \in 1 .. n : cs[i] = BLANK
  BY <1>3, BlanksFacts
<1> HIDE DEF cs
<1>6. ScrKept(s, u)
  BY <1>1, <1>4, <1>5, CopyKeeps
<1>7. SInv(u)
  BY <1>6 DEF ScrKept, SInv
<1>8. ASSUME InPlace(s)
      PROVE  /\ InPlace(u)
             /\ \A p \in 0 .. VID_WORDS - 1 :
                  Seen(u, p) = IF from <= p /\ p < Line(s.row) + a THEN BLANK ELSE Seen(s, p)
  <2>1. Start(s) = from /\ Start(u) = from
    <3>1. Len(s.queue) = 0 /\ from - 0 = from
      BY <1>3
    <3>2. u.row = s.row /\ u.column = s.column /\ u.queue = s.queue
      BY <1>6 DEF ScrKept
    <3>3. Start(s) = from - Len(s.queue) /\ Start(u) = from - Len(s.queue)
      BY <1>1, <1>2, <3>1, <3>2 DEF Start
    <3> QED BY <3>1, <3>3
  <2>2. Word(s.vid) = Word(s.org + from)
    BY <1>8, <2>1 DEF InPlace
  <2> HIDE DEF from
  <2>3. InPlace(u)
    BY <1>6, <1>7, <2>1, <2>2 DEF InPlace, ScrKept
  <2>4. Copied(s, from, cs, u)
    <3>1. from + Len(cs) <= VID_WORDS
      BY <1>2, <1>3, <1>5
    <3> QED BY <1>1, <1>3, <1>4, <1>5, <2>2, <3>1, CopyFacts
  <2>5. ASSUME NEW p \in 0 .. VID_WORDS - 1
        PROVE  Seen(u, p) = IF from <= p /\ p < Line(s.row) + a THEN BLANK ELSE Seen(s, p)
    <3>1. Seen(s, p) = Cell(s, p) /\ Seen(u, p) = Cell(u, p)
      <4>1. u \in Scr /\ u.queue = <<>>
        BY <1>6 DEF ScrKept
      <4> QED BY <1>1, <4>1, SeenRam
    <3>2. Cell(u, p) = IF from <= p /\ p < from + n THEN cs[p - from + 1] ELSE Cell(s, p)
      BY <1>5, <2>4 DEF Copied
    <3>3. from <= p /\ p < from + n => p - from + 1 \in 1 .. n
      BY <1>1, <1>3
    <3> QED BY <1>3, <1>5, <3>1, <3>2, <3>3
  <2> QED BY <2>3, <2>5
<1> QED BY <1>7, <1>8 DEF u, a

\* A line feed goes down a line, and on the bottom line moves what is seen up one.
LEMMA LineFeedFacts ==
  ASSUME NEW s, SInv(s), s.esc = 0, NEW crmod \in BOOLEAN
  PROVE  LET u == LineFeed(s, crmod)
         IN  /\ SInv(u)
             /\ InPlace(s) =>
                  /\ s.column # LINE_WIDTH => InPlace(u)
                  /\ s.row # 0 => Alike(s, u)
                  /\ s.row = 0 =>
                       \A p \in 0 .. VID_WORDS - 1 :
                         /\ p < Line(0) => Seen(u, p) = Seen(s, p + LINE_WIDTH)
                         /\ Line(0) <= p /\ p < Line(0) + LINE_WIDTH => Seen(u, p) = BLANK
<1> DEFINE r == IF crmod THEN move_to(s, 0, s.row) ELSE s
           f == IF r.row = 0 THEN scroll_screen(r, 1) ELSE [r EXCEPT !.row = @ - 1]
           u == LineFeed(s, crmod)
<1>1. /\ s \in Scr /\ s.column \in Nat /\ s.column <= LINE_WIDTH /\ s.row \in 0 .. SCR_LINES - 1
      /\ LINE_WIDTH \in Nat \ {0} /\ VID_WORDS \in Nat
  BY ScrFields, LineFacts DEF SInv
<1>2. u = move_to(f, f.column, f.row)
  BY DEF LineFeed
<1>3. /\ SInv(r) /\ r.row = s.row /\ r.esc = 0 /\ Alike(s, r)
      /\ r.column = s.column \/ r.column = 0
      /\ InPlace(s) => InPlace(r)
  <2>1. 0 \in 0 .. LINE_WIDTH - 1 /\ s.row \in Int /\ 0 \in Int
    BY <1>1
  <2>2. Alike(s, s)
    BY DEF Alike
  <2> QED BY <1>1, <2>1, <2>2, MoveFacts
<1> HIDE DEF r
<1>4. /\ SInv(f) /\ f.column = r.column /\ f.row \in 0 .. SCR_LINES - 1 /\ f.esc = 0
      /\ s.row # 0 => Alike(r, f)
  <2>1. CASE r.row = 0
    <3>1. r \in Scr
      BY <1>3 DEF SInv
    <3>2. /\ f \in Scr /\ f.queue = r.queue /\ f.column = r.column /\ f.row = r.row /\ f.esc = r.esc
      BY <2>1, <3>1, ScrollFacts
    <3> HIDE DEF f
    <3>3. SInv(f)
      BY <1>3, <3>2 DEF SInv
    <3> QED BY <1>1, <1>3, <2>1, <3>2, <3>3
  <2>2. CASE r.row # 0
    <3>1. r \in Scr
      BY <1>3 DEF SInv
    <3>2. r.row - 1 \in 0 .. SCR_LINES - 1
      BY <1>1, <1>3, <2>2, LineFacts
    <3>3. f = [r EXCEPT !.row = r.row - 1]
      BY <2>2
    <3> HIDE DEF f
    <3>4. /\ f \in Scr /\ f.ram = r.ram /\ f.org = r.org /\ f.vid = r.vid /\ f.queue = r.queue
          /\ f.column = r.column /\ f.row = r.row - 1 /\ f.esc = r.esc
      BY <3>1, <3>2, <3>3 DEF Scr
    <3>5. SInv(f) /\ Alike(r, f)
      BY <1>3, <3>1, <3>4, SameLook DEF SInv
    <3> QED BY <1>3, <3>2, <3>4, <3>5
  <2> QED BY <2>1, <2>2
<1>5. f.column \in Int /\ f.row \in Int /\ f.column <= LINE_WIDTH /\ f.column >= 0
  BY <1>1, <1>3, <1>4
<1>6. ASSUME InPlace(s), s.row = 0
      PROVE  \A p \in 0 .. VID_WORDS - 1 :
               /\ p < Line(0) => p + LINE_WIDTH < VID_WORDS /\ Seen(f, p) = Seen(r, p + LINE_WIDTH)
               /\ Line(0) <= p /\ p < Line(0) + LINE_WIDTH => Seen(f, p) = BLANK
  BY <1>3, <1>6, ScrollUp
<1> HIDE DEF f, u
<1>7. SInv(u) /\ Alike(f, u) /\ (f.column \in 0 .. LINE_WIDTH - 1 => InPlace(u))
  BY <1>2, <1>4, <1>5, MoveFacts
<1>8. s.column # LINE_WIDTH => f.column \in 0 .. LINE_WIDTH - 1
  BY <1>1, <1>3, <1>4
<1>9. InPlace(s) /\ s.row # 0 => Alike(s, u)
  BY <1>3, <1>4, <1>7 DEF Alike
<1>10. ASSUME InPlace(s), s.row = 0, NEW p \in 0 .. VID_WORDS - 1
       PROVE  /\ p < Line(0) => Seen(u, p) = Seen(s, p + LINE_WIDTH)
              /\ Line(0) <= p /\ p < Line(0) + LINE_WIDTH => Seen(u, p) = BLANK
  <2>1. Seen(u, p) = Seen(f, p)
    BY <1>7 DEF Alike
  <2>2. ASSUME p < Line(0)
        PROVE  Seen(u, p) = Seen(s, p + LINE_WIDTH)
    <3>1. p + LINE_WIDTH < VID_WORDS /\ Seen(f, p) = Seen(r, p + LINE_WIDTH)
      BY <1>6, <1>10, <2>2
    <3>2. p + LINE_WIDTH \in 0 .. VID_WORDS - 1
      BY <1>1, <3>1
    <3> QED BY <1>3, <2>1, <3>1, <3>2 DEF Alike
  <2> QED BY <1>6, <1>10, <2>1, <2>2
<1> QED BY <1>7, <1>8, <1>9, <1>10 DEF u
-----------------------------------------------------------------------------
\* The function by which Tab() prints: n blanks.
Blanking(g, s, m) == g = [n \in 0 .. m |-> IF n = 0 THEN s ELSE PrintChar(g[n - 1], BLANK)]

\* It is defined from its last value, and exists.
LEMMA Iterated ==
  ASSUME NEW s, NEW m \in Nat
  PROVE  \E g : Blanking(g, s, m)
<1> DEFINE Put1(u) == PrintChar(u, BLANK)
           Is(g, k) == g = [n \in 0 .. k |-> IF n = 0 THEN s ELSE Put1(g[n - 1])]
           Bad == {k \in Nat : ~\E g : Is(g, k)}
<1> HIDE DEF Put1
<1> SUFFICES ASSUME Bad # {}
             PROVE  FALSE
  BY DEF Put1, Blanking
<1>1. PICK k \in Bad : \A j \in Bad : k <= j
  <2>1. Bad \in SUBSET Nat
    OBVIOUS
  <2> HIDE DEF Bad
  <2> QED BY <2>1, LeastIndex
<1>2. k \in Nat /\ ~\E g : Is(g, k)
  BY <1>1
<1>3. CASE k = 0
  <2> DEFINE g == [n \in 0 .. 0 |-> s]
  <2>1. Is(g, 0)
    OBVIOUS
  <2> HIDE DEF Is
  <2> QED BY <1>2, <1>3, <2>1
<1>4. CASE k # 0
  <2>1. k - 1 \in Nat /\ ~(k <= k - 1)
    BY <1>2, <1>4
  <2>2. \E g : Is(g, k - 1)
    BY <1>1, <2>1
  <2>3. PICK g : Is(g, k - 1)
    BY <2>2
  <2> DEFINE h == [n \in 0 .. k |-> IF n = k THEN Put1(g[k - 1]) ELSE g[n]]
  <2>4. \A n \in 0 .. k - 1 : g[n] = (IF n = 0 THEN s ELSE Put1(g[n - 1])) /\ h[n] = g[n]
    BY <1>2, <2>3
  <2>5. h[k] = Put1(g[k - 1]) /\ h[k - 1] = g[k - 1]
    BY <1>2, <1>4, <2>4, <2>1
  <2>6. \A n \in 0 .. k : h[n] = IF n = 0 THEN s ELSE Put1(h[n - 1])
    <3> SUFFICES ASSUME NEW n \in 0 .. k
                 PROVE  h[n] = IF n = 0 THEN s ELSE Put1(h[n - 1])
      OBVIOUS
    <3> HIDE DEF h
    <3>1. CASE n = k
      BY <1>4, <2>5, <3>1
    <3>2. CASE n # k
      <4>1. n \in 0 .. k - 1 /\ (n # 0 => n - 1 \in 0 .. k - 1)
        BY <1>2, <3>2
      <4> QED BY <2>4, <4>1
    <3> QED BY <3>1, <3>2
  <2>7. h = [n \in 0 .. k |-> h[n]]
    OBVIOUS
  <2> HIDE DEF h
  <2>8. Is(h, k)
    BY <2>6, <2>7
  <2> HIDE DEF Is
  <2> QED BY <1>2, <2>8
<1> QED BY <1>3, <1>4

\* The next stop is after the cursor, no further than TAB_SIZE.
LEMMA StopFacts ==
  ASSUME NEW x \in Nat
  PROVE  Stop(x) \in Nat /\ Stop(x) - x \in 1 .. TAB_SIZE
<1> DEFINE q == x \div TAB_SIZE
           r == x % TAB_SIZE
<1>1. TAB_SIZE \in Nat \ {0}
  BY ScreenAssumption
<1>2. q \in Int /\ r \in 0 .. TAB_SIZE - 1 /\ x = q * TAB_SIZE + r
  BY <1>1, Remainder
<1>3. Stop(x) = (q + 1) * TAB_SIZE
  BY DEF Stop
<1> HIDE DEF q, r
<1>4. (q + 1) * TAB_SIZE = q * TAB_SIZE + TAB_SIZE /\ q * TAB_SIZE \in Int
  BY <1>1, <1>2
<1> QED BY <1>1, <1>2, <1>3, <1>4

\* A tab blanks the line up to the stop, or its end.
LEMMA TabFacts ==
  ASSUME NEW s, SInv(s), s.esc = 0
  PROVE  LET u == Tab(s)
         IN  /\ SInv(u)
             /\ InPlace(s) =>
                  /\ InPlace(u)
                  /\ \A p \in 0 .. VID_WORDS - 1 :
                       Seen(u, p) = IF /\ Line(s.row) + s.column <= p
                                       /\ p < Line(s.row) + LINE_WIDTH
                                       /\ p < Line(s.row) + Stop(s.column)
                                    THEN BLANK ELSE Seen(s, p)
<1> DEFINE f[n \in 0 .. TAB_SIZE] == IF n = 0 THEN s ELSE PrintChar(f[n - 1], BLANK)
           c == s.column
           l == Line(s.row)
           W == LINE_WIDTH
           End(n) == IF c + n <= W THEN c + n ELSE W
           Done(n) == /\ SInv(f[n]) /\ f[n].row = s.row /\ f[n].esc = 0 /\ f[n].column = End(n)
                      /\ InPlace(s) =>
                           /\ InPlace(f[n])
                           /\ \A p \in 0 .. VID_WORDS - 1 :
                                Seen(f[n], p) = IF l + c <= p /\ p < l + End(n)
                                                THEN BLANK ELSE Seen(s, p)
           t == Stop(c) - c
<1>1. /\ c \in Nat /\ c <= W /\ W \in Nat /\ l \in Nat /\ BLANK \in Printable
      /\ TAB_SIZE \in Nat
  BY ScrFields, LineFacts, ScreenAssumption DEF SInv
<1>2. t \in 1 .. TAB_SIZE /\ Stop(c) \in Nat
  BY <1>1, StopFacts
<1>3. Tab(s) = f[t]
  BY DEF Tab
<1>4. f = [n \in 0 .. TAB_SIZE |-> IF n = 0 THEN s ELSE PrintChar(f[n - 1], BLANK)]
  <2>1. \E g : Blanking(g, s, TAB_SIZE)
    BY <1>1, Iterated
  <2> QED BY <2>1 DEF Blanking
<1> HIDE DEF f
<1>5. f[0] = s /\ \A n \in 1 .. TAB_SIZE : f[n] = PrintChar(f[n - 1], BLANK)
  <2>1. \A n \in 0 .. TAB_SIZE : f[n] = IF n = 0 THEN s ELSE PrintChar(f[n - 1], BLANK)
    BY <1>4
  <2> QED BY <1>1, <2>1
<1>6. Done(0)
  <2>1. End(0) = c /\ \A p \in 0 .. VID_WORDS - 1 : ~(l + c <= p /\ p < l + c)
    BY <1>1
  <2> QED BY <1>5, <2>1
<1>7. ASSUME NEW n \in 1 .. TAB_SIZE, Done(n - 1)
      PROVE  Done(n)
  <2> DEFINE g == f[n - 1]
             full == g.column = W
  <2>1. f[n] = PrintChar(g, BLANK)
    BY <1>5
  <2>2. SInv(g) /\ g.row = s.row /\ g.esc = 0 /\ g.column = End(n - 1)
    BY <1>7
  <2>3. InPlace(s) => /\ InPlace(g)
                      /\ \A p \in 0 .. VID_WORDS - 1 :
                           Seen(g, p) = IF l + c <= p /\ p < l + End(n - 1)
                                        THEN BLANK ELSE Seen(s, p)
    BY <1>7
  <2> HIDE DEF g
  <2>4. LET u == f[n]
        IN  /\ SInv(u) /\ u.row = s.row /\ u.esc = 0
            /\ u.column = IF full THEN g.column ELSE g.column + 1
            /\ InPlace(g) => /\ InPlace(u)
                             /\ \A p \in 0 .. VID_WORDS - 1 :
                                  Seen(u, p) = IF ~full /\ p = l + g.column
                                               THEN BLANK ELSE Seen(g, p)
    BY <1>1, <2>1, <2>2, PrintFacts
  <2>5. /\ full <=> ~(c + n <= W)
        /\ End(n - 1) \in Nat /\ End(n) \in Nat
        /\ full => End(n) = End(n - 1)
        /\ ~full => End(n) = End(n - 1) + 1 /\ End(n - 1) = c + (n - 1)
    BY <1>1, <2>2
  <2>6. f[n].column = End(n)
    BY <2>2, <2>4, <2>5
  <2>7. ASSUME InPlace(s), NEW p \in 0 .. VID_WORDS - 1
        PROVE  Seen(f[n], p) = IF l + c <= p /\ p < l + End(n) THEN BLANK ELSE Seen(s, p)
    <3> HIDE DEF full, End, c, l
    <3>1. Seen(f[n], p) = IF ~full /\ p = l + End(n - 1) THEN BLANK ELSE Seen(g, p)
      BY <2>2, <2>3, <2>4, <2>7
    <3>2. Seen(g, p) = IF l + c <= p /\ p < l + End(n - 1) THEN BLANK ELSE Seen(s, p)
      BY <2>3, <2>7
    <3>3. CASE full
      BY <2>5, <3>1, <3>2, <3>3
    <3>4. CASE ~full
      <4>1. l + c <= p /\ p < l + End(n) <=> \/ p = l + End(n - 1)
                                             \/ l + c <= p /\ p < l + End(n - 1)
        BY <1>1, <2>5, <3>4
      <4> QED BY <3>1, <3>2, <3>4, <4>1
    <3> QED BY <3>3, <3>4
  <2> QED BY <2>3, <2>4, <2>6, <2>7
<1>8. Done(t)
  <2> DEFINE Bad == {n \in 0 .. TAB_SIZE : ~Done(n)}
  <2> HIDE DEF Done
  <2>1. SUFFICES ASSUME Bad # {}
                 PROVE  FALSE
    BY <1>2
  <2>2. PICK k \in Bad : \A j \in Bad : k <= j
    <3>1. Bad \in SUBSET Nat
      OBVIOUS
    <3> HIDE DEF Bad
    <3> QED BY <2>1, <3>1, LeastIndex
  <2>3. k \in 0 .. TAB_SIZE /\ ~Done(k) /\ k # 0
    BY <1>6, <2>2
  <2>4. k \in 1 .. TAB_SIZE /\ k - 1 \in 0 .. TAB_SIZE /\ ~(k <= k - 1)
    BY <1>1, <2>3
  <2>5. Done(k - 1)
    BY <2>2, <2>4
  <2> QED BY <1>7, <2>3, <2>4, <2>5
<1>9. /\ SInv(f[t])
      /\ InPlace(s) => /\ InPlace(f[t])
                       /\ \A p \in 0 .. VID_WORDS - 1 :
                            Seen(f[t], p) = IF l + c <= p /\ p < l + End(t)
                                            THEN BLANK ELSE Seen(s, p)
  BY <1>8
<1>10. \A p \in 0 .. VID_WORDS - 1 : p < l + End(t) <=> p < l + W /\ p < l + Stop(c)
  <2>1. c + t = Stop(c)
    BY <1>1, <1>2
  <2> HIDE DEF t
  <2>2. \A p \in Int : p < l + End(t) <=> p < l + W /\ p < l + Stop(c)
    BY <1>1, <1>2, <2>1
  <2> QED BY <2>2
<1> HIDE DEF End, Done, t
<1> QED BY <1>3, <1>9, <1>10
-----------------------------------------------------------------------------
Lines == 0 .. SCR_LINES - 1
Columns == 0 .. LINE_WIDTH - 1

\* Places in lines: the lower line, which has the higher number, comes before.
LEMMA PlaceFacts ==
  ASSUME NEW y \in Lines, NEW z \in Lines, NEW x \in Columns, NEW c \in 0 .. LINE_WIDTH
  PROVE  /\ Line(y) + x \in 0 .. VID_WORDS - 1 /\ Line(y) \in Nat /\ Line(z) \in Nat
         /\ Line(z) + c <= Line(y) + x <=> y < z \/ (y = z /\ x >= c)
         /\ Line(y) + x < Line(z) + LINE_WIDTH <=> y >= z
<1>1. /\ LINE_WIDTH \in Nat /\ VID_WORDS \in Nat /\ SCR_LINES \in Nat
      /\ y \in 0 .. SCR_LINES - 1 /\ z \in 0 .. SCR_LINES - 1 /\ x \in 0 .. LINE_WIDTH - 1
  BY LineFacts DEF Lines, Columns
<1>2. /\ Line(y) \in Nat /\ Line(z) \in Nat /\ Line(y) + LINE_WIDTH <= VID_WORDS
      /\ y < z => Line(z) + LINE_WIDTH <= Line(y)
      /\ z < y => Line(y) + LINE_WIDTH <= Line(z)
  BY <1>1, LineFacts
<1>3. CASE y = z
  BY <1>1, <1>2, <1>3
<1>4. CASE y < z
  BY <1>1, <1>2, <1>4
<1>5. CASE z < y
  BY <1>1, <1>2, <1>5
<1> QED BY <1>1, <1>3, <1>4, <1>5

\* So no two of them are the same.
LEMMA PlacesDiffer ==
  ASSUME NEW y \in Lines, NEW z \in Lines, NEW x \in Columns, NEW c \in Columns
  PROVE  Line(y) + x = Line(z) + c <=> y = z /\ x = c
<1>1. LINE_WIDTH \in Nat /\ SCR_LINES \in Nat /\ c \in 0 .. LINE_WIDTH
  BY LineFacts DEF Columns
<1>2. /\ Line(y) \in Nat /\ Line(z) \in Nat
      /\ Line(z) + c <= Line(y) + x <=> y < z \/ (y = z /\ x >= c)
      /\ Line(y) + x <= Line(z) + c <=> z < y \/ (y = z /\ c >= x)
  <2>1. x \in 0 .. LINE_WIDTH
    BY <1>1 DEF Columns
  <2> QED BY <1>1, <2>1, PlaceFacts
<1> QED BY <1>1, <1>2 DEF Lines, Columns

\* What is shown, by place.
LEMMA ShownIs ==
  ASSUME NEW s \in Scr
  PROVE  /\ Shown(s) = [y \in Lines |-> [x \in Columns |-> Seen(s, Line(y) + x)]]
         /\ DOMAIN Shown(s) = Lines
         /\ \A y \in Lines : /\ Shown(s)[y] = [x \in Columns |-> Seen(s, Line(y) + x)]
                             /\ DOMAIN Shown(s)[y] = Columns
                             /\ \A x \in Columns : Shown(s)[y][x] = Seen(s, Line(y) + x)
<1>1. Shown(s) = [y \in Lines |-> [x \in Columns |-> Seen(s, Line(y) + x)]]
  BY ShownFacts DEF Seen, Lines, Columns
<1> QED BY <1>1

\* Screens that are alike show the same.
LEMMA ShownAlike ==
  ASSUME NEW s \in Scr, NEW u \in Scr, Alike(s, u)
  PROVE  Shown(u) = Shown(s)
<1>1. \A y \in Lines, x \in Columns : Seen(u, Line(y) + x) = Seen(s, Line(y) + x)
  <2> SUFFICES ASSUME NEW y \in Lines, NEW x \in Columns
               PROVE  Seen(u, Line(y) + x) = Seen(s, Line(y) + x)
    OBVIOUS
  <2>1. Line(y) + x \in 0 .. VID_WORDS - 1
    <3>1. 0 \in 0 .. LINE_WIDTH
      BY LineFacts
    <3> QED BY <3>1, PlaceFacts
  <2> QED BY <2>1 DEF Alike
<1> QED BY <1>1, ShownIs

\* A character is put in its place.
LEMMA ShownPut ==
  ASSUME SInv(scr), NEW u \in Scr, NEW c,
         \A p \in 0 .. VID_WORDS - 1 :
           Seen(u, p) = IF ~(scr.column = LINE_WIDTH) /\ p = Line(scr.row) + scr.column
                        THEN c ELSE Seen(scr, p)
  PROVE  Shown(u) = Put(Shown(scr), c)
<1> DEFINE d == Shown(scr)
           e == Shown(u)
<1>1. /\ scr \in Scr /\ scr.column \in 0 .. LINE_WIDTH /\ scr.row \in Lines
      /\ LINE_WIDTH \in Nat /\ scr.column \in Nat /\ SCR_LINES \in Nat
  BY ScrFields, LineFacts DEF SInv, Lines
<1>2. CASE scr.column = LINE_WIDTH
  <2>1. Alike(scr, u)
    BY <1>2 DEF Alike
  <2> QED BY <1>1, <1>2, <2>1, ShownAlike DEF Put
<1>3. CASE scr.column # LINE_WIDTH
  <2>1. scr.column \in Columns
    BY <1>1, <1>3 DEF Columns
  <2>2. ASSUME NEW y \in Lines, NEW x \in Columns
        PROVE  Seen(u, Line(y) + x) = IF y = scr.row /\ x = scr.column THEN c
                                      ELSE Seen(scr, Line(y) + x)
    <3>1. Line(y) + x \in 0 .. VID_WORDS - 1
      BY <1>1, PlaceFacts
    <3>2. Line(y) + x = Line(scr.row) + scr.column <=> y = scr.row /\ x = scr.column
      BY <1>1, <2>1, PlacesDiffer
    <3> QED BY <1>3, <3>1, <3>2
  <2>3. /\ e = [y \in Lines |-> [x \in Columns |-> Seen(u, Line(y) + x)]]
        /\ d = [y \in Lines |-> [x \in Columns |-> Seen(scr, Line(y) + x)]]
    BY <1>1, ShownIs
  <2> HIDE DEF d, e
  <2>4. [d EXCEPT ![scr.row][scr.column] = c] =
          [y \in Lines |-> [x \in Columns |-> IF y = scr.row /\ x = scr.column THEN c
                                             ELSE Seen(scr, Line(y) + x)]]
    BY <1>1, <2>1, <2>3
  <2>5. e = [d EXCEPT ![scr.row][scr.column] = c]
    BY <2>2, <2>3, <2>4
  <2> QED BY <1>3, <2>5 DEF Put, d, e
<1> QED BY <1>2, <1>3

\* Blanks to the stop.
LEMMA ShownTab ==
  ASSUME SInv(scr), NEW u \in Scr,
         \A p \in 0 .. VID_WORDS - 1 :
           Seen(u, p) = IF /\ Line(scr.row) + scr.column <= p
                           /\ p < Line(scr.row) + LINE_WIDTH
                           /\ p < Line(scr.row) + Stop(scr.column)
                        THEN BLANK ELSE Seen(scr, p)
  PROVE  Shown(u) = TabPut(Shown(scr))
<1> DEFINE d == Shown(scr)
           e == Shown(u)
<1>1. /\ scr \in Scr /\ scr.column \in 0 .. LINE_WIDTH /\ scr.row \in Lines
      /\ LINE_WIDTH \in Nat /\ scr.column \in Nat /\ SCR_LINES \in Nat
  BY ScrFields, LineFacts DEF SInv, Lines
<1>2. Stop(scr.column) \in Nat
  BY <1>1, StopFacts
<1>3. ASSUME NEW y \in Lines, NEW x \in Columns
      PROVE  Seen(u, Line(y) + x) = IF y = scr.row /\ x >= scr.column /\ x < Stop(scr.column)
                                    THEN BLANK ELSE Seen(scr, Line(y) + x)
  <2>1. /\ Line(y) + x \in 0 .. VID_WORDS - 1 /\ Line(y) \in Nat /\ Line(scr.row) \in Nat
        /\ Line(scr.row) + scr.column <= Line(y) + x <=>
             y < scr.row \/ (y = scr.row /\ x >= scr.column)
        /\ Line(y) + x < Line(scr.row) + LINE_WIDTH <=> y >= scr.row
    BY <1>1, PlaceFacts
  <2>2. x \in Int /\ y \in Int /\ scr.row \in Int
    BY <1>1 DEF Lines, Columns
  <2>3. y = scr.row => (Line(y) + x < Line(scr.row) + Stop(scr.column) <=> x < Stop(scr.column))
    BY <1>2, <2>1, <2>2
  <2> QED BY <2>1, <2>2, <2>3
<1>4. /\ e = [y \in Lines |-> [x \in Columns |-> Seen(u, Line(y) + x)]]
      /\ d = [y \in Lines |-> [x \in Columns |-> Seen(scr, Line(y) + x)]]
  BY <1>1, ShownIs
<1> HIDE DEF d, e
<1>5. TabPut(d) =
        [y \in Lines |-> [x \in Columns |->
           IF y = scr.row /\ x >= scr.column /\ x < Stop(scr.column) THEN BLANK
           ELSE Seen(scr, Line(y) + x)]]
  BY <1>1, <1>4 DEF TabPut
<1>6. e = TabPut(d)
  BY <1>3, <1>4, <1>5
<1> QED BY <1>6 DEF d, e

\* Blanks after the cursor.
LEMMA ShownAfter ==
  ASSUME SInv(scr), NEW u \in Scr,
         \A p \in 0 .. VID_WORDS - 1 :
           Seen(u, p) = IF /\ Line(scr.row) + scr.column <= p
                           /\ p < Line(scr.row) + LINE_WIDTH * (scr.row + 1)
                        THEN BLANK ELSE Seen(scr, p)
  PROVE  Shown(u) = After(Shown(scr))
<1> DEFINE d == Shown(scr)
           e == Shown(u)
           a == LINE_WIDTH * (scr.row + 1)
<1>1. /\ scr \in Scr /\ scr.column \in 0 .. LINE_WIDTH /\ scr.row \in Lines
      /\ LINE_WIDTH \in Nat /\ scr.column \in Nat /\ SCR_LINES \in Nat
  BY ScrFields, LineFacts DEF SInv, Lines
<1>2. a \in Nat /\ \A y \in Lines : Line(y) + LINE_WIDTH <= Line(scr.row) + a
  BY <1>1, LineFacts DEF Lines
<1>3. ASSUME NEW y \in Lines, NEW x \in Columns
      PROVE  Seen(u, Line(y) + x) = IF y < scr.row \/ (y = scr.row /\ x >= scr.column)
                                    THEN BLANK ELSE Seen(scr, Line(y) + x)
  <2> HIDE DEF a
  <2>1. /\ Line(y) + x \in 0 .. VID_WORDS - 1 /\ Line(y) \in Nat /\ Line(scr.row) \in Nat
        /\ Line(scr.row) + scr.column <= Line(y) + x <=>
             y < scr.row \/ (y = scr.row /\ x >= scr.column)
    BY <1>1, PlaceFacts
  <2>2. Line(y) + x < Line(scr.row) + a
    <3>1. x \in Int /\ x < LINE_WIDTH
      BY <1>1 DEF Columns
    <3> QED BY <1>1, <1>2, <2>1, <3>1
  <2> QED BY <2>1, <2>2 DEF a
<1>4. /\ e = [y \in Lines |-> [x \in Columns |-> Seen(u, Line(y) + x)]]
      /\ d = [y \in Lines |-> [x \in Columns |-> Seen(scr, Line(y) + x)]]
  BY <1>1, ShownIs
<1> HIDE DEF d, e
<1>5. After(d) =
        [y \in Lines |-> [x \in Columns |->
           IF y < scr.row \/ (y = scr.row /\ x >= scr.column) THEN BLANK
           ELSE Seen(scr, Line(y) + x)]]
  BY <1>1, <1>4 DEF After
<1>6. e = After(d)
  BY <1>3, <1>4, <1>5
<1> QED BY <1>6 DEF d, e

\* All lines go up.
LEMMA ShownUp ==
  ASSUME NEW s \in Scr, NEW u \in Scr,
         \A p \in 0 .. VID_WORDS - 1 :
           /\ p < Line(0) => Seen(u, p) = Seen(s, p + LINE_WIDTH)
           /\ Line(0) <= p /\ p < Line(0) + LINE_WIDTH => Seen(u, p) = BLANK
  PROVE  Shown(u) = Up(Shown(s))
<1> DEFINE d == Shown(s)
           e == Shown(u)
<1>1. 0 \in Lines /\ 0 \in 0 .. LINE_WIDTH /\ LINE_WIDTH \in Nat /\ SCR_LINES \in Nat
  BY LineFacts DEF Lines
<1>2. ASSUME NEW y \in Lines, NEW x \in Columns
      PROVE  /\ y = 0 => Seen(u, Line(y) + x) = BLANK
             /\ y # 0 => /\ y - 1 \in Lines
                         /\ Seen(u, Line(y) + x) = Seen(s, Line(y - 1) + x)
  <2>1. /\ Line(y) + x \in 0 .. VID_WORDS - 1 /\ Line(y) \in Nat /\ Line(0) \in Nat
        /\ Line(0) + 0 <= Line(y) + x <=> y < 0 \/ (y = 0 /\ x >= 0)
        /\ Line(y) + x < Line(0) + LINE_WIDTH <=> y >= 0
    BY <1>1, PlaceFacts
  <2>2. x \in Int /\ x >= 0 /\ y \in Int /\ y >= 0
    BY <1>1 DEF Lines, Columns
  <2>3. CASE y = 0
    BY <2>1, <2>2, <2>3
  <2>4. CASE y # 0
    <3>1. y - 1 \in Lines /\ y - 1 \in 0 .. SCR_LINES - 2 /\ (y - 1) + 1 = y
      BY <1>1, <2>2, <2>4 DEF Lines
    <3>2. Line(y - 1) = Line(y) + LINE_WIDTH
      BY <3>1, LineFacts
    <3>3. Line(y) + x < Line(0) /\ (Line(y) + x) + LINE_WIDTH = Line(y - 1) + x
      BY <1>1, <2>1, <2>2, <2>4, <3>2
    <3> QED BY <2>1, <2>4, <3>1, <3>3
  <2> QED BY <2>3, <2>4
<1>3. /\ e = [y \in Lines |-> [x \in Columns |-> Seen(u, Line(y) + x)]]
      /\ d = [y \in Lines |-> [x \in Columns |-> Seen(s, Line(y) + x)]]
  BY ShownIs
<1> HIDE DEF d, e
<1>4. ASSUME NEW y \in Lines
      PROVE  e[y] = IF y = 0 THEN Blank ELSE d[y - 1]
  <2>1. e[y] = [x \in Columns |-> Seen(u, Line(y) + x)]
    BY <1>3
  <2>2. CASE y = 0
    <3>1. e[y] = [x \in Columns |-> BLANK]
      BY <1>2, <2>1, <2>2
    <3> QED BY <2>2, <3>1 DEF Blank, Columns
  <2>3. CASE y # 0
    <3>1. y - 1 \in Lines
      <4>1. 0 \in Columns
        BY LineFacts DEF Columns
      <4> QED BY <1>2, <2>3, <4>1
    <3>2. d[y - 1] = [x \in Columns |-> Seen(s, Line(y - 1) + x)]
      BY <1>3, <3>1
    <3>3. e[y] = [x \in Columns |-> Seen(s, Line(y - 1) + x)]
      BY <1>2, <2>1, <2>3
    <3> QED BY <2>3, <3>2, <3>3
  <2> QED BY <2>2, <2>3
<1>5. Up(d) = [y \in Lines |-> IF y = 0 THEN Blank ELSE d[y - 1]]
  BY <1>3 DEF Up
<1>6. e = Up(d)
  BY <1>3, <1>4, <1>5
<1> QED BY <1>6 DEF d, e

\* All lines go down.
LEMMA ShownDown ==
  ASSUME NEW s \in Scr, NEW u \in Scr,
         \A p \in 0 .. VID_WORDS - 1 :
           Seen(u, p) = IF p < LINE_WIDTH THEN BLANK ELSE Seen(s, p - LINE_WIDTH)
  PROVE  Shown(u) = Down(Shown(s))
<1> DEFINE d == Shown(s)
           e == Shown(u)
           l == SCR_LINES - 1
<1>1. l \in Lines /\ 0 \in 0 .. LINE_WIDTH /\ LINE_WIDTH \in Nat /\ SCR_LINES \in Nat /\ Line(l) = 0
  BY LineFacts DEF Lines
<1>2. ASSUME NEW y \in Lines, NEW x \in Columns
      PROVE  /\ y = l => Seen(u, Line(y) + x) = BLANK
             /\ y # l => /\ y + 1 \in Lines
                         /\ Seen(u, Line(y) + x) = Seen(s, Line(y + 1) + x)
  <2>1. Line(y) + x \in 0 .. VID_WORDS - 1 /\ Line(y) \in Nat
    BY <1>1, PlaceFacts
  <2>2. x \in Int /\ x >= 0 /\ x < LINE_WIDTH /\ y \in Int /\ y >= 0
    BY <1>1 DEF Lines, Columns
  <2>3. CASE y = l
    <3>1. Line(y) + x < LINE_WIDTH
      BY <1>1, <2>2, <2>3
    <3> QED BY <2>1, <2>3, <3>1
  <2>4. CASE y # l
    <3>1. y + 1 \in Lines /\ y \in 0 .. SCR_LINES - 2
      BY <1>1, <2>2, <2>4 DEF Lines
    <3>2. Line(y) = Line(y + 1) + LINE_WIDTH /\ Line(y + 1) \in Nat
      BY <3>1, LineFacts DEF Lines
    <3>3. ~(Line(y) + x < LINE_WIDTH) /\ (Line(y) + x) - LINE_WIDTH = Line(y + 1) + x
      BY <1>1, <2>1, <2>2, <3>2
    <3> QED BY <2>1, <2>4, <3>1, <3>3
  <2> QED BY <2>3, <2>4
<1>3. /\ e = [y \in Lines |-> [x \in Columns |-> Seen(u, Line(y) + x)]]
      /\ d = [y \in Lines |-> [x \in Columns |-> Seen(s, Line(y) + x)]]
  BY ShownIs
<1> HIDE DEF d, e
<1>4. ASSUME NEW y \in Lines
      PROVE  e[y] = IF y = SCR_LINES - 1 THEN Blank ELSE d[y + 1]
  <2>1. e[y] = [x \in Columns |-> Seen(u, Line(y) + x)]
    BY <1>3
  <2>2. CASE y = l
    <3>1. e[y] = [x \in Columns |-> BLANK]
      BY <1>2, <2>1, <2>2
    <3> QED BY <2>2, <3>1 DEF Blank, Columns
  <2>3. CASE y # l
    <3>1. y + 1 \in Lines
      <4>1. 0 \in Columns
        BY LineFacts DEF Columns
      <4> QED BY <1>2, <2>3, <4>1
    <3>2. d[y + 1] = [x \in Columns |-> Seen(s, Line(y + 1) + x)]
      BY <1>3, <3>1
    <3>3. e[y] = [x \in Columns |-> Seen(s, Line(y + 1) + x)]
      BY <1>2, <2>1, <2>3
    <3> QED BY <2>3, <3>2, <3>3
  <2> QED BY <2>2, <2>3
<1>5. Down(d) = [y \in Lines |-> IF y = SCR_LINES - 1 THEN Blank ELSE d[y + 1]]
  BY <1>3 DEF Down
<1>6. e = Down(d)
  BY <1>3, <1>4, <1>5
<1> QED BY <1>6 DEF d, e
-----------------------------------------------------------------------------
\* A state that differs in its escape state alone.
LEMMA EscKeeps ==
  ASSUME NEW s, SInv(s), NEW e \in 0 .. 2, NEW w \in {"none", "~", "z", "column"},
         e # 0 => s.queue = <<>>
  PROVE  LET u == [s EXCEPT !.esc = e, !.echar = w]
         IN  /\ SInv(u) /\ u.queue = s.queue /\ u.row = s.row /\ u.column = s.column /\ u.esc = e
             /\ Alike(s, u) /\ (InPlace(s) => InPlace(u))
<1> DEFINE u == [s EXCEPT !.esc = e, !.echar = w]
<1>1. s \in Scr
  BY DEF SInv
<1>2. /\ u \in Scr /\ u.ram = s.ram /\ u.org = s.org /\ u.vid = s.vid /\ u.queue = s.queue
      /\ u.column = s.column /\ u.row = s.row /\ u.esc = e
  BY <1>1 DEF Scr
<1> HIDE DEF u
<1>3. SInv(u)
  BY <1>2 DEF SInv
<1>4. InPlace(s) => InPlace(u)
  BY <1>2, <1>3 DEF InPlace, Start
<1> QED BY <1>1, <1>2, <1>3, <1>4, SameLook DEF u

\* The end of an escape sequence is one.
LEMMA NoEscapeFacts ==
  ASSUME SInv(scr), scr.esc = 2
  PROVE  /\ SInv(NoEscape) /\ NoEscape.queue = <<>> /\ NoEscape.row = scr.row
         /\ NoEscape.column = scr.column /\ NoEscape.esc = 0
         /\ Alike(scr, NoEscape) /\ (InPlace(scr) => InPlace(NoEscape))
<1>1. scr.queue = <<>>
  BY DEF SInv
<1>2. 0 \in 0 .. 2 /\ "none" \in {"none", "~", "z", "column"}
  OBVIOUS
<1>3. LET u == [scr EXCEPT !.esc = 0, !.echar = "none"]
      IN  /\ SInv(u) /\ u.queue = scr.queue /\ u.row = scr.row /\ u.column = scr.column
          /\ u.esc = 0 /\ Alike(scr, u) /\ (InPlace(scr) => InPlace(u))
  BY <1>1, <1>2, EscKeeps
<1> QED BY <1>1, <1>3 DEF NoEscape

\* What alike screens come from, alike ones do.
LEMMA AlikeTrans ==
  ASSUME NEW s, NEW u, NEW v, Alike(s, u), Alike(u, v)
  PROVE  Alike(s, v)
BY DEF Alike

\* The actions that show the same, and lose nothing.
LEMMA Quiet ==
  ASSUME SInv(scr),
         cursor_move \/ bell \/ escape_first \/ escape_second \/ escape_attribute \/ escape_move
  PROVE  SInv(scr') /\ Alike(scr, scr') /\ (InPlace(scr) => InPlace(scr'))
<1>1. scr \in Scr /\ scr.column \in Int /\ scr.row \in Int
  BY ScrFields DEF SInv
<1>2. CASE cursor_move
  <2>1. PICK x \in Int, y \in Int : scr' = move_to(scr, x, y)
    <3>1. /\ scr.row + 1 \in Int /\ scr.column + 1 \in Int /\ scr.column - 1 \in Int /\ 0 \in Int
      BY <1>1
    <3> QED BY <1>1, <1>2, <3>1 DEF cursor_move
  <2> QED BY <2>1, MoveFacts
<1>3. CASE bell
  BY <1>3, FlushAlike DEF bell
<1>4. CASE escape_first
  <2> DEFINE f == flush(scr)
  <2>1. SInv(f) /\ Alike(scr, f) /\ (InPlace(scr) => InPlace(f)) /\ f.queue = <<>> /\ f \in Scr
    BY <1>1, FlushAlike, FlushKeeps
  <2>2. scr' = [f EXCEPT !.esc = 1]
    BY <1>4 DEF escape_first
  <2> HIDE DEF f
  <2>3. scr' = [f EXCEPT !.esc = 1, !.echar = f.echar]
    BY <2>1, <2>2 DEF Scr
  <2>4. f.echar \in {"none", "~", "z", "column"} /\ 1 \in 0 .. 2
    BY <2>1 DEF Scr
  <2>5. SInv(scr') /\ Alike(f, scr') /\ (InPlace(f) => InPlace(scr'))
    BY <2>1, <2>3, <2>4, EscKeeps
  <2> QED BY <2>1, <2>5, AlikeTrans
<1>5. CASE escape_second
  <2>1. PICK w \in {"~", "z", "column"} : scr' = [scr EXCEPT !.esc = 2, !.echar = w]
    BY <1>5 DEF escape_second
  <2>2. scr.queue = <<>> /\ w \in {"none", "~", "z", "column"} /\ 2 \in 0 .. 2
    BY <1>5 DEF escape_second, SInv
  <2> QED BY <2>1, <2>2, EscKeeps
<1>6. CASE escape_attribute
  BY <1>6, NoEscapeFacts DEF escape_attribute, Escaped
<1>7. CASE escape_move
  <2>1. SInv(NoEscape) /\ Alike(scr, NoEscape) /\ (InPlace(scr) => InPlace(NoEscape))
    BY <1>7, NoEscapeFacts DEF escape_move, Escaped
  <2>2. PICK x \in 0 .. LINE_WIDTH, y \in 0 .. SCR_LINES : scr' = move_to(NoEscape, x, y)
    BY <1>7 DEF escape_move
  <2>3. x \in Int /\ y \in Int
    BY LineFacts
  <2>4. SInv(scr') /\ Alike(NoEscape, scr') /\ (InPlace(NoEscape) => InPlace(scr'))
    BY <2>1, <2>2, <2>3, MoveFacts
  <2> QED BY <2>1, <2>4, AlikeTrans
<1> QED BY <1>2, <1>3, <1>4, <1>5, <1>6, <1>7

\* A character.
LEMMA CharStep ==
  ASSUME SInv(scr), NEW c \in Printable, out_char(c)
  PROVE  /\ SInv(scr')
         /\ InPlace(scr) => InPlace(scr') /\ Shown(scr') = Put(Shown(scr), c)
<1>1. scr.esc = 0 /\ scr' = PrintChar(scr, c)
  BY DEF out_char
<1>2. /\ SInv(scr')
      /\ InPlace(scr) => /\ InPlace(scr')
                         /\ \A p \in 0 .. VID_WORDS - 1 :
                              Seen(scr', p) = IF /\ ~(scr.column = LINE_WIDTH)
                                                 /\ p = Line(scr.row) + scr.column
                                              THEN c ELSE Seen(scr, p)
  BY <1>1, PrintFacts
<1>3. scr' \in Scr
  BY <1>2 DEF SInv
<1> QED BY <1>2, <1>3, ShownPut

\* A tab.
LEMMA TabStep ==
  ASSUME SInv(scr), horizontal_tab
  PROVE  /\ SInv(scr')
         /\ InPlace(scr) => InPlace(scr') /\ Shown(scr') = TabPut(Shown(scr))
<1>1. scr.esc = 0 /\ scr' = Tab(scr)
  BY DEF horizontal_tab
<1>2. /\ SInv(scr')
      /\ InPlace(scr) => /\ InPlace(scr')
                         /\ \A p \in 0 .. VID_WORDS - 1 :
                              Seen(scr', p) = IF /\ Line(scr.row) + scr.column <= p
                                                 /\ p < Line(scr.row) + LINE_WIDTH
                                                 /\ p < Line(scr.row) + Stop(scr.column)
                                              THEN BLANK ELSE Seen(scr, p)
  BY <1>1, TabFacts
<1>3. scr' \in Scr
  BY <1>2 DEF SInv
<1> QED BY <1>2, <1>3, ShownTab

\* A line feed.
LEMMA LineFeedStep ==
  ASSUME SInv(scr), line_feed
  PROVE  /\ SInv(scr')
         /\ InPlace(scr) =>
              /\ scr.column # LINE_WIDTH => InPlace(scr')
              /\ Shown(scr') = IF scr.row = 0 THEN Up(Shown(scr)) ELSE Shown(scr)
<1>1. PICK crmod \in BOOLEAN : scr.esc = 0 /\ scr' = LineFeed(scr, crmod)
  BY DEF line_feed
<1>2. /\ SInv(scr')
      /\ InPlace(scr) =>
           /\ scr.column # LINE_WIDTH => InPlace(scr')
           /\ scr.row # 0 => Alike(scr, scr')
           /\ scr.row = 0 =>
                \A p \in 0 .. VID_WORDS - 1 :
                  /\ p < Line(0) => Seen(scr', p) = Seen(scr, p + LINE_WIDTH)
                  /\ Line(0) <= p /\ p < Line(0) + LINE_WIDTH => Seen(scr', p) = BLANK
  BY <1>1, LineFeedFacts
<1>3. scr \in Scr /\ scr' \in Scr
  BY <1>2 DEF SInv
<1>4. ASSUME InPlace(scr), scr.row = 0
      PROVE  Shown(scr') = Up(Shown(scr))
  BY <1>2, <1>3, <1>4, ShownUp
<1>5. ASSUME InPlace(scr), scr.row # 0
      PROVE  Shown(scr') = Shown(scr)
  BY <1>2, <1>3, <1>5, ShownAlike
<1> QED BY <1>2, <1>4, <1>5

\* ESC ~ 1.
LEMMA ReverseStep ==
  ASSUME SInv(scr), escape_reverse
  PROVE  SInv(scr') /\ Shown(scr') = Down(Shown(scr))
<1> DEFINE s == NoEscape
<1>1. SInv(s) /\ s.queue = <<>> /\ Alike(scr, s) /\ scr' = scroll_screen(s, -1)
  BY NoEscapeFacts DEF escape_reverse, Escaped
<1> HIDE DEF s
<1>2. /\ SInv(scr')
      /\ \A p \in 0 .. VID_WORDS - 1 :
           Seen(scr', p) = IF p < LINE_WIDTH THEN BLANK ELSE Seen(s, p - LINE_WIDTH)
  BY <1>1, ScrollDown
<1>3. scr \in Scr /\ s \in Scr /\ scr' \in Scr
  BY <1>1, <1>2 DEF SInv
<1>4. Shown(s) = Shown(scr) /\ Shown(scr') = Down(Shown(s))
  BY <1>1, <1>2, <1>3, ShownAlike, ShownDown
<1> QED BY <1>2, <1>4

\* ESC ~ 0.
LEMMA ClearStep ==
  ASSUME SInv(scr), escape_clear
  PROVE  /\ SInv(scr')
         /\ InPlace(scr) => InPlace(scr') /\ Shown(scr') = After(Shown(scr))
<1> DEFINE s == NoEscape
           a == LINE_WIDTH * (scr.row + 1)
<1>1. /\ SInv(s) /\ s.queue = <<>> /\ Alike(scr, s) /\ (InPlace(scr) => InPlace(s))
      /\ s.row = scr.row /\ s.column = scr.column /\ scr' = Clear(s)
  BY NoEscapeFacts DEF escape_clear, Escaped
<1> HIDE DEF s, a
<1>2. /\ SInv(scr')
      /\ InPlace(s) =>
           /\ InPlace(scr')
           /\ \A p \in 0 .. VID_WORDS - 1 :
                Seen(scr', p) = IF Line(scr.row) + scr.column <= p /\ p < Line(scr.row) + a
                                THEN BLANK ELSE Seen(s, p)
  BY <1>1, ClearFacts DEF a
<1>3. scr' \in Scr
  BY <1>2 DEF SInv
<1>4. ASSUME InPlace(scr)
      PROVE  Shown(scr') = After(Shown(scr))
  <2>1. \A p \in 0 .. VID_WORDS - 1 :
          Seen(scr', p) = IF Line(scr.row) + scr.column <= p /\ p < Line(scr.row) + a
                          THEN BLANK ELSE Seen(scr, p)
    BY <1>1, <1>2, <1>4 DEF Alike
  <2> QED BY <1>3, <2>1, ShownAfter DEF a
<1> QED BY <1>1, <1>2, <1>4

\* The inductive invariant holds at first.
LEMMA ScreenInitInv == ScreenInit => SInv(scr)
<1> SUFFICES ASSUME ScreenInit
             PROVE  SInv(scr)
  OBVIOUS
<1> DEFINE ram == [i \in 0 .. VID_WORDS - 1 |-> BLANK]
           v == (SCR_LINES - 1) * LINE_WIDTH
<1>1. ram \in [0 .. VID_WORDS - 1 -> Printable]
  BY ScreenAssumption
<1>2. /\ v \in Int /\ 0 \in 0 .. VID_WORDS - 1 /\ 0 \in 0 .. LINE_WIDTH /\ 0 \in 0 .. SCR_LINES - 1
      /\ 0 \in 0 .. 2 /\ <<>> \in Seq(Printable)
  <2>1. 0 \in 0 .. SCR_LINES - 1
    BY LineFacts
  <2>2. v \in Nat
    BY <2>1, LineFacts
  <2> QED BY <2>1, <2>2, LineFacts
<1>3. scr = [ram |-> ram, org |-> 0, vid |-> v, queue |-> <<>>, column |-> 0, row |-> 0,
             esc |-> 0, echar |-> "none"]
  BY DEF ScreenInit
<1> HIDE DEF ram, v
<1>4. scr \in Scr
  BY <1>1, <1>2, <1>3 DEF Scr
<1>5. Len(scr.queue) <= scr.column /\ scr.esc = 0
  BY <1>3
<1> QED BY <1>4, <1>5 DEF SInv

\* The invariant holds in every state.
LEMMA ScreenInvariant == ScreenSpec => []SInv(scr)
<1>1. SInv(scr) /\ [ScreenNext]_scr => SInv(scr)'
  <2> SUFFICES ASSUME SInv(scr), [ScreenNext]_scr
               PROVE  SInv(scr')
    OBVIOUS
  <2>1. CASE ScreenNext
    BY <2>1, Quiet, CharStep, TabStep, LineFeedStep, ReverseStep, ClearStep DEF ScreenNext
  <2>2. CASE UNCHANGED scr
    BY <2>2
  <2> QED BY <2>1, <2>2
<1> QED BY <1>1, ScreenInitInv, PTL DEF ScreenSpec

\* ScreenAsTold: whatever is queued, wherever the window is in the RAM and however its
\* lines wrap at its end, each action of out_char() and escape() changes what is seen as
\* a terminal would, and only the two ways of Adrift() make the cursor lose its place.
THEOREM ScreenTheorem == ScreenSpec => ScreenAsTold
<1> DEFINE d == Shown(scr)
           Told == ~Adrift(scr) =>
             /\ \A c \in Printable : out_char(c) => Shown(scr)' = Put(d, c)
             /\ horizontal_tab => Shown(scr)' = TabPut(d)
             /\ line_feed      => Shown(scr)' = IF scr.row = 0 THEN Up(d) ELSE d
             /\ escape_reverse => Shown(scr)' = Down(d)
             /\ escape_clear   => Shown(scr)' = After(d)
             /\ cursor_move \/ bell \/ escape_first \/ escape_move => Shown(scr)' = d
             /\ Adrift(scr)'   => escape_reverse \/ (line_feed /\ scr.column = LINE_WIDTH)
<1>1. SInv(scr) /\ SInv(scr)' /\ [ScreenNext]_scr => [Told]_scr
  <2> SUFFICES ASSUME SInv(scr), SInv(scr'), ScreenNext, ~Adrift(scr)
               PROVE  Told
    OBVIOUS
  <2>1. InPlace(scr) /\ (InPlace(scr') => ~Adrift(scr'))
    BY AdriftIs
  <2>2. \A c \in Printable : out_char(c) => Shown(scr') = Put(d, c) /\ InPlace(scr')
    BY <2>1, CharStep
  <2>3. horizontal_tab => Shown(scr') = TabPut(d) /\ InPlace(scr')
    BY <2>1, TabStep
  <2>4. line_feed => /\ Shown(scr') = IF scr.row = 0 THEN Up(d) ELSE d
                     /\ scr.column # LINE_WIDTH => InPlace(scr')
    BY <2>1, LineFeedStep
  <2>5. escape_reverse => Shown(scr') = Down(d)
    BY ReverseStep
  <2>6. escape_clear => Shown(scr') = After(d) /\ InPlace(scr')
    BY <2>1, ClearStep
  <2>7. ASSUME \/ cursor_move \/ bell \/ escape_first \/ escape_second \/ escape_attribute
               \/ escape_move
        PROVE  Shown(scr') = d /\ InPlace(scr')
    <3>1. Alike(scr, scr') /\ InPlace(scr')
      BY <2>1, <2>7, Quiet
    <3> QED BY <3>1, ShownAlike DEF SInv
  <2>8. Adrift(scr') => escape_reverse \/ (line_feed /\ scr.column = LINE_WIDTH)
    BY <2>1, <2>2, <2>3, <2>4, <2>6, <2>7 DEF ScreenNext
  <2> HIDE DEF d
  <2> QED BY <2>2, <2>3, <2>4, <2>5, <2>6, <2>7, <2>8
<1> HIDE DEF Told, d
<1>2. ScreenSpec => [][Told]_scr
  BY <1>1, ScreenInvariant, PTL DEF ScreenSpec
<1> QED BY <1>2 DEF ScreenAsTold, Told, d
=============================================================================
