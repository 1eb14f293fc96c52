------------------------------- MODULE Floppy -------------------------------
(***************************************************************************)
(* The diskette driver (kernel/floppy.c), the watchdogs that CLOCK runs    *)
(* for it, the controller's interrupts and the motors.                     *)
(*                                                                         *)
(* No task takes the CPU from another, so what the driver does between two *)
(* blocking calls is undivided, and CLOCK runs only while it is blocked    *)
(* (Running).  Most steps are one procedure up to where it blocks.         *)
(*   pc         where the driver is; "set_start" and "set_stop" are the    *)
(*              sendrec of clock_mess(), where CLOCK may first handle a    *)
(*              tick, "spinning" is receive(CLOCK), the four of Awaits are *)
(*              receive(HARDWARE)                                          *)
(*   job        drive, block, position, errors of the request; back: where *)
(*              start_motor() returns to; again: recalibrate() is called   *)
(*              after a seek failed                                        *)
(*   sick       need_reset;  calibrated, density: fl_calibration and       *)
(*              fl_density, which `d' always equals                        *)
(*   motors     status, goal, prev: motor_status and so on, as sets of     *)
(*              drives; speed: of the motors themselves                    *)
(*   watchdog   the function that CLOCK is to call, in p_alarm's time      *)
(*   sends      CLOCK is in send_mess(), until the driver receives         *)
(*   fdc        the controller "works", or its "interrupt" is a message    *)
(*   done       what the last transfer of the request led to               *)
(* fl_curcyl is never set to a cylinder, so seek() always seeks.  The DMA, *)
(* the bytes of the commands and the data rate are left out, and what the  *)
(* controller answers is a choice: that it listens, that a command has     *)
(* succeeded, that the diskette is write protected.  A command that it has *)
(* taken ends with one interrupt, and so does a reset.                     *)
(***************************************************************************)
EXTENDS Integers

CONSTANTS NR_DRIVES,   \* number of drives
          NT,          \* number of diskette/drive combinations
          nr_sectors,  \* sectors on a track, by combination
          nr_blocks,   \* sectors on a diskette, by combination
          MAX_ERRORS,  \* how often to try before quitting
          Asked        \* the blocks that are asked for

NR_HEADS == 2
Drives    == 0 .. NR_DRIVES - 1
Densities == 0 .. NT - 1

ASSUME FloppyAssumption ==
  /\ NR_DRIVES \in Nat \ {0} /\ NT \in Nat \ {0}
  /\ nr_sectors \in [Densities -> Nat \ {0}] /\ nr_blocks \in [Densities -> Nat]
  /\ MAX_ERRORS \in Nat /\ MAX_ERRORS >= NT
  /\ Asked \subseteq Nat

VARIABLES pc, job, sick, calibrated, density, motors, watchdog, sends, fdc, done

drive_vars == <<sick, calibrated, density>>
clock_side == <<watchdog, sends>>
floppy_vars == <<pc, job, drive_vars, motors, clock_side, fdc, done>>

\* Where a block is on a diskette of combination d.
Position(block, d) ==
  [cylinder |-> block \div (NR_HEADS * nr_sectors[d]),
   head     |-> (block % (NR_HEADS * nr_sectors[d])) \div nr_sectors[d],
   sector   |-> block % nr_sectors[d]]

Awaits  == {"resetting", "recalibrating", "seeking", "transferring"}
Running == pc \in {"try", "seek", "recalibrate", "transfer"}

FloppyInit ==
  /\ pc = "receive"
  /\ job = [drive |-> 0, block |-> 0, position |-> Position(0, 0), errors |-> 0,
            back |-> "seek", again |-> FALSE]
  /\ sick = FALSE
  /\ calibrated = [x \in Drives |-> FALSE] /\ density = [x \in Drives |-> 0]
  /\ motors = [status |-> {}, goal |-> {}, prev |-> {}, speed |-> [x \in Drives |-> "off"]]
  /\ watchdog = "none" /\ sends = FALSE
  /\ fdc = "idle" /\ done = "nothing"
-----------------------------------------------------------------------------
(* The registers. *)

\* What an output of `on' to the motor bits of DOR makes of the motors.
Turned(speed, on) ==
  [x \in Drives |-> IF x \notin on THEN "off"
                    ELSE IF speed[x] = "off" THEN "starting" ELSE speed[x]]

\* Mutant: the driver waits for a controller that did not listen.
Command_Wait(wait) ==
  /\ pc' = wait /\ sick' \in {sick, TRUE}
  /\ fdc' = IF sick' THEN fdc ELSE "works"

\* fdc_out() of a whole command; a controller that does not listen is sick.
Command(wait) ==
  \/ ~sick /\ fdc' = "works" /\ pc' = wait /\ UNCHANGED sick
  \/ sick' = TRUE /\ pc' = "try" /\ UNCHANGED fdc

\* The driver has its interrupt.
Interrupted(wait) == pc = wait /\ fdc = "interrupt" /\ fdc' = "idle"

\* fdc_out(FDC_SENSE), fdc_results(): either may find the controller sick.
Sense == sick' \in {sick, TRUE}
-----------------------------------------------------------------------------
(* Motors. *)

\* Mutant: the goal of the last request stays, to stop all motors.
Started_KeepGoal(m, x) ==
  LET on == {x} \cup (m.status \cap m.prev)
  IN  [status |-> on, goal |-> m.goal, prev |-> {x}, speed |-> Turned(m.speed, on)]

\* The motor of x is turned on, and the one that was started last stays on.
Started(m, x) ==
  LET on == {x} \cup (m.status \cap m.prev)
  IN  [status |-> on, goal |-> on, prev |-> {x}, speed |-> Turned(m.speed, on)]

\* start_motor(), which returns to `next' at once if the motor is running.
start_motor(next) ==
  /\ motors' = Started(motors, job.drive)
  /\ pc' = IF job.drive \in motors.status THEN next ELSE "set_start"

\* clock_mess(mtr_setup[d], send_mess)
SetStart ==
  /\ pc = "set_start" /\ ~sends
  /\ watchdog' = "send_mess" /\ pc' = "spinning"
  /\ UNCHANGED <<job, drive_vars, motors, sends, fdc, done>>

\* receive(CLOCK, &mess)
Spun ==
  /\ pc = "spinning" /\ sends
  /\ sends' = FALSE /\ pc' = job.back
  /\ UNCHANGED <<job, drive_vars, motors, watchdog, fdc, done>>

\* CLOCK calls stop_motor().
stop_motor ==
  /\ ~Running /\ ~sends /\ watchdog = "stop_motor"
  /\ watchdog' = "none"
  /\ motors' = [motors EXCEPT !.status = motors.goal, !.speed = Turned(@, motors.goal)]
  /\ UNCHANGED <<pc, job, drive_vars, sends, fdc, done>>

\* CLOCK calls send_mess(), when the motor has had its time.
send_mess ==
  /\ ~Running /\ ~sends /\ watchdog = "send_mess"
  /\ watchdog' = "none" /\ sends' = TRUE
  /\ motors' = [motors EXCEPT !.speed =
                  [x \in Drives |-> IF @[x] = "starting" THEN "full" ELSE @[x]]]
  /\ UNCHANGED <<pc, job, drive_vars, fdc, done>>
-----------------------------------------------------------------------------
(* floppy_task() and do_rdwt(). *)

\* A request of FS that passes the checks, from receive(ANY).
do_rdwt(x, block) ==
  /\ pc = "receive" /\ pc' = "try"
  /\ job' = [drive |-> x, block |-> block, position |-> Position(block, density[x]),
             errors |-> 0, back |-> "seek", again |-> FALSE]
  /\ done' = "nothing"
  /\ UNCHANGED <<drive_vars, motors, clock_side, fdc>>

\* "when timer goes off, kill all motors"
Finish(result) ==
  /\ motors' = [motors EXCEPT !.goal = {}]
  /\ done' = result /\ pc' = "set_stop"

GiveUp ==
  /\ pc = "try" /\ job.errors > MAX_ERRORS
  /\ Finish("EIO")
  /\ UNCHANGED <<job, drive_vars, clock_side, fdc>>

\* The top of the loop: many errors mean another density, which a block may be beyond.
\* The controller is reset if it is sick; otherwise the motor is started.
Try ==
  /\ pc = "try" /\ job.errors <= MAX_ERRORS
  /\ LET errors == job.errors + 1
         x      == job.drive
         other  == errors % (MAX_ERRORS \div NT) = 0
         d      == IF other THEN (density[x] + 1) % NT ELSE density[x]
         beyond == job.block >= nr_blocks[d]
     IN  /\ job' = [job EXCEPT !.errors = errors, !.back = "seek", !.again = FALSE]
         /\ density' = [density EXCEPT ![x] = d]
         /\ \/ beyond /\ sick' = (sick \/ other) /\ pc' = "try" /\ UNCHANGED <<motors, fdc>>
            \/ /\ ~beyond /\ (sick \/ other)
               /\ sick' = FALSE /\ pc' = "resetting" /\ fdc' = "works"
               /\ motors' = [motors EXCEPT !.status = {}, !.goal = {}, !.speed = Turned(@, {})]
            \/ ~beyond /\ ~(sick \/ other) /\ start_motor("seek") /\ UNCHANGED <<sick, fdc>>
  /\ UNCHANGED <<calibrated, clock_side, done>>

\* reset(), from its interrupt on.
Reset ==
  /\ Interrupted("resetting") /\ Sense
  /\ calibrated' = [x \in Drives |-> FALSE]
  /\ start_motor("seek")
  /\ UNCHANGED <<job, density, clock_side, done>>

\* seek(), of a calibrated drive.
Seek ==
  /\ pc = "seek" /\ calibrated[job.drive]
  /\ Command("seeking")
  /\ UNCHANGED <<job, calibrated, density, motors, clock_side, done>>

\* recalibrate() is called by seek(), and again after a seek that failed.
CallRecalibrate(again) ==
  /\ job' = [job EXCEPT !.back = "recalibrate", !.again = again]
  /\ start_motor("recalibrate")

SeekUncalibrated ==
  /\ pc = "seek" /\ ~calibrated[job.drive]
  /\ CallRecalibrate(FALSE)
  /\ UNCHANGED <<drive_vars, clock_side, fdc, done>>

Recalibrate ==
  /\ pc = "recalibrate"
  /\ Command("recalibrating")
  /\ UNCHANGED <<job, calibrated, density, motors, clock_side, done>>

\* The answer may be one that was left there by another command, so that even a sick
\* controller can seem to have succeeded.
Recalibrated ==
  /\ Interrupted("recalibrating")
  /\ \E succeeds \in BOOLEAN :
       /\ IF succeeds THEN Sense ELSE sick' = TRUE
       /\ calibrated' = [calibrated EXCEPT ![job.drive] = succeeds]
       /\ pc' = IF succeeds /\ ~job.again THEN "seek" ELSE "try"
  /\ UNCHANGED <<job, density, motors, clock_side, done>>

Sought ==
  /\ Interrupted("seeking") /\ Sense
  /\ \/ pc' = "transfer" /\ UNCHANGED <<job, motors>>
     \/ CallRecalibrate(TRUE)
  /\ UNCHANGED <<calibrated, density, clock_side, done>>

\* transfer(): "Never attempt a transfer if the drive is uncalibrated or motor is off."
Transfer ==
  /\ pc = "transfer"
  /\ IF calibrated[job.drive] /\ job.drive \in motors.status
     THEN Command("transferring")
     ELSE pc' = "try" /\ UNCHANGED <<sick, fdc>>
  /\ UNCHANGED <<job, calibrated, density, motors, clock_side, done>>

\* All went well; the diskette is write protected; or it is tried again.  A bad sector
\* or cylinder makes the drive uncalibrated.
Transferred ==
  /\ Interrupted("transferring")
  /\ \/ Finish("OK") /\ UNCHANGED <<sick, calibrated>>
     \/ /\ calibrated' \in {calibrated, [calibrated EXCEPT ![job.drive] = FALSE]}
        /\ \/ Finish("EIO") /\ UNCHANGED sick
           \/ Sense /\ pc' = "try" /\ UNCHANGED <<motors, done>>
  /\ UNCHANGED <<job, density, clock_side>>

\* clock_mess(MOTOR_OFF, stop_motor) and the reply, for which FS waits.
SetStop ==
  /\ pc = "set_stop" /\ ~sends
  /\ watchdog' = "stop_motor" /\ pc' = "receive"
  /\ UNCHANGED <<job, drive_vars, motors, sends, fdc, done>>

\* The controller is done with a command or a reset.
FdcInterrupt ==
  /\ fdc = "works" /\ fdc' = "interrupt"
  /\ UNCHANGED <<pc, job, drive_vars, motors, clock_side, done>>
-----------------------------------------------------------------------------
FloppyNext ==
  \/ \E x \in Drives, block \in Asked : do_rdwt(x, block)
  \/ GiveUp \/ Try \/ Reset \/ Seek \/ SeekUncalibrated \/ Recalibrate \/ Recalibrated
  \/ Sought \/ Transfer \/ Transferred
  \/ SetStart \/ Spun \/ SetStop
  \/ stop_motor \/ send_mess \/ FdcInterrupt

FloppySpec == FloppyInit /\ [][FloppyNext]_floppy_vars
-----------------------------------------------------------------------------
\* The type invariant.
FloppyTypeOK ==
  /\ pc \in Awaits \cup {"receive", "try", "seek", "recalibrate", "transfer", "set_start",
                         "spinning", "set_stop"}
  /\ job.drive \in Drives /\ job.back \in {"seek", "recalibrate"}
  /\ motors \in [status : SUBSET Drives, goal : SUBSET Drives, prev : SUBSET Drives,
                 speed : [Drives -> {"off", "starting", "full"}]]
  /\ watchdog \in {"none", "send_mess", "stop_motor"} /\ sends \in BOOLEAN
  /\ fdc \in {"idle", "works", "interrupt"}

\* The driver waits for an interrupt exactly while the controller owes it one, and
\* for CLOCK exactly while CLOCK is to send to it: it never waits for ever, and no
\* message that is not a request meets it in receive(ANY), where it would panic.
\* While the controller has a command for a drive, the drive's motor runs at full
\* speed, though watchdogs of earlier requests go off at any time.
FloppyAgrees ==
  /\ FloppyTypeOK
  /\ (fdc # "idle") = (pc \in Awaits)
  /\ (pc = "spinning") = (watchdog = "send_mess" \/ sends)
  /\ sends => watchdog = "none"
  /\ pc \in Awaits \ {"resetting"} => motors.speed[job.drive] = "full"

\* "The drive is now on the proper cylinder.  Read or write 1 block.": when the driver
\* answers OK, position is that of the block on the diskette that was read or written.
BlockInPlace ==
  pc = "receive" /\ done = "OK" => job.position = Position(job.block, density[job.drive])
=============================================================================
