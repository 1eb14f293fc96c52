------------------------------- MODULE Printer -------------------------------
(***************************************************************************)
(* The printer (kernel/printer.c): its task, pr_char(), which is both the  *)
(* interrupt handler and a procedure that the task and CLOCK call, and the *)
(* printer itself, which acknowledges characters by interrupts.            *)
(* All state is one record:                                                *)
(*   busy, pcount, orig, proc   pr_busy, pcount, orig_count, proc_nr       *)
(*   offset the next character of the user's buffer                        *)
(*   task   "receive", "done": has a TTY_O_DONE message with `status', or  *)
(*          "revive": do_done() sends REVIVE and waits for FS to take it   *)
(*   int_mess  the status in the one message of all interrupts             *)
(*   late   the task did not wait for it: it is in busy_map and is passed  *)
(*          on at a later interrupt of any device                          *)
(*   clk    CLOCK in the restart of a printer that hangs                   *)
(*   moved  cum_count # prev_ct                                            *)
(*   hw     "idle", "busy" or "error"; irq: it asks for an interrupt       *)
(*   user   who runs and who is suspended until all is printed             *)
(*   paper  history: what was printed for the present request              *)
(* do_write() disables interrupts and never enables them again, so from    *)
(* then on the task is interrupted only while it is blocked; CLOCK is not  *)
(* protected.  FS waits for each answer, so no call of FS meets another.   *)
(***************************************************************************)
EXTENDS Integers, Sequences

CONSTANTS Writers,  \* the users that print
          MaxPrint  \* bounds the characters of a request

CANCELED == "canceled"

ASSUME PrinterAssumption == MaxPrint \in Nat \ {0} /\ CANCELED \notin Writers

VARIABLE prn

PrinterInit ==
  prn = [busy |-> FALSE, pcount |-> 0, orig |-> 0, proc |-> CANCELED, offset |-> 1,
         task |-> "receive", status |-> "OK", int_mess |-> "OK", late |-> FALSE,
         clk |-> "elsewhere", moved |-> FALSE, hw |-> "idle", irq |-> FALSE,
         user |-> [p \in Writers |-> "runs"], paper |-> <<>>]
-----------------------------------------------------------------------------
\* interrupt(PRINTER, &int_mess): the task gets the message if it waits for one.
interrupt(s, result) ==
  IF s.task = "receive"
  THEN [s EXCEPT !.task = "done", !.status = result, !.int_mess = result, !.late = FALSE]
  ELSE [s EXCEPT !.int_mess = result, !.late = TRUE]

\* "Count is 0 or an error occurred; send message to printer task."
Tell(s) == interrupt(s, IF s.pcount = 0 THEN "OK" ELSE "error")

\* k characters go out of the user's buffer, and the last keeps the printer busy.
Output(s, k) ==
  [s EXCEPT !.offset = @ + k, !.pcount = @ - k, !.moved = TRUE, !.hw = "busy",
            !.paper = @ \o [i \in 1 .. k |-> s.offset + i - 1]]

\* What pr_char() can lead to when nothing comes between its statements: a fast
\* printer is ready again before the loop looks, and asks for an interrupt.
pr_char(s) ==
  IF s.pcount > 0 /\ s.hw = "busy" THEN {s}
  ELSE IF s.pcount <= 0 \/ s.hw = "error" THEN {Tell(s)}
  ELSE UNION {LET o == [Output(s, k) EXCEPT !.irq = @ \/ k > 1]
              IN  IF o.pcount = 0 THEN {Tell(o)}
                  ELSE {o, Tell([o EXCEPT !.hw = "error"])} : k \in 1 .. s.pcount}
-----------------------------------------------------------------------------
(* The task.  It and FS run only when CLOCK does not. *)
PrinterWaits == prn.clk = "elsewhere" /\ prn.task = "receive"

\* do_write(), when the printer is ready; otherwise the call fails and changes
\* nothing.  The task does not wait while it starts to print.
pr_write(p, n) ==
  /\ PrinterWaits /\ prn.user[p] = "runs" /\ ~prn.busy /\ prn.hw = "idle"
  /\ \E s \in pr_char([prn EXCEPT !.busy = TRUE, !.pcount = n, !.orig = n, !.proc = p,
                                   !.offset = 1, !.paper = <<>>, !.task = "write"]) :
       prn' = [s EXCEPT !.task = "receive", !.user[p] = "prints"]

\* Mutant: the printer is idle before the caller is told.
do_done_Early ==
  /\ prn.clk = "elsewhere" /\ prn.task = "done"
  /\ prn' = IF prn.proc = CANCELED THEN [prn EXCEPT !.busy = FALSE, !.task = "receive"]
            ELSE [prn EXCEPT !.busy = FALSE, !.task = "revive"]

\* do_done(), up to its reply.
do_done ==
  /\ prn.clk = "elsewhere" /\ prn.task = "done"
  /\ prn' = IF prn.proc = CANCELED THEN [prn EXCEPT !.busy = FALSE, !.task = "receive"]
            ELSE [prn EXCEPT !.task = "revive"]

\* FS takes the REVIVE, and ignores it if the process does not hang; do_done() ends.
Revive ==
  /\ prn.clk = "elsewhere" /\ prn.task = "revive"
  /\ prn' = [prn EXCEPT !.busy = FALSE, !.task = "receive", !.user[prn.proc] = "runs"]

\* do_cancel(), for a process that hangs here.
pr_cancel(p) ==
  /\ PrinterWaits /\ prn.user[p] = "prints" /\ prn.busy
  /\ prn' = [prn EXCEPT !.busy = FALSE, !.pcount = 0, !.proc = CANCELED,
                        !.user[p] = "runs"]
-----------------------------------------------------------------------------
(* Interrupts, and the printer itself. *)

\* lpr_int: "spurious 8259A interrupt" if the printer is not in use.
PrinterInterrupt ==
  /\ prn.irq
  /\ LET s == [prn EXCEPT !.irq = FALSE]
     IN  prn' \in IF s.busy THEN pr_char(s) ELSE {s}

\* An interrupt of any device passes on the message that the task missed.
OtherInterrupt ==
  /\ prn.late /\ prn.task = "receive"
  /\ prn' = interrupt(prn, prn.int_mess)

\* The printer has printed a character.  Its interrupt may get lost, see Restart.
Acknowledge ==
  /\ prn.hw = "busy"
  /\ \E lost \in BOOLEAN : prn' = [prn EXCEPT !.hw = "idle", !.irq = @ \/ ~lost]

\* No paper, or not on line, and in order again.
Offline == prn.hw # "error" /\ prn' = [prn EXCEPT !.hw = "error"]
Online  == prn.hw = "error" /\ prn' = [prn EXCEPT !.hw = "idle"]
-----------------------------------------------------------------------------
(* "Check if printer is hung up, and if so, restart it": CLOCK, at the end *)
(* of each quantum, with interrupts enabled.                               *)

\* Mutant: CLOCK does not look after the printer.
Restart_Never == prn.clk = "elsewhere" /\ prn.moved /\ prn' = [prn EXCEPT !.moved = FALSE]

Restart ==
  /\ prn.clk = "elsewhere"
  /\ prn' = IF prn.busy /\ prn.pcount > 0 /\ ~prn.moved
            THEN [prn EXCEPT !.clk = "loop"] ELSE [prn EXCEPT !.moved = FALSE]

Ends(s) == [s EXCEPT !.clk = "elsewhere", !.moved = FALSE]

\* The loop of pr_char() in CLOCK: the printer's status is read, a character is
\* fetched and output, and then the counters are moved on.
RestartLoop ==
  /\ prn.clk = "loop"
  /\ prn' = CASE prn.pcount <= 0 \/ prn.hw = "error" -> Ends(Tell(prn))
              [] prn.pcount > 0 /\ prn.hw = "busy"   -> Ends(prn)
              [] OTHER                               -> [prn EXCEPT !.clk = "output"]

RestartOutput ==
  /\ prn.clk = "output"
  /\ prn' = [prn EXCEPT !.clk = "count", !.hw = "busy", !.paper = Append(@, prn.offset)]

RestartCount ==
  /\ prn.clk = "count"
  /\ prn' = [prn EXCEPT !.clk = "loop", !.offset = @ + 1, !.pcount = @ - 1]
-----------------------------------------------------------------------------
PrinterTask == do_done \/ Revive
ClockRestarts == Restart \/ RestartLoop \/ RestartOutput \/ RestartCount

PrinterNext ==
  \/ \E p \in Writers : pr_cancel(p) \/ \E n \in 1 .. MaxPrint : pr_write(p, n)
  \/ PrinterTask \/ ClockRestarts
  \/ PrinterInterrupt \/ OtherInterrupt \/ Acknowledge \/ Offline \/ Online

\* Tasks run in the order in which they are readied, so CLOCK does not keep the
\* printer's from running; FS takes messages, the clock ticks, the printer prints.
PrinterFairness ==
  /\ SF_prn(PrinterTask) /\ WF_prn(ClockRestarts) /\ WF_prn(OtherInterrupt)
  /\ WF_prn(PrinterInterrupt) /\ WF_prn(Acknowledge)

PrinterSpec == PrinterInit /\ [][PrinterNext]_prn /\ PrinterFairness
-----------------------------------------------------------------------------
\* Nobody waits for a printer that believes itself idle, or that works for another:
\* through cancelling, late messages, restarts and errors.
WriterServed ==
  \A p \in Writers : prn.user[p] = "prints" => prn.busy /\ prn.proc = p

\* Who prints is told some time, though interrupts are lost and the printer fails,
\* because CLOCK looks after it.  At most one prints, see WriterServed.
Printing == \E p \in Writers : prn.user[p] = "prints"
WriterRevived == Printing ~> ~Printing

\* "Printing is finished" when do_done() runs and the interrupt said OK: all of the
\* caller's characters are out, once and in their order.
PrintedWhenDone ==
  prn.task = "revive" /\ prn.status = "OK" /\ prn.user[prn.proc] = "prints"
    => prn.paper = [i \in 1 .. prn.orig |-> i]
=============================================================================
