--------------------------------- MODULE Tty ---------------------------------
(***************************************************************************)
(* The terminal task (kernel/tty.c): typed characters, the input queue and *)
(* its line editing, readers that hang, and output that CTRL-S stops.      *)
(* What characters look like on the screen is in Screen.                   *)
(*                                                                         *)
(* The task does one message at a time and its procedures are operators    *)
(* from one state `t' to the next.  A keyboard interrupt touches only      *)
(* tty_driver_buf, which do_charint() copies with interrupts off, and      *)
(* tty_inhibited, which console() looks at before each character: so each  *)
(* typed character and each character printed is a step.                   *)
(*   inq        tty_inqueue from tty_intail on; its length is tty_incount  *)
(*   lfct, escaped, mode, inhibited, inleft   as tty_...                   *)
(*   reader     tty_inproc                                                 *)
(*   outleft    tty_outleft; waiting  tty_waiting                          *)
(*   copied     what do_charint() still has in tty_copy_buf                *)
(*   console    who called console(), if it runs                           *)
(*   user[p]    "runs", "reads": suspended in FS, or "writes": FS, which   *)
(*              does nothing else, waits for the answer                    *)
(*   lost       has the queue lost track of its lines, see below           *)
(* FS's messages and REVIVE are taken at once; that both may be under way, *)
(* the one to the other, is left out.                                      *)
(***************************************************************************)
EXTENDS SequencesExt, Integers

CONSTANTS TTY_IN_BYTES, \* the size of the input queue
          MAX_OVERRUN,  \* the size of the driver's buffer
          Users,        \* who reads and writes the terminal
          NoUser,
          Modes,        \* the modes that IOCTL sets
          MaxCount,     \* bounds the counts of reads and writes
          MaxLines      \* bounds tty_lfct, see Keyboard

ASSUME TtyAssumption == /\ TTY_IN_BYTES \in Nat \ {0} /\ MAX_OVERRUN \in Nat \ {0}
                        /\ NoUser \notin Users /\ MaxCount \in Nat /\ MaxLines \in Nat
                        /\ Modes \subseteq {"COOKED", "CBREAK", "RAW"} /\ "COOKED" \in Modes

VARIABLES tty,
          driver_buf \* tty_driver_buf

tty_vars == <<tty, driver_buf>>

\* What is typed, by what in_char() does with it, and what it stores.
Key    == {"x", "nl", "esc", "erase", "kill", "eof", "intr", "xoff", "xon"}
Stored == {"x", "nl", "MARKER"}

LineEnds(q) == {i \in DOMAIN q : q[i] \in {"nl", "MARKER"}}
Cooked(t)   == t.mode = "COOKED"
-----------------------------------------------------------------------------
(* Answers and reads. *)

\* Mutant: the count of characters still needed stays.
rd_chars_Left(t) ==
  LET got  == Min({t.inleft, Len(t.inq)})
      ends == {i \in LineEnds(t.inq) : i <= got}
      ct   == IF Cooked(t) /\ ends # {} THEN Min(ends) ELSE got
      left == IF Cooked(t) /\ ends # {} THEN 1 ELSE Cardinality(ends)
  IN  [t EXCEPT !.inq = SubSeq(@, ct + 1, Len(@)), !.lfct = @ - left]

\* rd_chars(), when it has something to give: at most one line if COOKED, and one
\* passage of the loop, since a read of more than tty_buf has emptied the queue.
rd_chars(t) ==
  LET got  == Min({t.inleft, Len(t.inq)})
      ends == {i \in LineEnds(t.inq) : i <= got}
      ct   == IF Cooked(t) /\ ends # {} THEN Min(ends) ELSE got
      left == IF Cooked(t) /\ ends # {} THEN 1 ELSE Cardinality(ends)
  IN  [t EXCEPT !.inq = SubSeq(@, ct + 1, Len(@)), !.lfct = @ - left, !.inleft = 0]

\* rd_chars() returns SUSPEND.
Nothing(t) == t.inq = <<>> \/ (Cooked(t) /\ t.lfct = 0)

\* do_charint(): "see if a previously blocked reader can now be satisfied".  REVIVE
\* is sent even if rd_chars() returns SUSPEND.
Served(t) ==
  IF t.inleft > 0 /\ (t.lfct > 0 \/ (~Cooked(t) /\ t.inq # <<>>))
  THEN [(IF Nothing(t) THEN t ELSE rd_chars(t)) EXCEPT !.user[t.reader] = "runs"]
  ELSE t

\* finish(): the writer for whom FS waits gets its answer.
finish(t) ==
  [t EXCEPT !.outleft = 0, !.waiting = NoUser,
            !.user = [p \in Users |-> IF p = t.waiting THEN "runs" ELSE @[p]]]

\* sigchar(): all input is discarded; what the signal does is up to MM.  A task that
\* waits for characters nobody reads, see AnswersAgree, goes on waiting.
sigchar(t) ==
  [finish(t) EXCEPT !.inhibited = FALSE, !.inq = <<>>, !.lfct = 0, !.lost = @ /\ t.inleft > 0]
-----------------------------------------------------------------------------
(* Characters. *)

\* One character more in the ring.  If there is no place it goes where the oldest
\* is, which tty_incount now counts twice.
Store(t, c) ==
  IF Len(t.inq) < TTY_IN_BYTES THEN [t EXCEPT !.inq = Append(@, c)]
  ELSE [t EXCEPT !.inq = [Append(@, c) EXCEPT ![1] = c], !.lost = TRUE]

\* chuck() as long as it can, at most n times: it stops at a line feed, but takes
\* a MARKER away without counting tty_lfct down.
chuck(t, n) ==
  LET nl   == SelectLastInSeq(t.inq, LAMBDA c : c = "nl")
      keep == Max({nl, Len(t.inq) - n})
  IN  [t EXCEPT !.inq = SubSeq(@, 1, keep),
                !.lost = @ \/ \E i \in keep + 1 .. Len(t.inq) : t.inq[i] = "MARKER"]

\* Mutant: an end of file is not counted.
Kept_LinesOnly(t, c) ==
  [Store(t, c) EXCEPT !.lfct = IF c = "nl" THEN @ + 1 ELSE @]

\* The end of in_char(), for all modes.
Kept(t, c) ==
  [Store(t, c) EXCEPT !.lfct = IF c \in {"nl", "MARKER"} THEN @ + 1 ELSE @]

\* The character that in_char() keeps for key k, the escape before it included.
Plain(t, k) ==
  IF Cooked(t) /\ t.escaped
  THEN Kept(IF k \in {"erase", "kill", "eof"} THEN t ELSE Store(t, "x"),
            IF k = "nl" THEN "nl" ELSE "x")
  ELSE Kept(t, IF k = "nl" THEN "nl" ELSE IF Cooked(t) /\ k = "eof" THEN "MARKER" ELSE "x")

\* Mutant: CTRL-Q does not start the output that waits.
in_char_Idle(t, k) ==
  LET editing == Cooked(t) /\ ~t.escaped
      done    == [t EXCEPT !.escaped = IF Cooked(t) THEN FALSE ELSE @]
      shown   == IF Cooked(t) /\ t.escaped THEN Store(done, "x") ELSE done
  IN  IF Len(t.inq) >= TTY_IN_BYTES THEN t
      ELSE CASE editing /\ k = "erase"            -> chuck(t, 1)
             [] editing /\ k = "kill"             -> chuck(t, TTY_IN_BYTES + 1)
             [] editing /\ k = "esc"              -> [t EXCEPT !.escaped = TRUE]
             [] t.mode # "RAW" /\ k = "intr"      -> sigchar(shown)
             [] t.mode # "RAW" /\ k = "xoff"      -> [shown EXCEPT !.inhibited = TRUE]
             [] t.mode # "RAW" /\ k = "xon"       -> [shown EXCEPT !.inhibited = FALSE]
             [] OTHER -> [Plain(t, k) EXCEPT !.escaped = done.escaped]

\* in_char().  "no room, discard char" comes before all else, and the backslash that
\* came before a control character is stored whatever that one does.
in_char(t, k) ==
  LET editing == Cooked(t) /\ ~t.escaped
      done    == [t EXCEPT !.escaped = IF Cooked(t) THEN FALSE ELSE @]
      shown   == IF Cooked(t) /\ t.escaped THEN Store(done, "x") ELSE done
  IN  IF Len(t.inq) >= TTY_IN_BYTES THEN t
      ELSE CASE editing /\ k = "erase"            -> chuck(t, 1)
             [] editing /\ k = "kill"             -> chuck(t, TTY_IN_BYTES + 1)
             [] editing /\ k = "esc"              -> [t EXCEPT !.escaped = TRUE]
             [] t.mode # "RAW" /\ k = "intr"      -> sigchar(shown)
             [] t.mode # "RAW" /\ k = "xoff"      -> [shown EXCEPT !.inhibited = TRUE]
             [] t.mode # "RAW" /\ k = "xon"       -> [shown EXCEPT !.inhibited = FALSE,
                                                                   !.console = "XON"]
             [] OTHER -> [Plain(t, k) EXCEPT !.escaped = done.escaped]
-----------------------------------------------------------------------------
TtyInit ==
  /\ tty = [inq |-> <<>>, lfct |-> 0, escaped |-> FALSE, mode |-> "COOKED",
            inhibited |-> FALSE, inleft |-> 0, reader |-> NoUser, outleft |-> 0,
            waiting |-> NoUser, copied |-> <<>>, console |-> "no",
            user |-> [p \in Users |-> "runs"], lost |-> FALSE]
  /\ driver_buf = <<>>

\* keyboard(): CTRL-S works at once, other characters wait for the task, or are
\* discarded if the buffer is full.
Keyboard(k) ==
  /\ k \in {"eof", "nl"} => tty.lfct + Len(tty.copied) + Len(driver_buf) < MaxLines
  /\ k = "esc" => tty.lfct >= 0 \* negative once the ring overran
  /\ IF k = "xoff" /\ tty.mode # "RAW"
     THEN tty' = [tty EXCEPT !.inhibited = TRUE] /\ UNCHANGED driver_buf
     ELSE /\ Len(driver_buf) < MAX_OVERRUN
          /\ driver_buf' = Append(driver_buf, k)
          /\ UNCHANGED tty

Receives == tty.console = "no" /\ tty.copied = <<>>
FSCalls(p) == Receives /\ \A q \in Users : tty.user[q] # "writes" /\ tty.user[p] = "runs"

do_charint ==
  /\ Receives /\ driver_buf # <<>>
  /\ tty' = [tty EXCEPT !.copied = driver_buf]
  /\ driver_buf' = <<>>

\* The loop of do_charint(), once; after CTRL-Q console() comes first.
CharIn ==
  /\ tty.console = "no" /\ tty.copied # <<>>
  /\ LET t == in_char([tty EXCEPT !.copied = Tail(@)], Head(tty.copied))
     IN  tty' = IF t.console = "XON" THEN t ELSE Served(t)
  /\ UNCHANGED driver_buf

\* The loop of console(), once, and its end.
Console ==
  /\ tty.console # "no"
  /\ LET done == [tty EXCEPT !.console = "no"]
         t    == IF tty.outleft = 0 THEN finish(done) ELSE done
     IN  tty' = IF tty.outleft > 0 /\ ~tty.inhibited THEN [tty EXCEPT !.outleft = @ - 1]
                ELSE IF tty.console = "XON" THEN Served(t) ELSE t
  /\ UNCHANGED driver_buf

\* do_read(): E_TRY_AGAIN if somebody hangs already.
do_read(p, n) ==
  /\ FSCalls(p) /\ tty.inleft = 0
  /\ LET t == [tty EXCEPT !.reader = p, !.inleft = n]
     IN  tty' = IF Nothing(t) THEN [t EXCEPT !.user[p] = "reads"] ELSE rd_chars(t)
  /\ UNCHANGED driver_buf

do_write(p, n) ==
  /\ FSCalls(p)
  /\ tty' = [tty EXCEPT !.outleft = n, !.waiting = p, !.user[p] = "writes",
                        !.console = "WRITE"]
  /\ UNCHANGED driver_buf

do_ioctl(p, mode) ==
  /\ FSCalls(p) /\ mode # tty.mode
  /\ tty' = [tty EXCEPT !.mode = mode]
  /\ UNCHANGED driver_buf

\* do_cancel() for a process that FS has suspended.  If it does not hang here any
\* more there is no reply, but then FS has had REVIVE.
do_cancel(p) ==
  /\ Receives /\ tty.user[p] = "reads" /\ \A q \in Users : tty.user[q] # "writes"
  /\ tty.inleft > 0
  /\ tty' = [tty EXCEPT !.inq = <<>>, !.lfct = 0, !.inleft = 0, !.outleft = 0,
                        !.waiting = NoUser, !.inhibited = FALSE, !.user[p] = "runs",
                        !.lost = FALSE]
  /\ UNCHANGED driver_buf

TtyTask == do_charint \/ CharIn \/ Console
TtyNext ==
  \/ \E k \in Key : Keyboard(k)
  \/ TtyTask
  \/ \E p \in Users : \/ \E n \in 1 .. MaxCount : do_read(p, n) \/ do_write(p, n)
                      \/ \E mode \in Modes : do_ioctl(p, mode)
                      \/ do_cancel(p)

\* A task that can run does.  Nobody owes a key.
TtyFairness == WF_tty_vars(TtyTask)
TtySpec == TtyInit /\ [][TtyNext]_tty_vars /\ TtyFairness
-----------------------------------------------------------------------------
\* The type invariant.
TtyTypeOK ==
  /\ tty \in [inq : Seq(Stored), lfct : Int, escaped : BOOLEAN, mode : Modes,
              inhibited : BOOLEAN, inleft : 0 .. MaxCount, reader : Users \cup {NoUser},
              outleft : 0 .. MaxCount, waiting : Users \cup {NoUser}, copied : Seq(Key),
              console : {"no", "XON", "WRITE"},
              user : [Users -> {"runs", "reads", "writes"}], lost : BOOLEAN]
  /\ Len(tty.inq) <= TTY_IN_BYTES + 1
  /\ driver_buf \in Seq(Key) /\ Len(driver_buf) <= MAX_OVERRUN

\* The task and FS agree on who hangs: the one who reads is the one for whom
\* characters are still needed, so that nobody's memory gets them later, and FS waits
\* for the one whose write is not done.  This is lost when do_charint() sends REVIVE
\* for a line that is not there, see LineCountExact.
AnswersAgree ==
  /\ TtyTypeOK
  /\ ~tty.lost =>
       /\ {p \in Users : tty.user[p] = "writes"} = {tty.waiting} \ {NoUser}
       /\ {p \in Users : tty.user[p] = "reads"} = IF tty.inleft > 0 THEN {tty.reader} ELSE {}

\* "A full line has been typed" and the reader gets it: nobody hangs in COOKED mode
\* while a line or an end of file is in the queue, whatever was erased, and whatever
\* other mode the terminal was in meanwhile, unless the ring overran.
NoLineWithheld ==
  Receives /\ driver_buf = <<>> /\ Cooked(tty) /\ tty.inleft > 0 /\ ~tty.lost
    => LineEnds(tty.inq) = {}

\* If CTRL-S is not typed any more and CTRL-Q is, again and again, then output that
\* was stopped goes on and FS, which waits for it, can serve others: unless so much
\* was typed ahead that the queue is full, and CTRL-Q is discarded with the rest.
FSWaits == \E p \in Users : tty.user[p] = "writes"
OutputResumes ==
  <>[][~Keyboard("xoff")]_tty_vars /\ []<><<Keyboard("xon")>>_tty_vars =>
    FSWaits ~> (~FSWaits \/ Len(tty.inq) >= TTY_IN_BYTES)

\* "# line feeds in tty_inqueue" (struct tty_struct): tty_lfct says how many lines
\* and ends of file can be read.  chuck() breaks that.
LineCountExact == tty.lfct = Cardinality(LineEnds(tty.inq))
=============================================================================
