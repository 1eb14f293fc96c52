------------------------------- MODULE Screen -------------------------------
(***************************************************************************)
(* The console's screen (kernel/tty.c, out_char to escape): characters are *)
(* queued and copied to the video RAM, of which the 6845 shows a window    *)
(* that scrolls by moving its origin around the RAM.  Places are counted   *)
(* in words, not in bytes, and a character has no attribute.               *)
(*   ram      the video RAM                                                *)
(*   org, vid, queue, column, row, esc, echar                              *)
(*            tty_org, tty_vid, tty_ramqueue, tty_column, tty_row,         *)
(*            tty_esc_state, tty_echar                                     *)
(* vid is where the queue goes, and the cursor once it went there.  The    *)
(* task does one character at a time, whoever wrote or typed it.           *)
(***************************************************************************)
EXTENDS Integers, Sequences

CONSTANTS VID_WORDS,     \* the size of the video RAM, vid_mask + 1 bytes
          LINE_WIDTH,
          SCR_LINES,
          TAB_SIZE,
          TTY_RAM_WORDS, \* the size of the queue
          Printable,
          BLANK          \* what a blank is printed as, too

ASSUME ScreenAssumption ==
  /\ {VID_WORDS, LINE_WIDTH, SCR_LINES, TAB_SIZE, TTY_RAM_WORDS} \subseteq Nat \ {0}
  /\ LINE_WIDTH * SCR_LINES <= VID_WORDS /\ LINE_WIDTH % TAB_SIZE = 0
  /\ SCR_LINES > 1 /\ BLANK \in Printable

VARIABLE scr

Blanks(n) == [i \in 1 .. n |-> BLANK]

\* vid_copy(): the copy goes on at the base of the RAM after its end.
vid_copy(s, at, cs) ==
  [s EXCEPT !.ram = [i \in DOMAIN @ |-> LET k == (i - at) % VID_WORDS
                                        IN  IF k < Len(cs) THEN cs[k + 1] ELSE @[i]]]

flush(s) == [vid_copy(s, s.vid, s.queue) EXCEPT !.vid = @ + Len(s.queue), !.queue = <<>>]

Place(s, x, y) == s.org + (SCR_LINES - 1 - y) * LINE_WIDTH + x

\* move_to(): a place that is not on the screen is ignored.
move_to(s, x, y) ==
  IF x \in 0 .. LINE_WIDTH - 1 /\ y \in 0 .. SCR_LINES - 1
  THEN [flush(s) EXCEPT !.column = x, !.row = y, !.vid = Place(s, x, y)]
  ELSE flush(s)

\* Mutant: the line that comes into view is blanked as if the screen had not moved.
scroll_screen_Stale(s, lines) ==
  LET org == (s.org + lines * LINE_WIDTH) % VID_WORDS
  IN  vid_copy([s EXCEPT !.org = org],
               IF lines > 0 THEN s.org + (SCR_LINES - 1) * LINE_WIDTH ELSE s.org,
               Blanks(LINE_WIDTH))

\* scroll_screen(), GO_FORWARD for one line and GO_BACKWARD for minus one.
scroll_screen(s, lines) ==
  LET org == (s.org + lines * LINE_WIDTH) % VID_WORDS
  IN  vid_copy([s EXCEPT !.org = org],
               IF lines > 0 THEN org + (SCR_LINES - 1) * LINE_WIDTH ELSE org,
               Blanks(LINE_WIDTH))

PrintChar(s, c) ==
  IF s.column >= LINE_WIDTH THEN s
  ELSE LET f == IF Len(s.queue) = TTY_RAM_WORDS THEN flush(s) ELSE s
       IN  [f EXCEPT !.queue = Append(@, c), !.column = @ + 1]

LineFeed(s, crmod) ==
  LET r == IF crmod THEN move_to(s, 0, s.row) ELSE s
      f == IF r.row = 0 THEN scroll_screen(r, 1) ELSE [r EXCEPT !.row = @ - 1]
  IN  move_to(f, f.column, f.row)

\* Blanks up to the next stop, one at least.
Stop(x) == (x \div TAB_SIZE + 1) * TAB_SIZE
Tab(s)  ==
  LET f[n \in 0 .. TAB_SIZE] == IF n = 0 THEN s ELSE PrintChar(f[n - 1], BLANK)
  IN  f[Stop(s.column) - s.column]

\* ESC ~ 0.  The queue is empty, since ESC flushes it.
Clear(s) == vid_copy(s, s.vid, Blanks(LINE_WIDTH * (s.row + 1) - s.column))
-----------------------------------------------------------------------------
ScreenInit ==
  scr = [ram |-> [i \in 0 .. VID_WORDS - 1 |-> BLANK], org |-> 0,
         vid |-> (SCR_LINES - 1) * LINE_WIDTH, queue |-> <<>>, column |-> 0, row |-> 0,
         esc |-> 0, echar |-> "none"]

\* out_char(), for a character that is no part of an escape sequence.
out_char(c)  == scr.esc = 0 /\ scr' = PrintChar(scr, c)
line_feed    == scr.esc = 0 /\ \E crmod \in BOOLEAN : scr' = LineFeed(scr, crmod)
horizontal_tab == scr.esc = 0 /\ scr' = Tab(scr)
cursor_move  == /\ scr.esc = 0
                /\ scr' \in {move_to(scr, scr.column, scr.row + 1),
                             move_to(scr, scr.column + 1, scr.row),
                             move_to(scr, scr.column - 1, scr.row), move_to(scr, 0, scr.row)}
bell         == scr.esc = 0 /\ scr' = flush(scr)

\* out_char() and escape(), for the three characters of a sequence.
escape_first  == scr.esc = 0 /\ scr' = [flush(scr) EXCEPT !.esc = 1]
escape_second == /\ scr.esc = 1
                 /\ \E x \in {"~", "z", "column"} : scr' = [scr EXCEPT !.esc = 2, !.echar = x]
Escaped(what)  == scr.esc = 2 /\ scr.echar = what
NoEscape       == [scr EXCEPT !.esc = 0, !.echar = "none"]
escape_attribute == Escaped("z") /\ scr' = NoEscape
escape_clear     == Escaped("~") /\ scr' = Clear(NoEscape)
escape_reverse   == Escaped("~") /\ scr' = scroll_screen(NoEscape, -1)
escape_move      == /\ Escaped("column")
                    /\ \E x \in 0 .. LINE_WIDTH, y \in 0 .. SCR_LINES :
                         scr' = move_to(NoEscape, x, y)

ScreenNext ==
  \/ \E c \in Printable : out_char(c)
  \/ line_feed \/ horizontal_tab \/ cursor_move \/ bell
  \/ escape_first \/ escape_second
  \/ escape_attribute \/ escape_clear \/ escape_reverse \/ escape_move

ScreenSpec == ScreenInit /\ [][ScreenNext]_scr
-----------------------------------------------------------------------------
\* What is seen once the queue is out: line y, counted as tty_row is, column x.
Shown(s) == [y \in 0 .. SCR_LINES - 1 |-> [x \in 0 .. LINE_WIDTH - 1 |->
               flush(s).ram[Place(s, x, y) % VID_WORDS]]]

\* The next character does not go where row and column say.  A reverse scroll takes
\* the cursor's line along, though tty_row stays, and a line feed without CRMOD from
\* beyond the end of a line counts tty_row down, but move_to() refuses to move.  Every
\* move_to() that is not refused ends it.
Adrift(s) == (s.vid + Len(s.queue) - Place(s, s.column, s.row)) % VID_WORDS # 0

Blank == [x \in 0 .. LINE_WIDTH - 1 |-> BLANK]
Up(d)   == [y \in DOMAIN d |-> IF y = 0 THEN Blank ELSE d[y - 1]]
Down(d) == [y \in DOMAIN d |-> IF y = SCR_LINES - 1 THEN Blank ELSE d[y + 1]]
Put(d, c) == IF scr.column = LINE_WIDTH THEN d ELSE [d EXCEPT ![scr.row][scr.column] = c]
After(d) == [y \in DOMAIN d |-> [x \in DOMAIN d[y] |->
               IF y < scr.row \/ (y = scr.row /\ x >= scr.column) THEN BLANK ELSE d[y][x]]]
TabPut(d) == [d EXCEPT ![scr.row] = [x \in DOMAIN @ |->
                IF x >= scr.column /\ x < Stop(scr.column) THEN BLANK ELSE @[x]]]

\* Whatever is queued, wherever the window is in the RAM and however its lines wrap at
\* the RAM's end, the screen is that of a terminal: a character appears at the cursor
\* and nowhere else, a line feed on the bottom line moves all lines up, ESC ~ 1 moves
\* them down, ESC ~ 0 blanks what is after the cursor, and nothing else changes what is
\* seen.  Only the two ways of Adrift make the cursor lose its place.
ScreenAsTold ==
  [][~Adrift(scr) =>
       LET d == Shown(scr) IN
       /\ \A c \in Printable : out_char(c) => Shown(scr)' = Put(d, c)
       /\ horizontal_tab => Shown(scr)' = TabPut(d)
       /\ line_feed      => Shown(scr)' = IF scr.row = 0 THEN Up(d) ELSE d
       /\ escape_reverse => Shown(scr)' = Down(d)
       /\ escape_clear   => Shown(scr)' = After(d)
       /\ cursor_move \/ bell \/ escape_first \/ escape_move => Shown(scr)' = d
       /\ Adrift(scr)'   => escape_reverse \/ (line_feed /\ scr.column = LINE_WIDTH)]_scr
=============================================================================
