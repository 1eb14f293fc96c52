----------------------------- MODULE PortContext -----------------------------
(***************************************************************************)
(* Context switches of the 65816 port: the prologues of _int_irq and       *)
(* _int_brk and _restart (port/kernel/context.s), create_task() and the    *)
(* frame accesses of brk_dispatch() (port/kernel/proc.c), byte by byte.    *)
(*                                                                         *)
(* A push of the 65816 stores at S and then decrements S, so S is the      *)
(* address below the byte pushed last.  Each dispatch runs with interrupts *)
(* off from the first push to the rti, and is one action.  Which process   *)
(* is picked is left open.  A byte is named for what it is: <<p, f, i>> is *)
(* what process p had in register byte f when it computed with its i-th    *)
(* set of values.                                                          *)
(***************************************************************************)
EXTENDS SequencesExt, Integers

CONSTANTS Tasks,     \* the tasks that are created
          Depth,     \* bound on what a task has on its stack when interrupted
          Values     \* the sets of register values a task computes with

\* The 13 bytes of a frame, from the lowest address.
Frame == <<"DB", "D0", "D1", "Y0", "Y1", "X0", "X1", "A0", "A1", "P", "PC0", "PC1", "PB">>
Field == ToSet(Frame)
Size  == Len(Frame)

\* The addresses of one stack, relative to stack_top - Depth - Size - CALL.
CALL == 3   \* _restart calls dbg_mark() on the process's own stack
Top  == Depth + Size + CALL
Addr == 0 .. Top

VARIABLES cur,    \* the running task
          regs,   \* its registers
          sp,     \* S
          mem,    \* the bytes of each task's stack
          p_sp,   \* proc[].p_sp
          was     \* history: the registers each task should go on with

vars == <<cur, regs, sp, mem, p_sp, was>>

Junk   == "junk"
Result == "result"
-----------------------------------------------------------------------------
Marks(p, i) == [f \in Field |-> <<p, f, i>>]

\* create_task(): a frame whose lowest byte is at stack_top - 13.
Entry(p) == [f \in Field |-> CASE f \in {"DB", "PB"} -> "bank 2"
                               [] f \in {"PC0", "PC1"} -> <<p, f, "entry">>
                               [] OTHER -> "zero"]
Created(p) == [a \in Addr |-> IF a \in Top - Size .. Top - 1
                              THEN Entry(p)[Frame[a - (Top - Size) + 1]] ELSE Junk]

\* The interrupt pushes PB, PC, P; the prologue A, X, Y, D, DB.
Pushed(m, s, r) ==
  [a \in Addr |-> IF a \in s - Size + 1 .. s THEN r[Frame[a - (s - Size)]] ELSE m[a]]

\* The pulls of _restart and rti, after dbg_mark()'s return address was
\* pushed at S and pulled again.
Called(m, s) == [a \in Addr |-> IF a \in s - CALL + 1 .. s THEN Junk ELSE m[a]]
Pulled(m, s) == [f \in Field |-> m[s + CHOOSE i \in 1 .. Size : Frame[i] = f]]

\* _restart: tcs, then the pulls.
Restart(q, ms, sps) ==
  LET m == Called(ms[q], sps[q])
  IN  /\ cur' = q
      /\ sp' = sps[q] + Size
      /\ mem' = [ms EXCEPT ![q] = m]
      /\ regs' = Pulled(m, sps[q])

\* The running task is interrupted with registers r; then q runs.  `edit' is what
\* the dispatcher changes in the saved frame, given its p_sp.
Switch(edit(_, _), r, q) ==
  LET s == sp - Size
  IN  /\ was' = [was EXCEPT ![cur] = r]
      /\ p_sp' = [p_sp EXCEPT ![cur] = s]
      /\ Restart(q, [mem EXCEPT ![cur] = edit(Pushed(@, sp, regs), s)], p_sp')
-----------------------------------------------------------------------------
\* kmain() has created the tasks and restarts the first one.
Init ==
  /\ p_sp = [p \in Tasks |-> Top - Size]
  /\ was = [p \in Tasks |-> Entry(p)]
  /\ cur \in Tasks
  /\ LET m == Called(Created(cur), Top - Size)
     IN  /\ mem = [p \in Tasks |-> IF p = cur THEN m ELSE Created(p)]
         /\ regs = Pulled(m, Top - Size)
  /\ sp = Top

\* The running task computes and moves its stack pointer.
Compute ==
  /\ \E i \in Values : regs' = Marks(cur, i)
  /\ sp' \in Top - Depth .. Top
  /\ UNCHANGED <<cur, mem, p_sp, was>>

int_irq(q) == Switch(LAMBDA m, s : m, regs, q)

\* brk_dispatch() puts its result where it takes the saved A to be.
int_brk(q) ==
  Switch(LAMBDA m, s : [m EXCEPT ![s + 7] = Result, ![s + 8] = Result],
         [regs EXCEPT !["A0"] = Result, !["A1"] = Result], q)

Next == Compute \/ \E q \in Tasks : int_irq(q) \/ int_brk(q)

Spec == Init /\ [][Next]_vars
-----------------------------------------------------------------------------
\* "points at saved DB, frame base" (context.s): the frame of a task that is not
\* running starts, with its data bank, at the address in p_sp, as create_task()
\* builds it and brk_dispatch() reads it.  The code violates this: after its
\* pushes S is one less than that.
FrameBase ==
  \A p \in Tasks \ {cur} : \A i \in 1 .. Size : mem[p][p_sp[p] + i - 1] = was[p][Frame[i]]
=============================================================================
