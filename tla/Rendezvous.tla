----------------------------- MODULE Rendezvous -----------------------------
(***************************************************************************)
(* What the kernel promises its processes about messages, without process  *)
(* table, queues or scheduler: a sender blocks until the destination takes *)
(* its message, a receiver blocks until somebody it accepts sends one, and *)
(* a sender and a receiver that wait for each other never coexist.         *)
(***************************************************************************)
CONSTANTS Proc,     \* the processes
          HW,       \* the source of interrupts and signals
          ANY,      \* a receiver that accepts every sender
          Nobody    \* not a process: stands for `not blocked'

VARIABLES sending,  \* the destination each process is blocked on, or Nobody
          wanting   \* the source each process is blocked on, ANY or Nobody

vars == <<sending, wanting>>

Init == /\ sending = [p \in Proc |-> Nobody]
        /\ wanting = [p \in Proc |-> Nobody]

\* c's message reaches d now, or c blocks; b is who blocks on whom.
AfterSend(b, c, d) ==
  IF b.from[d] \in {c, ANY} THEN [b EXCEPT !.from[d] = Nobody]
                            ELSE [b EXCEPT !.to[c] = d]

\* c takes the message of any blocked sender it accepts, or blocks.
AfterReceive(b, c, s) ==
  LET senders == {p \in Proc : b.to[p] = c /\ s \in {p, ANY}}
  IN  IF senders # {} THEN {[b EXCEPT !.to[p] = Nobody] : p \in senders}
                      ELSE {[b EXCEPT !.from[c] = s]}

Free(p) == sending[p] = Nobody /\ wanting[p] = Nobody
Now     == [to |-> sending, from |-> wanting]
Then(b) == sending' = b.to /\ wanting' = b.from

Send(c, d)    == Free(c) /\ Then(AfterSend(Now, c, d))
Receive(c, s) == Free(c) /\ \E b \in AfterReceive(Now, c, s) : Then(b)
SendRec(c, d) == Free(c) /\ \E b \in AfterReceive(AfterSend(Now, c, d), c, d) : Then(b)

\* Interrupts and signals: some processes that want a message from hardware,
\* HW, get one.
Hardware ==
  /\ \E S \in SUBSET {p \in Proc : wanting[p] \in {ANY, HW}} :
       wanting' = [p \in Proc |-> IF p \in S THEN Nobody ELSE wanting[p]]
  /\ UNCHANGED sending

Next == \/ \E c, d \in Proc \ {HW} : Send(c, d) \/ SendRec(c, d)
        \/ \E c \in Proc \ {HW}, s \in Proc \cup {ANY} : Receive(c, s)
        \/ Hardware

Spec == Init /\ [][Next]_vars
=============================================================================
