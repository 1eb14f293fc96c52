---------------------------- MODULE ClockProofs ----------------------------
(***************************************************************************)
(* What holds of the clock task (Clock) for every number of tasks, users   *)
(* and calls, and however interrupts fall between its statements.          *)
(*                                                                         *)
(* That a tick is counted once hangs on CLOCK telling a tick from a call:  *)
(* the message it has got must name HARDWARE if, and only if, it comes     *)
(* from the interrupt.  But a sender that waits on a caller queue has one  *)
(* buffer for its message and for the answer (SENDREC), and inform()       *)
(* composes its own messages in SYSTASK's.  So the inductive invariant     *)
(* adds to the one of the kernel (ProcProofs) that nobody queued on CLOCK  *)
(* has had its buffer filled by the hardware.                              *)
(***************************************************************************)
EXTENDS Clock, ProcProofs

Sending(k, p)   == "SENDING" \in k.flags[p]
Receiving(k, p) == "RECEIVING" \in k.flags[p]

\* HARDWARE's own slot is its own; who sends and receives at once waits for the
\* answer of somebody; and nobody's request to CLOCK is taken for an interrupt.
Marks(k) ==
  /\ k.mess[HARDWARE] = HARDWARE
  /\ \A p \in Proc : Sending(k, p) /\ Receiving(k, p) => k.getfrom[p] \notin {ANY, HARDWARE}
  /\ \A w \in Proc : w \in QueuedOn(k, CLOCK) => w # SYSTASK /\ k.mess[w] # HARDWARE
  /\ Sending(k, CLOCK) => k.mess[CLOCK] # HARDWARE

\* mini_send() of a message that is not the hardware's, or to a process that waits
\* for the hardware.
LEMMA SendMarks ==
  ASSUME NEW k, KInv(k), Marks(k), NEW c \in Proc, NEW d \in Proc \ {HARDWARE}, c # d,
         k.flags[c] = {}, c = HARDWARE => Waiting(k, c, d),
         c # HARDWARE => k.mess[c] # HARDWARE, c = SYSTASK => d # CLOCK
  PROVE  Marks(MiniSend(k, c, d))
<1> DEFINE r == MiniSend(k, c, d)
<1>1. /\ Inv(k) /\ k.flags \in [Proc -> SUBSET Flag] /\ k.mess \in [Proc -> Proc]
      /\ \A p \in Proc : p \in QueuedOn(k, CLOCK) => Sending(k, p)
  BY Numbering DEF KInv, Inv, Kernel, Queued, QueuedOn, Sending
<1>2. /\ r.getfrom = k.getfrom
      /\ r.flags = IF Waiting(k, c, d) THEN [k.flags EXCEPT ![d] = @ \ {"RECEIVING"}]
                                       ELSE [k.flags EXCEPT ![c] = @ \cup {"SENDING"}]
      /\ \A e, p \in Proc : p \in QueuedOn(r, e) <=>
           p \in QueuedOn(k, e) \/ (~Waiting(k, c, d) /\ p = c /\ e = d)
  BY <1>1, MiniSendFacts
<1>3. r.mess = IF Waiting(k, c, d) THEN [k.mess EXCEPT ![d] = k.mess[c]] ELSE k.mess
  BY <1>1, SendMess
<1> HIDE DEF r
<1>4. CLOCK \in Proc /\ HARDWARE \in Proc
  BY Numbering
<1>5. CASE Waiting(k, c, d)
  <2>1. Sending(k, d) => k.mess[c] # HARDWARE
    BY <1>5 DEF Marks, Waiting, Receiving
  <2>2. r.mess[HARDWARE] = HARDWARE
    BY <1>1, <1>3, <1>4, <1>5 DEF Marks
  <2>3. \A p \in Proc : /\ Sending(r, p) <=> Sending(k, p)
                        /\ Receiving(r, p) => Receiving(k, p)
                        /\ r.mess[p] = IF p = d THEN k.mess[c] ELSE k.mess[p]
    BY <1>1, <1>2, <1>3, <1>5 DEF Sending, Receiving
  <2>4. \A p \in Proc : Sending(r, p) /\ Receiving(r, p) => r.getfrom[p] \notin {ANY, HARDWARE}
    BY <1>2, <2>3 DEF Marks
  <2>5. \A w \in Proc : w \in QueuedOn(r, CLOCK) => w # SYSTASK /\ r.mess[w] # HARDWARE
    <3> SUFFICES ASSUME NEW w \in Proc, w \in QueuedOn(r, CLOCK)
                 PROVE  w # SYSTASK /\ r.mess[w] # HARDWARE
      OBVIOUS
    <3>1. w \in QueuedOn(k, CLOCK)
      BY <1>2, <1>4, <1>5
    <3>2. Sending(k, w) /\ w # SYSTASK /\ k.mess[w] # HARDWARE
      BY <1>1, <3>1 DEF Marks
    <3> QED BY <2>1, <2>3, <3>2
  <2>6. Sending(r, CLOCK) => r.mess[CLOCK] # HARDWARE
    BY <1>4, <2>1, <2>3 DEF Marks
  <2> QED BY <2>2, <2>4, <2>5, <2>6 DEF Marks, r
<1>6. CASE ~Waiting(k, c, d)
  <2>1. \A p \in Proc : /\ Sending(r, p) <=> Sending(k, p) \/ p = c
                        /\ Receiving(r, p) <=> Receiving(k, p)
    BY <1>1, <1>2, <1>6 DEF Sending, Receiving
  <2>2. r.mess = k.mess /\ ~Receiving(k, c)
    BY <1>3, <1>6 DEF Receiving
  <2>3. \A p \in Proc : Sending(r, p) /\ Receiving(r, p) => r.getfrom[p] \notin {ANY, HARDWARE}
    BY <1>2, <2>1, <2>2 DEF Marks
  <2>4. c # HARDWARE
    BY <1>6
  <2>5. \A w \in Proc : w \in QueuedOn(r, CLOCK) => w # SYSTASK /\ r.mess[w] # HARDWARE
    <3> SUFFICES ASSUME NEW w \in Proc, w \in QueuedOn(r, CLOCK)
                 PROVE  w # SYSTASK /\ k.mess[w] # HARDWARE
      BY <2>2
    <3>1. w \in QueuedOn(k, CLOCK) \/ (w = c /\ CLOCK = d)
      BY <1>2, <1>4
    <3> QED BY <2>4, <3>1 DEF Marks
  <2>6. Sending(r, CLOCK) => r.mess[CLOCK] # HARDWARE
    BY <1>4, <2>1, <2>2, <2>4 DEF Marks
  <2>7. r.mess[HARDWARE] = HARDWARE
    BY <2>2 DEF Marks
  <2> QED BY <2>3, <2>5, <2>6, <2>7 DEF Marks, r
<1> QED BY <1>5, <1>6

\* mini_rec() by a caller who is not queued, unless it waits for a process in particular.
LEMMA RecMarks ==
  ASSUME NEW k, KInv(k), Marks(k), NEW c \in Proc \ {HARDWARE}, NEW s \in Source,
         ~Receiving(k, c), Sending(k, c) => s \notin {ANY, HARDWARE},
         c \in QueuedOn(k, CLOCK) => s = CLOCK
  PROVE  Marks(MiniRec(k, c, s))
<1> DEFINE r == MiniRec(k, c, s)
<1>1. /\ Inv(k) /\ k.flags \in [Proc -> SUBSET Flag] /\ k.mess \in [Proc -> Proc]
      /\ k.getfrom \in [Proc -> Source]
      /\ \A e, p \in Proc : p \in QueuedOn(k, e) => Sending(k, p)
  BY DEF KInv, Inv, Kernel, Queued, QueuedOn, Sending
<1>2. {CLOCK, HARDWARE, SYSTASK, MM} \subseteq Proc /\ ANY \notin Proc
  BY Numbering
<1>3. CASE Found(k, c, s) # {}
  <2>1. r.getfrom = k.getfrom /\ \E w \in Proc :
          /\ w \in QueuedOn(k, c) /\ s \in {ANY, w}
          /\ r.flags = [k.flags EXCEPT ![w] = @ \ {"SENDING"}]
          /\ \A e, p \in Proc : p \in QueuedOn(r, e) <=>
               p \in QueuedOn(k, e) /\ ~(p = w /\ e = c)
    BY <1>3, MiniRecFound DEF Receiving
  <2>2. PICK w \in Proc : /\ r.flags = [k.flags EXCEPT ![w] = @ \ {"SENDING"}]
                          /\ \A e, p \in Proc : p \in QueuedOn(r, e) => p \in QueuedOn(k, e)
    BY <2>1
  <2>3. PICK v \in Proc : /\ v \in QueuedOn(k, c) /\ s \in {ANY, v}
                          /\ r.mess = [k.mess EXCEPT ![c] = k.mess[v]]
    BY <1>3, FoundMess
  <2> HIDE DEF r
  <2>4. \A p \in Proc : /\ Sending(r, p) => Sending(k, p)
                        /\ Receiving(r, p) <=> Receiving(k, p)
                        /\ r.mess[p] = IF p = c THEN k.mess[v] ELSE k.mess[p]
    BY <1>1, <2>2, <2>3 DEF Sending, Receiving
  <2>5. \A p \in Proc : Sending(r, p) /\ Receiving(r, p) => r.getfrom[p] \notin {ANY, HARDWARE}
    BY <2>1, <2>4 DEF Marks
  <2>6. \A p \in Proc : p \in QueuedOn(r, CLOCK) => p # SYSTASK /\ r.mess[p] # HARDWARE
    <3> SUFFICES ASSUME NEW p \in Proc, p \in QueuedOn(r, CLOCK)
                 PROVE  p # SYSTASK /\ r.mess[p] # HARDWARE
      OBVIOUS
    <3>1. p \in QueuedOn(k, CLOCK)
      BY <1>2, <2>2
    <3>2. p # SYSTASK /\ k.mess[p] # HARDWARE
      BY <3>1 DEF Marks
    <3>3. CASE p = c
      <4>1. v = CLOCK
        BY <1>2, <2>3, <3>1, <3>3
      <4>2. Sending(k, CLOCK)
        BY <1>1, <1>2, <2>3, <4>1
      <4> QED BY <2>4, <3>2, <3>3, <4>1, <4>2 DEF Marks
    <3> QED BY <2>4, <3>2, <3>3
  <2>7. Sending(r, CLOCK) => r.mess[CLOCK] # HARDWARE
    BY <1>2, <2>3, <2>4 DEF Marks
  <2>8. r.mess[HARDWARE] = HARDWARE
    BY <1>2, <2>4 DEF Marks
  <2> QED BY <2>5, <2>6, <2>7, <2>8 DEF Marks, r
<1>4. CASE Found(k, c, s) = {}
  <2>1. /\ r.getfrom = [k.getfrom EXCEPT ![c] = s]
        /\ \/ r.flags = [k.flags EXCEPT ![c] = @ \cup {"RECEIVING"}]
           \/ c = MM /\ s = ANY /\ r.flags = k.flags
        /\ \A e, p \in Proc : p \in QueuedOn(r, e) <=> p \in QueuedOn(k, e)
    BY <1>4, MiniRecBlocked DEF Receiving
  <2>2. \/ r.mess = k.mess
        \/ c = MM /\ s = ANY /\ r.mess = [k.mess EXCEPT ![MM] = k.mess[HARDWARE], ![SYSTASK] = HARDWARE]
    BY <1>4, BlockedMess DEF Receiving
  <2> HIDE DEF r
  <2>3. \A p \in Proc : /\ Sending(r, p) <=> Sending(k, p)
                        /\ Receiving(r, p) => Receiving(k, p) \/ p = c
                        /\ r.getfrom[p] = IF p = c THEN s ELSE k.getfrom[p]
    BY <1>1, <2>1 DEF Sending, Receiving
  <2>4. \A p \in Proc : \/ r.mess[p] = k.mess[p]
                        \/ c = MM /\ s = ANY /\ p \in {MM, SYSTASK}
    BY <1>1, <2>2
  <2>5. \A p \in Proc : Sending(r, p) /\ Receiving(r, p) => r.getfrom[p] \notin {ANY, HARDWARE}
    BY <2>3 DEF Marks
  <2>6. \A p \in Proc : p \in QueuedOn(r, CLOCK) => p # SYSTASK /\ r.mess[p] # HARDWARE
    <3> SUFFICES ASSUME NEW p \in Proc, p \in QueuedOn(r, CLOCK)
                 PROVE  p # SYSTASK /\ r.mess[p] # HARDWARE
      OBVIOUS
    <3>1. p \in QueuedOn(k, CLOCK)
      BY <1>2, <2>1
    <3>2. p # SYSTASK /\ k.mess[p] # HARDWARE
      BY <3>1 DEF Marks
    <3> QED BY <1>2, <2>4, <3>1, <3>2
  <2>7. Sending(r, CLOCK) => r.mess[CLOCK] # HARDWARE
    BY <1>2, <2>3, <2>4 DEF Marks, CLOCK, MM, SYSTASK
  <2>8. r.mess[HARDWARE] = HARDWARE
    BY <1>2, <2>4 DEF Marks, HARDWARE, MM, SYSTASK
  <2> QED BY <2>5, <2>6, <2>7, <2>8 DEF Marks, r
<1> QED BY <1>3, <1>4

\* cause_sig() may fill the buffers of MM and SYSTASK.
LEMMA SignalMarks ==
  ASSUME NEW k, KInv(k), Marks(k), NEW p \in Slot
  PROVE  LET r == CauseSig(k, p)
         IN  /\ KInv(r) /\ Marks(r) /\ r.mess[CLOCK] = k.mess[CLOCK]
             /\ Sending(r, CLOCK) <=> Sending(k, CLOCK)
             /\ Receiving(r, CLOCK) <=> Receiving(k, CLOCK)
<1> DEFINE r == CauseSig(k, p)
<1>1. KInv(r)
  BY CauseSigFacts DEF KInv
<1>2. PICK m : /\ r = Inform(m) /\ Inv(m) /\ Counted(m) /\ m.flags = k.flags
               /\ m.getfrom = k.getfrom /\ m.callerq = k.callerq /\ m.mess = k.mess
  BY MarkFacts DEF KInv
<1>3. /\ r.getfrom = m.getfrom
      /\ \/ r.flags = m.flags
         \/ /\ Waiting(m, HARDWARE, MM) /\ m.getfrom[MM] = ANY
            /\ r.flags = [m.flags EXCEPT ![MM] = @ \ {"RECEIVING"}]
      /\ \A e, q \in Proc : q \in QueuedOn(r, e) <=> q \in QueuedOn(m, e)
  BY <1>2, InformFacts
<1>4. \/ r.mess = m.mess
      \/ /\ Waiting(m, HARDWARE, MM) /\ m.getfrom[MM] = ANY
         /\ r.mess = [m.mess EXCEPT ![MM] = m.mess[HARDWARE], ![SYSTASK] = HARDWARE]
  BY <1>2, InformMess
<1> HIDE DEF r
<1>5. {CLOCK, HARDWARE, SYSTASK, MM} \subseteq Proc
  BY Numbering
<1>6. /\ k.flags \in [Proc -> SUBSET Flag] /\ k.mess \in [Proc -> Proc]
      /\ \A q \in Proc : q \in QueuedOn(k, CLOCK) => Sending(k, q)
  BY <1>5 DEF KInv, Inv, Kernel, Queued, QueuedOn, Sending
<1>7. \A q \in Proc : /\ Sending(r, q) <=> Sending(k, q)
                      /\ Receiving(r, q) => Receiving(k, q)
                      /\ q # MM => (Receiving(r, q) <=> Receiving(k, q))
  BY <1>2, <1>3, <1>5, <1>6 DEF Sending, Receiving
<1>8. \A q \in Proc : q \in QueuedOn(r, CLOCK) <=> q \in QueuedOn(k, CLOCK)
  BY <1>2, <1>3, <1>5 DEF QueuedOn
<1>9. \/ r.mess = k.mess
      \/ /\ Receiving(k, MM) /\ k.getfrom[MM] = ANY
         /\ \A q \in Proc : q \notin {MM, SYSTASK} => r.mess[q] = k.mess[q]
  BY <1>2, <1>4, <1>6 DEF Waiting, Receiving
<1>10. r.mess[CLOCK] = k.mess[CLOCK] /\ r.mess[HARDWARE] = k.mess[HARDWARE]
  BY <1>5, <1>9 DEF CLOCK, HARDWARE, MM, SYSTASK
<1>11. \A q \in Proc : q \in QueuedOn(r, CLOCK) => q # SYSTASK /\ r.mess[q] # HARDWARE
  <2> SUFFICES ASSUME NEW q \in Proc, q \in QueuedOn(k, CLOCK)
               PROVE  q # SYSTASK /\ r.mess[q] # HARDWARE
    BY <1>8
  <2>1. Sending(k, q) /\ q # SYSTASK /\ k.mess[q] # HARDWARE
    BY <1>6 DEF Marks
  <2> QED BY <1>5, <1>9, <2>1 DEF Marks
<1>12. \A q \in Proc : Sending(r, q) /\ Receiving(r, q) => r.getfrom[q] \notin {ANY, HARDWARE}
  BY <1>2, <1>3, <1>7 DEF Marks
<1>13. Marks(r)
  BY <1>5, <1>7, <1>10, <1>11, <1>12 DEF Marks
<1>14. CLOCK # MM
  BY DEF CLOCK, MM
<1> QED BY <1>1, <1>5, <1>7, <1>10, <1>13, <1>14 DEF r

\* What a step of others may do to CLOCK: nothing, or deliver a call that it waits for.
Heard(k, r) ==
  /\ Sending(r, CLOCK) => Sending(k, CLOCK)
  /\ \/ r.mess[CLOCK] = k.mess[CLOCK] /\ (Receiving(r, CLOCK) <=> Receiving(k, CLOCK))
     \/ Receiving(k, CLOCK) /\ ~Receiving(r, CLOCK) /\ r.mess[CLOCK] # HARDWARE

\* Another's SEND gives CLOCK a message only by ending its wait, and not the hardware's.
LEMMA SendHeard ==
  ASSUME NEW k, KInv(k), NEW c \in Proc \ {HARDWARE, CLOCK}, NEW d \in Proc \ {HARDWARE},
         c # d, k.flags[c] = {}, k.mess[c] # HARDWARE
  PROVE  Heard(k, MiniSend(k, c, d))
<1> DEFINE r == MiniSend(k, c, d)
<1>1. Inv(k) /\ k.flags \in [Proc -> SUBSET Flag] /\ k.mess \in [Proc -> Proc] /\ CLOCK \in Proc
  BY Numbering DEF KInv, Inv, Kernel
<1>2. r.flags = IF Waiting(k, c, d) THEN [k.flags EXCEPT ![d] = @ \ {"RECEIVING"}]
                                   ELSE [k.flags EXCEPT ![c] = @ \cup {"SENDING"}]
  BY <1>1, MiniSendFacts
<1>3. r.mess = IF Waiting(k, c, d) THEN [k.mess EXCEPT ![d] = k.mess[c]] ELSE k.mess
  BY <1>1, SendMess
<1> HIDE DEF r
<1>4. CASE Waiting(k, c, d) /\ d = CLOCK
  <2>1. /\ Sending(r, CLOCK) <=> Sending(k, CLOCK)
        /\ ~Receiving(r, CLOCK) /\ r.mess[CLOCK] = k.mess[c]
    BY <1>1, <1>2, <1>3, <1>4 DEF Sending, Receiving
  <2> QED BY <1>4, <2>1 DEF Heard, Waiting, Receiving, r
<1>5. CASE ~(Waiting(k, c, d) /\ d = CLOCK)
  <2>1. r.flags[CLOCK] = k.flags[CLOCK] /\ r.mess[CLOCK] = k.mess[CLOCK]
    BY <1>1, <1>2, <1>3, <1>5
  <2> QED BY <2>1 DEF Heard, Sending, Receiving, r
<1> QED BY <1>4, <1>5

\* Another's RECEIVE gives CLOCK nothing.
LEMMA RecHeard ==
  ASSUME NEW k, KInv(k), NEW c \in Proc \ {HARDWARE, CLOCK}, NEW s \in Source, ~Receiving(k, c)
  PROVE  Heard(k, MiniRec(k, c, s))
<1> DEFINE r == MiniRec(k, c, s)
<1>1. /\ k.flags \in [Proc -> SUBSET Flag] /\ k.mess \in [Proc -> Proc]
      /\ CLOCK \in Proc /\ CLOCK \notin {MM, SYSTASK}
  BY Numbering DEF KInv, Inv, Kernel, CLOCK, MM, SYSTASK
<1>2. CASE Found(k, c, s) # {}
  <2>1. PICK w \in Proc : r.flags = [k.flags EXCEPT ![w] = @ \ {"SENDING"}]
    BY <1>2, MiniRecFound
  <2>2. PICK v \in Proc : r.mess = [k.mess EXCEPT ![c] = k.mess[v]]
    BY <1>2, FoundMess
  <2> HIDE DEF r
  <2>3. /\ Sending(r, CLOCK) => Sending(k, CLOCK)
        /\ Receiving(r, CLOCK) <=> Receiving(k, CLOCK)
        /\ r.mess[CLOCK] = k.mess[CLOCK]
    BY <1>1, <2>1, <2>2 DEF Sending, Receiving
  <2> QED BY <2>3 DEF Heard, r
<1>3. CASE Found(k, c, s) = {}
  <2>1. /\ r.getfrom = [k.getfrom EXCEPT ![c] = s]
        /\ \/ r.flags = [k.flags EXCEPT ![c] = @ \cup {"RECEIVING"}]
           \/ c = MM /\ s = ANY /\ r.flags = k.flags
    BY <1>3, MiniRecBlocked DEF Receiving
  <2>2. \/ r.mess = k.mess
        \/ r.mess = [k.mess EXCEPT ![MM] = k.mess[HARDWARE], ![SYSTASK] = HARDWARE]
    BY <1>3, BlockedMess DEF Receiving
  <2> HIDE DEF r
  <2>3. r.flags[CLOCK] = k.flags[CLOCK] /\ r.mess[CLOCK] = k.mess[CLOCK]
    BY <1>1, <2>1, <2>2
  <2> QED BY <2>3 DEF Heard, Sending, Receiving, r
<1> QED BY <1>2, <1>3

\* A call of anybody but CLOCK.
LEMMA CallHeard ==
  ASSUME NEW k, KInv(k), Marks(k), NEW call \in Calls, k.cur = call[2], call[2] # CLOCK,
         call[1] # RECEIVE => call[3] # ANY /\ ~SendFails(k, call[2], call[3])
  PROVE  LET r == SysCallResult(k, call[1], call[2], call[3])
         IN  KInv(r) /\ Marks(r) /\ Heard(k, r)
<1> DEFINE c   == call[2]
           sd  == call[3]
           own == [k EXCEPT !.mess[c] = c]
           m   == MiniSend(own, c, sd)
<1>1. /\ call[1] \in {SEND, RECEIVE, BOTH} /\ c \in Proc \ {HARDWARE, CLOCK} /\ sd \in Source
      /\ call[1] # RECEIVE /\ c = SYSTASK => sd # CLOCK
  BY ConstantAssumption, ClockAssumption
<1>2. /\ k.flags[c] = {} /\ KInv(own) /\ own.flags = k.flags
      /\ own.getfrom = k.getfrom /\ own.callerq = k.callerq
      /\ call[1] # RECEIVE => sd \in Proc \ {HARDWARE} /\ c # sd
  BY CallerFacts
<1>3. own.mess = [k.mess EXCEPT ![c] = c] /\ k.mess \in [Proc -> Proc]
  BY DEF KInv, Inv, Kernel
<1> HIDE DEF own
<1>4. {CLOCK, HARDWARE, SYSTASK, MM} \subseteq Proc /\ ANY \notin Proc
  BY Numbering
<1>5. Marks(own) /\ Heard(k, own)
  BY <1>1, <1>2, <1>3, <1>4 DEF Marks, Heard, Sending, Receiving, QueuedOn
<1>6. call[1] # RECEIVE => KInv(m) /\ ~Receiving(m, c)
  BY <1>1, <1>2, SendKeeps DEF Receiving
<1>7. call[1] # RECEIVE => Marks(m)
  BY <1>1, <1>2, <1>3, <1>5, SendMarks
<1>8. call[1] # RECEIVE => Heard(own, m)
  BY <1>1, <1>2, <1>3, SendHeard
<1>9. \A p \in Proc : Sending(own, p) <=> Sending(k, p)
  BY <1>2 DEF Sending
<1>10. CASE call[1] = SEND
  <2>1. KInv(m) /\ Marks(m) /\ Heard(k, m)
    BY <1>5, <1>6, <1>7, <1>8, <1>10 DEF Heard, SEND, RECEIVE
  <2> QED BY <1>10, <2>1 DEF SysCallResult, SEND, RECEIVE, BOTH, own
<1>11. CASE call[1] = RECEIVE
  <2> DEFINE r == MiniRec(k, c, sd)
  <2>1. ~Receiving(k, c) /\ ~Sending(k, c) /\ c \notin QueuedOn(k, CLOCK)
    BY <1>1, <1>2, <1>4 DEF KInv, Inv, Queued, QueuedOn, Sending, Receiving
  <2>2. KInv(r)
    BY <1>1, <2>1, MiniRecFacts DEF Receiving
  <2>3. Marks(r)
    BY <1>1, <2>1, RecMarks
  <2>4. Heard(k, r)
    BY <1>1, <2>1, RecHeard
  <2> QED BY <1>11, <2>2, <2>3, <2>4 DEF SysCallResult, SEND, RECEIVE, BOTH
<1>12. CASE call[1] = BOTH
  <2> DEFINE r == MiniRec(m, c, sd)
  <2>1. /\ KInv(m) /\ ~Receiving(m, c) /\ Marks(m) /\ Heard(own, m)
        /\ sd \in Proc \ {HARDWARE} /\ c # sd
    BY <1>2, <1>6, <1>7, <1>8, <1>12 DEF BOTH, RECEIVE
  <2>2. c \in QueuedOn(m, CLOCK) => sd = CLOCK
    <3>1. /\ m.getfrom = own.getfrom
          /\ m.flags = IF Waiting(own, c, sd) THEN [own.flags EXCEPT ![sd] = @ \ {"RECEIVING"}]
                                              ELSE [own.flags EXCEPT ![c] = @ \cup {"SENDING"}]
          /\ \A e, p \in Proc : p \in QueuedOn(m, e) <=>
               p \in QueuedOn(own, e) \/ (~Waiting(own, c, sd) /\ p = c /\ e = sd)
      <4>1. /\ Inv(own) /\ own.flags[c] = {} /\ c \in Proc /\ c # HARDWARE
            /\ sd \in Proc \ {HARDWARE} /\ c # sd
        BY <1>1, <1>2, <2>1 DEF KInv
      <4> HIDE DEF c, sd
      <4>2. /\ Inv(m)
            /\ m.getfrom = own.getfrom /\ m.pending = own.pending /\ m.sig_procs = own.sig_procs
            /\ m.flags = IF Waiting(own, c, sd) THEN [own.flags EXCEPT ![sd] = @ \ {"RECEIVING"}]
                                                ELSE [own.flags EXCEPT ![c] = @ \cup {"SENDING"}]
            /\ \A e, p \in Proc : p \in QueuedOn(m, e) <=>
                 p \in QueuedOn(own, e) \/ (~Waiting(own, c, sd) /\ p = c /\ e = sd)
        BY <4>1, MiniSendFacts
      <4> QED BY <4>2
    <3>2. c \notin QueuedOn(own, CLOCK)
      <4>1. Queued(own) /\ "SENDING" \notin own.flags[c]
        BY <1>2 DEF KInv, Inv
      <4> QED BY <1>1, <1>4, <4>1 DEF Queued, QueuedOn
    <3> QED BY <1>1, <1>4, <3>1, <3>2
  <2> HIDE DEF m
  <2>3. KInv(r)
    BY <1>1, <2>1, MiniRecFacts DEF Receiving
  <2>4. Marks(r)
    BY <1>1, <1>4, <2>1, <2>2, RecMarks
  <2>5. Heard(m, r)
    BY <1>1, <2>1, RecHeard
  <2>6. Heard(k, r)
    BY <1>5, <2>1, <2>5 DEF Heard
  <2> QED BY <1>12, <2>3, <2>4, <2>6 DEF SysCallResult, SEND, RECEIVE, BOTH, own, m
<1> QED BY <1>1, <1>10, <1>11, <1>12

\* CLOCK asks for the next message: what it finds queued is not the hardware's.
LEMMA ReceiveMarks ==
  ASSUME NEW k, KInv(k), Marks(k), k.flags[CLOCK] = {}
  PROVE  LET r == MiniRec(k, CLOCK, ANY)
         IN  /\ KInv(r) /\ Marks(r) /\ ~Sending(r, CLOCK)
             /\ ~Receiving(r, CLOCK) => r.mess[CLOCK] # HARDWARE
<1> DEFINE r == MiniRec(k, CLOCK, ANY)
<1>1. CLOCK \in Proc \ {HARDWARE} /\ CLOCK # MM /\ ANY \in Source
  BY Numbering DEF CLOCK, HARDWARE, MM, Source
<1>2. /\ ~Receiving(k, CLOCK) /\ ~Sending(k, CLOCK) /\ CLOCK \notin QueuedOn(k, CLOCK)
      /\ k.flags \in [Proc -> SUBSET Flag] /\ k.mess \in [Proc -> Proc]
  BY <1>1 DEF KInv, Inv, Kernel, Queued, QueuedOn, Sending, Receiving
<1>3. KInv(r)
  BY <1>1, <1>2, MiniRecFacts DEF Receiving
<1>4. Marks(r)
  BY <1>1, <1>2, RecMarks
<1>5. CASE Found(k, CLOCK, ANY) # {}
  <2>1. PICK w \in Proc : r.flags = [k.flags EXCEPT ![w] = @ \ {"SENDING"}]
    BY <1>1, <1>5, MiniRecFound
  <2>2. PICK v \in Proc : /\ v \in QueuedOn(k, CLOCK)
                          /\ r.mess = [k.mess EXCEPT ![CLOCK] = k.mess[v]]
    BY <1>1, <1>5, FoundMess
  <2> HIDE DEF r
  <2>3. ~Sending(r, CLOCK) /\ ~Receiving(r, CLOCK) /\ r.mess[CLOCK] = k.mess[v]
    BY <1>1, <1>2, <2>1, <2>2 DEF Sending, Receiving
  <2> QED BY <1>3, <1>4, <2>2, <2>3 DEF Marks, r
<1>6. CASE Found(k, CLOCK, ANY) = {}
  <2>1. /\ r.getfrom = [k.getfrom EXCEPT ![CLOCK] = ANY]
        /\ \/ r.flags = [k.flags EXCEPT ![CLOCK] = @ \cup {"RECEIVING"}]
           \/ CLOCK = MM /\ ANY = ANY /\ r.flags = k.flags
    BY <1>1, <1>2, <1>6, MiniRecBlocked DEF Receiving
  <2> HIDE DEF r
  <2>2. ~Sending(r, CLOCK) /\ Receiving(r, CLOCK)
    BY <1>1, <1>2, <2>1 DEF Sending, Receiving
  <2> QED BY <1>3, <1>4, <2>2 DEF r
<1> QED BY <1>5, <1>6

\* CLOCK replies to a server.
LEMMA ReplyMarks ==
  ASSUME NEW k, KInv(k), Marks(k), k.flags[CLOCK] = {}, NEW d \in {MM, FS}
  PROVE  LET r == SysCallResult(k, SEND, CLOCK, d)
         IN  KInv(r) /\ Marks(r) /\ ~Receiving(r, CLOCK)
<1> DEFINE own == [k EXCEPT !.mess[CLOCK] = CLOCK]
           r   == MiniSend(own, CLOCK, d)
<1>1. {CLOCK, d} \subseteq Proc \ {HARDWARE} /\ CLOCK # d /\ CLOCK # SYSTASK
  BY Numbering DEF CLOCK, HARDWARE, SYSTASK, MM, FS
<1>2. /\ k \in Kernel /\ Listed(k) /\ AtHead(k) /\ k.mess \in [Proc -> Proc]
  BY DEF KInv, Inv, Kernel
<1>3. /\ own \in Kernel /\ SameProcs(k, own)
      /\ own.pending = k.pending /\ own.sig_procs = k.sig_procs
  BY <1>1, <1>2, MessFacts DEF SameProcs
<1>4. own.mess = [k.mess EXCEPT ![CLOCK] = CLOCK]
  BY <1>2 DEF Kernel
<1> HIDE DEF own
<1>5. KInv(own)
  BY <1>3, SameKernel
<1>6. own.flags[CLOCK] = {} /\ own.mess[CLOCK] # HARDWARE
  BY <1>1, <1>2, <1>3, <1>4 DEF SameProcs
<1>7. Marks(own)
  BY <1>1, <1>2, <1>3, <1>4 DEF Marks, SameProcs, Sending, Receiving, QueuedOn
<1>8. KInv(r) /\ ~Receiving(r, CLOCK)
  BY <1>1, <1>5, <1>6, SendKeeps DEF Receiving
<1>9. Marks(r)
  BY <1>1, <1>5, <1>6, <1>7, SendMarks
<1>10. SysCallResult(k, SEND, CLOCK, d) = r
  BY DEF SysCallResult, SEND, RECEIVE, BOTH, own
<1> QED BY <1>8, <1>9, <1>10

SameMarks(k, r) == /\ r.flags = k.flags /\ r.getfrom = k.getfrom
                   /\ r.callerq = k.callerq /\ r.mess = k.mess

\* What such a change keeps.
LEMMA SameMarksFacts ==
  ASSUME NEW k, NEW r, SameMarks(k, r)
  PROVE  /\ Marks(k) => Marks(r)
         /\ Sending(r, CLOCK) <=> Sending(k, CLOCK)
         /\ Receiving(r, CLOCK) <=> Receiving(k, CLOCK)
BY DEF SameMarks, Marks, Sending, Receiving, QueuedOn

\* Neither does pick_proc(), sched() or a change of the ready lists.
LEMMA PickSame ==
  ASSUME NEW k, NEW j, DOMAIN k = DOMAIN j, SameMarks(k, j), {"cur", "prev", "bill"} \subseteq DOMAIN k
  PROVE  SameMarks(k, PickProc(j))
<1> DEFINE r == PickProc(j)
<1>1. r.flags = j.flags
  BY DEF PickProc
<1>2. r.getfrom = j.getfrom
  BY DEF PickProc
<1>3. r.callerq = j.callerq
  BY DEF PickProc
<1>4. r.mess = j.mess
  BY DEF PickProc
<1> QED BY <1>1, <1>2, <1>3, <1>4 DEF SameMarks

\* sched() rotates a ready list and picks.
LEMMA SchedSame ==
  ASSUME NEW k \in Kernel
  PROVE  SameMarks(k, Sched(k))
<1> DEFINE j == [k EXCEPT !.rdy[USER_Q] = Append(Tail(@), Head(@))]
<1>1. DOMAIN k = DOMAIN j /\ SameMarks(k, j)
  BY DEF SameMarks, Kernel
<1>2. {"cur", "prev", "bill"} \subseteq DOMAIN k
  BY DEF Kernel
<1>3. Sched(k) = k \/ Sched(k) = PickProc(j)
  BY DEF Sched
<1> HIDE DEF j
<1>4. SameMarks(k, PickProc(j))
  BY <1>1, <1>2, PickSame
<1> QED BY <1>3, <1>4 DEF SameMarks

\* A tick is CLOCK's next message, or counted as lost.
LEMMA TickFacts ==
  ASSUME KInv(kern), Marks(kern), busy_map = {}, lost_ticks \in 0 .. MaxLost, Interrupt(CLOCK)
  PROVE  /\ KInv(kern') /\ Marks(kern') /\ busy_map' = {} /\ lost_ticks' \in 0 .. MaxLost
         /\ Sending(kern', CLOCK) <=> Sending(kern, CLOCK)
         /\ \/ /\ lost_ticks' = lost_ticks + 1 /\ kern'.mess[CLOCK] = kern.mess[CLOCK]
               /\ Receiving(kern', CLOCK) <=> Receiving(kern, CLOCK)
            \/ /\ lost_ticks' = lost_ticks /\ kern'.mess[CLOCK] = HARDWARE
               /\ Receiving(kern, CLOCK) /\ ~Receiving(kern', CLOCK)
<1> DEFINE sent == ~SendFails(kern, HARDWARE, CLOCK)
           m    == MiniSend(kern, HARDWARE, CLOCK)
           k    == IF sent THEN m ELSE kern
<1>1. {CLOCK, HARDWARE} \subseteq Proc /\ CLOCK # HARDWARE /\ CLOCK \in Devices /\ SYSTASK # HARDWARE
  BY Numbering, ConstantAssumption DEF CLOCK, HARDWARE, SYSTASK
<1>2. KInv(kern') /\ lost_ticks' \in 0 .. MaxLost
  BY <1>1, InterruptKeeps DEF IndInv
<1>3. /\ busy_map' = {}
      /\ IF sent THEN lost_ticks' = lost_ticks ELSE lost_ticks' = lost_ticks + 1
      /\ \E S, o : kern' = Preempt(SendPending(k, Woken(k, {}), o))
  BY DEF Interrupt
<1>4. PICK o : kern' = Preempt(SendPending(k, Woken(k, {}), o))
  BY <1>3
<1>5. Woken(k, {}) = {}
  BY DEF Woken
<1>6. Inv(kern) /\ kern \in Kernel /\ kern.flags[HARDWARE] = {}
  BY DEF KInv, Inv
<1>7. sent => Waiting(kern, HARDWARE, CLOCK)
  BY DEF SendFails
<1>8. k \in Kernel /\ KInv(k)
  <2>1. sent => KInv(m)
    BY <1>1, <1>6, <1>7, SendKeeps
  <2> QED BY <1>6, <2>1 DEF KInv, Inv
<1>9. SameMarks(k, kern')
  <2> DEFINE r == SendPending(k, {}, o)
  <2>1. DOMAIN k = DOMAIN r /\ {"cur", "prev", "bill"} \subseteq DOMAIN k
    BY <1>8 DEF SendPending, Kernel
  <2>2. k.flags \in [Proc -> SUBSET Flag] /\ k.mess \in [Proc -> Proc]
    BY <1>8 DEF Kernel
  <2>3. /\ r.flags = [p \in Proc |-> IF p \in {} THEN k.flags[p] \ {"RECEIVING"} ELSE k.flags[p]]
        /\ r.mess = [p \in Proc |-> IF p \in {} THEN HARDWARE ELSE k.mess[p]]
        /\ r.getfrom = k.getfrom /\ r.callerq = k.callerq
    BY <1>8 DEF SendPending, Kernel
  <2> HIDE DEF r, k
  <2>4. SameMarks(k, r)
    BY <2>2, <2>3 DEF SameMarks
  <2>5. SameMarks(k, PickProc(r))
    BY <2>1, <2>4, PickSame
  <2>6. kern' = r \/ kern' = PickProc(r)
    BY <1>4, <1>5 DEF Preempt, r
  <2> QED BY <2>4, <2>5, <2>6
<1>10. CASE sent
  <2>1. Marks(m)
    BY <1>1, <1>6, <1>7, <1>10, SendMarks
  <2>2. m.flags = [kern.flags EXCEPT ![CLOCK] = @ \ {"RECEIVING"}]
    <3>1. /\ m.getfrom = kern.getfrom
          /\ m.pending = kern.pending /\ m.sig_procs = kern.sig_procs
          /\ m.flags = IF Waiting(kern, HARDWARE, CLOCK)
                       THEN [kern.flags EXCEPT ![CLOCK] = @ \ {"RECEIVING"}]
                       ELSE [kern.flags EXCEPT ![HARDWARE] = @ \cup {"SENDING"}]
      BY <1>1, <1>6, <1>7, <1>10, MiniSendFacts
    <3> QED BY <1>7, <1>10, <3>1
  <2>3. m.mess = [kern.mess EXCEPT ![CLOCK] = kern.mess[HARDWARE]]
    BY <1>1, <1>6, <1>7, <1>10, SendMess
  <2>4. k = m
    BY <1>10
  <2> HIDE DEF m, k
  <2>5. /\ Sending(m, CLOCK) <=> Sending(kern, CLOCK)
        /\ ~Receiving(m, CLOCK) /\ Receiving(kern, CLOCK) /\ m.mess[CLOCK] = HARDWARE
    BY <1>1, <1>6, <1>7, <1>10, <2>2, <2>3 DEF Kernel, Marks, Sending, Receiving, Waiting
  <2>6. /\ Marks(kern') /\ kern'.mess[CLOCK] = HARDWARE
        /\ Sending(kern', CLOCK) <=> Sending(kern, CLOCK)
        /\ ~Receiving(kern', CLOCK)
    BY <1>9, <2>1, <2>4, <2>5, SameMarksFacts DEF SameMarks
  <2> QED BY <1>2, <1>3, <1>10, <2>5, <2>6
<1>11. CASE ~sent
  <2>1. SameMarks(kern, kern')
    BY <1>9, <1>11
  <2> HIDE DEF sent
  <2>2. /\ Marks(kern') /\ kern'.mess[CLOCK] = kern.mess[CLOCK]
        /\ Sending(kern', CLOCK) <=> Sending(kern, CLOCK)
        /\ Receiving(kern', CLOCK) <=> Receiving(kern, CLOCK)
    BY <2>1, SameMarksFacts DEF SameMarks
  <2> QED BY <1>2, <1>3, <1>11, <2>2
<1> QED BY <1>10, <1>11
-----------------------------------------------------------------------------
(* The alarms. *)

\* next_alarm is not after any alarm.
FirstBy(a, next) == \A p \in User : a[p] # OFF => next <= a[p]
\* All alarms of a are ahead of realtime.
Future(a)        == \A p \in User : a[p] # OFF => a[p] > 0
AlarmType        == [User -> {OFF} \cup (-MaxLost .. MaxDelta)]

\* The bounds are numbers, and OFF is beyond every alarm.
LEMMA AlarmBounds == MaxLost \in Nat /\ MaxDelta \in Nat /\ MaxDelta < OFF /\ OFF = 32767
<1>1. MaxLost \in Nat
  BY ConstantAssumption
<1>2. MaxDelta \in 0 .. OFF - 1
  BY ClockAssumption
<1> QED BY <1>1, <1>2 DEF OFF

\* What it takes to be the distance of an alarm.
LEMMA AlarmRange ==
  ASSUME NEW d
  PROVE  d \in {OFF} \cup (-MaxLost .. MaxDelta)
           <=> d = OFF \/ (d \in Int /\ -MaxLost <= d /\ d <= MaxDelta)
<1>1. -MaxLost \in Int /\ MaxDelta \in Int
  BY AlarmBounds
<1> QED BY <1>1

\* The search for the next alarm, when all are in the future, finds the first.
LEMMA EarliestFacts ==
  ASSUME NEW a \in AlarmType, Future(a)
  PROVE  LET e == Earliest({a[p] : p \in User})
         IN  e \in Int /\ FirstBy(a, e)
<1> DEFINE S == {a[p] : p \in User}
           T == S \cup {OFF}
           e == Earliest(S)
           m == CHOOSE x \in T : \A y \in T : x <= y
<1>1. T \in SUBSET Nat /\ T # {}
  <2>1. ASSUME NEW p \in User
        PROVE  a[p] \in Nat
    <3>1. a[p] = OFF \/ a[p] \in Int
      BY AlarmRange DEF AlarmType
    <3>2. a[p] # OFF => a[p] > 0
      BY DEF Future
    <3> QED BY <3>1, <3>2, AlarmBounds
  <2> QED BY <2>1, AlarmBounds
<1>2. m \in T /\ \A y \in T : m <= y
  <2> HIDE DEF T
  <2> QED BY <1>1, LeastIndex
<1>3. \E d \in T : \A y \in S : d <= y
  BY <1>2
<1>4. e \in T /\ \A y \in S : e <= y
  BY <1>3 DEF Earliest
<1> QED BY <1>1, <1>4 DEF FirstBy
-----------------------------------------------------------------------------
(* The whole invariant. *)

Loop == {"receive", "dispatch", "reply", "add", "subtract", "alarms", "quantum"}

\* Where CLOCK is says whether it is blocked, and whom it will answer.
LoopOK ==
  /\ clk_pc \in Loop
  /\ Receiving(kern, CLOCK) => clk_pc = "dispatch"
  /\ Sending(kern, CLOCK) => clk_pc = "receive"
  /\ clk_pc = "reply" => kern.mess[CLOCK] \in {MM, FS}
  /\ clk_pc \in {"add", "subtract"} => t <= lost_ticks

\* The alarms: ahead, but for the part of do_clocktick() that looks for those due.
AlarmsOK ==
  /\ alarm \in AlarmType /\ next_alarm \in Int
  /\ FirstBy(alarm, next_alarm)
  /\ clk_pc \notin {"subtract", "alarms"} => Future(alarm)

\* The ticks that realtime lacks, see TicksConserved.
Owed ==
  owed = CASE clk_pc = "subtract" -> lost_ticks - t
           [] clk_pc = "add" -> lost_ticks + 1
           [] clk_pc = "dispatch" /\ "RECEIVING" \notin kern.flags[CLOCK]
                /\ kern.mess[CLOCK] = HARDWARE -> lost_ticks + 1
           [] OTHER -> lost_ticks

\* Ticks are counted in lost_ticks and not in busy_map.
KernelOK == KInv(kern) /\ Marks(kern) /\ busy_map = {} /\ lost_ticks \in 0 .. MaxLost

QuantumOK == sched_ticks \in 1 .. SCHED_RATE /\ prev_ptr \in Proc \cup {NOBODY}

CInd == /\ KernelOK /\ LoopOK /\ AlarmsOK /\ Owed /\ QuantumOK
        /\ t \in 0 .. MaxLost

\* The invariant holds at boot.
LEMMA ClockInitKeeps ==
  ASSUME ClockInit
  PROVE  CInd
<1>1. IndInv
  BY InitKeeps DEF ClockInit
<1>2. /\ kern.flags = [p \in Proc |-> IF p \in Live THEN {} ELSE {"P_SLOT_FREE"}]
      /\ kern.callerq = [p \in Proc |-> <<>>] /\ kern.mess = [p \in Proc |-> p]
      /\ busy_map = {} /\ lost_ticks = 0
  BY DEF ClockInit, Init, PickProc
<1>3. CLOCK \in Proc /\ HARDWARE \in Proc /\ CLOCK # HARDWARE
  BY Numbering DEF CLOCK, HARDWARE
<1>4. \A p \in Proc : ~Sending(kern, p) /\ ~Receiving(kern, p) /\ p \notin QueuedOn(kern, CLOCK)
  BY <1>2, <1>3 DEF Sending, Receiving, QueuedOn, ToSet
<1>5. KernelOK
  BY <1>1, <1>2, <1>3, <1>4 DEF KernelOK, IndInv, Marks
<1>6. LoopOK
  BY <1>3, <1>4 DEF LoopOK, Loop, ClockInit
<1>7. AlarmsOK
  BY ConstantAssumption DEF AlarmsOK, AlarmType, FirstBy, Future, ClockInit, OFF
<1>8. Owed
  BY <1>2 DEF Owed, ClockInit
<1>9. QuantumOK /\ t \in 0 .. MaxLost
  BY ClockAssumption, ConstantAssumption DEF QuantumOK, ClockInit
<1> QED BY <1>5, <1>6, <1>7, <1>8, <1>9 DEF CInd
-----------------------------------------------------------------------------
\* A step of others leaves CLOCK where it is and what is owed as it is.
LEMMA HeardKeeps ==
  ASSUME LoopOK, Owed, Heard(kern, kern'), UNCHANGED <<clk_pc, t, owed, lost_ticks>>
  PROVE  LoopOK' /\ Owed'
<1>1. LoopOK'
  BY DEF LoopOK, Heard, Sending, Receiving
<1>2. Owed'
  <2>1. CASE Receiving(kern, CLOCK) /\ ~Receiving(kern', CLOCK) /\ kern'.mess[CLOCK] # HARDWARE
    BY <2>1 DEF Owed, LoopOK, Receiving
  <2>2. CASE kern'.mess[CLOCK] = kern.mess[CLOCK] /\ (Receiving(kern', CLOCK) <=> Receiving(kern, CLOCK))
    BY <2>2 DEF Owed, Receiving
  <2> QED BY <2>1, <2>2 DEF Heard
<1> QED BY <1>1, <1>2

\* Calls of the other processes: they wake CLOCK with a request, or leave it alone.
LEMMA ProcCallsKeep ==
  ASSUME CInd, NEW p \in Proc \ {HARDWARE, CLOCK}, ProcCalls(p)
  PROVE  CInd'
<1>1. PICK c \in Calls : c[2] = p /\ SysCall(c[1], p, c[3])
  BY DEF ProcCalls
<1>2. /\ kern.cur = c[2] /\ (c[1] # RECEIVE => c[3] # ANY /\ ~SendFails(kern, c[2], c[3]))
      /\ kern' = SysCallResult(kern, c[1], c[2], c[3]) /\ UNCHANGED <<busy_map, lost_ticks>>
  BY <1>1 DEF SysCall
<1>3. KInv(kern') /\ Marks(kern') /\ Heard(kern, kern')
  BY <1>1, <1>2, CallHeard DEF CInd, KernelOK
<1>4. UNCHANGED <<clk_pc, t, alarm, next_alarm, sched_ticks, prev_ptr, owed>>
  BY DEF ProcCalls, clock
<1>5. KernelOK'
  BY <1>2, <1>3 DEF KernelOK, CInd
<1>6. LoopOK' /\ Owed'
  BY <1>2, <1>3, <1>4, HeardKeeps DEF CInd
<1>7. AlarmsOK' /\ QuantumOK' /\ t' \in 0 .. MaxLost
  BY <1>4 DEF CInd, AlarmsOK, QuantumOK, Future, FirstBy
<1> QED BY <1>5, <1>6, <1>7 DEF CInd

\* A tick that CLOCK does not get is added to lost_ticks, one that it gets is its message.
LEMMA TickKeeps ==
  ASSUME CInd, Tick
  PROVE  CInd'
<1>1. /\ KInv(kern') /\ Marks(kern') /\ busy_map' = {} /\ lost_ticks' \in 0 .. MaxLost
      /\ Sending(kern', CLOCK) <=> Sending(kern, CLOCK)
      /\ \/ /\ lost_ticks' = lost_ticks + 1 /\ kern'.mess[CLOCK] = kern.mess[CLOCK]
            /\ Receiving(kern', CLOCK) <=> Receiving(kern, CLOCK)
         \/ /\ lost_ticks' = lost_ticks /\ kern'.mess[CLOCK] = HARDWARE
            /\ Receiving(kern, CLOCK) /\ ~Receiving(kern', CLOCK)
  BY TickFacts DEF CInd, KernelOK, Tick
<1>2. owed' = owed + 1 /\ UNCHANGED <<clk_pc, t, alarm, next_alarm, sched_ticks, prev_ptr>>
  BY DEF Tick
<1>3. t \in Int /\ lost_ticks \in Int
  BY DEF CInd, KernelOK
<1>4. KernelOK'
  BY <1>1 DEF KernelOK
<1>5. CASE /\ lost_ticks' = lost_ticks + 1 /\ kern'.mess[CLOCK] = kern.mess[CLOCK]
           /\ Receiving(kern', CLOCK) <=> Receiving(kern, CLOCK)
  <2>1. LoopOK'
    BY <1>1, <1>2, <1>3, <1>5 DEF CInd, LoopOK
  <2>2. Owed'
    BY <1>2, <1>3, <1>5 DEF CInd, Owed, Receiving
  <2> QED BY <1>2, <1>4, <2>1, <2>2 DEF CInd, AlarmsOK, QuantumOK, Future, FirstBy
<1>6. CASE /\ lost_ticks' = lost_ticks /\ kern'.mess[CLOCK] = HARDWARE
           /\ Receiving(kern, CLOCK) /\ ~Receiving(kern', CLOCK)
  <2>1. clk_pc = "dispatch"
    BY <1>6 DEF CInd, LoopOK
  <2>2. LoopOK'
    BY <1>1, <1>2, <1>6, <2>1 DEF CInd, LoopOK, Loop
  <2>3. Owed'
    BY <1>2, <1>3, <1>6, <2>1 DEF CInd, Owed, Receiving
  <2> QED BY <1>2, <1>4, <2>2, <2>3 DEF CInd, AlarmsOK, QuantumOK, Future, FirstBy
<1> QED BY <1>1, <1>5, <1>6

\* SYSTASK turns alarms off and copies them.
LEMMA AlarmsOfOthersKeep ==
  ASSUME CInd, NEW p \in User, AlarmOff(p) \/ \E child \in User : AlarmForked(p, child)
  PROVE  CInd'
<1>1. /\ UNCHANGED <<kern, busy_map, lost_ticks>>
      /\ UNCHANGED <<clk_pc, t, next_alarm, sched_ticks, prev_ptr, owed>>
  BY DEF AlarmOff, AlarmForked, vars
<1>2. \E q \in User, x \in {OFF, alarm[p]} : alarm' = [alarm EXCEPT ![q] = x]
  BY DEF AlarmOff, AlarmForked
<1>3. AlarmsOK'
  BY <1>1, <1>2 DEF CInd, AlarmsOK, AlarmType, FirstBy, Future
<1> QED BY <1>1, <1>3 DEF CInd, KernelOK, LoopOK, Owed, QuantumOK

\* Where CLOCK runs it is not blocked.
LEMMA ClockRuns ==
  ASSUME KernelOK, kern.cur = CLOCK
  PROVE  kern.flags[CLOCK] = {} /\ ~Sending(kern, CLOCK) /\ ~Receiving(kern, CLOCK)
<1>1. CLOCK # IDLE /\ Inv(kern)
  BY Numbering DEF KernelOK, KInv
<1>2. kern.flags[CLOCK] = {}
  BY <1>1, RunningFacts
<1> QED BY <1>2 DEF Sending, Receiving

\* CLOCK's RECEIVE takes a request of a sender on its queue, or waits.
LEMMA ReceiveKeeps ==
  ASSUME CInd, Receive
  PROVE  CInd'
<1>1. /\ kern.cur = CLOCK /\ clk_pc = "receive" /\ clk_pc' = "dispatch"
      /\ kern' = SysCallResult(kern, RECEIVE, CLOCK, ANY) /\ UNCHANGED <<busy_map, lost_ticks>>
      /\ UNCHANGED <<t, alarm, next_alarm, sched_ticks, prev_ptr, owed>>
  BY DEF Receive, SysCall
<1>2. kern' = MiniRec(kern, CLOCK, ANY)
  BY <1>1 DEF SysCallResult, SEND, RECEIVE, BOTH
<1>3. /\ KInv(kern') /\ Marks(kern') /\ ~Sending(kern', CLOCK)
      /\ ~Receiving(kern', CLOCK) => kern'.mess[CLOCK] # HARDWARE
  BY <1>1, <1>2, ClockRuns, ReceiveMarks DEF CInd, KernelOK
<1>4. KernelOK' /\ LoopOK'
  BY <1>1, <1>3 DEF CInd, KernelOK, LoopOK, Loop
<1>5. Owed'
  BY <1>1, <1>3 DEF CInd, Owed, Receiving
<1>6. AlarmsOK'
  BY <1>1 DEF CInd, AlarmsOK, Future, FirstBy
<1> QED BY <1>1, <1>4, <1>5, <1>6 DEF CInd, QuantumOK

\* The reply goes to MM or FS, which waits for it with BOTH, so CLOCK goes on.
LEMMA ReplyKeeps ==
  ASSUME CInd, Reply
  PROVE  CInd'
<1>1. /\ kern.cur = CLOCK /\ clk_pc = "reply" /\ clk_pc' = "receive"
      /\ kern' = SysCallResult(kern, SEND, CLOCK, kern.mess[CLOCK])
      /\ UNCHANGED <<busy_map, lost_ticks>>
      /\ UNCHANGED <<t, alarm, next_alarm, sched_ticks, prev_ptr, owed>>
  BY DEF Reply, SysCall
<1>2. kern.mess[CLOCK] \in {MM, FS}
  BY <1>1 DEF CInd, LoopOK
<1>3. KInv(kern') /\ Marks(kern') /\ ~Receiving(kern', CLOCK)
  BY <1>1, <1>2, ClockRuns, ReplyMarks DEF CInd, KernelOK
<1>4. KernelOK' /\ LoopOK'
  BY <1>1, <1>3 DEF CInd, KernelOK, LoopOK, Loop
<1>5. Owed'
  BY <1>1 DEF CInd, Owed
<1>6. AlarmsOK'
  BY <1>1 DEF CInd, AlarmsOK, Future, FirstBy
<1> QED BY <1>1, <1>4, <1>5, <1>6 DEF CInd, QuantumOK

\* A new alarm is ahead, and the search for the first one takes it in.
LEMMA SetAlarmKeeps ==
  ASSUME CInd, NEW p \in User, NEW delta \in 0 .. MaxDelta, SetAlarm(p, delta)
  PROVE  CInd'
<1>1. /\ kern.cur = CLOCK /\ clk_pc = "dispatch" /\ kern.mess[CLOCK] = MM /\ clk_pc' = "reply"
      /\ alarm' = [alarm EXCEPT ![p] = IF delta = 0 THEN OFF ELSE delta]
      /\ next_alarm' = Earliest({alarm'[q] : q \in User})
      /\ UNCHANGED <<kern, busy_map, lost_ticks, t, sched_ticks, prev_ptr, owed>>
  BY DEF SetAlarm, At, vars
<1>2. ~Sending(kern, CLOCK) /\ ~Receiving(kern, CLOCK)
  BY <1>1, ClockRuns DEF CInd
<1>3. alarm' \in AlarmType /\ Future(alarm')
  <2>1. alarm \in AlarmType /\ Future(alarm)
    BY <1>1 DEF CInd, AlarmsOK
  <2> DEFINE d == IF delta = 0 THEN OFF ELSE delta
  <2>2. d = OFF \/ (d \in Int /\ 0 < d /\ d <= MaxDelta)
    BY AlarmBounds
  <2> HIDE DEF d
  <2>3. -MaxLost \in Int /\ -MaxLost <= 0
    BY AlarmBounds
  <2>4. d \in {OFF} \cup (-MaxLost .. MaxDelta)
    BY <2>2, <2>3, AlarmRange
  <2>5. alarm' = [alarm EXCEPT ![p] = d]
    BY <1>1 DEF d
  <2>6. alarm' \in AlarmType
    BY <2>1, <2>4, <2>5 DEF AlarmType
  <2>7. Future(alarm')
    BY <2>1, <2>2, <2>5 DEF Future, AlarmType
  <2> QED BY <2>6, <2>7
<1>4. next_alarm' \in Int /\ FirstBy(alarm', next_alarm')
  BY <1>1, <1>3, EarliestFacts
<1>5. AlarmsOK'
  BY <1>3, <1>4 DEF AlarmsOK
<1>6. Owed'
  BY <1>1 DEF CInd, Owed, MM, HARDWARE
<1>7. LoopOK'
  BY <1>1, <1>2 DEF CInd, LoopOK, Loop
<1> QED BY <1>1, <1>5, <1>6, <1>7 DEF CInd, KernelOK, QuantumOK

\* do_get_time() and do_set_time() change nothing that is modelled.
LEMMA TimeKeeps ==
  ASSUME CInd, Time
  PROVE  CInd'
<1>1. /\ kern.cur = CLOCK /\ clk_pc = "dispatch" /\ kern.mess[CLOCK] = FS /\ clk_pc' = "reply"
      /\ UNCHANGED <<kern, busy_map, lost_ticks, t, alarm, next_alarm, sched_ticks, prev_ptr, owed>>
  BY DEF Time, At, vars
<1>2. ~Sending(kern, CLOCK) /\ ~Receiving(kern, CLOCK)
  BY <1>1, ClockRuns DEF CInd
<1>3. Owed'
  BY <1>1 DEF CInd, Owed, FS, HARDWARE
<1>4. LoopOK'
  BY <1>1, <1>2 DEF CInd, LoopOK, Loop
<1> QED BY <1>1, <1>3, <1>4 DEF CInd, KernelOK, QuantumOK, AlarmsOK, Future, FirstBy
-----------------------------------------------------------------------------
(* do_clocktick(). *)

\* The copy is no more than what is lost.
LEMMA CopyLostKeeps ==
  ASSUME CInd, CopyLost
  PROVE  CInd'
<1>1. /\ kern.cur = CLOCK /\ clk_pc = "dispatch" /\ kern.mess[CLOCK] = HARDWARE /\ clk_pc' = "add"
      /\ t' = lost_ticks
      /\ UNCHANGED <<kern, busy_map, lost_ticks, alarm, next_alarm, sched_ticks, prev_ptr, owed>>
  BY DEF CopyLost, At, vars
<1>2. ~Sending(kern, CLOCK) /\ ~Receiving(kern, CLOCK) /\ lost_ticks \in 0 .. MaxLost
  BY <1>1, ClockRuns DEF CInd, KernelOK
<1>3. Owed'
  BY <1>1, <1>2 DEF CInd, Owed, Receiving
<1>4. LoopOK' /\ t' \in 0 .. MaxLost
  BY <1>1, <1>2 DEF CInd, LoopOK, Loop
<1> QED BY <1>1, <1>3, <1>4 DEF CInd, KernelOK, QuantumOK, AlarmsOK, Future, FirstBy

\* Alarms come nearer, by no more than the ticks that can be lost; all were ahead.
LEMMA AddLostKeeps ==
  ASSUME CInd, AddLost
  PROVE  CInd'
<1>1. /\ kern.cur = CLOCK /\ clk_pc = "add" /\ clk_pc' = "subtract"
      /\ alarm' = [p \in User |-> Elapse(alarm[p], t + 1)]
      /\ next_alarm' = Elapse(next_alarm, t + 1) /\ owed' = owed - (t + 1)
      /\ UNCHANGED <<kern, busy_map, lost_ticks, t, sched_ticks, prev_ptr>>
  BY DEF AddLost, At, vars
<1>2. /\ ~Sending(kern, CLOCK) /\ ~Receiving(kern, CLOCK)
      /\ t \in 0 .. MaxLost /\ lost_ticks \in 0 .. MaxLost /\ MaxLost \in Nat
  BY <1>1, ClockRuns, ConstantAssumption DEF CInd, KernelOK
<1>3. Owed'
  BY <1>1, <1>2 DEF CInd, Owed
<1>4. LoopOK'
  BY <1>1, <1>2 DEF CInd, LoopOK, Loop
<1>5. \A p \in User : /\ alarm[p] = OFF => alarm'[p] = OFF
                      /\ alarm[p] # OFF => /\ alarm[p] \in Int /\ 0 < alarm[p]
                                           /\ alarm[p] <= MaxDelta
                                           /\ alarm'[p] = alarm[p] - (t + 1)
                                           /\ next_alarm <= alarm[p]
  <2>1. alarm \in AlarmType /\ Future(alarm) /\ FirstBy(alarm, next_alarm)
    BY <1>1 DEF CInd, AlarmsOK
  <2> SUFFICES ASSUME NEW p \in User
               PROVE  /\ alarm[p] = OFF => alarm'[p] = OFF
                      /\ alarm[p] # OFF => /\ alarm[p] \in Int /\ 0 < alarm[p]
                                           /\ alarm[p] <= MaxDelta
                                           /\ alarm'[p] = alarm[p] - (t + 1)
                                           /\ next_alarm <= alarm[p]
    OBVIOUS
  <2>2. alarm[p] = OFF \/ (alarm[p] \in Int /\ alarm[p] <= MaxDelta)
    BY <2>1, AlarmRange DEF AlarmType
  <2>3. alarm[p] # OFF => alarm[p] > 0 /\ next_alarm <= alarm[p]
    BY <2>1 DEF Future, FirstBy
  <2>4. alarm'[p] = IF alarm[p] = OFF THEN OFF ELSE alarm[p] - (t + 1)
    BY <1>1 DEF Elapse
  <2> QED BY <2>2, <2>3, <2>4
<1>6. alarm' \in AlarmType /\ next_alarm' \in Int
  <2>1. ASSUME NEW p \in User
        PROVE  alarm'[p] \in {OFF} \cup (-MaxLost .. MaxDelta)
    <3>1. CASE alarm[p] = OFF
      BY <1>5, <3>1
    <3>2. CASE alarm[p] # OFF
      <4>1. PICK d \in Int : alarm[p] = d /\ 0 < d /\ d <= MaxDelta
        BY <1>5, <3>2
      <4>2. alarm'[p] = d - (t + 1)
        BY <1>5, <3>2, <4>1
      <4>3. t \in Int /\ 0 <= t /\ t <= MaxLost /\ MaxLost \in Int /\ MaxDelta \in Int
        BY <1>2, AlarmBounds
      <4>4. d - (t + 1) \in Int /\ -MaxLost <= d - (t + 1) /\ d - (t + 1) <= MaxDelta
        BY <4>1, <4>3
      <4> QED BY <4>2, <4>4, AlarmRange
    <3> QED BY <3>1, <3>2
  <2>2. next_alarm' \in Int
    BY <1>1, <1>2 DEF CInd, AlarmsOK, Elapse, OFF
  <2> QED BY <1>1, <2>1, <2>2 DEF AlarmType
<1>7. FirstBy(alarm', next_alarm')
  <2> SUFFICES ASSUME NEW p \in User, alarm'[p] # OFF
               PROVE  next_alarm' <= alarm'[p]
    BY DEF FirstBy
  <2>1. /\ alarm[p] \in Int /\ alarm[p] <= MaxDelta /\ alarm'[p] = alarm[p] - (t + 1)
        /\ next_alarm <= alarm[p]
    BY <1>5
  <2>2. next_alarm \in Int /\ next_alarm # OFF
    <3>1. next_alarm \in Int
      BY DEF CInd, AlarmsOK
    <3> HIDE DEF CInd
    <3> QED BY <2>1, <3>1, AlarmBounds
  <2> QED BY <1>1, <1>2, <2>1, <2>2 DEF Elapse
<1>8. AlarmsOK'
  BY <1>1, <1>6, <1>7 DEF AlarmsOK
<1> QED BY <1>1, <1>2, <1>3, <1>4, <1>8 DEF CInd, KernelOK, QuantumOK

\* What was lost since the copy stays lost, and is still owed.
LEMMA SubtractLostKeeps ==
  ASSUME CInd, SubtractLost
  PROVE  CInd'
<1>1. /\ kern.cur = CLOCK /\ clk_pc = "subtract" /\ clk_pc' = "alarms"
      /\ lost_ticks' = lost_ticks - t /\ t' = 0
      /\ UNCHANGED <<kern, busy_map, alarm, next_alarm, sched_ticks, prev_ptr, owed>>
  BY DEF SubtractLost, At
<1>2. /\ ~Sending(kern, CLOCK) /\ ~Receiving(kern, CLOCK)
      /\ t \in 0 .. MaxLost /\ lost_ticks \in 0 .. MaxLost /\ t <= lost_ticks /\ MaxLost \in Nat
  BY <1>1, ClockRuns, ConstantAssumption DEF CInd, KernelOK, LoopOK
<1>3. Owed'
  BY <1>1, <1>2 DEF CInd, Owed
<1>4. KernelOK'
  BY <1>1, <1>2 DEF CInd, KernelOK
<1>5. LoopOK' /\ t' \in 0 .. MaxLost
  BY <1>1, <1>2 DEF CInd, LoopOK, Loop
<1> QED BY <1>1, <1>3, <1>4, <1>5 DEF CInd, QuantumOK, AlarmsOK, Future, FirstBy

\* A signal wakes nobody but MM, and takes one alarm away.
LEMMA SignalDueKeeps ==
  ASSUME CInd, NEW p \in User, SignalDue(p)
  PROVE  CInd'
<1>1. /\ kern.cur = CLOCK /\ clk_pc = "alarms"
      /\ kern' = CauseSig(kern, p) /\ alarm' = [alarm EXCEPT ![p] = OFF]
      /\ UNCHANGED <<busy_map, lost_ticks, clk_pc, t, next_alarm, sched_ticks, prev_ptr, owed>>
  BY DEF SignalDue, At
<1>2. p \in Slot
  BY ConstantAssumption DEF User, Slot, LOW_USER
<1>3. /\ KInv(kern') /\ Marks(kern') /\ kern'.mess[CLOCK] = kern.mess[CLOCK]
      /\ Sending(kern', CLOCK) <=> Sending(kern, CLOCK)
      /\ Receiving(kern', CLOCK) <=> Receiving(kern, CLOCK)
  BY <1>1, <1>2, SignalMarks DEF CInd, KernelOK
<1>4. KernelOK'
  BY <1>1, <1>3 DEF CInd, KernelOK
<1>5. LoopOK' /\ Owed'
  BY <1>1, <1>3, HeardKeeps DEF CInd, Heard
<1>6. AlarmsOK'
  BY <1>1 DEF CInd, AlarmsOK, AlarmType, Future, FirstBy
<1> QED BY <1>1, <1>4, <1>5, <1>6 DEF CInd, QuantumOK

\* When nobody's alarm is due any more all that are left are ahead.
LEMMA AlarmsDoneKeeps ==
  ASSUME CInd, AlarmsDone
  PROVE  CInd'
<1>1. /\ kern.cur = CLOCK /\ clk_pc = "alarms" /\ clk_pc' = "quantum" /\ Due = {}
      /\ next_alarm' = IF next_alarm <= 0 THEN Earliest({alarm[p] : p \in User}) ELSE next_alarm
      /\ UNCHANGED <<kern, busy_map, lost_ticks, t, alarm, sched_ticks, prev_ptr, owed>>
  BY DEF AlarmsDone, At, vars
<1>2. ~Sending(kern, CLOCK) /\ ~Receiving(kern, CLOCK)
  BY <1>1, ClockRuns DEF CInd
<1>3. /\ alarm \in AlarmType /\ next_alarm \in Int /\ FirstBy(alarm, next_alarm)
      /\ \A p \in User : alarm[p] \in Int
  <2>1. alarm \in AlarmType /\ next_alarm \in Int /\ FirstBy(alarm, next_alarm)
    BY DEF CInd, AlarmsOK
  <2>2. ASSUME NEW p \in User
        PROVE  alarm[p] \in Int
    BY <2>1, AlarmRange, AlarmBounds DEF AlarmType
  <2> QED BY <2>1, <2>2
<1>4. Future(alarm)
  <2>1. CASE next_alarm <= 0
    BY <1>1, <1>3, <2>1 DEF Due, Future
  <2>2. CASE ~(next_alarm <= 0)
    BY <1>3, <2>2 DEF FirstBy, Future
  <2> QED BY <2>1, <2>2
<1>5. next_alarm' \in Int /\ FirstBy(alarm, next_alarm')
  BY <1>1, <1>3, <1>4, EarliestFacts
<1>6. AlarmsOK'
  BY <1>1, <1>3, <1>4, <1>5 DEF AlarmsOK
<1>7. Owed'
  BY <1>1 DEF CInd, Owed
<1>8. LoopOK'
  BY <1>1, <1>2 DEF CInd, LoopOK, Loop
<1> QED BY <1>1, <1>6, <1>7, <1>8 DEF CInd, KernelOK, QuantumOK

\* The quantum: sched() moves users only; then one interrupt has been worked off.
LEMMA QuantumKeeps ==
  ASSUME CInd, Quantum
  PROVE  CInd'
<1>1. /\ kern.cur = CLOCK /\ clk_pc = "quantum" /\ clk_pc' = "receive"
      /\ \/ kern' = kern
         \/ kern' = Sched(kern)
      /\ UNCHANGED <<busy_map, lost_ticks, t, alarm, next_alarm, owed>>
  BY DEF Quantum, At
<1>2. ~Sending(kern, CLOCK) /\ ~Receiving(kern, CLOCK) /\ kern \in Kernel
  BY <1>1, ClockRuns DEF CInd, KernelOK, KInv, Inv
<1>3. KInv(kern') /\ SameMarks(kern, kern')
  BY <1>1, <1>2, SchedKeeps, SchedSame DEF CInd, KernelOK, SameMarks
<1>4. /\ Marks(kern') /\ kern'.mess[CLOCK] = kern.mess[CLOCK]
      /\ ~Sending(kern', CLOCK) /\ ~Receiving(kern', CLOCK)
  BY <1>2, <1>3, SameMarksFacts DEF CInd, KernelOK, SameMarks
<1>5. KernelOK'
  BY <1>1, <1>3, <1>4 DEF CInd, KernelOK
<1>6. LoopOK'
  BY <1>1, <1>4 DEF CInd, LoopOK, Loop
<1>7. Owed'
  BY <1>1 DEF CInd, Owed
<1>8. QuantumOK'
  <2>1. kern.bill \in Proc
    BY <1>2 DEF Kernel
  <2> QED BY <2>1, ClockAssumption DEF Quantum, CInd, QuantumOK
<1> QED BY <1>1, <1>5, <1>6, <1>7, <1>8 DEF CInd, AlarmsOK, Future, FirstBy
-----------------------------------------------------------------------------
\* Every step keeps the invariant.
LEMMA ClockNextKeeps ==
  ASSUME CInd, [ClockNext]_clock_vars
  PROVE  CInd'
<1>1. CASE \E p \in Proc \ {HARDWARE, CLOCK} : ProcCalls(p)
  BY <1>1, ProcCallsKeep
<1>2. CASE Tick
  BY <1>2, TickKeeps
<1>3. CASE \E p \in User : AlarmOff(p) \/ \E child \in User : AlarmForked(p, child)
  BY <1>3, AlarmsOfOthersKeep
<1>4. CASE Receive
  BY <1>4, ReceiveKeeps
<1>5. CASE \E p \in User, delta \in 0 .. MaxDelta : SetAlarm(p, delta)
  BY <1>5, SetAlarmKeeps
<1>6. CASE Time \/ Reply
  BY <1>6, TimeKeeps, ReplyKeeps
<1>7. CASE CopyLost \/ AddLost \/ SubtractLost
  BY <1>7, CopyLostKeeps, AddLostKeeps, SubtractLostKeeps
<1>8. CASE (\E p \in User : SignalDue(p)) \/ AlarmsDone
  BY <1>8, SignalDueKeeps, AlarmsDoneKeeps
<1>9. CASE Quantum
  BY <1>9, QuantumKeeps
<1>10. CASE UNCHANGED clock_vars
  BY <1>10 DEF clock_vars, vars, clock, CInd, KernelOK, LoopOK, AlarmsOK, Owed, QuantumOK,
               Future, FirstBy
<1> QED BY <1>1, <1>2, <1>3, <1>4, <1>5, <1>6, <1>7, <1>8, <1>9, <1>10 DEF ClockNext, ClockStep

\* The invariant of the clock task in its kernel.
THEOREM ClockInvariant == ClockSpec => []CInd
<1>1. ClockInit => CInd
  BY ClockInitKeeps
<1>2. CInd /\ [ClockNext]_clock_vars => CInd'
  BY ClockNextKeeps
<1> QED BY <1>1, <1>2, PTL DEF ClockSpec

\* Every tick of the clock is added to realtime once, or is still to be: it is in
\* lost_ticks, in CLOCK's message or in the local copy, wherever interrupts fall in
\* do_clocktick().
THEOREM TicksKept == ClockSpec => []TicksConserved
<1>1. CInd => TicksConserved
  <2> SUFFICES ASSUME CInd PROVE TicksConserved
    OBVIOUS
  <2>1. TypeOK
    BY DEF CInd, KernelOK, KInv, Inv, TypeOK
  <2>2. ClockTypeOK
    BY <2>1 DEF CInd, ClockTypeOK, LoopOK, Loop, AlarmsOK, AlarmType, QuantumOK
  <2> QED BY <2>2 DEF CInd, Owed, TicksConserved
<1> QED BY <1>1, ClockInvariant, PTL

\* Whenever CLOCK waits for a message, no alarm that is armed has been passed over.
THEOREM NoAlarmPassed == ClockSpec => []AlarmsAhead
<1>1. CInd => AlarmsAhead
  BY DEF CInd, AlarmsOK, FirstBy, Future, AlarmsAhead
<1> QED BY <1>1, ClockInvariant, PTL
=============================================================================
