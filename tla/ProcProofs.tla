----------------------------- MODULE ProcProofs -----------------------------
(***************************************************************************)
(* The invariants of Proc hold for every number of tasks and processes,    *)
(* every set of calls and every bound on lost ticks.                       *)
(*                                                                         *)
(* The kernel's procedures are operators on kernel states, so there is one *)
(* lemma for each of them: what it leaves alone and which parts of the     *)
(* invariant it preserves.  A step of the specification is then a short    *)
(* composition of those lemmas.                                            *)
(***************************************************************************)
EXTENDS Proc, SeqLemmas, FiniteSetTheorems

\* The constants are what their names say: process numbers are numbers, ANY
\* and IDLE are not processes.
LEMMA Numbering ==
  /\ Proc \subseteq Int
  /\ {HARDWARE, SYSTASK, CLOCK, MM, FS, LOW_USER} \subseteq Proc
  /\ ANY \notin Proc /\ IDLE \notin Proc /\ ANY # IDLE
  /\ \A p \in Proc : QueueOf(p) \in Queue
  /\ Devices \subseteq Proc \ {HARDWARE}
  /\ LAST_LIVE \in Slot
BY ConstantAssumption DEF Proc, Task, Slot, HARDWARE, SYSTASK, CLOCK, MM, FS, LOW_USER, ANY,
   IDLE, QueueOf, Queue, TASK_Q, SERVER_Q, USER_Q

\* What every kernel procedure of this module but interrupt() keeps.
Frame(k, r) == /\ r.getfrom = k.getfrom
               /\ r.callerq = k.callerq
               /\ r.mess = k.mess
               /\ r.pending = k.pending
               /\ r.sig_procs = k.sig_procs

\* Only processes of its own class are on a list, and never HARDWARE.
Classed(k) == \A q \in Queue, p \in Proc :
                p \in ToSet(k.rdy[q]) => q = QueueOf(p) /\ p # HARDWARE

\* pick_proc() makes the head of a list run, or the idle loop.
LEMMA PickProcFacts ==
  ASSUME NEW k \in Kernel, Classed(k)
  PROVE  /\ PickProc(k) \in Kernel
         /\ Frame(k, PickProc(k))
         /\ PickProc(k).flags = k.flags
         /\ PickProc(k).rdy = k.rdy
         /\ AtHead(PickProc(k))
<1> DEFINE r == PickProc(k)
           h == Highest(k)
<1>1. /\ h = IDLE \/ \E q \in Queue : k.rdy[q] # <<>> /\ h = Head(k.rdy[q])
  BY DEF Highest, Queue
<1>2. k.rdy \in [Queue -> Seq(Proc)] /\ k.cur \in Proc \cup {IDLE} /\ k.bill \in Proc
  BY DEF Kernel
<1>3. h # IDLE => /\ h \in Proc /\ k.rdy[QueueOf(h)] # <<>> /\ Head(k.rdy[QueueOf(h)]) = h
  <2> SUFFICES ASSUME h # IDLE
               PROVE  h \in Proc /\ k.rdy[QueueOf(h)] # <<>> /\ Head(k.rdy[QueueOf(h)]) = h
    OBVIOUS
  <2>1. PICK q \in Queue : k.rdy[q] # <<>> /\ h = Head(k.rdy[q])
    BY <1>1
  <2>2. h \in Proc /\ h \in ToSet(k.rdy[q])
    BY <1>2, <2>1, HeadFacts
  <2>3. q = QueueOf(h)
    BY <2>1, <2>2 DEF Classed
  <2> QED BY <2>1, <2>2, <2>3
<1> HIDE DEF h
<1>4. r = [k EXCEPT !.prev = k.cur, !.cur = h,
                    !.bill = IF h = IDLE THEN HARDWARE ELSE IF h >= LOW_USER THEN h ELSE k.bill]
  BY DEF PickProc, h
<1>5. h \in Proc \cup {IDLE}
  BY <1>3
<1>6. (IF h = IDLE THEN HARDWARE ELSE IF h >= LOW_USER THEN h ELSE k.bill) \in Proc
  BY <1>2, <1>5, Numbering
<1>7. r \in Kernel
  BY <1>2, <1>4, <1>5, <1>6 DEF Kernel
<1>8. Frame(k, r) /\ r.flags = k.flags /\ r.rdy = k.rdy /\ r.cur = h
  BY <1>4 DEF Frame, Kernel
<1>9. AtHead(r)
  BY <1>3, <1>8 DEF AtHead
<1> QED BY <1>7, <1>8, <1>9

\* ready() puts a process at the tail of its list and moves nobody else.
LEMMA ReadyFacts ==
  ASSUME NEW k \in Kernel, NEW p \in Proc, AtHead(k)
  PROVE  LET r == Ready(k, p)
         IN  /\ r \in Kernel
             /\ Frame(k, r)
             /\ r.flags = k.flags
             /\ r.rdy = [k.rdy EXCEPT ![QueueOf(p)] = Append(@, p)]
             /\ AtHead(r)
<1> DEFINE r == Ready(k, p)
<1>1. QueueOf(p) \in Queue
  BY Numbering
<1>2. k.rdy \in [Queue -> Seq(Proc)] /\ k.cur \in Proc \cup {IDLE}
  BY DEF Kernel
<1>3. k.rdy[QueueOf(p)] \in Seq(Proc)
  BY <1>1, <1>2
<1>4. /\ Append(k.rdy[QueueOf(p)], p) \in Seq(Proc)
      /\ Append(k.rdy[QueueOf(p)], p) # <<>>
      /\ k.rdy[QueueOf(p)] # <<>> =>
           Head(Append(k.rdy[QueueOf(p)], p)) = Head(k.rdy[QueueOf(p)])
  BY <1>3, AppendFacts
<1>5. r = [k EXCEPT !.rdy = [k.rdy EXCEPT ![QueueOf(p)] = Append(@, p)]]
  BY DEF Ready
<1>6. [k.rdy EXCEPT ![QueueOf(p)] = Append(@, p)] \in [Queue -> Seq(Proc)]
  BY <1>1, <1>2, <1>4
<1>7. r \in Kernel
  BY <1>5, <1>6 DEF Kernel
<1>8. /\ Frame(k, r)
      /\ r.flags = k.flags
      /\ r.rdy = [k.rdy EXCEPT ![QueueOf(p)] = Append(@, p)]
      /\ r.cur = k.cur
  BY <1>5 DEF Frame, Kernel
<1>9. AtHead(r)
  BY <1>1, <1>2, <1>4, <1>8, Numbering DEF AtHead
<1> QED BY <1>7, <1>8, <1>9

\* A process that loses its last flag joins its list.
LEMMA DeblockFacts ==
  ASSUME NEW k \in Kernel, NEW p \in Proc \ {HARDWARE}, NEW f \in k.flags[p],
         Listed(k), AtHead(k)
  PROVE  LET r == Deblock(k, p, f)
         IN  /\ r \in Kernel
             /\ Frame(k, r)
             /\ r.flags = [k.flags EXCEPT ![p] = @ \ {f}]
             /\ Listed(r)
             /\ AtHead(r)
<1> DEFINE m == [k EXCEPT !.flags[p] = @ \ {f}]
           r == Deblock(k, p, f)
           q == QueueOf(p)
<1>1. q \in Queue
  BY Numbering
<1>2. k.rdy \in [Queue -> Seq(Proc)] /\ k.flags \in [Proc -> SUBSET Flag]
  BY DEF Kernel
<1>3. /\ m \in Kernel
      /\ Frame(k, m)
      /\ m.flags = [k.flags EXCEPT ![p] = @ \ {f}]
      /\ m.rdy = k.rdy
      /\ m.cur = k.cur
  BY <1>2 DEF Kernel, Frame
<1>4. AtHead(m)
  BY <1>3 DEF AtHead
<1>5. r = IF m.flags[p] = {} THEN Ready(m, p) ELSE m
  BY DEF Deblock
<1> HIDE DEF m
<1>6. CASE m.flags[p] = {}
  <2>1. /\ Ready(m, p) \in Kernel
        /\ Frame(m, Ready(m, p))
        /\ Ready(m, p).flags = m.flags
        /\ Ready(m, p).rdy = [m.rdy EXCEPT ![q] = Append(@, p)]
        /\ AtHead(Ready(m, p))
    BY <1>3, <1>4, ReadyFacts
  <2>2. p \notin ToSet(k.rdy[q])
    BY <1>1 DEF Listed
  <2>3. /\ ToSet(Append(k.rdy[q], p)) = ToSet(k.rdy[q]) \cup {p}
        /\ IsInjective(Append(k.rdy[q], p))
    <3>1. k.rdy[q] \in Seq(Proc) /\ IsInjective(k.rdy[q])
      BY <1>1, <1>2 DEF Listed
    <3> QED BY <2>2, <3>1, AppendFacts
  <2>4. Listed(Ready(m, p))
    BY <1>1, <1>2, <1>3, <1>6, <2>1, <2>2, <2>3 DEF Listed
  <2>5. Frame(k, Ready(m, p))
    BY <1>3, <2>1 DEF Frame
  <2> QED BY <1>3, <1>5, <1>6, <2>1, <2>4, <2>5
<1>7. CASE m.flags[p] # {}
  <2>1. p \notin ToSet(k.rdy[q])
    BY <1>1 DEF Listed
  <2>2. Listed(m)
    BY <1>1, <1>2, <1>3, <1>7, <2>1 DEF Listed
  <2> QED BY <1>3, <1>4, <1>5, <1>7, <2>2
<1> QED BY <1>6, <1>7

\* A process that gets a flag leaves its list; if it ran, another is picked.
LEMMA BlockFacts ==
  ASSUME NEW k \in Kernel, NEW p \in Proc \ {HARDWARE}, NEW f \in Flag,
         Listed(k), AtHead(k)
  PROVE  LET r == Block(k, p, f)
         IN  /\ r \in Kernel
             /\ Frame(k, r)
             /\ r.flags = [k.flags EXCEPT ![p] = @ \cup {f}]
             /\ Listed(r)
             /\ AtHead(r)
<1> DEFINE m == [k EXCEPT !.flags[p] = @ \cup {f}]
           q == QueueOf(p)
           n == [m EXCEPT !.rdy[q] = RemoveFirst(@, p)]
           r == Block(k, p, f)
<1>1. q \in Queue
  BY Numbering
<1>2. k.rdy \in [Queue -> Seq(Proc)] /\ k.flags \in [Proc -> SUBSET Flag]
  BY DEF Kernel
<1>3. k.rdy[q] \in Seq(Proc) /\ IsInjective(k.rdy[q])
  BY <1>1, <1>2 DEF Listed
<1>4. /\ RemoveFirst(k.rdy[q], p) \in Seq(Proc)
      /\ ToSet(RemoveFirst(k.rdy[q], p)) = ToSet(k.rdy[q]) \ {p}
      /\ IsInjective(RemoveFirst(k.rdy[q], p))
      /\ k.rdy[q] # <<>> /\ Head(k.rdy[q]) # p =>
           /\ RemoveFirst(k.rdy[q], p) # <<>>
           /\ Head(RemoveFirst(k.rdy[q], p)) = Head(k.rdy[q])
  BY <1>3, RemoveFirstFacts
<1>5. /\ m \in Kernel
      /\ Frame(k, m)
      /\ m.flags = [k.flags EXCEPT ![p] = @ \cup {f}]
      /\ m.rdy = k.rdy
      /\ m.cur = k.cur
  BY <1>2 DEF Kernel, Frame
<1>6. /\ n \in Kernel
      /\ Frame(k, n)
      /\ n.flags = m.flags
      /\ n.rdy = [k.rdy EXCEPT ![q] = RemoveFirst(@, p)]
      /\ n.cur = k.cur
  <2>1. [k.rdy EXCEPT ![q] = RemoveFirst(@, p)] \in [Queue -> Seq(Proc)]
    BY <1>1, <1>2, <1>4
  <2> HIDE DEF m
  <2>2. n = [m EXCEPT !.rdy = [k.rdy EXCEPT ![q] = RemoveFirst(@, p)]]
    BY <1>5
  <2> QED BY <1>5, <2>1, <2>2 DEF Kernel, Frame
<1>7. r = IF m.rdy[q] # <<>> /\ Head(m.rdy[q]) = p THEN PickProc(n) ELSE n
  BY DEF Block, Unready
<1> HIDE DEF m, n
<1>8. Listed(n)
  <2>1. n.rdy[q] = RemoveFirst(k.rdy[q], p)
    BY <1>1, <1>2, <1>6
  <2>2. \A x \in Queue : x # q => n.rdy[x] = k.rdy[x]
    BY <1>2, <1>6
  <2>3. \A x \in Queue : IsInjective(n.rdy[x])
    BY <1>4, <2>1, <2>2 DEF Listed
  <2>4. n.flags[p] # {} /\ \A x \in Proc : x # p => n.flags[x] = k.flags[x]
    BY <1>2, <1>5, <1>6
  <2>5. ASSUME NEW x \in Queue, NEW y \in Proc
        PROVE  y \in ToSet(n.rdy[x]) <=> x = QueueOf(y) /\ n.flags[y] = {} /\ y # HARDWARE
    <3>1. y \in ToSet(k.rdy[x]) <=> x = QueueOf(y) /\ k.flags[y] = {} /\ y # HARDWARE
      BY DEF Listed
    <3>2. CASE y = p
      BY <1>4, <2>1, <2>2, <2>4, <3>1, <3>2
    <3>3. CASE y # p
      BY <1>4, <2>1, <2>2, <2>4, <3>1, <3>3
    <3> QED BY <3>2, <3>3
  <2> QED BY <2>3, <2>5 DEF Listed
<1>9. Classed(n)
  BY <1>8 DEF Listed, Classed
<1>10. CASE m.rdy[q] # <<>> /\ Head(m.rdy[q]) = p
  <2>1. /\ PickProc(n) \in Kernel
        /\ Frame(n, PickProc(n))
        /\ PickProc(n).flags = n.flags
        /\ PickProc(n).rdy = n.rdy
        /\ AtHead(PickProc(n))
    BY <1>6, <1>9, PickProcFacts
  <2>2. Listed(PickProc(n))
    BY <1>8, <2>1 DEF Listed
  <2>3. Frame(k, PickProc(n))
    BY <1>6, <2>1 DEF Frame
  <2> QED BY <1>5, <1>6, <1>7, <1>10, <2>1, <2>2, <2>3
<1>11. CASE ~(m.rdy[q] # <<>> /\ Head(m.rdy[q]) = p)
  <2>1. AtHead(n)
    <3> SUFFICES ASSUME k.cur # IDLE
                 PROVE  /\ n.rdy[QueueOf(k.cur)] # <<>>
                        /\ Head(n.rdy[QueueOf(k.cur)]) = k.cur
      BY <1>6 DEF AtHead
    <3>1. k.rdy[QueueOf(k.cur)] # <<>> /\ Head(k.rdy[QueueOf(k.cur)]) = k.cur
      BY DEF AtHead
    <3>2. QueueOf(k.cur) \in Queue
      BY Numbering DEF Kernel
    <3>3. CASE QueueOf(k.cur) = q
      BY <1>1, <1>2, <1>4, <1>5, <1>6, <1>11, <3>1, <3>3
    <3>4. CASE QueueOf(k.cur) # q
      BY <1>2, <1>6, <3>1, <3>2, <3>4
    <3> QED BY <3>3, <3>4
  <2> QED BY <1>5, <1>6, <1>7, <1>8, <1>11, <2>1
<1> QED BY <1>10, <1>11
-----------------------------------------------------------------------------
\* The processes queued on e.
QueuedOn(k, e) == ToSet(k.callerq[e])

\* The inductive invariant of a kernel state, signals aside.  HARDWARE's slot
\* never gets a flag: it neither blocks nor is it queued.
Inv(k) == /\ k \in Kernel /\ k.flags[HARDWARE] = {}
          /\ Listed(k) /\ AtHead(k) /\ Queued(k) /\ Matched(k)

\* The content of a message buffer matters to none of it.
LEMMA MessFacts ==
  ASSUME NEW k \in Kernel, Listed(k), AtHead(k), NEW d \in Proc, NEW a \in Proc,
         NEW m, m = [k EXCEPT !.mess[d] = a]
  PROVE  /\ m \in Kernel /\ Listed(m) /\ AtHead(m)
         /\ m.flags = k.flags /\ m.getfrom = k.getfrom /\ m.callerq = k.callerq
         /\ m.rdy = k.rdy /\ m.cur = k.cur
         /\ m.pending = k.pending /\ m.sig_procs = k.sig_procs
BY DEF Kernel, Listed, AtHead

\* mini_send() keeps the invariant: it delivers to a destination that waits or
\* queues a caller that was running.
LEMMA MiniSendFacts ==
  ASSUME NEW k, Inv(k), NEW c \in Proc, NEW d \in Proc \ {HARDWARE}, c # d,
         c = HARDWARE => Waiting(k, c, d),
         c # HARDWARE => k.flags[c] = {}
  PROVE  LET r == MiniSend(k, c, d)
         IN  /\ Inv(r)
             /\ r.getfrom = k.getfrom /\ r.pending = k.pending /\ r.sig_procs = k.sig_procs
             /\ r.flags = IF Waiting(k, c, d) THEN [k.flags EXCEPT ![d] = @ \ {"RECEIVING"}]
                                              ELSE [k.flags EXCEPT ![c] = @ \cup {"SENDING"}]
             /\ \A e, p \in Proc : p \in QueuedOn(r, e) <=>
                  p \in QueuedOn(k, e) \/ (~Waiting(k, c, d) /\ p = c /\ e = d)
<1> DEFINE r == MiniSend(k, c, d)
<1>1. /\ k \in Kernel /\ k.flags \in [Proc -> SUBSET Flag] /\ k.mess \in [Proc -> Proc]
      /\ k.callerq \in [Proc -> Seq(Proc)]
  BY DEF Inv, Kernel
<1>2. CASE Waiting(k, c, d)
  <2> PICK a \in Proc : a = k.mess[c]
    BY <1>1
  <2> DEFINE m == [k EXCEPT !.mess[d] = a]
  <2>1. /\ m \in Kernel /\ Listed(m) /\ AtHead(m)
        /\ m.flags = k.flags /\ m.getfrom = k.getfrom /\ m.callerq = k.callerq
        /\ m.pending = k.pending /\ m.sig_procs = k.sig_procs
    <3>1. Listed(k) /\ AtHead(k)
      BY <1>1 DEF Inv
    <3> QED BY <1>1, <3>1, MessFacts
  <2>2. r = Deblock(m, d, "RECEIVING")
    BY <1>2 DEF MiniSend
  <2> HIDE DEF m
  <2>3. "RECEIVING" \in m.flags[d]
    BY <1>2, <2>1 DEF Waiting
  <2>4. /\ r \in Kernel /\ Frame(m, r) /\ Listed(r) /\ AtHead(r)
        /\ r.flags = [m.flags EXCEPT ![d] = @ \ {"RECEIVING"}]
    BY <2>1, <2>2, <2>3, DeblockFacts
  <2>5. /\ r.flags = [k.flags EXCEPT ![d] = @ \ {"RECEIVING"}]
        /\ r.getfrom = k.getfrom /\ r.callerq = k.callerq
        /\ r.pending = k.pending /\ r.sig_procs = k.sig_procs
    BY <2>1, <2>4 DEF Frame
  <2>6. \A p \in Proc : /\ "SENDING" \in r.flags[p] <=> "SENDING" \in k.flags[p]
                        /\ "RECEIVING" \in r.flags[p] => "RECEIVING" \in k.flags[p]
    BY <1>1, <2>5
  <2>7. Queued(r)
    BY <2>5, <2>6 DEF Queued, Inv
  <2>8. Matched(r)
    <3> SUFFICES ASSUME NEW e \in Proc, NEW p \in ToSet(r.callerq[e])
                 PROVE  ~Waiting(r, p, e)
      BY DEF Matched
    <3>1. ~Waiting(k, p, e)
      BY <2>5 DEF Inv, Matched
    <3> QED BY <2>5, <2>6, <3>1 DEF Waiting
  <2>9. r.flags[HARDWARE] = {}
    BY <1>1, <2>5 DEF Inv
  <2> QED BY <1>2, <2>4, <2>5, <2>7, <2>8, <2>9 DEF Inv, QueuedOn
<1>3. CASE ~Waiting(k, c, d)
  <2> DEFINE b == Block(k, c, "SENDING")
  <2>1. c # HARDWARE /\ k.flags[c] = {}
    BY <1>3
  <2>2. /\ b \in Kernel /\ Frame(k, b) /\ Listed(b) /\ AtHead(b)
        /\ b.flags = [k.flags EXCEPT ![c] = @ \cup {"SENDING"}]
    BY <2>1, BlockFacts DEF Inv, Flag
  <2>3. r = [b EXCEPT !.callerq[d] = Append(@, c)]
    BY <1>3 DEF MiniSend
  <2> HIDE DEF b
  <2>4. c \notin ToSet(k.callerq[d])
    BY <2>1 DEF Inv, Queued
  <2>5. k.callerq[d] \in Seq(Proc) /\ IsInjective(k.callerq[d])
    BY <1>1 DEF Inv, Queued
  <2>6. /\ Append(k.callerq[d], c) \in Seq(Proc)
        /\ ToSet(Append(k.callerq[d], c)) = ToSet(k.callerq[d]) \cup {c}
        /\ IsInjective(Append(k.callerq[d], c))
    BY <2>4, <2>5, AppendFacts
  <2>7. b.callerq = k.callerq
    BY <2>2 DEF Frame
  <2>8. /\ r \in Kernel
        /\ r.callerq = [k.callerq EXCEPT ![d] = Append(@, c)]
        /\ r.flags = [k.flags EXCEPT ![c] = @ \cup {"SENDING"}]
        /\ r.getfrom = k.getfrom /\ r.pending = k.pending /\ r.sig_procs = k.sig_procs
        /\ Listed(r) /\ AtHead(r)
    <3>1. [k.callerq EXCEPT ![d] = Append(@, c)] \in [Proc -> Seq(Proc)]
      BY <1>1, <2>6
    <3>2. r = [b EXCEPT !.callerq = [k.callerq EXCEPT ![d] = Append(@, c)]]
      BY <2>3, <2>7
    <3>3. r \in Kernel /\ r.rdy = b.rdy /\ r.cur = b.cur /\ r.flags = b.flags
      BY <2>2, <3>1, <3>2 DEF Kernel
    <3> QED BY <2>2, <3>2, <3>3 DEF Kernel, Frame, Listed, AtHead
  <2>9. \A p \in Proc, e \in Proc :
          p \in ToSet(r.callerq[e]) <=> p \in ToSet(k.callerq[e]) \/ (p = c /\ e = d)
    BY <1>1, <2>6, <2>8
  <2>10. \A p \in Proc : /\ "SENDING" \in r.flags[p] <=> "SENDING" \in k.flags[p] \/ p = c
                         /\ "RECEIVING" \in r.flags[p] <=> "RECEIVING" \in k.flags[p]
    BY <1>1, <2>8
  <2>11. Queued(r)
    <3>1. \A e \in Proc : IsInjective(r.callerq[e])
      BY <1>1, <2>6, <2>8 DEF Inv, Queued
    <3>2. \A e \in Proc : c \notin ToSet(k.callerq[e])
      BY <2>1 DEF Inv, Queued
    <3>3. \A p, e, x \in Proc :
            p \in ToSet(r.callerq[e]) /\ p \in ToSet(r.callerq[x]) => e = x
      BY <2>9, <3>2 DEF Inv, Queued
    <3>4. \A p \in Proc :
            "SENDING" \in r.flags[p] <=> \E e \in Proc : p \in ToSet(r.callerq[e])
      BY <2>9, <2>10 DEF Inv, Queued
    <3> QED BY <3>1, <3>3, <3>4 DEF Queued
  <2>12. Matched(r)
    <3> SUFFICES ASSUME NEW e \in Proc, NEW p \in ToSet(r.callerq[e])
                 PROVE  ~Waiting(r, p, e)
      BY DEF Matched
    <3>1. p \in Proc
      BY <2>8, ToSetIn DEF Kernel
    <3>2. ~Waiting(k, p, e)
      BY <1>3, <2>9, <3>1 DEF Matched, Inv
    <3> QED BY <2>8, <2>10, <3>2 DEF Waiting
  <2>13. r.flags[HARDWARE] = {}
    BY <1>1, <2>1, <2>8 DEF Inv
  <2> QED BY <1>3, <2>8, <2>9, <2>11, <2>12, <2>13 DEF Inv, QueuedOn
<1> QED BY <1>2, <1>3
-----------------------------------------------------------------------------
\* Kernel signals: sig_procs counts, and a waiting MM has been told.
Counted(k) == k.sig_procs = Cardinality(k.pending)
Quiet(k)   == Waiting(k, HARDWARE, MM) /\ k.getfrom[MM] = ANY => k.pending = {}

\* The processes with a signal pending can be counted.
LEMMA PendingFinite ==
  ASSUME NEW k \in Kernel
  PROVE  IsFiniteSet(k.pending) /\ Cardinality(k.pending) \in Nat
<1>1. IsFiniteSet(Slot)
  BY ConstantAssumption, FS_Interval DEF Slot
<1>2. k.pending \subseteq Slot
  BY DEF Kernel
<1>3. IsFiniteSet(k.pending)
  BY <1>1, <1>2, FS_Subset
<1> QED BY <1>3, FS_CardinalityType

\* Inv depends on the flags, the blocked calls, the lists and cur_proc only.
SameProcs(k, m) == /\ m.flags = k.flags /\ m.getfrom = k.getfrom
                   /\ m.callerq = k.callerq /\ m.rdy = k.rdy /\ m.cur = k.cur

\* What differs from a good state in no list, queue or flag is a good state.
LEMMA SameProcsFacts ==
  ASSUME NEW k, NEW m \in Kernel, Inv(k), SameProcs(k, m)
  PROVE  Inv(m)
<1>1. Listed(m) /\ AtHead(m)
  BY DEF Inv, Listed, AtHead, SameProcs
<1>2. Queued(m) /\ Matched(m)
  BY DEF Inv, Queued, Matched, Waiting, SameProcs
<1>3. m.flags[HARDWARE] = {}
  BY DEF Inv, SameProcs
<1> QED BY <1>1, <1>2, <1>3 DEF Inv

\* inform() tells MM of one process if MM waits for anybody, so MM never waits
\* for anybody afterwards while a signal is pending.
LEMMA InformFacts ==
  ASSUME NEW k, Inv(k)
  PROVE  LET r == Inform(k)
         IN  /\ Inv(r) /\ (Counted(k) => Counted(r) /\ Quiet(r))
             /\ r.getfrom = k.getfrom
             /\ \/ r.flags = k.flags
                \/ /\ Waiting(k, HARDWARE, MM) /\ k.getfrom[MM] = ANY
                   /\ r.flags = [k.flags EXCEPT ![MM] = @ \ {"RECEIVING"}]
             /\ \A e, p \in Proc : p \in QueuedOn(r, e) <=> p \in QueuedOn(k, e)
<1> DEFINE r == Inform(k)
           told == Waiting(k, HARDWARE, MM) /\ k.getfrom[MM] = ANY /\ k.pending # {}
           p == CHOOSE x \in k.pending : \A y \in k.pending : x <= y
           d == MiniSend(k, HARDWARE, MM)
<1>1. k \in Kernel /\ k.pending \in SUBSET Slot /\ k.sig_procs \in Int
  BY DEF Inv, Kernel
<1>2. CASE ~told
  BY <1>2 DEF Inform, Quiet
<1>3. CASE told
  <2>1. p \in k.pending
    <3>1. k.pending \in SUBSET Nat /\ k.pending # {}
      BY <1>1, <1>3 DEF Slot
    <3> QED BY <3>1, LeastIndex
  <2> HIDE DEF p
  <2>2. HARDWARE \in Proc /\ MM \in Proc \ {HARDWARE} /\ HARDWARE # MM
    BY Numbering DEF HARDWARE, MM
  <2>3. /\ Inv(d)
        /\ d.getfrom = k.getfrom /\ d.pending = k.pending /\ d.sig_procs = k.sig_procs
        /\ d.flags = [k.flags EXCEPT ![MM] = @ \ {"RECEIVING"}]
        /\ \A e, x \in Proc : x \in QueuedOn(d, e) <=> x \in QueuedOn(k, e)
    BY <1>3, <2>2, MiniSendFacts
  <2>4. r = [d EXCEPT !.sig_procs = @ - 1, !.pending = @ \ {p}, !.mess[SYSTASK] = HARDWARE]
    BY <1>3 DEF Inform, p
  <2> HIDE DEF d
  <2> DEFINE ms == [d.mess EXCEPT ![SYSTASK] = HARDWARE]
  <2>5. r = [d EXCEPT !.sig_procs = k.sig_procs - 1, !.pending = k.pending \ {p}, !.mess = ms]
    BY <2>3, <2>4
  <2> HIDE DEF r
  <2>6. k.pending \ {p} \in SUBSET Slot /\ k.sig_procs - 1 \in Int /\ ms \in [Proc -> Proc]
    <3>1. d.mess \in [Proc -> Proc]
      BY <2>3 DEF Inv, Kernel
    <3>2. ms \in [Proc -> Proc]
      BY <2>2, <3>1
    <3>3. k.pending \ {p} \in SUBSET Slot
      BY <1>1
    <3>4. k.sig_procs - 1 \in Int
      BY <1>1
    <3> QED BY <3>2, <3>3, <3>4
  <2> HIDE DEF ms
  <2>7. /\ Inv(r)
        /\ r.flags = d.flags /\ r.getfrom = d.getfrom /\ r.callerq = d.callerq
        /\ r.pending = k.pending \ {p} /\ r.sig_procs = k.sig_procs - 1
    <3>1. /\ r \in Kernel /\ SameProcs(d, r)
          /\ r.flags = d.flags /\ r.getfrom = d.getfrom /\ r.callerq = d.callerq
          /\ r.pending = k.pending \ {p} /\ r.sig_procs = k.sig_procs - 1
      BY <2>3, <2>5, <2>6 DEF Inv, Kernel, SameProcs
    <3> QED BY <2>3, <3>1, SameProcsFacts
  <2>8. Counted(k) => Counted(r)
    <3>1. IsFiniteSet(k.pending) /\ Cardinality(k.pending) \in Nat
      BY <1>1, PendingFinite
    <3>2. Cardinality(k.pending \ {p}) = Cardinality(k.pending) - 1
      BY <2>1, <3>1, FS_RemoveElement
    <3> QED BY <2>7, <3>2 DEF Counted
  <2>9. Quiet(r)
    <3>1. "RECEIVING" \notin r.flags[MM]
      BY <1>1, <2>2, <2>3, <2>7 DEF Kernel
    <3> QED BY <3>1 DEF Quiet, Waiting
  <2>10. \A e, x \in Proc : x \in QueuedOn(r, e) <=> x \in QueuedOn(k, e)
    BY <2>3, <2>7 DEF QueuedOn
  <2> QED BY <1>3, <2>3, <2>7, <2>8, <2>9, <2>10 DEF r
<1> QED BY <1>2, <1>3

\* cause_sig() notes the signal, counting the process once.
LEMMA MarkFacts ==
  ASSUME NEW k, Inv(k), NEW p \in Slot
  PROVE  \E m : /\ CauseSig(k, p) = Inform(m) /\ Inv(m) /\ (Counted(k) => Counted(m))
                /\ m.flags = k.flags /\ m.getfrom = k.getfrom /\ m.callerq = k.callerq
                /\ m.rdy = k.rdy /\ m.cur = k.cur /\ m.mess = k.mess
<1> DEFINE n == IF p \in k.pending THEN k.sig_procs ELSE k.sig_procs + 1
           S == k.pending \cup {p}
           m == [k EXCEPT !.sig_procs = n, !.pending = S]
<1>1. k \in Kernel /\ k.pending \in SUBSET Slot /\ k.sig_procs \in Int
  BY DEF Inv, Kernel
<1>2. S \in SUBSET Slot /\ n \in Int
  BY <1>1
<1>3. /\ Inv(m) /\ m.pending = S /\ m.sig_procs = n
      /\ m.flags = k.flags /\ m.getfrom = k.getfrom /\ m.callerq = k.callerq
      /\ m.rdy = k.rdy /\ m.cur = k.cur /\ m.mess = k.mess
  <2> HIDE DEF S, n
  <2>1. m \in Kernel /\ SameProcs(k, m) /\ m.pending = S /\ m.sig_procs = n /\ m.mess = k.mess
    BY <1>1, <1>2 DEF Kernel, SameProcs
  <2> HIDE DEF m
  <2> QED BY <2>1, SameProcsFacts DEF SameProcs
<1>4. Counted(k) => Counted(m)
  <2>1. IsFiniteSet(k.pending) /\ Cardinality(k.pending) \in Nat
    BY <1>1, PendingFinite
  <2>2. Cardinality(S) = IF p \in k.pending THEN Cardinality(k.pending)
                                            ELSE Cardinality(k.pending) + 1
    BY <2>1, FS_AddElement
  <2> QED BY <1>3, <2>2 DEF Counted
<1>5. CauseSig(k, p) = Inform(m)
  BY DEF CauseSig
<1> HIDE DEF m
<1> QED BY <1>3, <1>4, <1>5

\* cause_sig() counts the process once and tells MM if it can.
LEMMA CauseSigFacts ==
  ASSUME NEW k, Inv(k), Counted(k), NEW p \in Slot
  PROVE  Inv(CauseSig(k, p)) /\ Counted(CauseSig(k, p)) /\ Quiet(CauseSig(k, p))
<1>1. PICK m : CauseSig(k, p) = Inform(m) /\ Inv(m) /\ Counted(m)
  BY MarkFacts
<1> QED BY <1>1, InformFacts
-----------------------------------------------------------------------------
\* The whole inductive invariant of a kernel state.
KInv(k) == Inv(k) /\ Counted(k) /\ Quiet(k)

\* `r' is `k' after the message of w, queued on c, was received.
Taken(k, r, c, s, w) ==
  /\ w \in QueuedOn(k, c) /\ s \in {ANY, w}
  /\ r.flags = [k.flags EXCEPT ![w] = @ \ {"SENDING"}]
  /\ r.mess = [k.mess EXCEPT ![c] = k.mess[w]]
  /\ \A e, p \in Proc : p \in QueuedOn(r, e) <=>
       p \in QueuedOn(k, e) /\ ~(p = w /\ e = c)

\* mini_rec() that finds a sender: the sender leaves the queue and SENDING.
LEMMA FoundFacts ==
  ASSUME NEW k, Inv(k), NEW c \in Proc \ {HARDWARE}, NEW s \in Source,
         Found(k, c, s) # {}
  PROVE  LET r == MiniRec(k, c, s)
         IN  /\ Inv(r) /\ r.getfrom = k.getfrom
             /\ r.pending = k.pending /\ r.sig_procs = k.sig_procs
             /\ \E w \in Proc : Taken(k, r, c, s, w)
<1> DEFINE i == CHOOSE x \in Found(k, c, s) : \A y \in Found(k, c, s) : x <= y
           r == MiniRec(k, c, s)
<1>1. /\ Inv(k) /\ k \in Kernel /\ k.flags \in [Proc -> SUBSET Flag]
      /\ k.mess \in [Proc -> Proc] /\ k.callerq \in [Proc -> Seq(Proc)]
      /\ k.callerq[c] \in Seq(Proc) /\ IsInjective(k.callerq[c])
  BY DEF Inv, Kernel, Queued
<1>2. i \in DOMAIN k.callerq[c] /\ s \in {ANY, k.callerq[c][i]}
  <2>1. Found(k, c, s) \subseteq DOMAIN k.callerq[c]
    BY DEF Found
  <2>2. Found(k, c, s) \in SUBSET Nat
    BY <1>1, <2>1, LenProperties
  <2>3. i \in Found(k, c, s)
    BY <2>2, LeastIndex
  <2> HIDE DEF i
  <2> QED BY <2>1, <2>3 DEF Found
<1> HIDE DEF i
<1> DEFINE w == k.callerq[c][i]
<1>3. w \in ToSet(k.callerq[c]) /\ w \in Proc
  BY <1>1, <1>2, LenProperties DEF ToSet
<1>4. "SENDING" \in k.flags[w] /\ w # HARDWARE
  <2>1. "SENDING" \in k.flags[w]
    BY <1>1, <1>3 DEF Inv, Queued
  <2> QED BY <1>1, <2>1 DEF Inv
<1> DEFINE m == [k EXCEPT !.mess[c] = k.mess[w]]
           b == Deblock(m, w, "SENDING")
<1>5. /\ m \in Kernel /\ Listed(m) /\ AtHead(m)
      /\ m.flags = k.flags /\ m.getfrom = k.getfrom /\ m.callerq = k.callerq
      /\ m.pending = k.pending /\ m.sig_procs = k.sig_procs
      /\ m.mess = [k.mess EXCEPT ![c] = k.mess[w]]
  <2> PICK a \in Proc : a = k.mess[w]
    BY <1>1, <1>3
  <2>1. m = [k EXCEPT !.mess[c] = a]
    OBVIOUS
  <2>2. Listed(k) /\ AtHead(k)
    BY <1>1 DEF Inv
  <2>3. m.mess = [k.mess EXCEPT ![c] = k.mess[w]]
    BY <1>1 DEF Kernel
  <2> HIDE DEF m
  <2> QED BY <1>1, <2>1, <2>2, <2>3, MessFacts
<1>6. r = [b EXCEPT !.callerq[c] = RemoveAt(@, i)]
  BY DEF MiniRec, i
<1> HIDE DEF m, w
<1>7. /\ b \in Kernel /\ Frame(m, b) /\ Listed(b) /\ AtHead(b)
      /\ b.flags = [m.flags EXCEPT ![w] = @ \ {"SENDING"}]
  <2>1. "SENDING" \in m.flags[w] /\ w \in Proc \ {HARDWARE}
    BY <1>3, <1>4, <1>5
  <2> QED BY <1>5, <2>1, DeblockFacts
<1> HIDE DEF b
<1>8. /\ RemoveAt(k.callerq[c], i) \in Seq(Proc)
      /\ ToSet(RemoveAt(k.callerq[c], i)) = ToSet(k.callerq[c]) \ {w}
      /\ IsInjective(RemoveAt(k.callerq[c], i))
  BY <1>1, <1>2, RemoveAtFacts DEF w
<1>9. /\ r \in Kernel
      /\ r.callerq = [k.callerq EXCEPT ![c] = RemoveAt(@, i)]
      /\ r.flags = [k.flags EXCEPT ![w] = @ \ {"SENDING"}]
      /\ r.getfrom = k.getfrom /\ r.pending = k.pending /\ r.sig_procs = k.sig_procs
      /\ r.mess = [k.mess EXCEPT ![c] = k.mess[w]]
      /\ Listed(r) /\ AtHead(r)
  <2>1. [k.callerq EXCEPT ![c] = RemoveAt(@, i)] \in [Proc -> Seq(Proc)]
    BY <1>1, <1>8
  <2>2. r = [b EXCEPT !.callerq = [k.callerq EXCEPT ![c] = RemoveAt(@, i)]]
    BY <1>5, <1>6, <1>7 DEF Frame
  <2>3. r \in Kernel /\ r.rdy = b.rdy /\ r.cur = b.cur /\ r.flags = b.flags
    BY <1>7, <2>1, <2>2 DEF Kernel
  <2>4. r.callerq = [k.callerq EXCEPT ![c] = RemoveAt(@, i)]
    BY <1>7, <2>2 DEF Kernel
  <2>5. /\ r.getfrom = b.getfrom /\ r.pending = b.pending /\ r.sig_procs = b.sig_procs
        /\ r.mess = b.mess
    BY <1>7, <2>2 DEF Kernel
  <2>6. Listed(r) /\ AtHead(r)
    BY <1>7, <2>3 DEF Listed, AtHead
  <2> HIDE DEF r
  <2> QED BY <1>5, <1>7, <2>3, <2>4, <2>5, <2>6 DEF Frame
<1> HIDE DEF r
<1>10. \A p, e \in Proc :
         p \in ToSet(r.callerq[e]) <=> p \in ToSet(k.callerq[e]) /\ ~(p = w /\ e = c)
  BY <1>1, <1>8, <1>9
<1>11. \A p \in Proc : /\ "SENDING" \in r.flags[p] <=> "SENDING" \in k.flags[p] /\ p # w
                       /\ "RECEIVING" \in r.flags[p] <=> "RECEIVING" \in k.flags[p]
  BY <1>1, <1>3, <1>9
<1>12. Queued(r)
  <2>1. \A e \in Proc : IsInjective(r.callerq[e])
    BY <1>1, <1>8, <1>9 DEF Inv, Queued
  <2>2. \A p, e, x \in Proc :
          p \in ToSet(r.callerq[e]) /\ p \in ToSet(r.callerq[x]) => e = x
    BY <1>1, <1>10 DEF Inv, Queued
  <2>3. \A e \in Proc : w \in ToSet(k.callerq[e]) => e = c
    BY <1>1, <1>3 DEF Inv, Queued
  <2>4. \A p \in Proc :
          "SENDING" \in r.flags[p] <=> \E e \in Proc : p \in ToSet(r.callerq[e])
    BY <1>1, <1>3, <1>10, <1>11, <2>3, SMTT(30) DEF Inv, Queued
  <2> QED BY <2>1, <2>2, <2>4 DEF Queued
<1>13. Matched(r)
  <2> SUFFICES ASSUME NEW e \in Proc, NEW p \in ToSet(r.callerq[e])
               PROVE  ~Waiting(r, p, e)
    BY DEF Matched
  <2>1. p \in Proc
    BY <1>9, ToSetIn DEF Kernel
  <2>2. ~Waiting(k, p, e)
    BY <1>1, <1>10, <2>1 DEF Matched, Inv
  <2> QED BY <1>9, <1>11, <2>2 DEF Waiting
<1>14. r.flags[HARDWARE] = {}
  BY <1>1, <1>4, <1>9, Numbering DEF Inv
<1>15. s \in {ANY, w}
  BY <1>2 DEF w
<1>16. Inv(r)
  BY <1>9, <1>12, <1>13, <1>14 DEF Inv
<1>17. Taken(k, r, c, s, w)
  BY <1>3, <1>9, <1>10, <1>15 DEF QueuedOn, Taken
<1> QED BY <1>3, <1>9, <1>16, <1>17 DEF r

\* A mini_rec() that finds a sender keeps the whole invariant.
LEMMA MiniRecFound ==
  ASSUME NEW k, KInv(k), NEW c \in Proc \ {HARDWARE}, NEW s \in Source,
         Found(k, c, s) # {}
  PROVE  LET r == MiniRec(k, c, s)
         IN  /\ KInv(r) /\ r.getfrom = k.getfrom
             /\ \E w \in Proc :
                  /\ w \in QueuedOn(k, c) /\ s \in {ANY, w}
                  /\ r.flags = [k.flags EXCEPT ![w] = @ \ {"SENDING"}]
                  /\ \A e, p \in Proc : p \in QueuedOn(r, e) <=>
                       p \in QueuedOn(k, e) /\ ~(p = w /\ e = c)
<1> DEFINE r == MiniRec(k, c, s)
<1>1. Inv(k) /\ k.flags \in [Proc -> SUBSET Flag]
  BY DEF KInv, Inv, Kernel
<1>2. /\ Inv(r) /\ r.getfrom = k.getfrom
      /\ r.pending = k.pending /\ r.sig_procs = k.sig_procs
      /\ \E w \in Proc : Taken(k, r, c, s, w)
  BY <1>1, FoundFacts
<1> HIDE DEF r
<1>3. PICK w \in Proc : Taken(k, r, c, s, w)
  BY <1>2
<1>4. "RECEIVING" \in r.flags[MM] => "RECEIVING" \in k.flags[MM]
  BY <1>1, <1>3, Numbering DEF Taken
<1>5. Counted(r) /\ Quiet(r)
  BY <1>2, <1>4 DEF Counted, Quiet, Waiting, KInv
<1> QED BY <1>2, <1>3, <1>5 DEF KInv, Taken, r

\* The caller of a mini_rec() that finds nobody blocks, before MM is told of a signal.
LEMMA AwaitBlock ==
  ASSUME NEW k, Inv(k), NEW c \in Proc \ {HARDWARE}, NEW s \in Source,
         "RECEIVING" \notin k.flags[c], Found(k, c, s) = {},
         NEW b, b = Block([k EXCEPT !.getfrom[c] = s], c, "RECEIVING")
  PROVE  /\ Inv(b)
         /\ b.getfrom = [k.getfrom EXCEPT ![c] = s] /\ b.callerq = k.callerq
         /\ b.flags = [k.flags EXCEPT ![c] = @ \cup {"RECEIVING"}]
         /\ b.pending = k.pending /\ b.sig_procs = k.sig_procs /\ b.mess = k.mess
         /\ MiniRec(k, c, s) = IF b.sig_procs > 0 /\ c = MM /\ s = ANY THEN Inform(b) ELSE b
<1> DEFINE m == [k EXCEPT !.getfrom[c] = s]
<1>1. /\ Inv(k) /\ k \in Kernel /\ k.flags \in [Proc -> SUBSET Flag]
      /\ k.getfrom \in [Proc -> Source] /\ k.callerq \in [Proc -> Seq(Proc)]
  BY DEF Inv, Kernel
<1>2. /\ m \in Kernel /\ m.getfrom = [k.getfrom EXCEPT ![c] = s]
      /\ m.flags = k.flags /\ m.callerq = k.callerq /\ m.rdy = k.rdy /\ m.cur = k.cur
      /\ m.pending = k.pending /\ m.sig_procs = k.sig_procs /\ m.mess = k.mess
  BY <1>1 DEF Kernel
<1>3. Listed(m) /\ AtHead(m)
  BY <1>1, <1>2 DEF Inv, Listed, AtHead
<1>4. MiniRec(k, c, s) = IF b.sig_procs > 0 /\ c = MM /\ s = ANY THEN Inform(b) ELSE b
  BY DEF MiniRec
<1>5. b = Block(m, c, "RECEIVING")
  OBVIOUS
<1> HIDE DEF m
<1>6. /\ b \in Kernel /\ Frame(m, b) /\ Listed(b) /\ AtHead(b)
      /\ b.flags = [m.flags EXCEPT ![c] = @ \cup {"RECEIVING"}]
  <2> DEFINE r == Block(m, c, "RECEIVING")
  <2>1. /\ r \in Kernel /\ Frame(m, r) /\ Listed(r) /\ AtHead(r)
        /\ r.flags = [m.flags EXCEPT ![c] = @ \cup {"RECEIVING"}]
    BY <1>2, <1>3, BlockFacts DEF Flag
  <2> HIDE DEF r
  <2>2. b = r
    BY <1>5 DEF r
  <2> QED BY <2>1, <2>2
<1>7. /\ b.getfrom = [k.getfrom EXCEPT ![c] = s] /\ b.callerq = k.callerq
      /\ b.flags = [k.flags EXCEPT ![c] = @ \cup {"RECEIVING"}]
      /\ b.pending = k.pending /\ b.sig_procs = k.sig_procs /\ b.mess = k.mess
  BY <1>2, <1>6 DEF Frame
<1>8. \A p \in Proc : /\ "SENDING" \in b.flags[p] <=> "SENDING" \in k.flags[p]
                      /\ "RECEIVING" \in b.flags[p] <=> "RECEIVING" \in k.flags[p] \/ p = c
  BY <1>1, <1>7
<1>9. Queued(b)
  BY <1>1, <1>7, <1>8 DEF Inv, Queued
<1>10. Matched(b)
  <2> SUFFICES ASSUME NEW e \in Proc, NEW p \in ToSet(b.callerq[e])
               PROVE  ~Waiting(b, p, e)
    BY DEF Matched
  <2>1. CASE e = c
    <3>1. PICK i \in DOMAIN k.callerq[c] : p = k.callerq[c][i]
      BY <1>7, <2>1 DEF ToSet
    <3>2. s \notin {ANY, p}
      BY <3>1 DEF Found
    <3> QED BY <1>1, <1>7, <2>1, <3>2 DEF Waiting
  <2>2. CASE e # c
    <3>1. ~Waiting(k, p, e)
      BY <1>1, <1>7 DEF Inv, Matched
    <3> QED BY <1>1, <1>7, <2>2, <3>1 DEF Waiting
  <2> QED BY <2>1, <2>2
<1>11. b.flags[HARDWARE] = {}
  BY <1>1, <1>7, Numbering DEF Inv
<1>12. Inv(b)
  BY <1>6, <1>7, <1>9, <1>10, <1>11 DEF Inv
<1> QED BY <1>4, <1>7, <1>12

\* AwaitBlock, with the count of the signals.
LEMMA AwaitFacts ==
  ASSUME NEW k, KInv(k), NEW c \in Proc \ {HARDWARE}, NEW s \in Source,
         "RECEIVING" \notin k.flags[c], Found(k, c, s) = {},
         NEW b, b = Block([k EXCEPT !.getfrom[c] = s], c, "RECEIVING")
  PROVE  /\ Inv(b) /\ Counted(b)
         /\ b.getfrom = [k.getfrom EXCEPT ![c] = s] /\ b.callerq = k.callerq
         /\ b.flags = [k.flags EXCEPT ![c] = @ \cup {"RECEIVING"}]
         /\ b.pending = k.pending /\ b.sig_procs = k.sig_procs /\ b.mess = k.mess
         /\ MiniRec(k, c, s) = IF b.sig_procs > 0 /\ c = MM /\ s = ANY THEN Inform(b) ELSE b
<1>1. Inv(k) /\ Counted(k)
  BY DEF KInv
<1>2. /\ Inv(b)
      /\ b.getfrom = [k.getfrom EXCEPT ![c] = s] /\ b.callerq = k.callerq
      /\ b.flags = [k.flags EXCEPT ![c] = @ \cup {"RECEIVING"}]
      /\ b.pending = k.pending /\ b.sig_procs = k.sig_procs /\ b.mess = k.mess
      /\ MiniRec(k, c, s) = IF b.sig_procs > 0 /\ c = MM /\ s = ANY THEN Inform(b) ELSE b
  BY <1>1, AwaitBlock
<1> QED BY <1>1, <1>2 DEF Counted

\* mini_rec() that finds nobody: the caller blocks, and a blocking MM is told.
LEMMA BlockedFacts ==
  ASSUME NEW k, Inv(k), NEW c \in Proc \ {HARDWARE}, NEW s \in Source,
         "RECEIVING" \notin k.flags[c], Found(k, c, s) = {}
  PROVE  LET r == MiniRec(k, c, s)
         IN  /\ Inv(r)
             /\ KInv(k) => Counted(r) /\ Quiet(r)
             /\ r.getfrom = [k.getfrom EXCEPT ![c] = s]
             /\ \/ r.flags = [k.flags EXCEPT ![c] = @ \cup {"RECEIVING"}]
                \/ c = MM /\ s = ANY /\ r.flags = k.flags
             /\ \A e, p \in Proc : p \in QueuedOn(r, e) <=> p \in QueuedOn(k, e)
<1> DEFINE b == Block([k EXCEPT !.getfrom[c] = s], c, "RECEIVING")
<1>1. /\ k.flags \in [Proc -> SUBSET Flag] /\ k.getfrom \in [Proc -> Source]
      /\ k \in Kernel
  BY DEF Inv, Kernel
<1>2. /\ Inv(b)
      /\ b.getfrom = [k.getfrom EXCEPT ![c] = s] /\ b.callerq = k.callerq
      /\ b.flags = [k.flags EXCEPT ![c] = @ \cup {"RECEIVING"}]
      /\ b.pending = k.pending /\ b.sig_procs = k.sig_procs
      /\ MiniRec(k, c, s) = IF b.sig_procs > 0 /\ c = MM /\ s = ANY THEN Inform(b) ELSE b
  BY AwaitBlock
<1> HIDE DEF b
<1>3. KInv(k) => Counted(b)
  BY <1>2 DEF KInv, Counted
<1>4. CASE b.sig_procs > 0 /\ c = MM /\ s = ANY
  <2> DEFINE r == Inform(b)
  <2>1. MiniRec(k, c, s) = r
    BY <1>2, <1>4
  <2>2. /\ Inv(r) /\ (Counted(b) => Counted(r) /\ Quiet(r)) /\ r.getfrom = b.getfrom
        /\ \/ r.flags = b.flags
           \/ r.flags = [b.flags EXCEPT ![MM] = @ \ {"RECEIVING"}]
        /\ \A e, p \in Proc : p \in QueuedOn(r, e) <=> p \in QueuedOn(b, e)
    BY <1>2, InformFacts
  <2> HIDE DEF r
  <2>3. (k.flags[c] \cup {"RECEIVING"}) \ {"RECEIVING"} = k.flags[c]
    OBVIOUS
  <2>4. [b.flags EXCEPT ![MM] = @ \ {"RECEIVING"}] = k.flags
    BY <1>1, <1>2, <1>4, <2>3
  <2> QED BY <1>2, <1>3, <1>4, <2>1, <2>2, <2>4 DEF QueuedOn
<1>5. CASE ~(b.sig_procs > 0 /\ c = MM /\ s = ANY)
  <2>1. KInv(k) => Quiet(b)
    <3> SUFFICES ASSUME KInv(k) PROVE Quiet(b)
      OBVIOUS
    <3>1. CASE c # MM
      <4>1. b.flags[MM] = k.flags[MM] /\ b.getfrom[MM] = k.getfrom[MM]
        BY <1>1, <1>2, <3>1, Numbering
      <4> QED BY <1>2, <4>1 DEF Quiet, Waiting, KInv
    <3>2. CASE c = MM /\ s # ANY
      BY <1>1, <1>2, <3>2 DEF Quiet
    <3>3. CASE c = MM /\ s = ANY
      <4>1. ~(Cardinality(k.pending) > 0) /\ Cardinality(k.pending) \in Nat
        BY <1>1, <1>2, <1>5, <3>3, PendingFinite DEF KInv, Counted
      <4>2. Cardinality(k.pending) = 0
        BY <4>1
      <4>3. k.pending = {}
        BY <1>1, <4>2, PendingFinite, FS_EmptySet
      <4> QED BY <1>2, <4>3 DEF Quiet
    <3> QED BY <3>1, <3>2, <3>3
  <2>2. MiniRec(k, c, s) = b
    BY <1>2, <1>5
  <2> QED BY <1>2, <1>3, <2>1, <2>2 DEF QueuedOn
<1> QED BY <1>4, <1>5

\* A mini_rec() that blocks keeps the whole invariant.
LEMMA MiniRecBlocked ==
  ASSUME NEW k, KInv(k), NEW c \in Proc \ {HARDWARE}, NEW s \in Source,
         "RECEIVING" \notin k.flags[c], Found(k, c, s) = {}
  PROVE  LET r == MiniRec(k, c, s)
         IN  /\ KInv(r)
             /\ r.getfrom = [k.getfrom EXCEPT ![c] = s]
             /\ \/ r.flags = [k.flags EXCEPT ![c] = @ \cup {"RECEIVING"}]
                \/ c = MM /\ s = ANY /\ r.flags = k.flags
             /\ \A e, p \in Proc : p \in QueuedOn(r, e) <=> p \in QueuedOn(k, e)
<1>1. Inv(k)
  BY DEF KInv
<1> QED BY <1>1, BlockedFacts DEF KInv

\* So mini_rec() keeps it.
LEMMA MiniRecFacts ==
  ASSUME NEW k, KInv(k), NEW c \in Proc \ {HARDWARE}, NEW s \in Source,
         "RECEIVING" \notin k.flags[c]
  PROVE  KInv(MiniRec(k, c, s))
BY MiniRecFound, MiniRecBlocked
-----------------------------------------------------------------------------
\* KInv speaks of a kernel state's fields other than mess, prev and bill.
LEMMA SameKernel ==
  ASSUME NEW k, NEW m \in Kernel, KInv(k), SameProcs(k, m),
         m.pending = k.pending, m.sig_procs = k.sig_procs
  PROVE  KInv(m)
<1>1. Inv(m)
  BY SameProcsFacts DEF KInv
<1>2. Counted(m) /\ Quiet(m)
  BY DEF KInv, Counted, Quiet, Waiting, SameProcs
<1> QED BY <1>1, <1>2 DEF KInv

\* The running process is a process, not HARDWARE, and it is not blocked.
LEMMA RunningFacts ==
  ASSUME NEW k, Inv(k), k.cur # IDLE
  PROVE  k.cur \in Proc \ {HARDWARE} /\ k.flags[k.cur] = {}
<1>1. k.cur \in Proc /\ QueueOf(k.cur) \in Queue /\ k.rdy \in [Queue -> Seq(Proc)]
  BY Numbering DEF Inv, Kernel
<1>2. /\ k.rdy[QueueOf(k.cur)] # <<>>
      /\ Head(k.rdy[QueueOf(k.cur)]) = k.cur
  BY DEF Inv, AtHead
<1>3. k.cur \in ToSet(k.rdy[QueueOf(k.cur)])
  BY <1>1, <1>2, HeadFacts
<1> QED BY <1>1, <1>3 DEF Inv, Listed

\* mini_send() by a running process, or by HARDWARE for a process that waits
\* for it, keeps the whole invariant.
LEMMA SendKeeps ==
  ASSUME NEW k, KInv(k), NEW c \in Proc, NEW d \in Proc \ {HARDWARE}, c # d,
         k.flags[c] = {}, c = HARDWARE => Waiting(k, c, d)
  PROVE  KInv(MiniSend(k, c, d)) /\ "RECEIVING" \notin MiniSend(k, c, d).flags[c]
<1> DEFINE r == MiniSend(k, c, d)
<1>1. Inv(k) /\ k.flags \in [Proc -> SUBSET Flag]
  BY DEF KInv, Inv, Kernel
<1>2. /\ Inv(r)
      /\ r.getfrom = k.getfrom /\ r.pending = k.pending /\ r.sig_procs = k.sig_procs
      /\ r.flags = IF Waiting(k, c, d) THEN [k.flags EXCEPT ![d] = @ \ {"RECEIVING"}]
                                       ELSE [k.flags EXCEPT ![c] = @ \cup {"SENDING"}]
  BY <1>1, MiniSendFacts
<1> HIDE DEF r
<1>3. \A p \in Proc : "RECEIVING" \in r.flags[p] => "RECEIVING" \in k.flags[p]
  BY <1>1, <1>2
<1>4. Counted(r)
  BY <1>2 DEF KInv, Counted
<1>5. Quiet(r)
  BY <1>2, <1>3, Numbering DEF KInv, Quiet, Waiting
<1> QED BY <1>2, <1>3, <1>4, <1>5 DEF KInv, r

\* A caller runs, and its destination is another process: mini_send() checks it for
\* users and trusts the rest.
LEMMA CallerOwn ==
  ASSUME NEW k, Inv(k), NEW call \in Calls, k.cur = call[2],
         call[1] # RECEIVE => call[3] # ANY /\ ~SendFails(k, call[2], call[3]),
         NEW own, own = [k EXCEPT !.mess[call[2]] = call[2]]
  PROVE  /\ k.flags[call[2]] = {} /\ Inv(own) /\ own.flags = k.flags
         /\ own.getfrom = k.getfrom /\ own.callerq = k.callerq /\ own.cur = k.cur
         /\ own.pending = k.pending /\ own.sig_procs = k.sig_procs
         /\ call[1] # RECEIVE => call[3] \in Proc \ {HARDWARE} /\ call[2] # call[3]
<1> DEFINE c  == call[2]
           sd == call[3]
<1>1. /\ call[1] \in {SEND, RECEIVE, BOTH} /\ c \in Proc \ {HARDWARE} /\ sd \in Source
      /\ c < LOW_USER => TrustedCall(call)
  BY ConstantAssumption
<1>2. k.flags[c] = {}
  <2>1. k.cur # IDLE
    BY <1>1, Numbering
  <2> QED BY <2>1, RunningFacts
<1>3. /\ Inv(own) /\ own.flags = k.flags
      /\ own.getfrom = k.getfrom /\ own.callerq = k.callerq /\ own.cur = k.cur
      /\ own.pending = k.pending /\ own.sig_procs = k.sig_procs
  <2>1. k \in Kernel /\ Listed(k) /\ AtHead(k) /\ c \in Proc
    BY <1>1, <1>2 DEF Inv
  <2>2. /\ own \in Kernel /\ SameProcs(k, own)
        /\ own.pending = k.pending /\ own.sig_procs = k.sig_procs
    BY <2>1, MessFacts DEF SameProcs
  <2> QED BY <2>2, SameProcsFacts DEF SameProcs
<1>4. call[1] # RECEIVE => sd \in Proc \ {HARDWARE} /\ c # sd
  <2> SUFFICES ASSUME call[1] # RECEIVE
               PROVE  sd \in Proc \ {HARDWARE} /\ c # sd
    OBVIOUS
  <2>1. CASE c < LOW_USER
    BY <1>1, <2>1 DEF TrustedCall
  <2>2. CASE ~(c < LOW_USER)
    <3> c \in Int
      BY <1>1, Numbering
    <3>1. c >= LOW_USER
      BY <2>2 DEF LOW_USER
    <3>2. sd \in {FS, MM}
      BY <3>1 DEF SendFails
    <3> QED BY <3>1, <3>2, Numbering DEF FS, MM, LOW_USER, HARDWARE
  <2> QED BY <2>1, <2>2
<1> QED BY <1>2, <1>3, <1>4

\* CallerOwn, with the whole invariant.
LEMMA CallerFacts ==
  ASSUME NEW k, KInv(k), NEW call \in Calls, k.cur = call[2],
         call[1] # RECEIVE => call[3] # ANY /\ ~SendFails(k, call[2], call[3]),
         NEW own, own = [k EXCEPT !.mess[call[2]] = call[2]]
  PROVE  /\ k.flags[call[2]] = {} /\ KInv(own) /\ own.flags = k.flags
         /\ own.getfrom = k.getfrom /\ own.callerq = k.callerq
         /\ call[1] # RECEIVE => call[3] \in Proc \ {HARDWARE} /\ call[2] # call[3]
<1>1. Inv(k)
  BY DEF KInv
<1>2. /\ k.flags[call[2]] = {} /\ Inv(own) /\ own.flags = k.flags
      /\ own.getfrom = k.getfrom /\ own.callerq = k.callerq
      /\ own.pending = k.pending /\ own.sig_procs = k.sig_procs
      /\ call[1] # RECEIVE => call[3] \in Proc \ {HARDWARE} /\ call[2] # call[3]
  BY <1>1, CallerOwn
<1>3. Counted(own) /\ Quiet(own)
  BY <1>2 DEF KInv, Counted, Quiet, Waiting
<1> QED BY <1>2, <1>3 DEF KInv

\* Every system call that is not refused keeps the invariant.
LEMMA SysCallKeeps ==
  ASSUME NEW k, KInv(k), NEW call \in Calls, k.cur = call[2],
         call[1] # BOTH => call[2] < LOW_USER,
         call[1] # RECEIVE => call[3] # ANY /\ ~SendFails(k, call[2], call[3])
  PROVE  KInv(SysCallResult(k, call[1], call[2], call[3]))
<1> DEFINE c  == call[2]
           sd == call[3]
           own == [k EXCEPT !.mess[c] = c]
<1>1. call[1] \in {SEND, RECEIVE, BOTH} /\ c \in Proc \ {HARDWARE} /\ sd \in Source
  BY ConstantAssumption
<1>2. /\ k.flags[c] = {} /\ KInv(own) /\ own.flags = k.flags
      /\ call[1] # RECEIVE => sd \in Proc \ {HARDWARE} /\ c # sd
  BY CallerFacts
<1> HIDE DEF own
<1>5. call[1] # RECEIVE => /\ KInv(MiniSend(own, c, sd))
                           /\ "RECEIVING" \notin MiniSend(own, c, sd).flags[c]
  BY <1>1, <1>2, SendKeeps
<1>6. CASE call[1] = SEND
  BY <1>5, <1>6 DEF SysCallResult, SEND, RECEIVE, BOTH, own
<1>7. CASE call[1] = RECEIVE
  <2>1. KInv(MiniRec(k, c, sd))
    BY <1>1, <1>2, MiniRecFacts
  <2> QED BY <1>7, <2>1 DEF SysCallResult, SEND, RECEIVE, BOTH
<1>8. CASE call[1] = BOTH
  <2>1. KInv(MiniRec(MiniSend(own, c, sd), c, sd))
    BY <1>1, <1>5, <1>8, MiniRecFacts DEF BOTH, RECEIVE
  <2> QED BY <1>8, <2>1 DEF SysCallResult, SEND, RECEIVE, BOTH, own
<1> QED BY <1>1, <1>6, <1>7, <1>8
-----------------------------------------------------------------------------
\* A kernel state whose lists were filled or rotated and whose cur_proc was
\* then chosen by pick_proc() keeps the invariant.
LEMMA PickFrame ==
  ASSUME NEW k \in Kernel, Listed(k), k.flags[HARDWARE] = {}, Queued(k), Matched(k)
  PROVE  Inv(PickProc(k)) /\ Frame(k, PickProc(k)) /\ PickProc(k).flags = k.flags
<1> DEFINE r == PickProc(k)
<1>1. Classed(k)
  BY DEF Listed, Classed
<1>2. r \in Kernel /\ Frame(k, r) /\ r.flags = k.flags /\ r.rdy = k.rdy /\ AtHead(r)
  BY <1>1, PickProcFacts
<1> HIDE DEF r
<1>3. Listed(r)
  BY <1>2 DEF Listed
<1>4. Queued(r) /\ Matched(r)
  BY <1>2 DEF Frame, Queued, Matched, Waiting
<1> QED BY <1>2, <1>3, <1>4 DEF Inv, r

\* pick_proc() keeps the whole invariant.
LEMMA PickKeeps ==
  ASSUME NEW k \in Kernel, Listed(k), k.flags[HARDWARE] = {}, Queued(k), Matched(k),
         Counted(k), Quiet(k)
  PROVE  KInv(PickProc(k))
<1> DEFINE r == PickProc(k)
<1>1. Inv(r) /\ Frame(k, r) /\ r.flags = k.flags
  BY PickFrame
<1> HIDE DEF r
<1>2. Counted(r) /\ Quiet(r)
  BY <1>1 DEF Frame, Counted, Quiet, Waiting
<1> QED BY <1>1, <1>2 DEF KInv, r

\* sched() moves the user at the head of its list to the tail.
LEMMA SchedFrame ==
  ASSUME NEW k, Inv(k)
  PROVE  Inv(Sched(k)) /\ Frame(k, Sched(k)) /\ Sched(k).flags = k.flags
<1>1. CASE k.rdy[USER_Q] = <<>>
  BY <1>1 DEF Sched, Frame
<1>2. CASE k.rdy[USER_Q] # <<>>
  <2> DEFINE s == Append(Tail(k.rdy[USER_Q]), Head(k.rdy[USER_Q]))
             m == [k EXCEPT !.rdy[USER_Q] = s]
  <2>1. /\ k \in Kernel /\ k.rdy \in [Queue -> Seq(Proc)] /\ USER_Q \in Queue
        /\ k.rdy[USER_Q] \in Seq(Proc) /\ IsInjective(k.rdy[USER_Q])
    BY DEF Inv, Kernel, Listed, Queue
  <2>2. s \in Seq(Proc) /\ ToSet(s) = ToSet(k.rdy[USER_Q]) /\ IsInjective(s)
    BY <1>2, <2>1, RotateFacts
  <2>3. Sched(k) = PickProc(m)
    BY <1>2 DEF Sched
  <2> HIDE DEF s
  <2>4. /\ m \in Kernel /\ Frame(k, m) /\ m.flags = k.flags
        /\ m.rdy = [k.rdy EXCEPT ![USER_Q] = s]
    BY <2>1, <2>2 DEF Kernel, Frame
  <2> HIDE DEF m
  <2>5. Listed(m)
    <3>1. \A q \in Queue : /\ ToSet(m.rdy[q]) = ToSet(k.rdy[q])
                           /\ IsInjective(m.rdy[q]) <=> IsInjective(k.rdy[q])
      BY <2>1, <2>2, <2>4
    <3> QED BY <2>4, <3>1 DEF Inv, Listed
  <2>6. Queued(m) /\ Matched(m) /\ m.flags[HARDWARE] = {}
    BY <2>4 DEF Inv, Frame, Queued, Matched, Waiting
  <2>7. Inv(PickProc(m)) /\ Frame(m, PickProc(m)) /\ PickProc(m).flags = m.flags
    BY <2>4, <2>5, <2>6, PickFrame
  <2>8. Frame(k, PickProc(m))
    BY <2>4, <2>7 DEF Frame
  <2> QED BY <2>3, <2>4, <2>7, <2>8
<1> QED BY <1>1, <1>2

\* sched() keeps the whole invariant.
LEMMA SchedKeeps ==
  ASSUME NEW k, KInv(k)
  PROVE  KInv(Sched(k))
<1> DEFINE r == Sched(k)
<1>1. Inv(r) /\ Frame(k, r) /\ r.flags = k.flags
  BY SchedFrame DEF KInv
<1> HIDE DEF r
<1>2. Counted(r) /\ Quiet(r)
  BY <1>1 DEF KInv, Frame, Counted, Quiet, Waiting
<1> QED BY <1>1, <1>2 DEF KInv, r
-----------------------------------------------------------------------------
\* A scan order lists each task it readies once.
LEMMA ScanFacts ==
  ASSUME NEW S \in SUBSET Task, NEW o \in ScanOrders(S)
  PROVE  o \in Seq(Proc) /\ ToSet(o) = S /\ IsInjective(o)
<1>1. IsFiniteSet(Task)
  <2>1. -NR_TASKS \in Int
    BY ConstantAssumption
  <2> QED BY <2>1, FS_Interval DEF Task
<1>2. Cardinality(S) \in Nat
  BY <1>1, FS_Subset, FS_CardinalityType
<1> DEFINE n == Cardinality(S)
<1>3. /\ o \in [1 .. n -> S] /\ ToSet(o) = S
      /\ \A i, j \in DOMAIN o : i < j => o[i] > o[j]
  BY DEF ScanOrders
<1> HIDE DEF n
<1>4. S \subseteq Proc /\ S \subseteq Int
  BY Numbering DEF Proc
<1>5. o \in Seq(Proc)
  <2>1. o \in [1 .. n -> Proc] /\ n \in Nat
    BY <1>2, <1>3, <1>4 DEF n
  <2> QED BY <2>1, IsASeq
<1>6. IsInjective(o)
  <2> SUFFICES ASSUME NEW i \in 1 .. n, NEW j \in 1 .. n, o[i] = o[j], i # j
               PROVE  FALSE
    BY <1>3 DEF IsInjective
  <2>1. n \in Nat /\ o[i] \in Int /\ o[j] \in Int
    BY <1>2, <1>3, <1>4 DEF n
  <2>2. i < j \/ j < i
    BY <2>1
  <2>3. o[i] > o[j] \/ o[j] > o[i]
    BY <1>3, <2>2
  <2> QED BY <2>1, <2>3
<1> QED BY <1>3, <1>5, <1>6

\* `r' is `k' after the tasks of S got a message of HARDWARE.
HandedOut(k, r, S) ==
  /\ r.getfrom = k.getfrom /\ r.callerq = k.callerq /\ r.cur = k.cur
  /\ r.pending = k.pending /\ r.sig_procs = k.sig_procs
  /\ \A p \in Proc \ S : r.flags[p] = k.flags[p] /\ r.mess[p] = k.mess[p]
  /\ \A p \in S : r.flags[p] = k.flags[p] \ {"RECEIVING"}

\* interrupt() hands out pending messages: a task that waited for one loses
\* RECEIVING, and joins its list if it has no other flag.
LEMMA PendingKeeps ==
  ASSUME NEW k, Inv(k), NEW S \in SUBSET (Task \ {HARDWARE}),
         \A t \in S : Waiting(k, HARDWARE, t),
         NEW o \in Seq(Proc), IsInjective(o),
         ToSet(o) = {t \in S : k.flags[t] = {"RECEIVING"}}
  PROVE  LET r == SendPending(k, S, o)
         IN  Inv(r) /\ HandedOut(k, r, S)
<1> DEFINE r  == SendPending(k, S, o)
           fl == [p \in Proc |-> IF p \in S THEN k.flags[p] \ {"RECEIVING"} ELSE k.flags[p]]
           ms == [p \in Proc |-> IF p \in S THEN HARDWARE ELSE k.mess[p]]
           tq == k.rdy[TASK_Q] \o o
           rd == [k.rdy EXCEPT ![TASK_Q] = tq]
<1>1. /\ Inv(k) /\ k \in Kernel /\ k.flags \in [Proc -> SUBSET Flag]
      /\ k.mess \in [Proc -> Proc] /\ k.rdy \in [Queue -> Seq(Proc)]
      /\ TASK_Q \in Queue /\ k.rdy[TASK_Q] \in Seq(Proc) /\ IsInjective(k.rdy[TASK_Q])
  BY DEF Inv, Kernel, Listed, Queue
<1>2. S \subseteq Proc /\ \A t \in S : QueueOf(t) = TASK_Q /\ "RECEIVING" \in k.flags[t]
  <2>1. \A t \in Task : QueueOf(t) = TASK_Q
    BY ConstantAssumption DEF Task, QueueOf
  <2>2. \A t \in S : "RECEIVING" \in k.flags[t]
    BY DEF Waiting
  <2> QED BY <2>1, <2>2 DEF Proc
<1>3. /\ tq \in Seq(Proc) /\ ToSet(tq) = ToSet(k.rdy[TASK_Q]) \cup ToSet(o)
      /\ IsInjective(tq)
      /\ k.rdy[TASK_Q] # <<>> => tq # <<>> /\ Head(tq) = Head(k.rdy[TASK_Q])
  <2>1. ToSet(k.rdy[TASK_Q]) \cap ToSet(o) = {}
    BY <1>1, <1>2 DEF Inv, Listed
  <2> PICK a \in Seq(Proc) : a = k.rdy[TASK_Q]
    BY <1>1
  <2>2. IsInjective(a) /\ ToSet(a) \cap ToSet(o) = {} /\ tq = a \o o
    BY <1>1, <2>1
  <2>3. /\ a \o o \in Seq(Proc) /\ ToSet(a \o o) = ToSet(a) \cup ToSet(o)
        /\ IsInjective(a \o o)
        /\ a # <<>> => a \o o # <<>> /\ Head(a \o o) = Head(a)
    BY <2>2, ConcatFacts
  <2> HIDE DEF tq
  <2> QED BY <2>2, <2>3
<1>4. r = [k EXCEPT !.flags = fl, !.mess = ms, !.rdy = rd]
  BY DEF SendPending
<1>5. fl \in [Proc -> SUBSET Flag] /\ ms \in [Proc -> Proc]
  BY <1>1, Numbering
<1> HIDE DEF tq
<1>6. rd \in [Queue -> Seq(Proc)]
  BY <1>1, <1>3
<1>7. /\ r \in Kernel /\ r.flags = fl /\ r.rdy = rd
      /\ r.getfrom = k.getfrom /\ r.callerq = k.callerq /\ r.cur = k.cur
      /\ r.pending = k.pending /\ r.sig_procs = k.sig_procs /\ r.mess = ms
  <2> HIDE DEF fl, ms, rd
  <2> QED BY <1>1, <1>4, <1>5, <1>6 DEF Kernel
<1> HIDE DEF r
<1>8. \A p \in Proc : /\ p \notin S => r.flags[p] = k.flags[p]
                      /\ p \in S => r.flags[p] = k.flags[p] \ {"RECEIVING"}
  BY <1>7
<1>9. \A q \in Queue : r.rdy[q] = IF q = TASK_Q THEN tq ELSE k.rdy[q]
  BY <1>1, <1>7
<1>10. Listed(r)
  <2>1. \A q \in Queue : IsInjective(r.rdy[q])
    BY <1>1, <1>3, <1>9 DEF Inv, Listed
  <2>2. ASSUME NEW q \in Queue, NEW p \in Proc
        PROVE  p \in ToSet(r.rdy[q]) <=> q = QueueOf(p) /\ r.flags[p] = {} /\ p # HARDWARE
    <3>1. p \in ToSet(k.rdy[q]) <=> q = QueueOf(p) /\ k.flags[p] = {} /\ p # HARDWARE
      BY <1>1 DEF Inv, Listed
    <3>2. CASE p \in S
      <4>1. r.flags[p] = {} <=> p \in ToSet(o)
        BY <1>2, <1>8, <3>2
      <4> QED BY <1>2, <1>3, <1>9, <3>1, <3>2, <4>1
    <3>3. CASE p \notin S
      <4>1. p \notin ToSet(o)
        BY <3>3
      <4> QED BY <1>3, <1>8, <1>9, <3>1, <3>3, <4>1
    <3> QED BY <3>2, <3>3
  <2> QED BY <2>1, <2>2 DEF Listed
<1>11. AtHead(r)
  <2> SUFFICES ASSUME k.cur # IDLE
               PROVE  r.rdy[QueueOf(k.cur)] # <<>> /\ Head(r.rdy[QueueOf(k.cur)]) = k.cur
    BY <1>7 DEF AtHead
  <2>1. QueueOf(k.cur) \in Queue
    BY <1>1, Numbering DEF Kernel
  <2>2. k.rdy[QueueOf(k.cur)] # <<>> /\ Head(k.rdy[QueueOf(k.cur)]) = k.cur
    BY <1>1 DEF Inv, AtHead
  <2> QED BY <1>3, <1>9, <2>1, <2>2
<1>12. \A p \in Proc : /\ "SENDING" \in r.flags[p] <=> "SENDING" \in k.flags[p]
                       /\ "RECEIVING" \in r.flags[p] => "RECEIVING" \in k.flags[p]
  BY <1>8
<1>13. Queued(r)
  BY <1>1, <1>7, <1>12 DEF Inv, Queued
<1>14. Matched(r)
  <2> SUFFICES ASSUME NEW e \in Proc, NEW p \in ToSet(r.callerq[e])
               PROVE  ~Waiting(r, p, e)
    BY DEF Matched
  <2>1. ~Waiting(k, p, e)
    BY <1>1, <1>7 DEF Inv, Matched
  <2> QED BY <1>7, <1>12, <2>1 DEF Waiting
<1>15. r.flags[HARDWARE] = {}
  BY <1>1, <1>8, Numbering DEF Inv
<1>16. Inv(r)
  BY <1>7, <1>10, <1>11, <1>13, <1>14, <1>15 DEF Inv
<1>17. \A p \in Proc \ S : r.flags[p] = k.flags[p] /\ r.mess[p] = k.mess[p]
  BY <1>7
<1>18. \A p \in S : r.flags[p] = k.flags[p] \ {"RECEIVING"}
  BY <1>2, <1>7
<1> QED BY <1>7, <1>16, <1>17, <1>18 DEF HandedOut, r

\* Handing out the pending interrupt messages keeps the whole invariant.
LEMMA SendPendingKeeps ==
  ASSUME NEW k, KInv(k), NEW S \in SUBSET (Task \ {HARDWARE}),
         \A t \in S : Waiting(k, HARDWARE, t),
         NEW o \in Seq(Proc), IsInjective(o),
         ToSet(o) = {t \in S : k.flags[t] = {"RECEIVING"}}
  PROVE  KInv(SendPending(k, S, o))
<1> DEFINE r == SendPending(k, S, o)
<1>1. Inv(k)
  BY DEF KInv
<1>2. Inv(r) /\ HandedOut(k, r, S)
  BY <1>1, PendingKeeps
<1> HIDE DEF r
<1>3. "RECEIVING" \in r.flags[MM] => "RECEIVING" \in k.flags[MM]
  <2>1. MM \in Proc \ S
    BY Numbering DEF Task, MM
  <2> QED BY <1>2, <2>1 DEF HandedOut
<1>4. Counted(r) /\ Quiet(r)
  BY <1>2, <1>3 DEF KInv, Counted, Quiet, Waiting, HandedOut
<1> QED BY <1>2, <1>4 DEF KInv, r
-----------------------------------------------------------------------------
\* The inductive invariant of the specification.
IndInv == KInv(kern) /\ busy_map \in SUBSET Task /\ lost_ticks \in 0 .. MaxLost

\* An interrupt serves its task if it can, then the tasks it finds waiting.
LEMMA InterruptKeeps ==
  ASSUME IndInv, NEW t \in Devices, Interrupt(t)
  PROVE  IndInv'
<1> DEFINE sent  == ~SendFails(kern, HARDWARE, t)
           k     == IF sent THEN MiniSend(kern, HARDWARE, t) ELSE kern
           old   == IF sent THEN busy_map \ {t} ELSE busy_map
           woken == Woken(k, old)
           R     == {i \in woken : k.flags[i] = {"RECEIVING"}}
<1>1. t \in Task \ {HARDWARE} /\ t \in Proc \ {HARDWARE} /\ KInv(kern)
  BY ConstantAssumption, Numbering DEF IndInv
<1>2. KInv(k)
  <2>1. CASE sent
    <3>1. Waiting(kern, HARDWARE, t)
      BY <2>1 DEF SendFails
    <3>2. kern.flags[HARDWARE] = {} /\ HARDWARE \in Proc
      BY <1>1, Numbering DEF KInv, Inv
    <3> QED BY <1>1, <2>1, <3>1, <3>2, SendKeeps
  <2>2. CASE ~sent
    BY <1>1, <2>2
  <2> QED BY <2>1, <2>2
<1>3. old \subseteq Task
  BY DEF IndInv
<1>4. /\ busy_map' = (IF sent \/ t = CLOCK THEN old ELSE busy_map \cup {t}) \ woken
      /\ IF ~sent /\ t = CLOCK
         THEN lost_ticks < MaxLost /\ lost_ticks' = lost_ticks + 1
         ELSE lost_ticks' = lost_ticks
      /\ \E order \in ScanOrders(R) : kern' = Preempt(SendPending(k, woken, order))
  BY DEF Interrupt
<1> HIDE DEF k, old, sent
<1>5. woken \in SUBSET (Task \ {HARDWARE}) /\ \A i \in woken : Waiting(k, HARDWARE, i)
  BY <1>3 DEF Woken, SendFails, HARDWARE
<1>6. PICK o \in ScanOrders(R) : kern' = Preempt(SendPending(k, woken, o))
  BY <1>4
<1>7. o \in Seq(Proc) /\ ToSet(o) = R /\ IsInjective(o)
  BY <1>5, ScanFacts
<1> HIDE DEF woken
<1> DEFINE r == SendPending(k, woken, o)
<1>8. KInv(r)
  BY <1>2, <1>5, <1>7, SendPendingKeeps
<1> HIDE DEF r
<1>9. KInv(Preempt(r))
  BY <1>8, PickKeeps DEF Preempt, KInv, Inv
<1>10. busy_map' \in SUBSET Task
  BY <1>1, <1>3, <1>4 DEF IndInv
<1>11. lost_ticks' \in 0 .. MaxLost
  BY <1>4, ConstantAssumption DEF IndInv
<1> QED BY <1>6, <1>9, <1>10, <1>11 DEF IndInv, r
-----------------------------------------------------------------------------
\* main() lists the processes of a class in the order of their numbers.
LEMMA NumbersFacts ==
  ASSUME NEW S, NEW from \in Int, NEW to \in Int, from <= to + 1, from .. to \subseteq S
  PROVE  /\ Numbers(from, to) \in Seq(S)
         /\ ToSet(Numbers(from, to)) = from .. to
         /\ IsInjective(Numbers(from, to))
<1> DEFINE n == to - from + 1
           s == Numbers(from, to)
<1>1. n \in Nat /\ s = [i \in 1 .. n |-> from + i - 1]
  BY DEF Numbers
<1>2. s \in [1 .. n -> S]
  BY <1>1
<1>3. s \in Seq(S)
  <2>1. n \in Nat /\ s \in [1 .. n -> S]
    BY <1>1, <1>2
  <2> HIDE DEF n, s
  <2> QED BY <2>1, IsASeq
<1>4. ToSet(s) = from .. to
  <2>1. \A p \in from .. to : p - from + 1 \in 1 .. n /\ s[p - from + 1] = p
    BY <1>1
  <2>2. \A i \in 1 .. n : s[i] \in from .. to
    BY <1>1
  <2>3. ToSet(s) = {s[i] : i \in 1 .. n}
    BY <1>1 DEF ToSet
  <2> HIDE DEF n, s
  <2> QED BY <2>1, <2>2, <2>3
<1>5. IsInjective(s)
  BY <1>1 DEF IsInjective
<1> QED BY <1>3, <1>4, <1>5

\* main() readies exactly the tasks but HARDWARE and the live processes.
LEMMA InitKeeps ==
  ASSUME Init
  PROVE  IndInv
<1> DEFINE fl == [p \in Proc |-> IF p \in Live THEN {} ELSE {"P_SLOT_FREE"}]
           r1 == Numbers(-NR_TASKS, HARDWARE - 1)
           r2 == Numbers(MM, FS)
           r3 == Numbers(LOW_USER, LAST_LIVE)
           gf == [p \in Proc |-> ANY]
           cq == [p \in Proc |-> <<>>]
           ms == [p \in Proc |-> p]
           rd == <<r1, r2, r3>>
           k  == [flags     |-> fl,
                  getfrom   |-> gf,
                  callerq   |-> cq,
                  mess      |-> ms,
                  rdy       |-> rd,
                  cur       |-> 0,
                  prev      |-> 0,
                  bill      |-> HARDWARE,
                  pending   |-> {},
                  sig_procs |-> 0]
<1>1. kern = PickProc(k) /\ busy_map = {} /\ lost_ticks = 0
  BY DEF Init
<1>2. /\ r1 \in Seq(Proc) /\ ToSet(r1) = -NR_TASKS .. -2 /\ IsInjective(r1)
  <2>1. /\ -NR_TASKS \in Int /\ -2 \in Int /\ -NR_TASKS <= -2 + 1
        /\ -NR_TASKS .. -2 \subseteq Proc /\ HARDWARE - 1 = -2
    BY ConstantAssumption DEF Proc, Task, HARDWARE
  <2> QED BY <2>1, NumbersFacts
<1>3. /\ r2 \in Seq(Proc) /\ ToSet(r2) = 0 .. 1 /\ IsInjective(r2)
  <2>1. 0 .. 1 \subseteq Proc /\ MM = 0 /\ FS = 1
    BY ConstantAssumption DEF Proc, Slot, MM, FS, LOW_USER
  <2> QED BY <2>1, NumbersFacts
<1>4. /\ r3 \in Seq(Proc) /\ ToSet(r3) = 2 .. LAST_LIVE /\ IsInjective(r3)
  <2>1. /\ LAST_LIVE \in Int /\ 2 <= LAST_LIVE + 1 /\ 2 .. LAST_LIVE \subseteq Proc
        /\ LOW_USER = 2
    BY ConstantAssumption DEF Proc, Slot, LOW_USER
  <2> QED BY <2>1, NumbersFacts
<1> HIDE DEF r1, r2, r3
<1>5. k \in Kernel
  <2>1. rd \in [Queue -> Seq(Proc)]
    BY <1>2, <1>3, <1>4 DEF Queue, TASK_Q, SERVER_Q, USER_Q
  <2>2. fl \in [Proc -> SUBSET Flag]
    BY DEF Flag
  <2>3. /\ gf \in [Proc -> Source] /\ cq \in [Proc -> Seq(Proc)] /\ ms \in [Proc -> Proc]
        /\ 0 \in Proc /\ HARDWARE \in Proc
    BY Numbering DEF Source, MM
  <2> HIDE DEF fl, gf, cq, ms, rd
  <2> QED BY <2>1, <2>2, <2>3 DEF Kernel
<1>6. Listed(k)
  <2>1. k.rdy = <<r1, r2, r3>> /\ k.flags = fl
    OBVIOUS
  <2> HIDE DEF k
  <2>2. \A q \in Queue : IsInjective(k.rdy[q])
    BY <1>2, <1>3, <1>4, <2>1 DEF Queue, TASK_Q, SERVER_Q, USER_Q
  <2>3. ASSUME NEW p \in Proc
        PROVE  /\ p \in ToSet(r1) <=> QueueOf(p) = TASK_Q /\ fl[p] = {} /\ p # HARDWARE
               /\ p \in ToSet(r2) <=> QueueOf(p) = SERVER_Q /\ fl[p] = {} /\ p # HARDWARE
               /\ p \in ToSet(r3) <=> QueueOf(p) = USER_Q /\ fl[p] = {} /\ p # HARDWARE
    <3>1. fl[p] = {} <=> p \in Live
      OBVIOUS
    <3>2. p \in Int /\ (p \in Live <=> p <= LAST_LIVE) /\ p >= -NR_TASKS
      BY ConstantAssumption DEF Live, Proc, Task, Slot, LOW_USER
    <3> HIDE DEF fl
    <3> QED BY <1>2, <1>3, <1>4, <3>1, <3>2, ConstantAssumption
            DEF QueueOf, LOW_USER, HARDWARE, TASK_Q, SERVER_Q, USER_Q
  <2> QED BY <2>1, <2>2, <2>3 DEF Listed, Queue, TASK_Q, SERVER_Q, USER_Q
<1>7. k.flags[HARDWARE] = {}
  BY Numbering, ConstantAssumption DEF Live, Task, HARDWARE
<1>8. Queued(k) /\ Matched(k)
  <2>1. /\ \A d \in Proc : k.callerq[d] = <<>>
        /\ \A p \in Proc : "SENDING" \notin k.flags[p]
    OBVIOUS
  <2>2. ToSet(<<>>) = {} /\ IsInjective(<<>>)
    BY DEF ToSet, IsInjective
  <2> HIDE DEF k
  <2> QED BY <2>1, <2>2 DEF Queued, Matched
<1>9. Counted(k) /\ Quiet(k)
  BY FS_EmptySet DEF Counted, Quiet
<1> HIDE DEF k
<1>10. KInv(kern)
  BY <1>1, <1>5, <1>6, <1>7, <1>8, <1>9, PickKeeps
<1> QED BY <1>1, <1>10, ConstantAssumption DEF IndInv

\* Every step keeps the invariant.
LEMMA NextKeeps ==
  ASSUME IndInv, [Next]_vars
  PROVE  IndInv'
<1>1. ASSUME NEW c \in Calls, SysCall(c[1], c[2], c[3])
      PROVE  IndInv'
  BY <1>1, SysCallKeeps DEF SysCall, IndInv
<1>2. ASSUME NEW t \in Devices, Interrupt(t)
      PROVE  IndInv'
  BY <1>2, InterruptKeeps
<1>3. ASSUME NEW p \in LOW_USER .. LAST_LIVE, CauseSignal(p)
      PROVE  IndInv'
  <2>1. p \in Slot
    BY ConstantAssumption DEF Slot, LOW_USER
  <2> QED BY <1>3, <2>1, CauseSigFacts DEF CauseSignal, IndInv, KInv
<1>4. CASE TakeLostTicks
  BY <1>4, ConstantAssumption DEF TakeLostTicks, IndInv
<1>5. CASE Reschedule
  BY <1>5, SchedKeeps DEF Reschedule, IndInv
<1>6. CASE UNCHANGED vars
  BY <1>6 DEF vars, IndInv
<1> QED BY <1>1, <1>2, <1>3, <1>4, <1>5, <1>6 DEF Next

\* The invariant holds of every state of the kernel.
THEOREM Invariance == Spec => []IndInv
BY InitKeeps, NextKeeps, PTL DEF Spec

\* No call, interrupt or signal takes the kernel out of its types.
THEOREM TypeCorrect == Spec => []TypeOK
<1>1. IndInv => TypeOK
  BY DEF IndInv, KInv, Inv, TypeOK
<1> QED BY <1>1, Invariance, PTL

\* A process is on the list of its class exactly while its flags are 0.
THEOREM ListsAgree == Spec => []ReadyLists
<1>1. IndInv => ReadyLists
  BY DEF IndInv, KInv, Inv, ReadyLists
<1> QED BY <1>1, Invariance, PTL

\* A process is queued exactly while it is SENDING, once.
THEOREM QueuesAgree == Spec => []CallerQueues
<1>1. IndInv => CallerQueues
  BY DEF IndInv, KInv, Inv, CallerQueues
<1> QED BY <1>1, Invariance, PTL

\* The kernel's types, lists, queues and running process agree.
THEOREM ListsKeep == Spec => []ListsKept
<1>1. IndInv => ListsKept
  BY DEF IndInv, KInv, Inv, TypeOK, ReadyLists, CallerQueues, RunningIsHead, ListsKept
<1> QED BY <1>1, Invariance, PTL

\* Nobody waits for a message that is on its own caller queue.
THEOREM NoneMissed == Spec => []NoMissedMatch
<1>1. IndInv => NoMissedMatch
  BY DEF IndInv, KInv, Inv, NoMissedMatch
<1> QED BY <1>1, Invariance, PTL

\* The running process heads its list.
THEOREM HeadRuns == Spec => []RunningIsHead
<1>1. IndInv => RunningIsHead
  BY DEF IndInv, KInv, Inv, RunningIsHead
<1> QED BY <1>1, Invariance, PTL

\* MM never waits for any message while a signal is pending.
THEOREM SignalsDelivered == Spec => []SignalsReachMM
<1>1. IndInv => SignalsReachMM
  BY DEF IndInv, KInv, Quiet, SignalsReachMM
<1> QED BY <1>1, Invariance, PTL

\* sig_procs is the number of processes with a pending signal.
THEOREM SignalsCounted == Spec => []SigProcsCounts
<1>1. IndInv => SigProcsCounts
  BY DEF IndInv, KInv, Counted, SigProcsCounts
<1> QED BY <1>1, Invariance, PTL
-----------------------------------------------------------------------------
(* The messages in the buffers. *)

\* ready(), unready() and mini_send() move one message or none.
LEMMA SendMess ==
  ASSUME NEW k, Inv(k), NEW c \in Proc, NEW d \in Proc \ {HARDWARE},
         c # HARDWARE => k.flags[c] = {}, c = HARDWARE => Waiting(k, c, d)
  PROVE  MiniSend(k, c, d).mess = IF Waiting(k, c, d) THEN [k.mess EXCEPT ![d] = k.mess[c]]
                                                      ELSE k.mess
<1>1. /\ k \in Kernel /\ k.flags \in [Proc -> SUBSET Flag] /\ k.mess \in [Proc -> Proc]
      /\ Listed(k) /\ AtHead(k)
  BY DEF Inv, Kernel
<1>2. CASE Waiting(k, c, d)
  <2> PICK a \in Proc : a = k.mess[c]
    BY <1>1
  <2> DEFINE m == [k EXCEPT !.mess[d] = a]
             r == MiniSend(k, c, d)
  <2>1. m \in Kernel /\ Listed(m) /\ AtHead(m) /\ m.flags = k.flags
    BY <1>1, MessFacts
  <2>2. m.mess = [k.mess EXCEPT ![d] = a]
    BY <1>1 DEF Kernel
  <2>3. r = Deblock(m, d, "RECEIVING")
    BY <1>2 DEF MiniSend
  <2> HIDE DEF m, r
  <2>4. "RECEIVING" \in m.flags[d]
    BY <1>2, <2>1 DEF Waiting
  <2>5. Frame(m, r)
    BY <2>1, <2>3, <2>4, DeblockFacts
  <2> QED BY <1>2, <2>2, <2>5 DEF Frame, r
<1>3. CASE ~Waiting(k, c, d)
  <2> DEFINE b == Block(k, c, "SENDING")
  <2>1. b \in Kernel /\ Frame(k, b)
    BY <1>1, <1>3, BlockFacts DEF Flag
  <2>2. MiniSend(k, c, d) = [b EXCEPT !.callerq[d] = Append(@, c)]
    BY <1>3 DEF MiniSend
  <2> HIDE DEF b
  <2> QED BY <1>3, <2>1, <2>2 DEF Frame, Kernel
<1> QED BY <1>2, <1>3

\* inform() fills MM's buffer and composes the message in SYSTASK's.
LEMMA InformMess ==
  ASSUME NEW k, Inv(k)
  PROVE  \/ Inform(k).mess = k.mess
         \/ /\ Waiting(k, HARDWARE, MM) /\ k.getfrom[MM] = ANY
            /\ Inform(k).mess = [k.mess EXCEPT ![MM] = k.mess[HARDWARE], ![SYSTASK] = HARDWARE]
<1> DEFINE told == Waiting(k, HARDWARE, MM) /\ k.getfrom[MM] = ANY /\ k.pending # {}
           p == CHOOSE x \in k.pending : \A y \in k.pending : x <= y
           d == MiniSend(k, HARDWARE, MM)
<1>1. CASE ~told
  BY <1>1 DEF Inform
<1>2. CASE told
  <2>1. HARDWARE \in Proc /\ MM \in Proc \ {HARDWARE} /\ HARDWARE # MM
    BY Numbering DEF HARDWARE, MM
  <2>2. d.mess = [k.mess EXCEPT ![MM] = k.mess[HARDWARE]]
    BY <1>2, <2>1, SendMess
  <2>3. Inv(d)
    BY <1>2, <2>1, MiniSendFacts
  <2>4. Inform(k) = [d EXCEPT !.sig_procs = @ - 1, !.pending = @ \ {p}, !.mess[SYSTASK] = HARDWARE]
    BY <1>2 DEF Inform
  <2> HIDE DEF d, p
  <2>5. Inform(k).mess = [d.mess EXCEPT ![SYSTASK] = HARDWARE]
    BY <2>3, <2>4 DEF Inv, Kernel
  <2> QED BY <1>2, <2>2, <2>5
<1> QED BY <1>1, <1>2

\* mini_rec() that finds a sender copies that one's message.
LEMMA FoundMess ==
  ASSUME NEW k, KInv(k), NEW c \in Proc \ {HARDWARE}, NEW s \in Source, Found(k, c, s) # {}
  PROVE  \E w \in Proc : /\ w \in QueuedOn(k, c) /\ s \in {ANY, w}
                         /\ MiniRec(k, c, s).mess = [k.mess EXCEPT ![c] = k.mess[w]]
<1>1. Inv(k)
  BY DEF KInv
<1>2. PICK w \in Proc : Taken(k, MiniRec(k, c, s), c, s, w)
  BY <1>1, FoundFacts
<1> QED BY <1>2 DEF Taken

\* mini_rec() that finds nobody copies nothing, unless a signal is told to MM.
LEMMA BlockedCopies ==
  ASSUME NEW k, Inv(k), NEW c \in Proc \ {HARDWARE}, NEW s \in Source,
         "RECEIVING" \notin k.flags[c], Found(k, c, s) = {}
  PROVE  \/ MiniRec(k, c, s).mess = k.mess
         \/ /\ c = MM /\ s = ANY
            /\ MiniRec(k, c, s).mess = [k.mess EXCEPT ![MM] = k.mess[HARDWARE], ![SYSTASK] = HARDWARE]
<1> DEFINE b == Block([k EXCEPT !.getfrom[c] = s], c, "RECEIVING")
<1>1. /\ Inv(b)
      /\ b.getfrom = [k.getfrom EXCEPT ![c] = s] /\ b.callerq = k.callerq
      /\ b.flags = [k.flags EXCEPT ![c] = @ \cup {"RECEIVING"}]
      /\ b.pending = k.pending /\ b.sig_procs = k.sig_procs /\ b.mess = k.mess
      /\ MiniRec(k, c, s) = IF b.sig_procs > 0 /\ c = MM /\ s = ANY THEN Inform(b) ELSE b
  BY AwaitBlock
<1> HIDE DEF b
<1>2. \/ Inform(b).mess = b.mess
      \/ Inform(b).mess = [b.mess EXCEPT ![MM] = b.mess[HARDWARE], ![SYSTASK] = HARDWARE]
  BY <1>1, InformMess
<1> QED BY <1>1, <1>2

\* BlockedCopies, from the whole invariant.
LEMMA BlockedMess ==
  ASSUME NEW k, KInv(k), NEW c \in Proc \ {HARDWARE}, NEW s \in Source,
         "RECEIVING" \notin k.flags[c], Found(k, c, s) = {}
  PROVE  \/ MiniRec(k, c, s).mess = k.mess
         \/ /\ c = MM /\ s = ANY
            /\ MiniRec(k, c, s).mess = [k.mess EXCEPT ![MM] = k.mess[HARDWARE], ![SYSTASK] = HARDWARE]
<1>1. Inv(k)
  BY DEF KInv
<1> QED BY <1>1, BlockedCopies
-----------------------------------------------------------------------------
(* Who has been told what by the hardware. *)

-----------------------------------------------------------------------------
(* Who is in a queue, and with what in its buffer. *)

\* What may be in p's buffer while p's own message is: inform() composes its
\* messages in SYSTASK's.
OwnMess(p) == IF p = SYSTASK THEN {p, HARDWARE} ELSE {p}

\* Who is queued and waits for a message too has called with BOTH, and waits for
\* the answer of the one it is queued on; the others' messages are still theirs.
Sent(k) ==
  \A p, d \in Proc : p \in QueuedOn(k, d) =>
    /\ d # HARDWARE
    /\ "RECEIVING" \in k.flags[p] => k.getfrom[p] = d /\ <<BOTH, p, d>> \in Calls
    /\ <<BOTH, p, d>> \notin Calls => k.mess[p] \in OwnMess(p)

\* Nobody who is queued would take a message of the hardware, or of anybody.
LEMMA QueuedDeaf ==
  ASSUME NEW k, Sent(k), NEW p \in Proc, NEW d \in Proc, p \in QueuedOn(k, d)
  PROVE  ~Waiting(k, HARDWARE, p) /\ ("RECEIVING" \in k.flags[p] => k.getfrom[p] # ANY)
BY Numbering DEF Sent, Waiting

\* mini_send() gives the answer to whoever waits for it, or queues the caller with
\* its own message.
LEMMA SendSent ==
  ASSUME NEW k, KInv(k), Sent(k), NEW c \in Proc, NEW d \in Proc \ {HARDWARE}, c # d,
         k.flags[c] = {}, c = HARDWARE => Waiting(k, c, d), c # HARDWARE => k.mess[c] = c
  PROVE  Sent(MiniSend(k, c, d))
<1> DEFINE r == MiniSend(k, c, d)
<1>1. /\ Inv(k) /\ k.flags \in [Proc -> SUBSET Flag] /\ k.mess \in [Proc -> Proc]
      /\ \A e, p \in Proc : p \in QueuedOn(k, e) => "SENDING" \in k.flags[p]
  BY DEF KInv, Inv, Kernel, Queued, QueuedOn
<1>2. /\ r.getfrom = k.getfrom
      /\ r.flags = IF Waiting(k, c, d) THEN [k.flags EXCEPT ![d] = @ \ {"RECEIVING"}]
                                       ELSE [k.flags EXCEPT ![c] = @ \cup {"SENDING"}]
      /\ \A e, p \in Proc : p \in QueuedOn(r, e) <=>
           p \in QueuedOn(k, e) \/ (~Waiting(k, c, d) /\ p = c /\ e = d)
  BY <1>1, MiniSendFacts
<1>3. r.mess = IF Waiting(k, c, d) THEN [k.mess EXCEPT ![d] = k.mess[c]] ELSE k.mess
  BY <1>1, SendMess
<1> HIDE DEF r
<1> SUFFICES ASSUME NEW p \in Proc, NEW e \in Proc, p \in QueuedOn(r, e)
             PROVE  /\ e # HARDWARE
                    /\ "RECEIVING" \in r.flags[p] => r.getfrom[p] = e /\ <<BOTH, p, e>> \in Calls
                    /\ <<BOTH, p, e>> \notin Calls => r.mess[p] \in OwnMess(p)
  BY DEF Sent, r
<1>4. CASE ~Waiting(k, c, d) /\ p = c /\ e = d
  <2>1. r.flags[p] = {"SENDING"} /\ r.mess[p] = p
    BY <1>1, <1>2, <1>3, <1>4
  <2> QED BY <1>4, <2>1 DEF OwnMess
<1>5. CASE p \in QueuedOn(k, e)
  <2>1. /\ e # HARDWARE
        /\ "RECEIVING" \in k.flags[p] => k.getfrom[p] = e /\ <<BOTH, p, e>> \in Calls
        /\ <<BOTH, p, e>> \notin Calls => k.mess[p] \in OwnMess(p)
    BY <1>5 DEF Sent
  <2>2. "RECEIVING" \in r.flags[p] => "RECEIVING" \in k.flags[p]
    BY <1>1, <1>2
  <2>3. <<BOTH, p, e>> \notin Calls => r.mess[p] = k.mess[p]
    <3>1. Waiting(k, c, d) /\ p = d => <<BOTH, p, e>> \in Calls
      BY <2>1 DEF Waiting
    <3> QED BY <1>1, <1>3, <3>1
  <2> QED BY <1>2, <2>1, <2>2, <2>3
<1> QED BY <1>2, <1>4, <1>5

\* inform() fills no buffer of a process that is queued but SYSTASK's.
LEMMA InformSent ==
  ASSUME NEW k, Inv(k), Counted(k), Sent(k)
  PROVE  Sent(Inform(k))
<1> DEFINE r == Inform(k)
<1>1. k.flags \in [Proc -> SUBSET Flag] /\ k.mess \in [Proc -> Proc] /\ MM \in Proc
  BY Numbering DEF Inv, Kernel
<1>2. /\ r.getfrom = k.getfrom
      /\ \/ r.flags = k.flags
         \/ r.flags = [k.flags EXCEPT ![MM] = @ \ {"RECEIVING"}]
      /\ \A e, p \in Proc : p \in QueuedOn(r, e) <=> p \in QueuedOn(k, e)
  BY InformFacts
<1>3. \/ r.mess = k.mess
      \/ /\ Waiting(k, HARDWARE, MM)
         /\ r.mess = [k.mess EXCEPT ![MM] = k.mess[HARDWARE], ![SYSTASK] = HARDWARE]
  BY InformMess
<1> HIDE DEF r
<1> SUFFICES ASSUME NEW p \in Proc, NEW e \in Proc, p \in QueuedOn(k, e)
             PROVE  /\ e # HARDWARE
                    /\ "RECEIVING" \in r.flags[p] => r.getfrom[p] = e /\ <<BOTH, p, e>> \in Calls
                    /\ <<BOTH, p, e>> \notin Calls => r.mess[p] \in OwnMess(p)
  BY <1>2 DEF Sent, r
<1>4. /\ e # HARDWARE
      /\ "RECEIVING" \in k.flags[p] => k.getfrom[p] = e /\ <<BOTH, p, e>> \in Calls
      /\ <<BOTH, p, e>> \notin Calls => k.mess[p] \in OwnMess(p)
  BY DEF Sent
<1>5. "RECEIVING" \in r.flags[p] => "RECEIVING" \in k.flags[p]
  BY <1>1, <1>2
<1>6. r.mess[p] = k.mess[p] \/ (p = SYSTASK /\ r.mess[p] = HARDWARE)
  <2>1. Waiting(k, HARDWARE, MM) => p # MM
    BY QueuedDeaf
  <2> QED BY <1>1, <1>3, <2>1
<1> QED BY <1>2, <1>4, <1>5, <1>6 DEF OwnMess

\* mini_rec(), which may use the buffer of a caller that is queued on the very
\* process it waits for.
LEMMA RecSent ==
  ASSUME NEW k, KInv(k), Sent(k), NEW c \in Proc \ {HARDWARE}, NEW s \in Source,
         "RECEIVING" \notin k.flags[c],
         \A d \in Proc : c \in QueuedOn(k, d) => s = d /\ <<BOTH, c, d>> \in Calls
  PROVE  Sent(MiniRec(k, c, s))
<1> DEFINE r == MiniRec(k, c, s)
<1>1. /\ Inv(k) /\ k.flags \in [Proc -> SUBSET Flag] /\ k.mess \in [Proc -> Proc]
      /\ k.getfrom \in [Proc -> Source]
  BY DEF KInv, Inv, Kernel
<1>2. CASE Found(k, c, s) # {}
  <2>1. r.getfrom = k.getfrom /\ \E w \in Proc :
          /\ r.flags = [k.flags EXCEPT ![w] = @ \ {"SENDING"}]
          /\ \A e, p \in Proc : p \in QueuedOn(r, e) <=> p \in QueuedOn(k, e) /\ ~(p = w /\ e = c)
    BY <1>2, MiniRecFound
  <2>2. PICK w \in Proc : r.mess = [k.mess EXCEPT ![c] = k.mess[w]]
    BY <1>2, FoundMess
  <2> HIDE DEF r
  <2> SUFFICES ASSUME NEW p \in Proc, NEW e \in Proc, p \in QueuedOn(r, e)
               PROVE  /\ e # HARDWARE
                      /\ "RECEIVING" \in r.flags[p] => r.getfrom[p] = e /\ <<BOTH, p, e>> \in Calls
                      /\ <<BOTH, p, e>> \notin Calls => r.mess[p] \in OwnMess(p)
    BY DEF Sent, r
  <2>3. p \in QueuedOn(k, e) /\ ("RECEIVING" \in r.flags[p] => "RECEIVING" \in k.flags[p])
    BY <1>1, <2>1
  <2>4. <<BOTH, p, e>> \notin Calls => r.mess[p] = k.mess[p]
    BY <1>1, <2>2, <2>3
  <2> QED BY <2>1, <2>3, <2>4 DEF Sent
<1>3. CASE Found(k, c, s) = {}
  <2> DEFINE b == Block([k EXCEPT !.getfrom[c] = s], c, "RECEIVING")
  <2>1. /\ Inv(b) /\ Counted(b)
        /\ b.getfrom = [k.getfrom EXCEPT ![c] = s] /\ b.callerq = k.callerq
        /\ b.flags = [k.flags EXCEPT ![c] = @ \cup {"RECEIVING"}]
        /\ b.mess = k.mess
        /\ r = IF b.sig_procs > 0 /\ c = MM /\ s = ANY THEN Inform(b) ELSE b
    BY <1>3, AwaitFacts
  <2> HIDE DEF b, r
  <2>2. Sent(b)
    <3> SUFFICES ASSUME NEW p \in Proc, NEW e \in Proc, p \in QueuedOn(k, e)
                 PROVE  /\ e # HARDWARE
                        /\ "RECEIVING" \in b.flags[p] => b.getfrom[p] = e /\ <<BOTH, p, e>> \in Calls
                        /\ <<BOTH, p, e>> \notin Calls => b.mess[p] \in OwnMess(p)
      BY <2>1 DEF Sent, QueuedOn
    <3>1. "RECEIVING" \in b.flags[p] /\ p # c => "RECEIVING" \in k.flags[p]
      BY <1>1, <2>1
    <3>2. b.getfrom[p] = IF p = c THEN s ELSE k.getfrom[p]
      BY <1>1, <2>1
    <3> QED BY <2>1, <3>1, <3>2 DEF Sent
  <2> QED BY <2>1, <2>2, InformSent DEF r
<1> QED BY <1>2, <1>3

\* interrupt() fills no buffer of a process that is queued.
LEMMA PendingSent ==
  ASSUME NEW k \in Kernel, Sent(k), NEW S, S \subseteq Proc, NEW o,
         \A t \in S : Waiting(k, HARDWARE, t)
  PROVE  LET r == SendPending(k, S, o)
         IN  /\ Sent(r) /\ r.cur = k.cur /\ r.callerq = k.callerq
             /\ \A p \in Proc \ S : r.flags[p] = k.flags[p] /\ r.mess[p] = k.mess[p]
<1> DEFINE r == SendPending(k, S, o)
<1>1. /\ r.getfrom = k.getfrom /\ r.callerq = k.callerq /\ r.cur = k.cur
      /\ r.flags = [p \in Proc |-> IF p \in S THEN k.flags[p] \ {"RECEIVING"} ELSE k.flags[p]]
      /\ r.mess = [p \in Proc |-> IF p \in S THEN HARDWARE ELSE k.mess[p]]
  BY DEF SendPending, Kernel
<1> HIDE DEF r
<1>2. ASSUME NEW p \in Proc \ S
      PROVE  r.flags[p] = k.flags[p] /\ r.mess[p] = k.mess[p]
  BY <1>1
<1>3. Sent(r)
  <2> SUFFICES ASSUME NEW p \in Proc, NEW e \in Proc, p \in QueuedOn(k, e)
               PROVE  /\ e # HARDWARE
                      /\ "RECEIVING" \in r.flags[p] => r.getfrom[p] = e /\ <<BOTH, p, e>> \in Calls
                      /\ <<BOTH, p, e>> \notin Calls => r.mess[p] \in OwnMess(p)
    BY <1>1 DEF Sent, QueuedOn
  <2>1. p \notin S
    BY QueuedDeaf
  <2> QED BY <1>1, <1>2, <2>1 DEF Sent
<1> QED BY <1>1, <1>2, <1>3 DEF r
-----------------------------------------------------------------------------
(* Priorities. *)

\* The processes that could run and should, going by their class: the tasks while
\* a user runs, and everybody while the machine idles.
PassedOver(k) ==
  {p \in Proc \ {HARDWARE} : /\ k.flags[p] = {}
                             /\ k.cur = IDLE \/ (p < MM /\ k.cur >= LOW_USER)}

\* PriorityKept, by the flags of the processes in place of the lists.
Fair(k) == \A p \in PassedOver(k) : p = MM \/ CalledBack(k, p)

\* pick_proc() passes nobody over.
LEMMA PickedOver ==
  ASSUME NEW k \in Kernel, Listed(k), k.cur = Highest(k)
  PROVE  PassedOver(k) = {}
<1> SUFFICES ASSUME NEW p \in PassedOver(k) PROVE FALSE
  OBVIOUS
<1>1. /\ p \in Proc \ {HARDWARE} /\ k.flags[p] = {} /\ QueueOf(p) \in Queue
      /\ k.cur = IDLE \/ (p < MM /\ k.cur >= LOW_USER)
      /\ k.rdy \in [Queue -> Seq(Proc)]
  BY Numbering DEF PassedOver, Kernel
<1>2. p \in ToSet(k.rdy[QueueOf(p)])
  BY <1>1 DEF Listed
<1>3. k.rdy[QueueOf(p)] # <<>>
  BY <1>2 DEF ToSet
<1>4. ASSUME NEW q \in Queue, k.rdy[q] # <<>>
      PROVE  Head(k.rdy[q]) \in Proc /\ QueueOf(Head(k.rdy[q])) = q
  <2>1. Head(k.rdy[q]) \in Proc /\ Head(k.rdy[q]) \in ToSet(k.rdy[q])
    BY <1>1, <1>4, HeadFacts
  <2> QED BY <2>1 DEF Listed
<1>5. CASE p < MM
  <2>1. QueueOf(p) = TASK_Q
    BY <1>5 DEF QueueOf, MM
  <2>2. k.cur = Head(k.rdy[TASK_Q])
    BY <1>3, <2>1 DEF Highest
  <2>3. k.cur \in Proc /\ QueueOf(k.cur) = TASK_Q
    BY <1>1, <1>3, <1>4, <2>1, <2>2
  <2>4. k.cur \in Int /\ k.cur # IDLE
    BY <2>3, Numbering
  <2>5. k.cur < LOW_USER
    BY <2>3, <2>4 DEF QueueOf, LOW_USER, TASK_Q, SERVER_Q, USER_Q
  <2> QED BY <1>1, <2>4, <2>5 DEF LOW_USER
<1>6. CASE ~(p < MM)
  <2>1. k.cur = IDLE
    BY <1>1, <1>6
  <2>2. \E q \in Queue : k.rdy[q] # <<>> /\ k.cur = Head(k.rdy[q])
    <3>1. \/ k.rdy[TASK_Q] # <<>> /\ k.cur = Head(k.rdy[TASK_Q])
          \/ k.rdy[SERVER_Q] # <<>> /\ k.cur = Head(k.rdy[SERVER_Q])
          \/ k.rdy[USER_Q] # <<>> /\ k.cur = Head(k.rdy[USER_Q])
          \/ k.rdy[TASK_Q] = <<>> /\ k.rdy[SERVER_Q] = <<>> /\ k.rdy[USER_Q] = <<>>
      BY DEF Highest
    <3> QED BY <1>1, <1>3, <3>1 DEF Queue
  <2> QED BY <1>4, <2>1, <2>2, Numbering
<1> QED BY <1>5, <1>6

\* The same of the result of pick_proc().
LEMMA PickOver ==
  ASSUME NEW k \in Kernel, Listed(k)
  PROVE  PassedOver(PickProc(k)) = {}
<1> DEFINE r == PickProc(k)
<1>1. r \in Kernel /\ r.flags = k.flags /\ r.rdy = k.rdy
  <2>1. Classed(k)
    BY DEF Listed, Classed
  <2> QED BY <2>1, PickProcFacts
<1>2. r.cur = Highest(k)
  BY DEF PickProc, Kernel
<1> HIDE DEF r
<1>3. Listed(r) /\ r.cur = Highest(r)
  BY <1>1, <1>2 DEF Listed, Highest
<1> QED BY <1>1, <1>3, PickedOver DEF r

\* A running process that blocks leaves its place to the first in line; another's
\* block passes nobody over who was not.
LEMMA BlockOver ==
  ASSUME NEW k \in Kernel, NEW p \in Proc \ {HARDWARE}, NEW f \in Flag,
         Listed(k), AtHead(k)
  PROVE  LET r == Block(k, p, f)
         IN  /\ PassedOver(r) \subseteq PassedOver(k)
             /\ k.cur = p => PassedOver(r) = {}
<1> DEFINE m == [k EXCEPT !.flags[p] = @ \cup {f}]
           q == QueueOf(p)
           n == [m EXCEPT !.rdy[q] = RemoveFirst(@, p)]
           r == Block(k, p, f)
           picks == k.rdy[q] # <<>> /\ Head(k.rdy[q]) = p
<1>1. q \in Queue /\ k.rdy \in [Queue -> Seq(Proc)] /\ k.flags \in [Proc -> SUBSET Flag]
  BY Numbering DEF Kernel
<1>2. r \in Kernel /\ r.flags = [k.flags EXCEPT ![p] = @ \cup {f}] /\ Listed(r)
  BY BlockFacts
<1>3. r = IF picks THEN PickProc(n) ELSE n
  <2>1. m.rdy = k.rdy
    BY DEF Kernel
  <2> HIDE DEF m
  <2> QED BY <2>1 DEF Block, Unready, m
<1>4. n.cur = k.cur /\ DOMAIN n = DOMAIN k
  BY DEF Kernel
<1>5. CASE picks
  <2>1. r.cur = Highest(n) /\ r.rdy = n.rdy
    <3>1. DOMAIN n = {"flags", "getfrom", "callerq", "mess", "rdy", "cur", "prev", "bill",
                      "pending", "sig_procs"}
      BY <1>4 DEF Kernel
    <3> HIDE DEF n, r
    <3> QED BY <1>3, <1>5, <3>1 DEF PickProc
  <2> HIDE DEF r, n
  <2>2. r.cur = Highest(r)
    BY <2>1 DEF Highest
  <2> QED BY <1>2, <2>2, PickedOver DEF r
<1>6. CASE ~picks
  <2>1. r.cur = k.cur
    <3> HIDE DEF n, r
    <3> QED BY <1>3, <1>4, <1>6
  <2>2. k.cur # p
    BY <1>6, Numbering DEF AtHead
  <2>3. \A x \in Proc : r.flags[x] = {} => k.flags[x] = {}
    <3> HIDE DEF r
    <3> QED BY <1>1, <1>2
  <2> HIDE DEF r
  <2> QED BY <2>1, <2>2, <2>3 DEF PassedOver, r
<1> QED BY <1>5, <1>6

\* Who is passed over when the running process stays and some flags change.
LEMMA SameCurOver ==
  ASSUME NEW k, NEW r, r.cur = k.cur, NEW X,
         \A p \in Proc \ X : r.flags[p] = {} => k.flags[p] = {}
  PROVE  PassedOver(r) \subseteq PassedOver(k) \cup X
BY DEF PassedOver

\* mini_send() that hands its message over leaves the running process as it is.
LEMMA SendCur ==
  ASSUME NEW k \in Kernel, NEW c, NEW d, Waiting(k, c, d)
  PROVE  MiniSend(k, c, d).cur = k.cur
<1> DEFINE m == [k EXCEPT !.mess[d] = k.mess[c]]
           n == [m EXCEPT !.flags[d] = @ \ {"RECEIVING"}]
           r == MiniSend(k, c, d)
<1>1. m.cur = k.cur /\ n.cur = k.cur /\ Ready(n, d).cur = n.cur
  BY DEF Kernel, Ready
<1>2. r = Deblock(m, d, "RECEIVING")
  BY DEF MiniSend
<1>3. Deblock(m, d, "RECEIVING") \in {n, Ready(n, d)}
  <2> HIDE DEF m
  <2> QED BY DEF Deblock
<1> HIDE DEF m, n, r
<1> QED BY <1>1, <1>2, <1>3 DEF r

\* mini_send() readies its destination beside the running process, or blocks it.
LEMMA SendOver ==
  ASSUME NEW k, KInv(k), NEW c \in Proc, NEW d \in Proc \ {HARDWARE}, c # d,
         k.flags[c] = {}, c = HARDWARE => Waiting(k, c, d), c = HARDWARE \/ k.cur = c
  PROVE  LET r == MiniSend(k, c, d)
         IN  /\ Waiting(k, c, d) => r.cur = k.cur
             /\ ~Waiting(k, c, d) => PassedOver(r) = {}
<1> DEFINE r == MiniSend(k, c, d)
<1>1. /\ k \in Kernel /\ Listed(k) /\ AtHead(k) /\ k.flags \in [Proc -> SUBSET Flag]
      /\ k.mess \in [Proc -> Proc]
  BY DEF KInv, Inv, Kernel
<1>2. CASE Waiting(k, c, d)
  BY <1>1, <1>2, SendCur
<1>3. CASE ~Waiting(k, c, d)
  <2> DEFINE b == Block(k, c, "SENDING")
  <2>1. PassedOver(b) = {} /\ b \in Kernel
    <3>1. c \in Proc \ {HARDWARE} /\ k.cur = c /\ "SENDING" \in Flag
      BY <1>3 DEF Flag
    <3> QED BY <1>1, <3>1, BlockOver, BlockFacts
  <2>2. r = [b EXCEPT !.callerq[d] = Append(@, c)]
    BY <1>3 DEF MiniSend
  <2> HIDE DEF b, r
  <2>3. r.cur = b.cur /\ r.flags = b.flags
    BY <2>1, <2>2 DEF Kernel
  <2> QED BY <1>3, <2>1, <2>3 DEF PassedOver, r
<1> QED BY <1>2, <1>3

\* mini_rec() that finds a sender leaves the running process as it is.
LEMMA FoundCur ==
  ASSUME NEW k \in Kernel, NEW c, NEW s, Found(k, c, s) # {}
  PROVE  MiniRec(k, c, s).cur = k.cur
<1> DEFINE i == CHOOSE x \in Found(k, c, s) : \A y \in Found(k, c, s) : x <= y
           w == k.callerq[c][i]
           m == [k EXCEPT !.mess[c] = k.mess[w]]
           n == [m EXCEPT !.flags[w] = @ \ {"SENDING"}]
           u == Deblock(m, w, "SENDING")
           r == MiniRec(k, c, s)
<1>1. r = [u EXCEPT !.callerq[c] = RemoveAt(@, i)]
  BY DEF MiniRec
<1> HIDE DEF i, w
<1>2. n.cur = k.cur /\ Ready(n, w).cur = n.cur /\ DOMAIN n = DOMAIN k /\ DOMAIN Ready(n, w) = DOMAIN k
  BY DEF Kernel, Ready
<1>3. u \in {n, Ready(n, w)}
  <2> HIDE DEF m
  <2> QED BY DEF Deblock
<1> HIDE DEF n, u, r
<1>4. u.cur = k.cur /\ "cur" \in DOMAIN u
  BY <1>2, <1>3 DEF Kernel
<1> QED BY <1>1, <1>4 DEF r

\* inform() leaves the running process as it is.
LEMMA InformCur ==
  ASSUME NEW k \in Kernel
  PROVE  Inform(k).cur = k.cur
<1> DEFINE told == Waiting(k, HARDWARE, MM) /\ k.getfrom[MM] = ANY /\ k.pending # {}
           p == CHOOSE x \in k.pending : \A y \in k.pending : x <= y
           m == [k EXCEPT !.mess[MM] = k.mess[HARDWARE]]
           n == [m EXCEPT !.flags[MM] = @ \ {"RECEIVING"}]
           d == MiniSend(k, HARDWARE, MM)
<1>1. CASE told
  <2>1. d \in {n, Ready(n, MM)}
    <3>1. d = Deblock(m, MM, "RECEIVING")
      BY <1>1 DEF MiniSend
    <3> HIDE DEF m, d
    <3> QED BY <3>1 DEF Deblock
  <2>2. n.cur = k.cur /\ Ready(n, MM).cur = n.cur /\ DOMAIN n = DOMAIN k /\ DOMAIN Ready(n, MM) = DOMAIN k
    BY DEF Kernel, Ready
  <2>3. Inform(k) = [d EXCEPT !.sig_procs = @ - 1, !.pending = @ \ {p}, !.mess[SYSTASK] = HARDWARE]
    BY <1>1 DEF Inform
  <2> HIDE DEF n, d, p
  <2>4. d.cur = k.cur /\ "cur" \in DOMAIN d
    BY <2>1, <2>2 DEF Kernel
  <2> QED BY <2>3, <2>4
<1>2. CASE ~told
  BY <1>2 DEF Inform
<1> QED BY <1>1, <1>2

\* mini_rec() that blocks: MM, told of a signal, may be left waiting for the processor.
LEMMA BlockedOver ==
  ASSUME NEW k, KInv(k), NEW c \in Proc \ {HARDWARE}, NEW s \in Source,
         "RECEIVING" \notin k.flags[c], Found(k, c, s) = {}
  PROVE  LET r == MiniRec(k, c, s)
         IN  /\ PassedOver(r) \subseteq PassedOver(k) \cup {MM}
             /\ k.cur = c => PassedOver(r) \subseteq {MM}
<1> DEFINE m == [k EXCEPT !.getfrom[c] = s]
           b == Block([k EXCEPT !.getfrom[c] = s], c, "RECEIVING")
           r == MiniRec(k, c, s)
<1>1. /\ Inv(b) /\ Counted(b)
      /\ b.getfrom = [k.getfrom EXCEPT ![c] = s] /\ b.callerq = k.callerq
      /\ b.flags = [k.flags EXCEPT ![c] = @ \cup {"RECEIVING"}]
      /\ b.pending = k.pending /\ b.sig_procs = k.sig_procs /\ b.mess = k.mess
      /\ r = IF b.sig_procs > 0 /\ c = MM /\ s = ANY THEN Inform(b) ELSE b
  BY AwaitFacts
<1>2. PassedOver(b) \subseteq PassedOver(k) /\ (k.cur = c => PassedOver(b) = {})
  <2>1. /\ k \in Kernel /\ Listed(k) /\ AtHead(k) /\ "RECEIVING" \in Flag
    BY DEF KInv, Inv, Flag
  <2>2. /\ m \in Kernel /\ m.flags = k.flags /\ m.rdy = k.rdy /\ m.cur = k.cur
    BY <2>1 DEF Kernel
  <2> HIDE DEF m
  <2>3. Listed(m) /\ AtHead(m) /\ PassedOver(m) = PassedOver(k)
    BY <2>1, <2>2 DEF Listed, AtHead, PassedOver
  <2>4. LET x == Block(m, c, "RECEIVING")
        IN  PassedOver(x) \subseteq PassedOver(m) /\ (m.cur = c => PassedOver(x) = {})
    BY <2>1, <2>2, <2>3, BlockOver
  <2> QED BY <2>2, <2>3, <2>4 DEF m
<1>3. PassedOver(Inform(b)) \subseteq PassedOver(b) \cup {MM}
  <2> DEFINE i == Inform(b)
  <2>1. i.cur = b.cur /\ b.flags \in [Proc -> SUBSET Flag] /\ MM \in Proc
    BY <1>1, InformCur, Numbering DEF Inv, Kernel
  <2>2. i.flags = b.flags \/ i.flags = [b.flags EXCEPT ![MM] = @ \ {"RECEIVING"}]
    BY <1>1, InformFacts
  <2> HIDE DEF i, b
  <2>3. \A p \in Proc \ {MM} : i.flags[p] = {} => b.flags[p] = {}
    BY <2>1, <2>2
  <2>4. PassedOver(i) \subseteq PassedOver(b) \cup {MM}
    BY <2>1, <2>3, SameCurOver
  <2> QED BY <2>4 DEF i
<1> HIDE DEF b, r
<1> QED BY <1>1, <1>2, <1>3 DEF r

\* A process stays called back while those queued on it stay there, with what they have.
LEMMA BackKept ==
  ASSUME NEW k \in Kernel, NEW r, NEW t \in Proc, CalledBack(k, t),
         \A q \in Proc : q \in QueuedOn(k, t) => q \in QueuedOn(r, t) /\ r.mess[q] = k.mess[q]
  PROVE  CalledBack(r, t)
<1>1. PICK q \in ToSet(k.callerq[t]) : k.mess[q] = t \/ (t = SYSTASK /\ k.mess[q] = HARDWARE)
  BY DEF CalledBack
<1>2. q \in Proc
  <2>1. k.callerq[t] \in Seq(Proc)
    BY DEF Kernel
  <2> QED BY <2>1, ToSetIn
<1> QED BY <1>1, <1>2 DEF CalledBack, QueuedOn

\* A caller has composed its message: it is queued nowhere, so nothing else changes.
LEMMA OwnFacts ==
  ASSUME NEW k, KInv(k), Sent(k), NEW c \in Proc, k.flags[c] = {},
         NEW own, own = [k EXCEPT !.mess[c] = c]
  PROVE  /\ Sent(own) /\ own.cur = k.cur /\ own.mess = [k.mess EXCEPT ![c] = c] /\ own.mess[c] = c
         /\ \A d \in Proc : c \notin QueuedOn(k, d)
<1>1. /\ k \in Kernel /\ k.mess \in [Proc -> Proc]
      /\ \A d \in Proc : c \notin QueuedOn(k, d)
  BY DEF KInv, Inv, Kernel, Queued, QueuedOn
<1>2. /\ own.flags = k.flags /\ own.getfrom = k.getfrom /\ own.callerq = k.callerq
      /\ own.cur = k.cur /\ own.mess = [k.mess EXCEPT ![c] = c]
  BY <1>1 DEF Kernel
<1>3. Sent(own)
  <2> SUFFICES ASSUME NEW p \in Proc, NEW e \in Proc, p \in QueuedOn(k, e)
               PROVE  /\ e # HARDWARE
                      /\ "RECEIVING" \in own.flags[p] => own.getfrom[p] = e /\ <<BOTH, p, e>> \in Calls
                      /\ <<BOTH, p, e>> \notin Calls => own.mess[p] \in OwnMess(p)
    BY <1>2 DEF Sent, QueuedOn
  <2>1. own.mess[p] = k.mess[p]
    BY <1>1, <1>2
  <2> QED BY <1>2, <2>1 DEF Sent
<1> QED BY <1>1, <1>2, <1>3

\* What mini_send() makes of flags, queues and messages when it leads from k to m.
SendStep(k, m, c, d) ==
  /\ m.flags = IF Waiting(k, c, d) THEN [k.flags EXCEPT ![d] = @ \ {"RECEIVING"}]
                                    ELSE [k.flags EXCEPT ![c] = @ \cup {"SENDING"}]
  /\ \A e, p \in Proc : p \in QueuedOn(m, e) <=>
       p \in QueuedOn(k, e) \/ (~Waiting(k, c, d) /\ p = c /\ e = d)
  /\ m.mess = IF Waiting(k, c, d) THEN [k.mess EXCEPT ![d] = k.mess[c]] ELSE k.mess

\* All that mini_send() changes for a caller and a destination, in one name.
LEMMA SendChanges ==
  ASSUME NEW k, KInv(k), NEW c \in Proc \ {HARDWARE}, NEW d \in Proc \ {HARDWARE}, c # d,
         k.flags[c] = {}
  PROVE  SendStep(k, MiniSend(k, c, d), c, d)
<1>1. Inv(k) /\ c \in Proc /\ c # HARDWARE
  BY DEF KInv
<1>2. MiniSend(k, c, d).mess = IF Waiting(k, c, d) THEN [k.mess EXCEPT ![d] = k.mess[c]] ELSE k.mess
  BY <1>1, SendMess
<1> DEFINE r == MiniSend(k, c, d)
<1>3. /\ Inv(r)
      /\ r.getfrom = k.getfrom /\ r.pending = k.pending /\ r.sig_procs = k.sig_procs
      /\ r.flags = IF Waiting(k, c, d) THEN [k.flags EXCEPT ![d] = @ \ {"RECEIVING"}]
                                        ELSE [k.flags EXCEPT ![c] = @ \cup {"SENDING"}]
      /\ \A e, p \in Proc : p \in QueuedOn(r, e) <=>
           p \in QueuedOn(k, e) \/ (~Waiting(k, c, d) /\ p = c /\ e = d)
  BY <1>1, MiniSendFacts
<1> QED BY <1>2, <1>3 DEF SendStep

\* What mini_rec() changes when it finds the one process it asks for.
LEMMA FoundChanges ==
  ASSUME NEW m, KInv(m), NEW c \in Proc \ {HARDWARE}, NEW d \in Proc, Found(m, c, d) # {},
         NEW r, r = MiniRec(m, c, d)
  PROVE  /\ d \in QueuedOn(m, c) /\ r.cur = m.cur
         /\ r.flags = [m.flags EXCEPT ![d] = @ \ {"SENDING"}]
         /\ \A e, p \in Proc : p \in QueuedOn(r, e) <=> p \in QueuedOn(m, e) /\ ~(p = d /\ e = c)
         /\ r.mess = [m.mess EXCEPT ![c] = m.mess[d]]
<1>1. d \in Source /\ d # ANY /\ m \in Kernel
  BY Numbering DEF Source, KInv, Inv
<1>2. \E w \in Proc : /\ w \in QueuedOn(m, c) /\ d \in {ANY, w}
                      /\ r.mess = [m.mess EXCEPT ![c] = m.mess[w]]
  BY <1>1, FoundMess
<1>3. r.cur = m.cur
  BY <1>1, FoundCur
<1>4. /\ KInv(r) /\ r.getfrom = m.getfrom
      /\ \E w \in Proc :
           /\ w \in QueuedOn(m, c) /\ d \in {ANY, w}
           /\ r.flags = [m.flags EXCEPT ![w] = @ \ {"SENDING"}]
           /\ \A e, p \in Proc : p \in QueuedOn(r, e) <=>
                p \in QueuedOn(m, e) /\ ~(p = w /\ e = c)
  BY <1>1, MiniRecFound
<1>5. \A w \in Proc : d \in {ANY, w} => w = d
  BY <1>1
<1> QED BY <1>2, <1>3, <1>4, <1>5

\* mini_send(), then mini_rec(), of a caller whom its destination was already sending
\* to: that one is freed when another process has been picked, but it is the one that
\* called, and the caller's buffer now holds what it sent.
LEMMA CrossedFair ==
  ASSUME NEW k, KInv(k), Sent(k), NEW c \in Proc \ {HARDWARE}, NEW d \in Proc \ {HARDWARE}, c # d,
         k.cur = c, k.flags[c] = {}, ~Waiting(k, c, d), <<BOTH, d, c>> \notin Calls,
         NEW m, m = MiniSend(k, c, d), KInv(m), Found(m, c, d) # {},
         NEW r, r = MiniRec(m, c, d)
  PROVE  Fair(r)
<1>1. /\ k.flags \in [Proc -> SUBSET Flag] /\ m.flags \in [Proc -> SUBSET Flag]
      /\ m.mess \in [Proc -> Proc]
  BY DEF KInv, Inv, Kernel
<1>2. SendStep(k, m, c, d)
  BY SendChanges
<1>3. PassedOver(m) = {}
  BY SendOver
<1>4. /\ d \in QueuedOn(m, c) /\ r.cur = m.cur
      /\ r.flags = [m.flags EXCEPT ![d] = @ \ {"SENDING"}]
      /\ \A e, p \in Proc : p \in QueuedOn(r, e) <=> p \in QueuedOn(m, e) /\ ~(p = d /\ e = c)
      /\ r.mess = [m.mess EXCEPT ![c] = m.mess[d]]
  BY FoundChanges
<1>5. PassedOver(r) \subseteq {d}
  <2>1. \A p \in Proc \ {d} : r.flags[p] = {} => m.flags[p] = {}
    BY <1>1, <1>4
  <2>2. r.cur = m.cur
    BY <1>4
  <2> QED BY <1>3, <2>1, <2>2 DEF PassedOver
<1>6. CalledBack(r, d)
  <2>1. d \in QueuedOn(k, c)
    BY <1>2, <1>4 DEF SendStep
  <2>2. k.mess[d] \in OwnMess(d)
    BY <2>1 DEF Sent
  <2>3. c \in QueuedOn(r, d) /\ r.mess[c] = k.mess[d]
    BY <1>1, <1>2, <1>4 DEF SendStep
  <2> QED BY <2>2, <2>3 DEF CalledBack, QueuedOn, OwnMess
<1> QED BY <1>5, <1>6 DEF Fair

\* A user's request that a server waits for, and an answer of the server that the
\* user finds: the user runs on, and no task becomes ready.
LEMMA AnsweredFair ==
  ASSUME NEW k, KInv(k), Sent(k), Fair(k), NEW c \in Proc \ {HARDWARE}, NEW d \in {MM, FS}, c # d,
         c >= LOW_USER, k.cur = c, k.flags[c] = {}, Waiting(k, c, d),
         \A e \in Proc : c \notin QueuedOn(k, e),
         NEW m, m = MiniSend(k, c, d), KInv(m), Found(m, c, d) # {},
         NEW r, r = MiniRec(m, c, d)
  PROVE  Fair(r)
<1>1. /\ k \in Kernel /\ k.flags \in [Proc -> SUBSET Flag] /\ k.mess \in [Proc -> Proc]
      /\ m.flags \in [Proc -> SUBSET Flag] /\ m.mess \in [Proc -> Proc]
      /\ d \in Proc \ {HARDWARE} /\ d >= MM /\ c # IDLE /\ c \in Int /\ Proc \subseteq Int
  <2>1. /\ k \in Kernel /\ k.flags \in [Proc -> SUBSET Flag] /\ k.mess \in [Proc -> Proc]
        /\ m.flags \in [Proc -> SUBSET Flag] /\ m.mess \in [Proc -> Proc]
    BY DEF KInv, Inv, Kernel
  <2>2. d \in Proc \ {HARDWARE} /\ d >= MM
    BY Numbering DEF MM, FS, HARDWARE
  <2>3. c # IDLE /\ c \in Int /\ Proc \subseteq Int
    BY Numbering
  <2> QED BY <2>1, <2>2, <2>3
<1>2. /\ m.flags = [k.flags EXCEPT ![d] = @ \ {"RECEIVING"}]
      /\ \A e, p \in Proc : p \in QueuedOn(m, e) <=> p \in QueuedOn(k, e)
      /\ m.mess = [k.mess EXCEPT ![d] = k.mess[c]]
  <2>1. SendStep(k, m, c, d)
    BY <1>1, SendChanges
  <2> QED BY <2>1 DEF SendStep
<1>3. m.cur = c
  BY <1>1, SendOver
<1>4. /\ d \in QueuedOn(m, c) /\ r.cur = m.cur
      /\ r.flags = [m.flags EXCEPT ![d] = @ \ {"SENDING"}]
      /\ \A e, p \in Proc : p \in QueuedOn(r, e) <=> p \in QueuedOn(m, e) /\ ~(p = d /\ e = c)
      /\ r.mess = [m.mess EXCEPT ![c] = m.mess[d]]
  BY <1>1, FoundChanges
<1> SUFFICES ASSUME NEW p \in PassedOver(r)
             PROVE  CalledBack(r, p)
  BY DEF Fair
<1>5. p \in Proc \ {HARDWARE} /\ r.flags[p] = {} /\ p < MM /\ p # d /\ p # c
  <2>1. p \in Proc \ {HARDWARE} /\ r.flags[p] = {} /\ (r.cur = IDLE \/ p < MM)
    BY DEF PassedOver
  <2> QED BY <1>1, <1>3, <1>4, <2>1 DEF MM, LOW_USER
<1>6. k.flags[p] = {}
  BY <1>1, <1>2, <1>4, <1>5
<1>7. CalledBack(k, p)
  <2>1. p \in PassedOver(k)
    BY <1>5, <1>6 DEF PassedOver
  <2>2. p # MM
    BY <1>1, <1>5 DEF MM
  <2> QED BY <2>1, <2>2 DEF Fair
<1>8. ASSUME NEW q \in Proc, q \in QueuedOn(k, p)
      PROVE  q \in QueuedOn(r, p) /\ r.mess[q] = k.mess[q]
  <2>1. q # c
    BY <1>5, <1>8
  <2>2. q # d
    <3> SUFFICES ASSUME q = d PROVE FALSE
      OBVIOUS
    <3>1. k.getfrom[d] \in {c, ANY} /\ "RECEIVING" \in k.flags[d]
      BY DEF Waiting
    <3>2. d \in Proc /\ p \in Proc /\ p # c /\ p # ANY /\ d \in QueuedOn(k, p)
      BY <1>1, <1>5, <1>8, Numbering
    <3>3. k.getfrom[d] = p
      BY <3>1, <3>2 DEF Sent
    <3> QED BY <3>1, <3>2, <3>3
  <2> QED BY <1>1, <1>2, <1>4, <1>5, <1>8, <2>1, <2>2
<1>9. k \in Kernel /\ p \in Proc
  BY <1>1, <1>5
<1>10. \A q \in Proc : q \in QueuedOn(k, p) => q \in QueuedOn(r, p) /\ r.mess[q] = k.mess[q]
  BY <1>8
<1> QED BY <1>7, <1>9, <1>10, BackKept

\* A system call: the caller runs on, a user never past a task, or the first in line
\* runs; who becomes ready after that is MM, or the one the caller waited for.
LEMMA CallFair ==
  ASSUME OneWay, NEW k, KInv(k), Sent(k), Fair(k), NEW call \in Calls, k.cur = call[2],
         call[1] # BOTH => call[2] < LOW_USER,
         call[1] # RECEIVE => call[3] # ANY /\ ~SendFails(k, call[2], call[3]),
         NEW r, r = SysCallResult(k, call[1], call[2], call[3])
  PROVE  Sent(r) /\ Fair(r)
<1> DEFINE c   == call[2]
           sd  == call[3]
           own == [k EXCEPT !.mess[c] = c]
<1>1. /\ call[1] \in {SEND, RECEIVE, BOTH} /\ c \in Proc \ {HARDWARE} /\ sd \in Source
      /\ call[1] = BOTH => <<BOTH, c, sd>> \in Calls
      /\ c \in Int /\ c # IDLE
  <2>1. /\ call \in {SEND, RECEIVE, BOTH} \X (Proc \ {HARDWARE}) \X Source
    BY ConstantAssumption
  <2>2. call = <<call[1], c, sd>>
    BY <2>1
  <2>3. /\ call[1] \in {SEND, RECEIVE, BOTH} /\ c \in Proc \ {HARDWARE} /\ sd \in Source
    BY <2>1
  <2>4. call[1] = BOTH => <<BOTH, c, sd>> \in Calls
    BY <2>2
  <2> QED BY <2>3, <2>4, Numbering
<1>2. /\ k.flags[c] = {} /\ KInv(own) /\ own.flags = k.flags
      /\ own.getfrom = k.getfrom /\ own.callerq = k.callerq
      /\ call[1] # RECEIVE => sd \in Proc \ {HARDWARE} /\ c # sd
  BY CallerFacts
<1>3. /\ Sent(own) /\ own.cur = k.cur /\ own.mess = [k.mess EXCEPT ![c] = c] /\ own.mess[c] = c
      /\ \A d \in Proc : c \notin QueuedOn(k, d)
  BY <1>1, <1>2, OwnFacts
<1>4. r = CASE call[1] = SEND    -> MiniSend(own, c, sd)
            [] call[1] = RECEIVE -> MiniRec(k, c, sd)
            [] call[1] = BOTH    -> MiniRec(MiniSend(own, c, sd), c, sd)
  BY DEF SysCallResult
<1> HIDE DEF own
<1>5. k.cur = c /\ (call[1] # BOTH => c < LOW_USER)
  OBVIOUS
<1>6. ASSUME NEW x, x.cur = c, c < LOW_USER
      PROVE  PassedOver(x) = {}
  BY <1>1, <1>6 DEF PassedOver, LOW_USER
<1>7. ASSUME NEW x, PassedOver(x) \subseteq {MM}
      PROVE  Fair(x)
  BY <1>7 DEF Fair
<1> DEFINE m == MiniSend(own, c, sd)
<1>8. ASSUME call[1] # RECEIVE
      PROVE  /\ own.flags[c] = {} /\ own.cur = c /\ sd \in Proc \ {HARDWARE} /\ c # sd
             /\ KInv(m) /\ Sent(m) /\ "RECEIVING" \notin m.flags[c]
             /\ Waiting(own, c, sd) => m.cur = c
             /\ ~Waiting(own, c, sd) => PassedOver(m) = {}
             /\ SendStep(own, m, c, sd)
  <2>1. own.flags[c] = {} /\ own.cur = c /\ sd \in Proc \ {HARDWARE} /\ c # sd /\ c \in Proc /\ c # HARDWARE
    BY <1>1, <1>2, <1>3, <1>5, <1>8
  <2>2. KInv(m) /\ "RECEIVING" \notin m.flags[c]
    BY <1>2, <2>1, SendKeeps
  <2>3. Sent(m)
    BY <1>2, <1>3, <2>1, SendSent
  <2>4. (Waiting(own, c, sd) => m.cur = own.cur) /\ (~Waiting(own, c, sd) => PassedOver(m) = {})
    BY <1>2, <2>1, SendOver
  <2>5. SendStep(own, m, c, sd)
    BY <1>1, <1>2, <2>1, SendChanges
  <2> HIDE DEF m, c, sd
  <2> QED BY <2>1, <2>2, <2>3, <2>4, <2>5
<1> HIDE DEF m
<1>9. CASE call[1] = SEND
  <2>1. r = m /\ call[1] # RECEIVE
    BY <1>4, <1>9 DEF SEND, RECEIVE, BOTH, m
  <2>2. c < LOW_USER
    BY <1>5, <1>9 DEF SEND, BOTH
  <2>3. PassedOver(r) = {}
    BY <2>1, <2>2, <1>6, <1>8
  <2> QED BY <2>1, <2>3, <1>7, <1>8
<1>10. CASE call[1] = RECEIVE
  <2>1. r = MiniRec(k, c, sd) /\ c < LOW_USER
    BY <1>4, <1>5, <1>10 DEF SEND, RECEIVE, BOTH
  <2>2. "RECEIVING" \notin k.flags[c] /\ k \in Kernel
    BY <1>2 DEF KInv, Inv
  <2>3. Sent(r)
    BY <1>1, <1>3, <2>1, <2>2, RecSent
  <2>4. CASE Found(k, c, sd) # {}
    <3>1. r.cur = c
      BY <1>5, <2>1, <2>2, <2>4, FoundCur
    <3> QED BY <1>6, <1>7, <2>1, <2>3, <3>1
  <2>5. CASE Found(k, c, sd) = {}
    <3>1. PassedOver(r) \subseteq {MM}
      BY <1>1, <1>5, <2>1, <2>2, <2>5, BlockedOver
    <3> QED BY <1>7, <2>3, <3>1
  <2> QED BY <2>4, <2>5
<1>11. CASE call[1] = BOTH
  <2>1. r = MiniRec(m, c, sd) /\ call[1] # RECEIVE
    BY <1>4, <1>11 DEF SEND, RECEIVE, BOTH, m
  <2>2. /\ own.flags[c] = {} /\ own.cur = c /\ sd \in Proc \ {HARDWARE} /\ c # sd
        /\ KInv(m) /\ Sent(m) /\ "RECEIVING" \notin m.flags[c]
        /\ Waiting(own, c, sd) => m.cur = c
        /\ ~Waiting(own, c, sd) => PassedOver(m) = {}
        /\ SendStep(own, m, c, sd)
    BY <1>8, <2>1
  <2>3. \A d \in Proc : c \in QueuedOn(m, d) => sd = d /\ <<BOTH, c, d>> \in Calls
    <3>1. \A d \in Proc : c \in QueuedOn(m, d) => c \in QueuedOn(own, d) \/ d = sd
      BY <1>1, <2>2 DEF SendStep
    <3>2. \A d \in Proc : QueuedOn(own, d) = QueuedOn(k, d)
      BY <1>2 DEF QueuedOn
    <3> QED BY <1>1, <1>3, <1>11, <3>1, <3>2
  <2>4. Sent(r)
    BY <1>1, <2>1, <2>2, <2>3, RecSent
  <2>5. CASE Found(m, c, sd) = {}
    <3>1. /\ PassedOver(r) \subseteq PassedOver(m) \cup {MM}
          /\ m.cur = c => PassedOver(r) \subseteq {MM}
      BY <1>1, <2>1, <2>2, <2>5, BlockedOver
    <3>2. PassedOver(r) \subseteq {MM}
      BY <2>2, <3>1
    <3> QED BY <1>7, <2>4, <3>2
  <2>6. CASE Found(m, c, sd) # {} /\ ~Waiting(own, c, sd)
    <3>1. <<BOTH, sd, c>> \notin Calls
      BY <1>11 DEF OneWay
    <3>2. Fair(r)
      BY <1>1, <1>2, <1>3, <2>1, <2>2, <2>6, <3>1, CrossedFair DEF m
    <3> QED BY <2>4, <3>2
  <2>7. CASE Found(m, c, sd) # {} /\ Waiting(own, c, sd) /\ c < LOW_USER
    <3>1. m \in Kernel
      BY <2>2 DEF KInv, Inv
    <3>2. r.cur = c
      BY <2>1, <2>2, <2>7, <3>1, FoundCur
    <3> QED BY <1>6, <1>7, <2>4, <2>7, <3>2
  <2>8. CASE Found(m, c, sd) # {} /\ Waiting(own, c, sd) /\ ~(c < LOW_USER)
    <3>1. c >= LOW_USER /\ sd \in {MM, FS}
      BY <1>1, <2>1, <2>8 DEF LOW_USER, SendFails
    <3>2. \A e \in Proc : c \notin QueuedOn(own, e)
      BY <1>2, <1>3 DEF QueuedOn
    <3>3. Fair(own)
      <4>1. PassedOver(own) = PassedOver(k)
        BY <1>2, <1>3 DEF PassedOver
      <4>2. ASSUME NEW p \in Proc, CalledBack(k, p)
            PROVE  CalledBack(own, p)
        <5>1. k \in Kernel /\ k.mess \in [Proc -> Proc]
          BY DEF KInv, Inv, Kernel
        <5>2. \A q \in Proc : q \in QueuedOn(k, p) => q \in QueuedOn(own, p) /\ own.mess[q] = k.mess[q]
          BY <1>2, <1>3, <5>1 DEF QueuedOn
        <5> QED BY <4>2, <5>1, <5>2, BackKept
      <4> QED BY <4>1, <4>2 DEF Fair, PassedOver
    <3>4. Fair(r)
      BY <1>1, <1>2, <1>3, <2>1, <2>2, <2>8, <3>1, <3>2, <3>3, AnsweredFair DEF m
    <3> QED BY <2>4, <3>4
  <2> QED BY <2>5, <2>6, <2>7, <2>8
<1> QED BY <1>1, <1>9, <1>10, <1>11

\* cause_sig(), called by a task that runs, keeps the buffers of those who are queued.
LEMMA CauseFair ==
  ASSUME NEW k, KInv(k), Sent(k), k.cur \in Task, NEW p \in Slot
  PROVE  Sent(CauseSig(k, p)) /\ Fair(CauseSig(k, p))
<1> DEFINE r == CauseSig(k, p)
<1>1. PICK x : /\ r = Inform(x) /\ Inv(x) /\ Counted(x)
               /\ x.flags = k.flags /\ x.getfrom = k.getfrom /\ x.callerq = k.callerq
               /\ x.rdy = k.rdy /\ x.cur = k.cur /\ x.mess = k.mess
  BY MarkFacts DEF KInv
<1> HIDE DEF r
<1>2. Sent(x)
  BY <1>1 DEF Sent, QueuedOn
<1>3. Sent(r)
  BY <1>1, <1>2, InformSent
<1>4. r.cur \in Task
  BY <1>1, InformCur DEF Inv
<1>5. PassedOver(r) = {}
  <2>1. r.cur # IDLE
    BY <1>4, Numbering DEF Proc
  <2>2. ~(r.cur >= LOW_USER)
    BY <1>4, ConstantAssumption DEF Task, LOW_USER
  <2> QED BY <2>1, <2>2 DEF PassedOver
<1> QED BY <1>3, <1>5 DEF Fair, r

\* sched() picks after it has moved a user, or does nothing.
LEMMA SchedFair ==
  ASSUME NEW k, KInv(k), Sent(k), Fair(k)
  PROVE  Sent(Sched(k)) /\ Fair(Sched(k))
<1>1. CASE k.rdy[USER_Q] = <<>>
  BY <1>1 DEF Sched
<1>2. CASE k.rdy[USER_Q] # <<>>
  <2> DEFINE s == Append(Tail(k.rdy[USER_Q]), Head(k.rdy[USER_Q]))
             m == [k EXCEPT !.rdy[USER_Q] = s]
             r == PickProc(m)
  <2>1. /\ k \in Kernel /\ k.rdy \in [Queue -> Seq(Proc)] /\ USER_Q \in Queue
        /\ k.rdy[USER_Q] \in Seq(Proc) /\ IsInjective(k.rdy[USER_Q])
    BY DEF KInv, Inv, Kernel, Listed, Queue
  <2>2. s \in Seq(Proc) /\ ToSet(s) = ToSet(k.rdy[USER_Q]) /\ IsInjective(s)
    BY <1>2, <2>1, RotateFacts
  <2>3. Sched(k) = r
    BY <1>2 DEF Sched
  <2> HIDE DEF s
  <2>4. /\ m \in Kernel /\ Frame(k, m) /\ m.flags = k.flags
        /\ m.rdy = [k.rdy EXCEPT ![USER_Q] = s]
    BY <2>1, <2>2 DEF Kernel, Frame
  <2> HIDE DEF m
  <2>5. Listed(m)
    <3>1. \A q \in Queue : /\ ToSet(m.rdy[q]) = ToSet(k.rdy[q])
                           /\ IsInjective(m.rdy[q]) <=> IsInjective(k.rdy[q])
      BY <2>1, <2>2, <2>4
    <3> QED BY <2>4, <3>1 DEF KInv, Inv, Listed
  <2>6. PassedOver(r) = {}
    BY <2>4, <2>5, PickOver
  <2>7. Frame(m, r) /\ r.flags = m.flags
    <3>1. Classed(m)
      BY <2>5 DEF Listed, Classed
    <3> QED BY <2>4, <3>1, PickProcFacts
  <2> HIDE DEF r
  <2>8. Sent(r)
    BY <2>4, <2>7 DEF Sent, Frame, QueuedOn
  <2> QED BY <2>3, <2>6, <2>8 DEF Fair
<1> QED BY <1>1, <1>2

\* An interrupt: if it readies a task while a user runs or nobody does, it picks the
\* task; otherwise those who were passed over still are, for the same reasons.
LEMMA InterruptFair ==
  ASSUME IndInv, Sent(kern), Fair(kern), NEW t \in Devices, Interrupt(t)
  PROVE  Sent(kern') /\ Fair(kern')
<1> DEFINE sent  == ~SendFails(kern, HARDWARE, t)
           k     == IF sent THEN MiniSend(kern, HARDWARE, t) ELSE kern
           old   == IF sent THEN busy_map \ {t} ELSE busy_map
           woken == Woken(k, old)
           R     == {i \in woken : k.flags[i] = {"RECEIVING"}}
<1>1. /\ t \in Task \ {HARDWARE} /\ t \in Proc \ {HARDWARE} /\ KInv(kern) /\ Inv(kern)
      /\ HARDWARE \in Proc /\ HARDWARE # t /\ kern.flags[HARDWARE] = {}
      /\ kern \in Kernel /\ kern.mess \in [Proc -> Proc] /\ kern.flags \in [Proc -> SUBSET Flag]
  BY ConstantAssumption, Numbering DEF IndInv, KInv, Inv, Kernel
<1>2. /\ KInv(k) /\ Sent(k) /\ k.cur = kern.cur
      /\ \A p \in Proc \ {t} : k.flags[p] = kern.flags[p]
      /\ \A e, q \in Proc : q \in QueuedOn(k, e) <=> q \in QueuedOn(kern, e)
      /\ \A e, q \in Proc : q \in QueuedOn(kern, e) => k.mess[q] = kern.mess[q]
  <2>1. CASE sent
    <3>1. Waiting(kern, HARDWARE, t)
      BY <2>1 DEF SendFails
    <3> DEFINE x == MiniSend(kern, HARDWARE, t)
    <3>2. KInv(x)
      BY <1>1, <3>1, SendKeeps
    <3>3. Sent(x)
      BY <1>1, <3>1, SendSent
    <3>4. x.cur = kern.cur
      BY <1>1, <3>1, SendOver
    <3>5. /\ Inv(x)
          /\ x.getfrom = kern.getfrom /\ x.pending = kern.pending /\ x.sig_procs = kern.sig_procs
          /\ x.flags = IF Waiting(kern, HARDWARE, t) THEN [kern.flags EXCEPT ![t] = @ \ {"RECEIVING"}]
                                            ELSE [kern.flags EXCEPT ![HARDWARE] = @ \cup {"SENDING"}]
          /\ \A e, p \in Proc : p \in QueuedOn(x, e) <=>
               p \in QueuedOn(kern, e) \/ (~Waiting(kern, HARDWARE, t) /\ p = HARDWARE /\ e = t)
      BY <1>1, <3>1, MiniSendFacts
    <3>6. x.mess = [kern.mess EXCEPT ![t] = kern.mess[HARDWARE]]
      BY <1>1, <3>1, SendMess
    <3>7. k = x
      BY <2>1
    <3> HIDE DEF x, k
    <3>8. \A p \in Proc \ {t} : x.flags[p] = kern.flags[p]
      BY <1>1, <3>1, <3>5
    <3>9. \A e, q \in Proc : q \in QueuedOn(x, e) <=> q \in QueuedOn(kern, e)
      BY <3>1, <3>5
    <3>10. \A e, q \in Proc : q \in QueuedOn(kern, e) => x.mess[q] = kern.mess[q]
      <4>1. \A e \in Proc : t \notin QueuedOn(kern, e)
        BY <1>1, <3>1, QueuedDeaf
      <4> QED BY <1>1, <3>6, <4>1
    <3> QED BY <3>2, <3>3, <3>4, <3>7, <3>8, <3>9, <3>10
  <2>2. CASE ~sent
    BY <1>1, <2>2
  <2> QED BY <2>1, <2>2
<1>3. old \subseteq Task /\ \E order \in ScanOrders(R) : kern' = Preempt(SendPending(k, woken, order))
  BY DEF Interrupt, IndInv
<1> HIDE DEF k, old, sent
<1>4. woken \in SUBSET (Task \ {HARDWARE}) /\ \A i \in woken : Waiting(k, HARDWARE, i)
  BY <1>3 DEF Woken, SendFails, HARDWARE
<1>5. PICK o \in ScanOrders(R) : kern' = Preempt(SendPending(k, woken, o))
  BY <1>3
<1>6. o \in Seq(Proc) /\ ToSet(o) = R /\ IsInjective(o)
  BY <1>4, ScanFacts
<1> HIDE DEF woken
<1> DEFINE r == SendPending(k, woken, o)
<1>7. KInv(r)
  BY <1>2, <1>4, <1>6, SendPendingKeeps
<1>8. /\ Sent(r) /\ r.cur = k.cur /\ r.callerq = k.callerq
      /\ \A p \in Proc \ woken : r.flags[p] = k.flags[p] /\ r.mess[p] = k.mess[p]
  <2>1. k \in Kernel /\ woken \subseteq Proc
    BY <1>2, <1>4 DEF KInv, Inv, Proc
  <2> QED BY <1>2, <1>4, <2>1, PendingSent
<1> HIDE DEF r
<1>9. kern' = Preempt(r) /\ r \in Kernel /\ Listed(r)
  BY <1>5, <1>7 DEF r, KInv, Inv
<1>10. CASE r.rdy[TASK_Q] # <<>> /\ (r.cur >= 0 \/ r.cur = IDLE)
  <2>1. kern' = PickProc(r)
    BY <1>9, <1>10 DEF Preempt
  <2>2. PassedOver(kern') = {}
    BY <1>9, <2>1, PickOver
  <2>3. Frame(r, kern') /\ kern'.flags = r.flags
    <3>1. Classed(r)
      BY <1>9 DEF Listed, Classed
    <3> QED BY <1>9, <2>1, <3>1, PickProcFacts
  <2>4. Sent(kern')
    BY <1>8, <2>3 DEF Sent, Frame, QueuedOn
  <2> QED BY <2>2, <2>4 DEF Fair
<1>11. CASE ~(r.rdy[TASK_Q] # <<>> /\ (r.cur >= 0 \/ r.cur = IDLE))
  <2>1. kern' = r
    BY <1>9, <1>11 DEF Preempt
  <2> SUFFICES ASSUME NEW p \in PassedOver(r)
               PROVE  p = MM \/ CalledBack(r, p)
    BY <1>8, <2>1 DEF Fair
  <2>2. p \in Proc \ {HARDWARE} /\ r.flags[p] = {} /\ (r.cur = IDLE \/ (p < MM /\ r.cur >= LOW_USER))
    BY DEF PassedOver
  <2>3. p \notin Task
    <3> SUFFICES ASSUME p \in Task PROVE FALSE
      OBVIOUS
    <3>1. QueueOf(p) = TASK_Q /\ TASK_Q \in Queue
      BY ConstantAssumption DEF QueueOf, Task, Queue
    <3>2. p \in ToSet(r.rdy[TASK_Q])
      BY <1>9, <2>2, <3>1 DEF Listed
    <3>3. r.rdy[TASK_Q] # <<>>
      BY <3>2 DEF ToSet
    <3>4. r.cur >= 0 \/ r.cur = IDLE
      <4>1. r.cur = IDLE \/ r.cur \in Int
        BY <1>9, Numbering DEF Kernel
      <4> QED BY <2>2, <4>1 DEF LOW_USER
    <3> QED BY <1>11, <3>3, <3>4
  <2>4. p \notin woken /\ p # t
    BY <1>1, <1>4, <2>3
  <2>5. p \in PassedOver(kern)
    BY <1>2, <1>8, <2>2, <2>4 DEF PassedOver
  <2>6. CASE p = MM
    BY <2>6
  <2>7. CASE CalledBack(kern, p)
    <3>1. ASSUME NEW q \in Proc, q \in QueuedOn(kern, p)
          PROVE  q \in QueuedOn(r, p) /\ r.mess[q] = kern.mess[q]
      <4>1. q \in QueuedOn(k, p) /\ k.mess[q] = kern.mess[q]
        BY <1>2, <2>2, <3>1
      <4>2. q \notin woken
        BY <1>2, <1>4, <2>2, <4>1, QueuedDeaf
      <4> QED BY <1>8, <4>1, <4>2 DEF QueuedOn
    <3>2. p \in Proc /\ kern \in Kernel
      BY <1>1, <2>2
    <3>3. \A q \in Proc : q \in QueuedOn(kern, p) => q \in QueuedOn(r, p) /\ r.mess[q] = kern.mess[q]
      BY <3>1
    <3> QED BY <2>7, <3>2, <3>3, BackKept
  <2> QED BY <2>5, <2>6, <2>7 DEF Fair
<1> QED BY <1>10, <1>11

\* Main() leaves a task running.
LEMMA InitFair ==
  ASSUME Init
  PROVE  Sent(kern) /\ Fair(kern)
<1> DEFINE r1 == Numbers(-NR_TASKS, HARDWARE - 1)
           x  == [flags     |-> [p \in Proc |-> IF p \in Live THEN {} ELSE {"P_SLOT_FREE"}],
                  getfrom   |-> [p \in Proc |-> ANY],
                  callerq   |-> [p \in Proc |-> <<>>],
                  mess      |-> [p \in Proc |-> p],
                  rdy       |-> <<r1, Numbers(MM, FS), Numbers(LOW_USER, LAST_LIVE)>>,
                  cur       |-> 0,
                  prev      |-> 0,
                  bill      |-> HARDWARE,
                  pending   |-> {},
                  sig_procs |-> 0]
<1>1. kern = PickProc(x)
  BY DEF Init
<1> HIDE DEF r1
<1>2. kern.cur = Highest(x) /\ kern.rdy = x.rdy /\ kern.callerq = x.callerq
  BY <1>1 DEF PickProc
<1>3. kern.cur = Highest(kern)
  <2> HIDE DEF x
  <2> QED BY <1>2 DEF Highest
<1>4. \A p, d \in Proc : p \notin QueuedOn(kern, d)
  BY <1>2 DEF QueuedOn, ToSet
<1>5. kern \in Kernel /\ Listed(kern)
  BY InitKeeps DEF IndInv, KInv, Inv
<1>6. PassedOver(kern) = {}
  BY <1>3, <1>5, PickedOver
<1> QED BY <1>4, <1>6 DEF Sent, Fair

\* Every step keeps those who are passed over to the two exceptions.
LEMMA NextFair ==
  ASSUME OneWay, IndInv, Sent(kern), Fair(kern), [Next]_vars
  PROVE  Sent(kern') /\ Fair(kern')
<1>1. ASSUME NEW c \in Calls, SysCall(c[1], c[2], c[3])
      PROVE  Sent(kern') /\ Fair(kern')
  <2>1. /\ kern.cur = c[2] /\ (c[1] # BOTH => c[2] < LOW_USER)
        /\ c[1] # RECEIVE => c[3] # ANY /\ ~SendFails(kern, c[2], c[3])
        /\ kern' = SysCallResult(kern, c[1], c[2], c[3]) /\ KInv(kern)
    BY <1>1 DEF SysCall, IndInv
  <2> QED BY <2>1, CallFair
<1>2. ASSUME NEW t \in Devices, Interrupt(t)
      PROVE  Sent(kern') /\ Fair(kern')
  BY <1>2, InterruptFair
<1>3. ASSUME NEW p \in LOW_USER .. LAST_LIVE, CauseSignal(p)
      PROVE  Sent(kern') /\ Fair(kern')
  <2>1. p \in Slot
    BY ConstantAssumption DEF Slot, LOW_USER
  <2>2. KInv(kern) /\ kern.cur \in Task /\ kern' = CauseSig(kern, p)
    BY <1>3 DEF CauseSignal, IndInv
  <2> QED BY <2>1, <2>2, CauseFair
<1>4. CASE Reschedule
  <2>1. KInv(kern) /\ kern' = Sched(kern)
    BY <1>4 DEF Reschedule, IndInv
  <2> QED BY <2>1, SchedFair
<1>5. CASE TakeLostTicks \/ UNCHANGED vars
  <2>1. kern' = kern
    BY <1>5 DEF TakeLostTicks, vars
  <2> QED BY <2>1
<1> QED BY <1>1, <1>2, <1>3, <1>4, <1>5 DEF Next

\* By the lists or by the flags, those passed over are the same.
LEMMA FairIs ==
  ASSUME IndInv, Fair(kern)
  PROVE  PriorityKept
<1>1. Listed(kern) /\ kern \in Kernel
  BY DEF IndInv, KInv, Inv
<1>2. ASSUME kern.cur >= LOW_USER \/ kern.cur = IDLE, NEW p \in ToSet(kern.rdy[TASK_Q])
      PROVE  CalledBack(kern, p)
  <2>1. p \in Proc /\ TASK_Q \in Queue
    <3>1. kern.rdy[TASK_Q] \in Seq(Proc)
      BY <1>1 DEF Kernel, Queue
    <3> QED BY <1>2, <3>1, ToSetIn DEF Queue
  <2>2. QueueOf(p) = TASK_Q /\ kern.flags[p] = {} /\ p # HARDWARE
    BY <1>1, <1>2, <2>1 DEF Listed
  <2>3. p < MM
    <3>1. p \in Int
      BY <2>1, Numbering
    <3> QED BY <2>2, <3>1 DEF QueueOf, MM, TASK_Q, SERVER_Q, USER_Q
  <2>4. p \in PassedOver(kern) /\ p # MM
    BY <1>2, <2>1, <2>2, <2>3 DEF PassedOver, MM
  <2> QED BY <2>4 DEF Fair
<1>3. ASSUME kern.cur = IDLE, NEW p \in Proc \ {HARDWARE, MM}, kern.flags[p] = {}
      PROVE  CalledBack(kern, p)
  BY <1>3 DEF PassedOver, Fair
<1> QED BY <1>2, <1>3 DEF PriorityKept

\* A task that is ready is passed over by a user or the idle loop, and any process
\* but MM by the idle loop, only if it was called back: provided requests go one way.
THEOREM PriorityHolds == ASSUME OneWay PROVE Spec => []PriorityKept
<1> DEFINE I == IndInv /\ Sent(kern) /\ Fair(kern)
<1>1. Init => I
  BY InitKeeps, InitFair
<1>2. I /\ [Next]_vars => I'
  <2> SUFFICES ASSUME I, [Next]_vars PROVE I'
    OBVIOUS
  <2>1. IndInv'
    BY NextKeeps
  <2>2. Sent(kern') /\ Fair(kern')
    BY NextFair
  <2>3. Sent(kern)' /\ Fair(kern)'
    BY <2>2 DEF Sent, Fair, PassedOver, CalledBack, QueuedOn
  <2> QED BY <2>1, <2>3
<1>3. I => PriorityKept
  BY FairIs
<1> HIDE DEF I
<1> QED BY <1>1, <1>2, <1>3, PTL DEF Spec
-----------------------------------------------------------------------------
(* The kernel implements Rendezvous. *)

\* Who p is queued on and whom it wants a message from, in a kernel state.
To(k, p)   == IF "SENDING" \in k.flags[p]
              THEN CHOOSE d \in Proc : p \in ToSet(k.callerq[d]) ELSE NOBODY
From(k, p) == IF "RECEIVING" \in k.flags[p] THEN k.getfrom[p] ELSE NOBODY
Tos(k)     == [p \in Proc |-> To(k, p)]
Froms(k)   == [p \in Proc |-> From(k, p)]
State(k)   == [to |-> Tos(k), from |-> Froms(k)]

\* The queue a process is on says on whom it is blocked.
LEMMA ToFacts ==
  ASSUME NEW k, Inv(k), NEW p \in Proc
  PROVE  /\ \A d \in Proc : p \in QueuedOn(k, d) <=> To(k, p) = d
         /\ To(k, p) = NOBODY <=> "SENDING" \notin k.flags[p]
<1>1. /\ "SENDING" \in k.flags[p] <=> \E d \in Proc : p \in QueuedOn(k, d)
      /\ \A d, e \in Proc : p \in QueuedOn(k, d) /\ p \in QueuedOn(k, e) => d = e
  BY DEF Inv, Queued, QueuedOn
<1>2. NOBODY \notin Proc
  BY Numbering DEF NOBODY
<1>3. "SENDING" \in k.flags[p] => To(k, p) \in Proc /\ p \in QueuedOn(k, To(k, p))
  BY <1>1 DEF To, QueuedOn
<1>4. "SENDING" \notin k.flags[p] => To(k, p) = NOBODY
  BY DEF To
<1> QED BY <1>1, <1>2, <1>3, <1>4

\* A process on the same queue is blocked on the same process.
LEMMA SameTo ==
  ASSUME NEW k, Inv(k), NEW r, Inv(r), NEW p \in Proc,
         \A d \in Proc : p \in QueuedOn(r, d) <=> p \in QueuedOn(k, d)
  PROVE  To(r, p) = To(k, p)
<1>1. CASE \E d \in Proc : p \in QueuedOn(k, d)
  BY <1>1, ToFacts
<1>2. CASE ~\E d \in Proc : p \in QueuedOn(k, d)
  BY <1>2, ToFacts DEF Inv, Queued, QueuedOn
<1> QED BY <1>1, <1>2

\* Waiting for a message from c is wanting one from c or from anybody.
LEMMA WaitingIs ==
  ASSUME NEW k, k.getfrom \in [Proc -> Source], NEW c \in Proc, NEW d \in Proc
  PROVE  Waiting(k, c, d) <=> From(k, d) \in {c, ANY}
BY Numbering DEF Waiting, From, NOBODY

\* mini_send() does what a send does.
LEMMA SendMaps ==
  ASSUME NEW k, KInv(k), NEW c \in Proc, NEW d \in Proc \ {HARDWARE}, c # d,
         k.flags[c] = {}, c = HARDWARE => Waiting(k, c, d)
  PROVE  State(MiniSend(k, c, d)) = IPC!AfterSend(State(k), c, d)
<1> DEFINE r == MiniSend(k, c, d)
<1>1. /\ Inv(k) /\ k.flags \in [Proc -> SUBSET Flag] /\ k.getfrom \in [Proc -> Source]
  BY DEF KInv, Inv, Kernel
<1>2. /\ Inv(r) /\ r.getfrom = k.getfrom
      /\ r.flags = IF Waiting(k, c, d) THEN [k.flags EXCEPT ![d] = @ \ {"RECEIVING"}]
                                       ELSE [k.flags EXCEPT ![c] = @ \cup {"SENDING"}]
      /\ \A e, p \in Proc : p \in QueuedOn(r, e) <=>
           p \in QueuedOn(k, e) \/ (~Waiting(k, c, d) /\ p = c /\ e = d)
  <2>1. c # HARDWARE => k.flags[c] = {}
    OBVIOUS
  <2> QED BY <1>1, <2>1, MiniSendFacts
<1> HIDE DEF r
<1>3. CASE Waiting(k, c, d)
  <2>1. \A p \in Proc : To(r, p) = To(k, p)
    BY <1>1, <1>2, <1>3, SameTo
  <2>2. \A p \in Proc : From(r, p) = IF p = d THEN NOBODY ELSE From(k, p)
    BY <1>1, <1>2, <1>3 DEF From
  <2>3. IPC!AfterSend(State(k), c, d) = [State(k) EXCEPT !.from[d] = NOBODY]
    BY <1>1, <1>3, WaitingIs DEF IPC!AfterSend, State, Froms
  <2>4. Tos(r) = Tos(k) /\ Froms(r) = [Froms(k) EXCEPT ![d] = NOBODY]
    BY <2>1, <2>2 DEF Tos, Froms
  <2> QED BY <2>3, <2>4 DEF State, r
<1>4. CASE ~Waiting(k, c, d)
  <2>1. \A p \in Proc : To(r, p) = IF p = c THEN d ELSE To(k, p)
    BY <1>1, <1>2, <1>4, SameTo, ToFacts
  <2>2. \A p \in Proc : From(r, p) = From(k, p)
    BY <1>1, <1>2, <1>4 DEF From
  <2>3. IPC!AfterSend(State(k), c, d) = [State(k) EXCEPT !.to[c] = d]
    BY <1>1, <1>4, WaitingIs DEF IPC!AfterSend, State, Froms
  <2>4. Tos(r) = [Tos(k) EXCEPT ![c] = d] /\ Froms(r) = Froms(k)
    BY <2>1, <2>2 DEF Tos, Froms
  <2> QED BY <2>3, <2>4 DEF State, r
<1> QED BY <1>3, <1>4

\* mini_rec() does what a receive does, except that a signal may reach MM at once.
LEMMA RecMaps ==
  ASSUME NEW k, KInv(k), NEW c \in Proc \ {HARDWARE}, NEW s \in Source,
         "RECEIVING" \notin k.flags[c]
  PROVE  \/ State(MiniRec(k, c, s)) \in IPC!AfterReceive(State(k), c, s)
         \/ c = MM /\ s = ANY /\ State(MiniRec(k, c, s)) = State(k)
<1> DEFINE r == MiniRec(k, c, s)
           senders == {p \in Proc : To(k, p) = c /\ s \in {p, ANY}}
<1>1. /\ Inv(k) /\ k.flags \in [Proc -> SUBSET Flag] /\ k.getfrom \in [Proc -> Source]
      /\ k.callerq \in [Proc -> Seq(Proc)]
  BY DEF KInv, Inv, Kernel
<1>2. {p \in Proc : State(k).to[p] = c /\ s \in {p, ANY}} = senders
  BY DEF State, Tos
<1>3. IPC!AfterReceive(State(k), c, s) =
        IF senders # {} THEN {[State(k) EXCEPT !.to[p] = NOBODY] : p \in senders}
                        ELSE {[State(k) EXCEPT !.from[c] = s]}
  BY <1>2 DEF IPC!AfterReceive
<1>4. CASE Found(k, c, s) # {}
  <2>1. /\ KInv(r) /\ r.getfrom = k.getfrom
        /\ \E w \in Proc :
             /\ w \in QueuedOn(k, c) /\ s \in {ANY, w}
             /\ r.flags = [k.flags EXCEPT ![w] = @ \ {"SENDING"}]
             /\ \A e, p \in Proc : p \in QueuedOn(r, e) <=>
                  p \in QueuedOn(k, e) /\ ~(p = w /\ e = c)
    BY <1>4, MiniRecFound
  <2> HIDE DEF r
  <2>2. PICK w \in Proc :
             /\ w \in QueuedOn(k, c) /\ s \in {ANY, w}
             /\ r.flags = [k.flags EXCEPT ![w] = @ \ {"SENDING"}]
             /\ \A e, p \in Proc : p \in QueuedOn(r, e) <=>
                  p \in QueuedOn(k, e) /\ ~(p = w /\ e = c)
    BY <2>1
  <2>3. Inv(r)
    BY <2>1 DEF KInv
  <2>4. w \in senders
    BY <1>1, <2>2, ToFacts
  <2>5. To(r, w) = NOBODY
    BY <1>1, <2>2 DEF To
  <2>6. \A p \in Proc : To(r, p) = IF p = w THEN NOBODY ELSE To(k, p)
    BY <1>1, <2>2, <2>3, <2>5, SameTo
  <2>7. \A p \in Proc : From(r, p) = From(k, p)
    BY <1>1, <2>1, <2>2 DEF From
  <2>8. State(r) = [State(k) EXCEPT !.to[w] = NOBODY]
    <3>1. Tos(r) = [Tos(k) EXCEPT ![w] = NOBODY]
      BY <2>6 DEF Tos
    <3>2. Froms(r) = Froms(k)
      BY <2>7 DEF Froms
    <3> QED BY <3>1, <3>2 DEF State
  <2> QED BY <1>3, <2>4, <2>8 DEF r
<1>5. CASE Found(k, c, s) = {}
  <2>1. /\ KInv(r)
        /\ r.getfrom = [k.getfrom EXCEPT ![c] = s]
        /\ \/ r.flags = [k.flags EXCEPT ![c] = @ \cup {"RECEIVING"}]
           \/ c = MM /\ s = ANY /\ r.flags = k.flags
        /\ \A e, p \in Proc : p \in QueuedOn(r, e) <=> p \in QueuedOn(k, e)
    BY <1>5, MiniRecBlocked
  <2> HIDE DEF r
  <2>2. senders = {}
    <3> SUFFICES ASSUME NEW p \in Proc, To(k, p) = c, s \in {p, ANY} PROVE FALSE
      OBVIOUS
    <3>1. p \in QueuedOn(k, c)
      BY <1>1, ToFacts
    <3>2. PICK i \in DOMAIN k.callerq[c] : p = k.callerq[c][i]
      BY <3>1 DEF QueuedOn, ToSet
    <3> QED BY <3>2, <1>5 DEF Found
  <2>3. \A p \in Proc : To(r, p) = To(k, p)
    BY <1>1, <2>1, SameTo DEF KInv
  <2>4. CASE r.flags = [k.flags EXCEPT ![c] = @ \cup {"RECEIVING"}]
    <3>1. \A p \in Proc : From(r, p) = IF p = c THEN s ELSE From(k, p)
      BY <1>1, <2>1, <2>4 DEF From
    <3>2. State(r) = [State(k) EXCEPT !.from[c] = s]
      <4>1. Froms(r) = [Froms(k) EXCEPT ![c] = s]
        BY <3>1 DEF Froms
      <4>2. Tos(r) = Tos(k)
        BY <2>3 DEF Tos
      <4> QED BY <4>1, <4>2 DEF State
    <3> QED BY <1>3, <2>2, <3>2 DEF r
  <2>5. CASE c = MM /\ s = ANY /\ r.flags = k.flags
    <3>1. \A p \in Proc : From(r, p) = From(k, p)
      BY <1>1, <2>1, <2>5 DEF From
    <3> QED BY <2>3, <2>5, <3>1 DEF State, Tos, Froms, r
  <2> QED BY <2>1, <2>4, <2>5
<1> QED BY <1>4, <1>5

\* The variables of Rendezvous are the state of the kernel.
LEMMA NowIs ==
  /\ IPC!Now = State(kern)
  /\ \A b : IPC!Then(b) <=> State(kern').to = b.to /\ State(kern').from = b.from
  /\ \A p \in Proc : kern.flags[p] = {} => IPC!Free(p)
BY DEF IPC!Now, IPC!Then, IPC!Free, State, Tos, Froms, To, From, BlockedOn, WaitsFor

\* A system call is a send, a receive or both.
LEMMA SysCallMaps ==
  ASSUME IndInv, NEW call \in Calls, SysCall(call[1], call[2], call[3])
  PROVE  IPC!Next \/ State(kern') = State(kern)
<1> DEFINE c  == call[2]
           sd == call[3]
           own == [kern EXCEPT !.mess[c] = c]
<1>1. /\ KInv(kern) /\ kern.cur = c
      /\ call[1] # RECEIVE => sd # ANY /\ ~SendFails(kern, c, sd)
      /\ kern' = SysCallResult(kern, call[1], c, sd)
  BY DEF SysCall, IndInv
<1>2. call[1] \in {SEND, RECEIVE, BOTH} /\ c \in Proc \ {HARDWARE} /\ sd \in Source
  BY ConstantAssumption
<1>3. /\ kern.flags[c] = {} /\ KInv(own) /\ own.flags = kern.flags
      /\ call[1] # RECEIVE => sd \in Proc \ {HARDWARE} /\ c # sd
      /\ own.getfrom = kern.getfrom /\ own.callerq = kern.callerq
  <2>1. KInv(kern) /\ kern.cur = call[2]
    BY <1>1
  <2>2. call[1] # RECEIVE => call[3] # ANY /\ ~SendFails(kern, call[2], call[3])
    BY <1>1
  <2> HIDE DEF own
  <2>3. own = [kern EXCEPT !.mess[call[2]] = call[2]]
    BY DEF own
  <2> QED BY <2>1, <2>2, <2>3, CallerFacts
<1>4. State(own) = State(kern) /\ IPC!Now = State(kern) /\ IPC!Free(c)
  BY <1>2, <1>3, NowIs DEF State, Tos, Froms, To, From
<1> HIDE DEF own
<1>5. call[1] # RECEIVE => /\ State(MiniSend(own, c, sd)) = IPC!AfterSend(State(kern), c, sd)
                           /\ KInv(MiniSend(own, c, sd))
                           /\ "RECEIVING" \notin MiniSend(own, c, sd).flags[c]
  BY <1>2, <1>3, <1>4, SendMaps, SendKeeps
<1>6. CASE call[1] = SEND
  <2>1. kern' = MiniSend(own, c, sd)
    BY <1>1, <1>6 DEF SysCallResult, SEND, RECEIVE, BOTH, own
  <2>2. IPC!Send(c, sd)
    BY <2>1, <1>4, <1>5, <1>6, NowIs DEF IPC!Send, SEND, RECEIVE
  <2> QED BY <2>2, <1>2, <1>3, <1>6 DEF IPC!Next, SEND, RECEIVE
<1>7. CASE call[1] = RECEIVE
  <2>1. kern' = MiniRec(kern, c, sd)
    BY <1>1, <1>7 DEF SysCallResult, SEND, RECEIVE, BOTH
  <2>2. State(kern') \in IPC!AfterReceive(State(kern), c, sd) \/ State(kern') = State(kern)
    <3>0. kern.flags[c] = {}
      BY <1>3
    <3>1. KInv(kern) /\ "RECEIVING" \notin kern.flags[c] /\ c \in Proc \ {HARDWARE} /\ sd \in Source
      BY <3>0, <1>1, <1>2
    <3> QED BY <2>1, <3>1, RecMaps
  <2>3. CASE State(kern') \in IPC!AfterReceive(State(kern), c, sd)
    <3>1. IPC!Receive(c, sd)
      BY <2>3, <1>4, NowIs DEF IPC!Receive
    <3> QED BY <3>1, <1>2 DEF IPC!Next, Source
  <2> QED BY <2>2, <2>3
<1>8. CASE call[1] = BOTH
  <2> DEFINE m == MiniSend(own, c, sd)
  <2>1. kern' = MiniRec(m, c, sd) /\ sd # ANY /\ sd \in Proc \ {HARDWARE}
    BY <1>1, <1>3, <1>8 DEF SysCallResult, SEND, RECEIVE, BOTH, own
  <2>2. State(m) = IPC!AfterSend(State(kern), c, sd) /\ KInv(m) /\ "RECEIVING" \notin m.flags[c]
    BY <1>5, <1>8 DEF BOTH, RECEIVE
  <2> HIDE DEF m
  <2>3. State(kern') \in IPC!AfterReceive(State(m), c, sd)
    BY <2>1, <2>2, <1>2, RecMaps
  <2>4. IPC!SendRec(c, sd)
    BY <2>2, <2>3, <1>4, NowIs DEF IPC!SendRec
  <2> QED BY <2>1, <2>4, <1>2 DEF IPC!Next
<1> QED BY <1>2, <1>6, <1>7, <1>8

\* Some processes of S stop waiting for a message of the hardware, and nothing else changes.
Delivered(k, r, S) ==
  /\ \A p \in S : From(k, p) \in {ANY, HARDWARE}
  /\ Tos(r) = Tos(k)
  /\ \A p \in Proc : From(r, p) = IF p \in S THEN NOBODY ELSE From(k, p)

\* The flags of a slot that no message changes: whether it is in use and mapped.
SlotsSame(k, r) ==
  \A p \in Proc, f \in {"P_SLOT_FREE", "NO_MAP"} : f \in r.flags[p] <=> f \in k.flags[p]

\* An interrupt delivers its task's message and those of the tasks it finds waiting.
LEMMA InterruptMaps ==
  ASSUME IndInv, NEW t \in Devices, Interrupt(t)
  PROVE  /\ \E S \in SUBSET Proc : Delivered(kern, kern', S)
         /\ \A i \in busy_map' \ {HARDWARE} :
              "P_SLOT_FREE" \notin kern.flags[i] => ~Waiting(kern', HARDWARE, i)
         /\ SlotsSame(kern, kern')
<1> DEFINE sent  == ~SendFails(kern, HARDWARE, t)
           k     == IF sent THEN MiniSend(kern, HARDWARE, t) ELSE kern
           one   == IF sent THEN {t} ELSE {}
           old   == IF sent THEN busy_map \ {t} ELSE busy_map
           woken == Woken(k, old)
           R     == {i \in woken : k.flags[i] = {"RECEIVING"}}
<1>1. t \in Proc \ {HARDWARE} /\ HARDWARE \in Proc /\ KInv(kern) /\ kern.flags[HARDWARE] = {}
  BY Numbering DEF IndInv, KInv, Inv
<1>2. /\ KInv(k) /\ k.getfrom = kern.getfrom /\ Tos(k) = Tos(kern)
      /\ sent => Waiting(kern, HARDWARE, t)
      /\ k.flags = [p \in Proc |-> IF p \in one THEN kern.flags[p] \ {"RECEIVING"} ELSE kern.flags[p]]
  <2>1. CASE sent
    <3>1. Waiting(kern, HARDWARE, t) /\ Inv(kern)
      BY <1>1, <2>1 DEF SendFails, KInv
    <3>2. /\ k.getfrom = kern.getfrom /\ Inv(k)
          /\ k.flags = [kern.flags EXCEPT ![t] = @ \ {"RECEIVING"}]
          /\ \A e, p \in Proc : p \in QueuedOn(k, e) <=> p \in QueuedOn(kern, e)
      BY <1>1, <2>1, <3>1, MiniSendFacts
    <3>3. KInv(k)
      BY <1>1, <2>1, <3>1, SendKeeps
    <3> HIDE DEF k
    <3>4. Tos(k) = Tos(kern)
      BY <3>1, <3>2, SameTo DEF Tos
    <3>5. kern.flags \in [Proc -> SUBSET Flag]
      BY <3>1 DEF Inv, Kernel
    <3> QED BY <2>1, <3>1, <3>2, <3>3, <3>4, <3>5
  <2>2. CASE ~sent
    <3>1. kern.flags \in [Proc -> SUBSET Flag]
      BY <1>1 DEF KInv, Inv, Kernel
    <3> QED BY <1>1, <2>2, <3>1
  <2> QED BY <2>1, <2>2
<1>3. /\ busy_map' = (IF sent \/ t = CLOCK THEN old ELSE busy_map \cup {t}) \ woken
      /\ \E order \in ScanOrders(R) : kern' = Preempt(SendPending(k, woken, order))
  BY DEF Interrupt
<1>4. /\ old \subseteq busy_map
      /\ busy_map \subseteq Task
      /\ sent => t \notin old
      /\ ~sent => old = busy_map
  BY DEF IndInv
<1> HIDE DEF k
<1>5. woken \subseteq old /\ \A i \in woken : Waiting(k, HARDWARE, i) /\ i \in Proc
  BY <1>4 DEF Woken, SendFails, HARDWARE, Proc
<1>6. PICK o \in ScanOrders(R) : kern' = Preempt(SendPending(k, woken, o))
  BY <1>3
<1>7. /\ kern'.getfrom = k.getfrom /\ kern'.callerq = k.callerq
      /\ kern'.flags = [p \in Proc |-> IF p \in woken THEN k.flags[p] \ {"RECEIVING"} ELSE k.flags[p]]
  <2> DEFINE r == SendPending(k, woken, o)
  <2>1. k \in Kernel
    BY <1>2 DEF KInv, Inv
  <2> HIDE DEF woken
  <2>2. /\ r.getfrom = k.getfrom /\ r.callerq = k.callerq
        /\ r.flags = [p \in Proc |-> IF p \in woken THEN k.flags[p] \ {"RECEIVING"} ELSE k.flags[p]]
    BY <2>1 DEF Kernel, SendPending
  <2>3. Preempt(r) = r \/ Preempt(r) = PickProc(r)
    BY DEF Preempt
  <2>4. /\ PickProc(r).getfrom = r.getfrom /\ PickProc(r).callerq = r.callerq
        /\ PickProc(r).flags = r.flags
    <3>1. DOMAIN r = DOMAIN k
      BY DEF SendPending
    <3>2. DOMAIN k = {"flags", "getfrom", "callerq", "mess", "rdy", "cur", "prev", "bill",
                      "pending", "sig_procs"}
      BY <2>1 DEF Kernel
    <3> HIDE DEF r
    <3> QED BY <3>1, <3>2 DEF PickProc
  <2> QED BY <1>6, <2>2, <2>3, <2>4
<1> HIDE DEF woken, old, sent
<1>8. Delivered(kern, kern', one \cup woken)
  <2>1. k.getfrom \in [Proc -> Source] /\ kern.getfrom \in [Proc -> Source]
    BY <1>1, <1>2 DEF KInv, Inv, Kernel
  <2>2. ASSUME NEW p \in Proc
        PROVE  From(kern', p) = IF p \in one \cup woken THEN NOBODY ELSE From(kern, p)
    BY <1>2, <1>7 DEF From
  <2>3. ASSUME NEW p \in one \cup woken
        PROVE  From(kern, p) \in {ANY, HARDWARE}
    <3>1. CASE p \in one
      BY <3>1, <1>1, <1>2, <2>1, WaitingIs
    <3>2. CASE p \in woken
      <4>1. Waiting(kern, HARDWARE, p)
        BY <3>2, <1>2, <1>5 DEF Waiting
      <4> QED BY <3>2, <4>1, <1>1, <1>5, <2>1, WaitingIs
    <3> QED BY <3>1, <3>2
  <2>4. Tos(kern') = Tos(k)
    BY <1>7 DEF Tos, To
  <2> QED BY <1>2, <2>2, <2>3, <2>4 DEF Delivered
<1>9. ASSUME NEW i \in busy_map', i # HARDWARE, "P_SLOT_FREE" \notin kern.flags[i]
      PROVE  ~Waiting(kern', HARDWARE, i)
  <2>1. i \in Task /\ i \notin woken /\ (i \in old \/ (i = t /\ ~sent))
    <3>1. t \in Task
      BY ConstantAssumption
    <3>2. busy_map' = (IF sent \/ t = CLOCK THEN old ELSE busy_map \cup {t}) \ woken
      BY <1>3
    <3>3. CASE sent \/ t = CLOCK
      <4>1. i \in old /\ i \notin woken
        BY <1>9, <3>2, <3>3
      <4>2. i \in Task
        BY <1>4, <4>1
      <4> QED BY <4>1, <4>2
    <3>4. CASE ~sent /\ t # CLOCK
      <4>1. i \in busy_map \cup {t} /\ i \notin woken
        BY <1>9, <3>2, <3>4
      <4> QED BY <1>4, <3>1, <3>4, <4>1
    <3> QED BY <3>3, <3>4
  <2>2. CASE i \in old
    <3>1. -i \in 2 .. NR_TASKS /\ i \in Proc
      BY <2>1, <1>9, ConstantAssumption DEF Task, HARDWARE, Proc
    <3>2. SendFails(k, HARDWARE, i)
      BY <3>1, <2>1, <2>2 DEF Woken, woken
    <3>3. ~Waiting(k, HARDWARE, i)
      BY <3>1, <3>2, <1>2, <1>9 DEF SendFails, HARDWARE, LOW_USER
    <3> QED BY <3>1, <3>3, <2>1, <1>7 DEF Waiting
  <2>3. CASE i = t /\ ~sent
    <3>1. ~Waiting(kern, HARDWARE, i)
      BY <2>3, <1>9 DEF SendFails, HARDWARE, LOW_USER, sent
    <3>2. k = kern
      BY <2>3 DEF k, sent
    <3> QED BY <3>1, <3>2, <2>1, <1>1, <1>7, <2>3 DEF Waiting
  <2> QED BY <2>1, <2>2, <2>3
<1>10. one \cup woken \in SUBSET Proc
  BY <1>1, <1>5
<1>11. SlotsSame(kern, kern')
  BY <1>2, <1>7 DEF SlotsSame
<1> QED BY <1>8, <1>9, <1>10, <1>11

\* A signal delivers SYSTASK's message to MM or nothing.
LEMMA SignalMaps ==
  ASSUME KInv(kern), NEW p \in Slot, kern' = CauseSig(kern, p)
  PROVE  \E S \in SUBSET Proc : Delivered(kern, kern', S)
<1>1. /\ kern \in Kernel /\ kern.flags \in [Proc -> SUBSET Flag] /\ MM \in Proc /\ HARDWARE \in Proc
      /\ kern.getfrom \in [Proc -> Source]
  BY Numbering DEF KInv, Inv, Kernel
<1>2. PICK m : /\ kern' = Inform(m) /\ m.flags = kern.flags /\ m.getfrom = kern.getfrom
               /\ m.callerq = kern.callerq /\ Inv(m) /\ Counted(m)
  BY MarkFacts DEF KInv
<1>3. /\ Inv(kern') /\ kern'.getfrom = kern.getfrom
      /\ \/ kern'.flags = kern.flags
         \/ /\ Waiting(m, HARDWARE, MM)
            /\ kern'.flags = [kern.flags EXCEPT ![MM] = @ \ {"RECEIVING"}]
      /\ \A e, x \in Proc : x \in QueuedOn(kern', e) <=> x \in QueuedOn(kern, e)
  BY <1>2, InformFacts DEF QueuedOn
<1>4. Tos(kern') = Tos(kern)
  BY <1>3, SameTo DEF Tos, KInv
<1>5. CASE kern'.flags = kern.flags
  <2>1. \A x \in Proc : From(kern', x) = From(kern, x)
    BY <1>3, <1>5 DEF From
  <2>2. Delivered(kern, kern', {})
    BY <2>1, <1>4 DEF Delivered
  <2> QED BY <2>2
<1>6. CASE /\ Waiting(m, HARDWARE, MM)
           /\ kern'.flags = [kern.flags EXCEPT ![MM] = @ \ {"RECEIVING"}]
  <2>1. From(kern, MM) \in {ANY, HARDWARE}
    <3>1. Waiting(kern, HARDWARE, MM)
      BY <1>2, <1>6 DEF Waiting
    <3> QED BY <3>1, <1>1, WaitingIs
  <2>2. \A x \in Proc : From(kern', x) = IF x \in {MM} THEN NOBODY ELSE From(kern, x)
    BY <1>1, <1>3, <1>6 DEF From
  <2> QED BY <2>1, <2>2, <1>1, <1>4 DEF Delivered
<1> QED BY <1>3, <1>5, <1>6

\* A delivery of the hardware is Rendezvous's.
LEMMA DeliveredMaps ==
  ASSUME NEW S \in SUBSET Proc, Delivered(kern, kern', S)
  PROVE  IPC!Hardware
<1>1. /\ [p \in Proc |-> BlockedOn(p)] = Tos(kern) /\ [p \in Proc |-> WaitsFor(p)] = Froms(kern)
      /\ [p \in Proc |-> BlockedOn(p)]' = Tos(kern') /\ [p \in Proc |-> WaitsFor(p)]' = Froms(kern')
  BY DEF Tos, Froms, To, From, BlockedOn, WaitsFor
<1>2. S \in SUBSET {p \in Proc : Froms(kern)[p] \in {ANY, HARDWARE}}
  BY DEF Delivered, Froms
<1>3. Froms(kern') = [p \in Proc |-> IF p \in S THEN NOBODY ELSE Froms(kern)[p]]
  BY DEF Delivered, Froms
<1> QED BY <1>1, <1>2, <1>3 DEF IPC!Hardware, Delivered

\* The kernel implements the rendezvous of its processes.
THEOREM KernelImplementsRendezvous == Spec => ImplementsRendezvous
<1> DEFINE absvars == <<[p \in Proc |-> BlockedOn(p)], [p \in Proc |-> WaitsFor(p)]>>
<1>1. Init => IPC!Init
  <2> SUFFICES ASSUME Init PROVE IPC!Init
    OBVIOUS
  <2>1. kern.flags = [p \in Proc |-> IF p \in Live THEN {} ELSE {"P_SLOT_FREE"}]
    BY DEF Init, PickProc
  <2>2. \A p \in Proc : BlockedOn(p) = NOBODY /\ WaitsFor(p) = NOBODY
    BY <2>1 DEF BlockedOn, WaitsFor
  <2> QED BY <2>2 DEF IPC!Init
<1>2. IndInv /\ [Next]_vars => [IPC!Next]_absvars
  <2> SUFFICES ASSUME IndInv, [Next]_vars
               PROVE  IPC!Next \/ State(kern') = State(kern)
    BY DEF State, Tos, Froms, To, From, BlockedOn, WaitsFor
  <2>1. ASSUME NEW S \in SUBSET Proc, Delivered(kern, kern', S)
        PROVE  IPC!Next
    BY <2>1, DeliveredMaps DEF IPC!Next
  <2>2. ASSUME NEW c \in Calls, SysCall(c[1], c[2], c[3])
        PROVE  IPC!Next \/ State(kern') = State(kern)
    BY <2>2, SysCallMaps
  <2>3. ASSUME NEW t \in Devices, Interrupt(t)
        PROVE  IPC!Next
    BY <2>1, <2>3, InterruptMaps
  <2>4. ASSUME NEW p \in LOW_USER .. LAST_LIVE, CauseSignal(p)
        PROVE  IPC!Next
    <3>1. p \in Slot
      BY ConstantAssumption DEF Slot, LOW_USER
    <3> QED BY <2>1, <2>4, <3>1, SignalMaps DEF CauseSignal, IndInv
  <2>5. CASE TakeLostTicks \/ UNCHANGED vars
    BY <2>5 DEF TakeLostTicks, vars
  <2>6. CASE Reschedule
    <3>1. kern' = Sched(kern) /\ kern \in Kernel
      BY <2>6 DEF Reschedule, IndInv, KInv, Inv
    <3>2. kern'.flags = kern.flags /\ kern'.getfrom = kern.getfrom /\ kern'.callerq = kern.callerq
      BY <3>1 DEF Sched, PickProc, Kernel
    <3> QED BY <3>2 DEF State, Tos, Froms, To, From
  <2> QED BY <2>2, <2>3, <2>4, <2>5, <2>6 DEF Next
<1> QED BY <1>1, <1>2, Invariance, PTL DEF Spec, ImplementsRendezvous, IPC!Spec, IPC!vars
-----------------------------------------------------------------------------
(* The tasks that interrupt() finds listening. *)

\* mini_send() and mini_rec() set and clear SENDING and RECEIVING only.
LEMMA SendSlots ==
  ASSUME NEW k, KInv(k), NEW c \in Proc, NEW d \in Proc \ {HARDWARE}, c # d,
         k.flags[c] = {}, c = HARDWARE => Waiting(k, c, d)
  PROVE  SlotsSame(k, MiniSend(k, c, d))
<1> DEFINE r == MiniSend(k, c, d)
<1> SUFFICES SlotsSame(k, r)
  OBVIOUS
<1>1. Inv(k) /\ k.flags \in [Proc -> SUBSET Flag]
  BY DEF KInv, Inv, Kernel
<1>2. r.flags = IF Waiting(k, c, d) THEN [k.flags EXCEPT ![d] = @ \ {"RECEIVING"}]
                                    ELSE [k.flags EXCEPT ![c] = @ \cup {"SENDING"}]
  BY <1>1, MiniSendFacts
<1> HIDE DEF r
<1> QED BY <1>1, <1>2 DEF SlotsSame

\* mini_rec() neither takes nor frees a slot.
LEMMA RecSlots ==
  ASSUME NEW k, KInv(k), NEW c \in Proc \ {HARDWARE}, NEW s \in Source,
         "RECEIVING" \notin k.flags[c]
  PROVE  SlotsSame(k, MiniRec(k, c, s))
<1> DEFINE r == MiniRec(k, c, s)
<1> SUFFICES SlotsSame(k, r)
  OBVIOUS
<1>1. k.flags \in [Proc -> SUBSET Flag]
  BY DEF KInv, Inv, Kernel
<1>2. CASE Found(k, c, s) # {}
  <2>1. \E w \in Proc : r.flags = [k.flags EXCEPT ![w] = @ \ {"SENDING"}]
    BY <1>2, MiniRecFound
  <2> HIDE DEF r
  <2> QED BY <1>1, <2>1 DEF SlotsSame
<1>3. CASE Found(k, c, s) = {}
  <2>1. /\ KInv(r)
        /\ r.getfrom = [k.getfrom EXCEPT ![c] = s]
        /\ \/ r.flags = [k.flags EXCEPT ![c] = @ \cup {"RECEIVING"}]
           \/ c = MM /\ s = ANY /\ r.flags = k.flags
        /\ \A e, p \in Proc : p \in QueuedOn(r, e) <=> p \in QueuedOn(k, e)
    BY <1>3, MiniRecBlocked
  <2> HIDE DEF r
  <2> QED BY <1>1, <2>1 DEF SlotsSame
<1> QED BY <1>2, <1>3

\* A call leaves every slot as it is.
LEMMA SysCallSlots ==
  ASSUME IndInv, NEW call \in Calls, SysCall(call[1], call[2], call[3])
  PROVE  SlotsSame(kern, kern')
<1> DEFINE c  == call[2]
           sd == call[3]
           own == [kern EXCEPT !.mess[c] = c]
<1>1. /\ KInv(kern) /\ kern.cur = c
      /\ call[1] # RECEIVE => sd # ANY /\ ~SendFails(kern, c, sd)
      /\ kern' = SysCallResult(kern, call[1], c, sd)
  BY DEF SysCall, IndInv
<1>2. call[1] \in {SEND, RECEIVE, BOTH} /\ c \in Proc \ {HARDWARE} /\ sd \in Source
  BY ConstantAssumption
<1>3. /\ kern.flags[c] = {} /\ KInv(own) /\ own.flags = kern.flags
      /\ call[1] # RECEIVE => sd \in Proc \ {HARDWARE} /\ c # sd
  <2>1. KInv(kern) /\ kern.cur = call[2]
    BY <1>1
  <2>2. call[1] # RECEIVE => call[3] # ANY /\ ~SendFails(kern, call[2], call[3])
    BY <1>1
  <2> HIDE DEF own
  <2>3. own = [kern EXCEPT !.mess[call[2]] = call[2]]
    BY DEF own
  <2> QED BY <2>1, <2>2, <2>3, CallerFacts
<1>4. CASE call[1] = RECEIVE
  <2>1. kern' = MiniRec(kern, c, sd)
    BY <1>1, <1>4 DEF SysCallResult, SEND, RECEIVE, BOTH
  <2>2. kern.flags[c] = {}
    BY <1>3
  <2>3. KInv(kern) /\ "RECEIVING" \notin kern.flags[c] /\ c \in Proc \ {HARDWARE} /\ sd \in Source
    BY <2>2, <1>1, <1>2
  <2> QED BY <2>1, <2>3, RecSlots
<1>5. CASE call[1] # RECEIVE
  <2> DEFINE m == MiniSend(own, c, sd)
  <2>1. kern' = m \/ kern' = MiniRec(m, c, sd)
    BY <1>1, <1>2, <1>5 DEF SysCallResult, SEND, RECEIVE, BOTH
  <2> HIDE DEF own
  <2>2. KInv(m) /\ "RECEIVING" \notin m.flags[c] /\ SlotsSame(own, m)
    BY <1>2, <1>3, <1>5, SendKeeps, SendSlots
  <2> HIDE DEF m
  <2>3. SlotsSame(kern, m)
    BY <1>3, <2>2 DEF SlotsSame
  <2>4. SlotsSame(m, MiniRec(m, c, sd))
    BY <1>2, <2>2, RecSlots
  <2> QED BY <2>1, <2>3, <2>4 DEF SlotsSame
<1> QED BY <1>4, <1>5

\* cause_sig() leaves every slot as it is.
LEMMA SignalSlots ==
  ASSUME NEW k, KInv(k), NEW p \in Slot
  PROVE  SlotsSame(k, CauseSig(k, p))
<1>1. PICK m : CauseSig(k, p) = Inform(m) /\ m.flags = k.flags /\ Inv(m) /\ Counted(m)
  BY MarkFacts DEF KInv
<1>2. \/ Inform(m).flags = k.flags
      \/ Inform(m).flags = [k.flags EXCEPT ![MM] = @ \ {"RECEIVING"}]
  BY <1>1, InformFacts
<1>3. k.flags \in [Proc -> SUBSET Flag]
  BY DEF KInv, Inv, Kernel
<1> QED BY <1>1, <1>2, <1>3 DEF SlotsSame

\* No step gives a slot to a process, takes one away or maps one.
LEMMA StepSlots ==
  ASSUME IndInv, [Next]_vars
  PROVE  SlotsSame(kern, kern')
<1>1. ASSUME NEW c \in Calls, SysCall(c[1], c[2], c[3])
      PROVE  SlotsSame(kern, kern')
  BY <1>1, SysCallSlots
<1>2. ASSUME NEW t \in Devices, Interrupt(t)
      PROVE  SlotsSame(kern, kern')
  BY <1>2, InterruptMaps
<1>3. ASSUME NEW p \in LOW_USER .. LAST_LIVE, CauseSignal(p)
      PROVE  SlotsSame(kern, kern')
  <2>1. p \in Slot
    BY ConstantAssumption DEF Slot, LOW_USER
  <2> QED BY <1>3, <2>1, SignalSlots DEF CauseSignal, IndInv
<1>4. CASE TakeLostTicks \/ UNCHANGED vars
  BY <1>4 DEF TakeLostTicks, vars, SlotsSame
<1>5. CASE Reschedule
  <2>1. kern' = Sched(kern) /\ kern \in Kernel
    BY <1>5 DEF Reschedule, IndInv, KInv, Inv
  <2>2. kern'.flags = kern.flags
    BY <2>1 DEF Sched, PickProc, Kernel
  <2> QED BY <2>2 DEF SlotsSame
<1> QED BY <1>1, <1>2, <1>3, <1>4, <1>5 DEF Next

\* Only tasks with interrupts are ever busy, and every task is installed.
Installed == busy_map \subseteq Devices /\ \A t \in Task : "P_SLOT_FREE" \notin kern.flags[t]

\* interrupt() marks only tasks that have interrupts, and no call frees a task's slot.
LEMMA InstalledKept == Spec => []Installed
<1>1. Init => Installed
  <2> SUFFICES ASSUME Init PROVE Installed
    OBVIOUS
  <2>1. kern.flags = [p \in Proc |-> IF p \in Live THEN {} ELSE {"P_SLOT_FREE"}] /\ busy_map = {}
    BY DEF Init, PickProc
  <2> QED BY <2>1 DEF Installed, Live, Proc
<1>2. IndInv /\ Installed /\ [Next]_vars => Installed'
  <2> SUFFICES ASSUME IndInv, Installed, [Next]_vars
               PROVE  Installed'
    OBVIOUS
  <2>1. \A t \in Task : "P_SLOT_FREE" \notin kern'.flags[t]
    BY StepSlots DEF SlotsSame, Installed, Proc
  <2>2. busy_map' \subseteq Devices
    <3>1. ASSUME NEW t \in Devices, Interrupt(t)
          PROVE  busy_map' \subseteq busy_map \cup {t}
      BY <3>1 DEF Interrupt
    <3>2. busy_map' = busy_map \/ \E t \in Devices : Interrupt(t)
      BY DEF Next, SysCall, CauseSignal, TakeLostTicks, Reschedule, vars
    <3> QED BY <3>1, <3>2 DEF Installed
  <2> QED BY <2>1, <2>2 DEF Installed
<1> QED BY <1>1, <1>2, Invariance, PTL DEF Spec

\* After an interrupt no task is both busy and waiting for its message.
THEOREM BusyServed == Spec => BusyTasksServed
<1> DEFINE Served_ == \A t \in Devices : Interrupt(t) =>
                        \A i \in busy_map' : ~Waiting(kern', HARDWARE, i)
<1>1. IndInv /\ Installed /\ Installed' /\ [Next]_vars => [Served_]_vars
  <2> SUFFICES ASSUME IndInv, Installed, Installed', NEW t \in Devices, Interrupt(t),
                      NEW i \in busy_map'
               PROVE  ~Waiting(kern', HARDWARE, i)
    OBVIOUS
  <2>1. i \in Task \ {HARDWARE}
    BY ConstantAssumption DEF Installed
  <2>2. "P_SLOT_FREE" \notin kern.flags[i]
    BY <2>1 DEF Installed
  <2> QED BY <2>1, <2>2, InterruptMaps
<1> QED BY <1>1, Invariance, InstalledKept, PTL DEF Spec, BusyTasksServed
=============================================================================
