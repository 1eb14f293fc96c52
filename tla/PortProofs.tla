----------------------------- MODULE PortProofs -----------------------------
(***************************************************************************)
(* What holds of the port's kernel (PortProc) for every number of tasks    *)
(* and processes, every set of calls and every length of the quantum.      *)
(*                                                                         *)
(* The port's procedures differ from those of MINIX in when they call      *)
(* pick_proc(): a trap leaves the caller running unless it blocks, and the *)
(* interrupt always picks.  So the invariant has a part that every         *)
(* procedure keeps (Inv) and a part that the dispatchers establish         *)
(* (KInv: the process chosen heads its list, or nobody can run).           *)
(***************************************************************************)
EXTENDS PortProc, SeqLemmas, FiniteSetTheorems

\* The constants are what their names say: ANY and IDLE are not processes.
LEMMA Numbering ==
  /\ Proc \subseteq Int /\ IsFiniteSet(Proc) /\ NONE \in Proc
  /\ HARDWARE \in Proc /\ CLOCK \in Proc /\ CLOCK # HARDWARE
  /\ ANY \notin Proc /\ IDLE \notin Proc /\ ANY # IDLE
  /\ \A p \in Proc : QueueOf(p) \in Queue
  /\ ToSet(Created) \subseteq Proc \ {HARDWARE}
<1>1. /\ Proc \subseteq Int /\ NONE \in Proc /\ HARDWARE \in Proc /\ CLOCK \in Proc /\ CLOCK # HARDWARE
      /\ ANY \notin Proc /\ IDLE \notin Proc /\ ANY # IDLE
  BY PortAssumption DEF Proc, HARDWARE, CLOCK, ANY, IDLE, NONE
<1>2. \A p \in Proc : QueueOf(p) \in Queue
  BY DEF QueueOf, Queue
<1>3. ToSet(Created) \subseteq Proc \ {HARDWARE}
  BY PortAssumption, ToSetIn
<1>4. IsFiniteSet(Proc)
  <2>1. -NR_TASKS \in Int /\ NR_PROCS - 1 \in Int
    BY PortAssumption
  <2> QED BY <2>1, FS_Interval DEF Proc
<1> QED BY <1>1, <1>2, <1>3, <1>4

\* What pick_proc() leaves alone.
Same(k, r) == /\ r.flags = k.flags /\ r.getfrom = k.getfrom
              /\ r.callerq = k.callerq /\ r.rdy = k.rdy

\* The machine idles only when nobody can run.
IdleOnly(k) == k.cur = IDLE => \A p \in Proc : k.flags[p] # {}

\* pick_proc() makes the head of a list run, and idles only if all are empty.
LEMMA PickProcFacts ==
  ASSUME NEW k \in Kernel, Listed(k)
  PROVE  /\ PickProc(k) \in Kernel /\ Same(k, PickProc(k))
         /\ AtHead(PickProc(k)) /\ IdleOnly(PickProc(k))
<1> DEFINE r == PickProc(k)
           q == IF k.rdy[TASK_Q] # <<>> THEN TASK_Q
                ELSE IF k.rdy[SERVER_Q] # <<>> THEN SERVER_Q ELSE USER_Q
           h == Head(k.rdy[q])
<1>1. q \in Queue /\ k.rdy \in [Queue -> Seq(Proc)] /\ k.rdy[q] \in Seq(Proc)
  BY DEF Queue, Kernel
<1>2. r = IF k.rdy[q] # <<>> THEN [k EXCEPT !.cur = h, !.ptr = h]
                             ELSE [k EXCEPT !.cur = IDLE, !.ptr = HARDWARE]
  BY DEF PickProc
<1>3. k.rdy[q] = <<>> => \A x \in Queue : k.rdy[x] = <<>>
  BY DEF Queue
<1> HIDE DEF q, r
<1>4. CASE k.rdy[q] # <<>>
  <2>1. h \in Proc /\ h \in ToSet(k.rdy[q])
    BY <1>1, <1>4, HeadFacts
  <2>2. QueueOf(h) = q /\ h # IDLE
    BY <1>1, <2>1, Numbering DEF Listed
  <2> HIDE DEF h
  <2>3. r = [k EXCEPT !.cur = h, !.ptr = h]
    BY <1>2, <1>4 DEF h
  <2>4. r \in Kernel /\ Same(k, r) /\ r.cur = h /\ r.ptr = h
    BY <2>1, <2>3 DEF Kernel, Same
  <2>5. AtHead(r) /\ IdleOnly(r)
    BY <1>4, <2>2, <2>4 DEF AtHead, IdleOnly, Same, h
  <2> QED BY <2>4, <2>5 DEF r
<1>5. CASE k.rdy[q] = <<>>
  <2>1. r = [k EXCEPT !.cur = IDLE, !.ptr = HARDWARE]
    BY <1>2, <1>5
  <2>2. r \in Kernel /\ Same(k, r) /\ r.cur = IDLE /\ r.ptr = HARDWARE
    BY <2>1, Numbering DEF Kernel, Same
  <2>3. ASSUME NEW p \in Proc
        PROVE  r.flags[p] # {}
    <3>1. QueueOf(p) \in Queue /\ ToSet(k.rdy[QueueOf(p)]) = {}
      BY <1>3, <1>5, Numbering, EmptySeq DEF ToSet
    <3> QED BY <2>2, <3>1 DEF Listed, Same
  <2> QED BY <2>2, <2>3 DEF AtHead, IdleOnly, r
<1> QED BY <1>4, <1>5

\* ready() puts a process at the tail of its list: whoever runs stays at the head.
LEMMA ReadyFacts ==
  ASSUME NEW k \in Kernel, NEW p \in Proc, AtHead(k)
  PROVE  LET r == Ready(k, p)
         IN  /\ r \in Kernel /\ AtHead(r)
             /\ r.flags = k.flags /\ r.getfrom = k.getfrom /\ r.callerq = k.callerq
             /\ r.cur = k.cur
             /\ r.rdy = [k.rdy EXCEPT ![QueueOf(p)] = Append(@, p)]
<1> DEFINE r == Ready(k, p)
<1>1. QueueOf(p) \in Queue
  BY Numbering
<1>2. k.rdy \in [Queue -> Seq(Proc)] /\ k.cur \in Proc \cup {IDLE}
  BY DEF Kernel
<1>3. k.rdy[QueueOf(p)] \in Seq(Proc)
  BY <1>1, <1>2
<1>4. /\ Append(k.rdy[QueueOf(p)], p) \in Seq(Proc)
      /\ Append(k.rdy[QueueOf(p)], p) # <<>>
      /\ k.rdy[QueueOf(p)] # <<>> =>
           Head(Append(k.rdy[QueueOf(p)], p)) = Head(k.rdy[QueueOf(p)])
  BY <1>3, AppendFacts
<1>5. r = [k EXCEPT !.rdy = [k.rdy EXCEPT ![QueueOf(p)] = Append(@, p)]]
  BY DEF Ready
<1>6. [k.rdy EXCEPT ![QueueOf(p)] = Append(@, p)] \in [Queue -> Seq(Proc)]
  BY <1>1, <1>2, <1>4
<1>7. r \in Kernel
  BY <1>5, <1>6 DEF Kernel
<1>8. /\ r.flags = k.flags /\ r.getfrom = k.getfrom /\ r.callerq = k.callerq
      /\ r.cur = k.cur /\ r.ptr = k.ptr
      /\ r.rdy = [k.rdy EXCEPT ![QueueOf(p)] = Append(@, p)]
  BY <1>5 DEF Kernel
<1>9. AtHead(r)
  BY <1>1, <1>2, <1>4, <1>8, Numbering DEF AtHead
<1> QED BY <1>7, <1>8, <1>9

\* A process that loses its last flag joins its list.
LEMMA DeblockFacts ==
  ASSUME NEW k \in Kernel, NEW p \in Proc, NEW f \in k.flags[p], Listed(k), AtHead(k)
  PROVE  LET r == Deblock(k, p, f)
         IN  /\ r \in Kernel /\ Listed(r) /\ AtHead(r)
             /\ r.flags = [k.flags EXCEPT ![p] = @ \ {f}]
             /\ r.getfrom = k.getfrom /\ r.callerq = k.callerq /\ r.cur = k.cur
<1> DEFINE m == [k EXCEPT !.flags[p] = @ \ {f}]
           r == Deblock(k, p, f)
           q == QueueOf(p)
<1>1. q \in Queue
  BY Numbering
<1>2. k.rdy \in [Queue -> Seq(Proc)] /\ k.flags \in [Proc -> SUBSET Flag]
  BY DEF Kernel
<1>3. /\ m \in Kernel
      /\ m.flags = [k.flags EXCEPT ![p] = @ \ {f}]
      /\ m.getfrom = k.getfrom /\ m.callerq = k.callerq
      /\ m.rdy = k.rdy /\ m.cur = k.cur /\ m.ptr = k.ptr
  BY <1>2 DEF Kernel
<1>4. AtHead(m)
  BY <1>3 DEF AtHead
<1>5. r = IF m.flags[p] = {} THEN Ready(m, p) ELSE m
  BY DEF Deblock
<1>6. p \notin ToSet(k.rdy[q])
  BY <1>1 DEF Listed
<1> HIDE DEF m
<1>7. CASE m.flags[p] = {}
  <2> DEFINE n == Ready(m, p)
  <2>1. /\ n \in Kernel /\ AtHead(n)
        /\ n.flags = m.flags /\ n.getfrom = m.getfrom /\ n.callerq = m.callerq
        /\ n.cur = m.cur
        /\ n.rdy = [m.rdy EXCEPT ![q] = Append(@, p)]
    BY <1>3, <1>4, ReadyFacts
  <2> HIDE DEF n
  <2>2. /\ ToSet(Append(k.rdy[q], p)) = ToSet(k.rdy[q]) \cup {p}
        /\ IsInjective(Append(k.rdy[q], p))
    <3>1. k.rdy[q] \in Seq(Proc) /\ IsInjective(k.rdy[q])
      BY <1>1, <1>2 DEF Listed
    <3> QED BY <1>6, <3>1, AppendFacts
  <2>3. Listed(n)
    BY <1>1, <1>2, <1>3, <1>6, <1>7, <2>1, <2>2 DEF Listed
  <2> QED BY <1>3, <1>5, <1>7, <2>1, <2>3 DEF n
<1>8. CASE m.flags[p] # {}
  <2>1. Listed(m)
    BY <1>1, <1>2, <1>3, <1>6, <1>8 DEF Listed
  <2> QED BY <1>3, <1>4, <1>5, <1>8, <2>1
<1> QED BY <1>7, <1>8

\* What a process that has to wait does: it gets a flag and is not ready any more.
Block(k, p, f) == Unready([k EXCEPT !.flags[p] = @ \cup {f}], p)

\* The running process gets a flag: it leaves its list and another is picked.
LEMMA BlockFacts ==
  ASSUME NEW k \in Kernel, NEW p \in Proc, NEW f \in Flag, Listed(k), AtHead(k), k.cur = p
  PROVE  LET r == Block(k, p, f)
         IN  /\ r \in Kernel /\ Listed(r) /\ AtHead(r) /\ IdleOnly(r)
             /\ r.flags = [k.flags EXCEPT ![p] = @ \cup {f}]
             /\ r.getfrom = k.getfrom /\ r.callerq = k.callerq
<1> DEFINE m == [k EXCEPT !.flags[p] = @ \cup {f}]
           q == QueueOf(p)
           n == [m EXCEPT !.rdy[q] = RemoveFirst(@, p)]
           r == Block(k, p, f)
<1>1. q \in Queue
  BY Numbering
<1>2. k.rdy \in [Queue -> Seq(Proc)] /\ k.flags \in [Proc -> SUBSET Flag]
  BY DEF Kernel
<1>3. k.rdy[q] \in Seq(Proc) /\ IsInjective(k.rdy[q])
  BY <1>1, <1>2 DEF Listed
<1>4. /\ RemoveFirst(k.rdy[q], p) \in Seq(Proc)
      /\ ToSet(RemoveFirst(k.rdy[q], p)) = ToSet(k.rdy[q]) \ {p}
      /\ IsInjective(RemoveFirst(k.rdy[q], p))
  BY <1>3, RemoveFirstFacts
<1>5. /\ m \in Kernel
      /\ m.flags = [k.flags EXCEPT ![p] = @ \cup {f}]
      /\ m.getfrom = k.getfrom /\ m.callerq = k.callerq /\ m.rdy = k.rdy
  BY <1>2 DEF Kernel
<1>6. k.rdy[q] # <<>> /\ Head(k.rdy[q]) = p
  BY Numbering DEF AtHead
<1>7. r = PickProc(n)
  BY <1>5, <1>6 DEF Block, Unready
<1>8. /\ n \in Kernel /\ n.flags = m.flags /\ n.getfrom = k.getfrom /\ n.callerq = k.callerq
      /\ n.rdy = [k.rdy EXCEPT ![q] = RemoveFirst(@, p)]
  <2>1. [k.rdy EXCEPT ![q] = RemoveFirst(@, p)] \in [Queue -> Seq(Proc)]
    BY <1>1, <1>2, <1>4
  <2> HIDE DEF m
  <2>2. n = [m EXCEPT !.rdy = [k.rdy EXCEPT ![q] = RemoveFirst(@, p)]]
    BY <1>5
  <2> QED BY <1>5, <2>1, <2>2 DEF Kernel
<1> HIDE DEF m, n
<1>9. Listed(n)
  <2>1. n.rdy[q] = RemoveFirst(k.rdy[q], p)
    BY <1>1, <1>2, <1>8
  <2>2. \A x \in Queue : x # q => n.rdy[x] = k.rdy[x]
    BY <1>2, <1>8
  <2>3. \A x \in Queue : IsInjective(n.rdy[x])
    BY <1>4, <2>1, <2>2 DEF Listed
  <2>4. n.flags[p] # {} /\ \A x \in Proc : x # p => n.flags[x] = k.flags[x]
    BY <1>2, <1>5, <1>8, ZenonT(60)
  <2>5. ASSUME NEW x \in Queue
        PROVE  ToSet(n.rdy[x]) = {y \in Proc : QueueOf(y) = x /\ n.flags[y] = {}}
    <3>1. ToSet(k.rdy[x]) = {y \in Proc : QueueOf(y) = x /\ k.flags[y] = {}}
      BY DEF Listed
    <3>2. CASE x = q
      BY <1>4, <2>1, <2>4, <3>1, <3>2
    <3>3. CASE x # q
      BY <2>2, <2>4, <3>1, <3>3
    <3> QED BY <3>2, <3>3
  <2> QED BY <2>3, <2>5 DEF Listed
<1>10. /\ PickProc(n) \in Kernel /\ Same(n, PickProc(n))
       /\ AtHead(PickProc(n)) /\ IdleOnly(PickProc(n))
  BY <1>8, <1>9, PickProcFacts
<1>11. Listed(PickProc(n))
  BY <1>9, <1>10 DEF Listed, Same
<1> QED BY <1>5, <1>7, <1>8, <1>10, <1>11 DEF Same
-----------------------------------------------------------------------------
\* The processes queued on e.
QueuedOn(k, e) == ToSet(k.callerq[e])

\* A process is SENDING iff it is on a caller queue, on one and once.
Queued(k) ==
  /\ \A e \in Proc : IsInjective(k.callerq[e])
  /\ \A p, e, x \in Proc : p \in QueuedOn(k, e) /\ p \in QueuedOn(k, x) => e = x
  /\ \A p \in Proc : "SENDING" \in k.flags[p] <=> \E e \in Proc : p \in QueuedOn(k, e)

\* Nobody is queued on a process that waits for its message.
Matched(k) == \A e \in Proc : \A p \in QueuedOn(k, e) : ~Waiting(k, p, e)

\* The inductive invariant of a kernel state inside a dispatcher.  HARDWARE's slot
\* stays free, so nothing is ever sent to it.
Inv(k) == /\ k \in Kernel /\ "P_SLOT_FREE" \in k.flags[HARDWARE]
          /\ Listed(k) /\ AtHead(k) /\ Queued(k) /\ Matched(k)

\* The running process has no flags.
LEMMA RunningFacts ==
  ASSUME NEW k \in Kernel, Listed(k), AtHead(k), k.cur # IDLE
  PROVE  k.cur \in Proc /\ k.flags[k.cur] = {}
<1>1. k.cur \in Proc /\ QueueOf(k.cur) \in Queue /\ k.rdy \in [Queue -> Seq(Proc)]
  BY Numbering DEF Kernel
<1>2. k.rdy[QueueOf(k.cur)] \in Seq(Proc)
  BY <1>1
<1>3. k.cur \in ToSet(k.rdy[QueueOf(k.cur)])
  BY <1>2, HeadFacts DEF AtHead
<1> QED BY <1>1, <1>3 DEF Listed

\* mini_send() keeps the invariant: it delivers to a destination that waits or
\* queues a caller that was running, and then picks another.
LEMMA MiniSendFacts ==
  ASSUME NEW k, Inv(k), NEW c \in Proc, NEW d \in Proc, c # d,
         c = HARDWARE => Waiting(k, c, d),
         c # HARDWARE => k.cur = c
  PROVE  LET r == MiniSend(k, c, d)
         IN  /\ Inv(r)
             /\ c # HARDWARE => IdleOnly(r)
             /\ r.getfrom = k.getfrom
             /\ r.flags = IF Waiting(k, c, d) THEN [k.flags EXCEPT ![d] = @ \ {"RECEIVING"}]
                                              ELSE [k.flags EXCEPT ![c] = @ \cup {"SENDING"}]
             /\ \A e, p \in Proc : p \in QueuedOn(r, e) <=>
                  p \in QueuedOn(k, e) \/ (~Waiting(k, c, d) /\ p = c /\ e = d)
<1> DEFINE r == MiniSend(k, c, d)
<1>1. /\ k \in Kernel /\ k.flags \in [Proc -> SUBSET Flag] /\ k.callerq \in [Proc -> Seq(Proc)]
  BY DEF Inv, Kernel
<1>2. CASE Waiting(k, c, d)
  <2>1. r = Deblock(k, d, "RECEIVING")
    BY <1>2 DEF MiniSend
  <2>2. "RECEIVING" \in k.flags[d]
    BY <1>2 DEF Waiting
  <2>3. /\ r \in Kernel /\ Listed(r) /\ AtHead(r)
        /\ r.flags = [k.flags EXCEPT ![d] = @ \ {"RECEIVING"}]
        /\ r.getfrom = k.getfrom /\ r.callerq = k.callerq /\ r.cur = k.cur
    <3>1. Listed(k) /\ AtHead(k)
      BY DEF Inv
    <3> QED BY <1>1, <2>1, <2>2, <3>1, DeblockFacts
  <2> HIDE DEF r
  <2>4. \A p \in Proc : /\ "SENDING" \in r.flags[p] <=> "SENDING" \in k.flags[p]
                        /\ "RECEIVING" \in r.flags[p] => "RECEIVING" \in k.flags[p]
                        /\ "P_SLOT_FREE" \in r.flags[p] <=> "P_SLOT_FREE" \in k.flags[p]
    BY <1>1, <2>3
  <2>5. Queued(r)
    BY <2>3, <2>4 DEF Queued, QueuedOn, Inv
  <2>6. Matched(r)
    <3> SUFFICES ASSUME NEW e \in Proc, NEW p \in QueuedOn(r, e)
                 PROVE  ~Waiting(r, p, e)
      BY DEF Matched
    <3>1. ~Waiting(k, p, e)
      BY <2>3 DEF Inv, Matched, QueuedOn
    <3> QED BY <2>3, <2>4, <3>1 DEF Waiting
  <2>7. "P_SLOT_FREE" \in r.flags[HARDWARE]
    BY <2>4, Numbering DEF Inv
  <2>8. c # HARDWARE => IdleOnly(r)
    BY <2>3, Numbering DEF IdleOnly
  <2> QED BY <1>2, <2>3, <2>5, <2>6, <2>7, <2>8 DEF Inv, QueuedOn, r
<1>3. CASE ~Waiting(k, c, d)
  <2> DEFINE b == Block(k, c, "SENDING")
  <2>1. c # HARDWARE /\ k.cur = c /\ k.flags[c] = {}
    BY <1>1, <1>3, RunningFacts, Numbering DEF Inv
  <2>2. /\ b \in Kernel /\ Listed(b) /\ AtHead(b) /\ IdleOnly(b)
        /\ b.flags = [k.flags EXCEPT ![c] = @ \cup {"SENDING"}]
        /\ b.getfrom = k.getfrom /\ b.callerq = k.callerq
    <3>1. Listed(k) /\ AtHead(k) /\ "SENDING" \in Flag
      BY DEF Inv, Flag
    <3> QED BY <1>1, <2>1, <3>1, BlockFacts
  <2>3. r = [b EXCEPT !.callerq[d] = Append(@, c)]
    BY <1>3 DEF MiniSend, Block
  <2> HIDE DEF b
  <2>4. \A e \in Proc : c \notin QueuedOn(k, e)
    BY <2>1 DEF Inv, Queued
  <2>5. k.callerq[d] \in Seq(Proc) /\ IsInjective(k.callerq[d])
    BY <1>1 DEF Inv, Queued
  <2>6. /\ Append(k.callerq[d], c) \in Seq(Proc)
        /\ ToSet(Append(k.callerq[d], c)) = ToSet(k.callerq[d]) \cup {c}
        /\ IsInjective(Append(k.callerq[d], c))
    BY <2>4, <2>5, AppendFacts DEF QueuedOn
  <2>7. /\ r \in Kernel
        /\ r.callerq = [k.callerq EXCEPT ![d] = Append(@, c)]
        /\ r.flags = [k.flags EXCEPT ![c] = @ \cup {"SENDING"}]
        /\ r.getfrom = k.getfrom
        /\ Listed(r) /\ AtHead(r) /\ IdleOnly(r)
    <3>1. [k.callerq EXCEPT ![d] = Append(@, c)] \in [Proc -> Seq(Proc)]
      BY <1>1, <2>6
    <3>2. r = [b EXCEPT !.callerq = [k.callerq EXCEPT ![d] = Append(@, c)]]
      BY <2>2, <2>3
    <3>3. /\ r \in Kernel /\ r.rdy = b.rdy /\ r.cur = b.cur /\ r.ptr = b.ptr
          /\ r.flags = b.flags /\ r.getfrom = b.getfrom
          /\ r.callerq = [k.callerq EXCEPT ![d] = Append(@, c)]
      BY <2>2, <3>1, <3>2 DEF Kernel
    <3> HIDE DEF r
    <3> QED BY <2>2, <3>3 DEF Listed, AtHead, IdleOnly
  <2> HIDE DEF r
  <2>8. \A p, e \in Proc : p \in QueuedOn(r, e) <=> p \in QueuedOn(k, e) \/ (p = c /\ e = d)
    BY <1>1, <2>6, <2>7 DEF QueuedOn
  <2>9. \A p \in Proc : /\ "SENDING" \in r.flags[p] <=> "SENDING" \in k.flags[p] \/ p = c
                        /\ "RECEIVING" \in r.flags[p] <=> "RECEIVING" \in k.flags[p]
                        /\ "P_SLOT_FREE" \in r.flags[p] <=> "P_SLOT_FREE" \in k.flags[p]
    BY <1>1, <2>7
  <2>10. Queued(r)
    <3>1. \A e \in Proc : IsInjective(r.callerq[e])
      BY <1>1, <2>6, <2>7 DEF Inv, Queued
    <3>2. \A p, e, x \in Proc : p \in QueuedOn(r, e) /\ p \in QueuedOn(r, x) => e = x
      BY <2>4, <2>8 DEF Inv, Queued
    <3>3. \A p \in Proc : "SENDING" \in r.flags[p] <=> \E e \in Proc : p \in QueuedOn(r, e)
      BY <2>8, <2>9 DEF Inv, Queued
    <3> QED BY <3>1, <3>2, <3>3 DEF Queued
  <2>11. Matched(r)
    <3> SUFFICES ASSUME NEW e \in Proc, NEW p \in QueuedOn(r, e)
                 PROVE  ~Waiting(r, p, e)
      BY DEF Matched
    <3>1. p \in Proc
      BY <2>7, ToSetIn DEF Kernel, QueuedOn
    <3>2. ~Waiting(k, p, e)
      BY <1>3, <2>8, <3>1 DEF Matched, Inv
    <3> QED BY <2>7, <2>9, <3>2 DEF Waiting
  <2>12. "P_SLOT_FREE" \in r.flags[HARDWARE]
    BY <2>9, Numbering DEF Inv
  <2> QED BY <1>3, <2>7, <2>8, <2>10, <2>11, <2>12 DEF Inv, r
<1> QED BY <1>2, <1>3

\* mini_rec() that finds a sender: the sender leaves the queue and SENDING, and
\* the caller runs on.
LEMMA MiniRecFound ==
  ASSUME NEW k, Inv(k), NEW c \in Proc, NEW s \in Proc \cup {ANY}, k.cur = c,
         Accepted(k, c, s) # {}
  PROVE  LET r == MiniRec(k, c, s)
         IN  /\ Inv(r) /\ IdleOnly(r) /\ r.getfrom = k.getfrom
             /\ \E w \in Proc :
                  /\ w \in QueuedOn(k, c) /\ s \in {ANY, w}
                  /\ r.flags = [k.flags EXCEPT ![w] = @ \ {"SENDING"}]
                  /\ \A e, p \in Proc : p \in QueuedOn(r, e) <=>
                       p \in QueuedOn(k, e) /\ ~(p = w /\ e = c)
<1> DEFINE i == CHOOSE x \in Accepted(k, c, s) : \A y \in Accepted(k, c, s) : x <= y
           r == MiniRec(k, c, s)
<1>1. /\ k \in Kernel /\ k.flags \in [Proc -> SUBSET Flag]
      /\ k.callerq \in [Proc -> Seq(Proc)]
      /\ k.callerq[c] \in Seq(Proc) /\ IsInjective(k.callerq[c])
  BY DEF Inv, Kernel, Queued
<1>2. i \in DOMAIN k.callerq[c] /\ s \in {ANY, k.callerq[c][i]}
  <2>1. Accepted(k, c, s) \subseteq DOMAIN k.callerq[c]
    BY DEF Accepted
  <2>2. Accepted(k, c, s) \in SUBSET Nat
    BY <1>1, <2>1, LenProperties
  <2>3. i \in Accepted(k, c, s)
    BY <2>2, LeastIndex
  <2> HIDE DEF i
  <2> QED BY <2>1, <2>3 DEF Accepted
<1> HIDE DEF i
<1> DEFINE w == k.callerq[c][i]
           b == Deblock(k, w, "SENDING")
<1>3. w \in QueuedOn(k, c) /\ w \in Proc
  BY <1>1, <1>2, LenProperties DEF ToSet, QueuedOn
<1>4. "SENDING" \in k.flags[w]
  BY <1>1, <1>3 DEF Inv, Queued
<1>5. r = [b EXCEPT !.callerq[c] = RemoveAt(@, i)]
  BY DEF MiniRec, i
<1>6. RemoveAt(k.callerq[c], i) \in Seq(Proc)
      /\ ToSet(RemoveAt(k.callerq[c], i)) = ToSet(k.callerq[c]) \ {w}
      /\ IsInjective(RemoveAt(k.callerq[c], i))
  BY <1>1, <1>2, RemoveAtFacts
<1> HIDE DEF w
<1>7. /\ b \in Kernel /\ Listed(b) /\ AtHead(b)
      /\ b.flags = [k.flags EXCEPT ![w] = @ \ {"SENDING"}]
      /\ b.getfrom = k.getfrom /\ b.callerq = k.callerq /\ b.cur = k.cur
  <2>1. Listed(k) /\ AtHead(k)
    BY DEF Inv
  <2> QED BY <1>1, <1>3, <1>4, <2>1, DeblockFacts
<1> HIDE DEF b
<1>8. /\ r \in Kernel
      /\ r.callerq = [k.callerq EXCEPT ![c] = RemoveAt(@, i)]
      /\ r.flags = [k.flags EXCEPT ![w] = @ \ {"SENDING"}]
      /\ r.getfrom = k.getfrom
      /\ Listed(r) /\ AtHead(r) /\ IdleOnly(r)
  <2>1. [k.callerq EXCEPT ![c] = RemoveAt(@, i)] \in [Proc -> Seq(Proc)]
    BY <1>1, <1>6
  <2>2. r = [b EXCEPT !.callerq = [k.callerq EXCEPT ![c] = RemoveAt(@, i)]]
    BY <1>5, <1>7
  <2>3. /\ r \in Kernel /\ r.rdy = b.rdy /\ r.cur = b.cur /\ r.ptr = b.ptr
        /\ r.flags = b.flags /\ r.getfrom = b.getfrom
        /\ r.callerq = [k.callerq EXCEPT ![c] = RemoveAt(@, i)]
    BY <1>7, <2>1, <2>2 DEF Kernel
  <2> HIDE DEF r
  <2>4. r.cur # IDLE
    BY <1>7, <2>3, Numbering
  <2> QED BY <1>7, <2>3, <2>4 DEF Listed, AtHead, IdleOnly
<1> HIDE DEF r
<1>9. \A p, e \in Proc :
        p \in QueuedOn(r, e) <=> p \in QueuedOn(k, e) /\ ~(p = w /\ e = c)
  BY <1>1, <1>6, <1>8 DEF QueuedOn
<1>10. \A p \in Proc : /\ "SENDING" \in r.flags[p] <=> "SENDING" \in k.flags[p] /\ p # w
                       /\ "RECEIVING" \in r.flags[p] <=> "RECEIVING" \in k.flags[p]
                       /\ "P_SLOT_FREE" \in r.flags[p] <=> "P_SLOT_FREE" \in k.flags[p]
  BY <1>1, <1>3, <1>8
<1>11. Queued(r)
  <2>1. \A e \in Proc : IsInjective(r.callerq[e])
    BY <1>1, <1>6, <1>8 DEF Inv, Queued
  <2>2. \A p, e, x \in Proc : p \in QueuedOn(r, e) /\ p \in QueuedOn(r, x) => e = x
    BY <1>9 DEF Inv, Queued
  <2>3. \A e \in Proc : w \in QueuedOn(k, e) => e = c
    BY <1>3 DEF Inv, Queued
  <2>4. ASSUME NEW p \in Proc
        PROVE  "SENDING" \in r.flags[p] <=> \E e \in Proc : p \in QueuedOn(r, e)
    <3>1. "SENDING" \in k.flags[p] <=> \E e \in Proc : p \in QueuedOn(k, e)
      BY DEF Inv, Queued
    <3>2. CASE p = w
      BY <1>9, <1>10, <2>3, <3>2
    <3>3. CASE p # w
      BY <1>9, <1>10, <3>1, <3>3
    <3> QED BY <3>2, <3>3
  <2> QED BY <2>1, <2>2, <2>4 DEF Queued
<1>12. Matched(r)
  <2> SUFFICES ASSUME NEW e \in Proc, NEW p \in QueuedOn(r, e)
               PROVE  ~Waiting(r, p, e)
    BY DEF Matched
  <2>1. p \in Proc
    BY <1>8, ToSetIn DEF Kernel, QueuedOn
  <2>2. ~Waiting(k, p, e)
    BY <1>9, <2>1 DEF Matched, Inv
  <2> QED BY <1>8, <1>10, <2>2 DEF Waiting
<1>13. "P_SLOT_FREE" \in r.flags[HARDWARE]
  BY <1>10, Numbering DEF Inv
<1>14. s \in {ANY, w}
  BY <1>2 DEF w
<1>15. Inv(r)
  BY <1>8, <1>11, <1>12, <1>13 DEF Inv
<1> QED BY <1>3, <1>8, <1>9, <1>14, <1>15, ZenonT(60) DEF r

\* mini_rec() that finds nobody: the caller blocks and another is picked.
LEMMA MiniRecBlocked ==
  ASSUME NEW k, Inv(k), NEW c \in Proc, NEW s \in Proc \cup {ANY}, k.cur = c,
         Accepted(k, c, s) = {}
  PROVE  LET r == MiniRec(k, c, s)
         IN  /\ Inv(r) /\ IdleOnly(r)
             /\ r.getfrom = [k.getfrom EXCEPT ![c] = s]
             /\ r.flags = [k.flags EXCEPT ![c] = @ \cup {"RECEIVING"}]
             /\ \A e, p \in Proc : p \in QueuedOn(r, e) <=> p \in QueuedOn(k, e)
<1> DEFINE m == [k EXCEPT !.getfrom[c] = s]
           r == MiniRec(k, c, s)
<1>1. /\ k \in Kernel /\ k.flags \in [Proc -> SUBSET Flag]
      /\ k.getfrom \in [Proc -> Proc \cup {ANY}] /\ k.callerq \in [Proc -> Seq(Proc)]
  BY DEF Inv, Kernel
<1>2. /\ m \in Kernel /\ m.getfrom = [k.getfrom EXCEPT ![c] = s]
      /\ m.flags = k.flags /\ m.callerq = k.callerq /\ m.rdy = k.rdy
      /\ m.cur = k.cur /\ m.ptr = k.ptr
  BY <1>1 DEF Kernel
<1>3. Listed(m) /\ AtHead(m)
  BY <1>2 DEF Inv, Listed, AtHead
<1>4. r = Block(m, c, "RECEIVING")
  BY DEF MiniRec, Block
<1> HIDE DEF m
<1>5. /\ r \in Kernel /\ Listed(r) /\ AtHead(r) /\ IdleOnly(r)
      /\ r.flags = [m.flags EXCEPT ![c] = @ \cup {"RECEIVING"}]
      /\ r.getfrom = m.getfrom /\ r.callerq = m.callerq
  <2>1. "RECEIVING" \in Flag /\ m.cur = c
    BY <1>2 DEF Flag
  <2> QED BY <1>2, <1>3, <1>4, <2>1, BlockFacts
<1> HIDE DEF r
<1>6. \A p \in Proc : /\ "SENDING" \in r.flags[p] <=> "SENDING" \in k.flags[p]
                      /\ "RECEIVING" \in r.flags[p] <=> "RECEIVING" \in k.flags[p] \/ p = c
                      /\ "P_SLOT_FREE" \in r.flags[p] <=> "P_SLOT_FREE" \in k.flags[p]
  BY <1>1, <1>2, <1>5
<1>7. Queued(r)
  BY <1>2, <1>5, <1>6 DEF Inv, Queued, QueuedOn
<1>8. Matched(r)
  <2> SUFFICES ASSUME NEW e \in Proc, NEW p \in QueuedOn(r, e)
               PROVE  ~Waiting(r, p, e)
    BY DEF Matched
  <2>1. CASE e = c
    <3>1. PICK i \in DOMAIN k.callerq[c] : p = k.callerq[c][i]
      BY <1>2, <1>5, <2>1 DEF ToSet, QueuedOn
    <3>2. s \notin {ANY, p}
      BY <3>1 DEF Accepted
    <3> QED BY <1>1, <1>2, <1>5, <2>1, <3>2 DEF Waiting
  <2>2. CASE e # c
    <3>1. ~Waiting(k, p, e)
      BY <1>2, <1>5 DEF Inv, Matched, QueuedOn
    <3> QED BY <1>1, <1>2, <1>5, <1>6, <2>2, <3>1 DEF Waiting
  <2> QED BY <2>1, <2>2
<1>9. "P_SLOT_FREE" \in r.flags[HARDWARE]
  BY <1>6, Numbering DEF Inv
<1> QED BY <1>2, <1>5, <1>7, <1>8, <1>9 DEF Inv, QueuedOn, r
-----------------------------------------------------------------------------
\* What holds between two dispatchers: also, the machine idles only if nobody can run.
KInv(k) == Inv(k) /\ IdleOnly(k)

\* Choosing a process again, after any change of the lists that keeps their
\* members, changes nothing else.
LEMMA PickKeeps ==
  ASSUME NEW k, Inv(k), NEW m \in Kernel, Listed(m),
         m.flags = k.flags, m.getfrom = k.getfrom, m.callerq = k.callerq
  PROVE  LET r == PickProc(m)
         IN  /\ KInv(r) /\ r.flags = k.flags /\ r.getfrom = k.getfrom /\ r.callerq = k.callerq
<1> DEFINE r == PickProc(m)
<1>1. r \in Kernel /\ Same(m, r) /\ AtHead(r) /\ IdleOnly(r)
  BY PickProcFacts
<1> HIDE DEF r
<1>2. /\ r.flags = k.flags /\ r.getfrom = k.getfrom /\ r.callerq = k.callerq
      /\ Listed(r)
  BY <1>1 DEF Same, Listed
<1>3. Queued(r) /\ Matched(r) /\ "P_SLOT_FREE" \in r.flags[HARDWARE]
  BY <1>2 DEF Inv, Queued, Matched, QueuedOn, Waiting
<1> QED BY <1>1, <1>2, <1>3 DEF KInv, Inv, r

\* sched() rotates the tasks and chooses.
LEMMA SchedKeeps ==
  ASSUME NEW k, Inv(k)
  PROVE  LET r == Sched(k)
         IN  /\ KInv(r) /\ r.flags = k.flags /\ r.getfrom = k.getfrom /\ r.callerq = k.callerq
<1> DEFINE m == [k EXCEPT !.rdy[TASK_Q] = Append(Tail(@), Head(@))]
<1>1. /\ k \in Kernel /\ k.rdy \in [Queue -> Seq(Proc)] /\ TASK_Q \in Queue
      /\ k.rdy[TASK_Q] \in Seq(Proc) /\ IsInjective(k.rdy[TASK_Q]) /\ Listed(k)
  BY DEF Inv, Kernel, Listed, Queue
<1>2. CASE Len(k.rdy[TASK_Q]) < 2
  <2>1. Sched(k) = PickProc(k)
    BY <1>2 DEF Sched
  <2> QED BY <2>1, <1>1, PickKeeps
<1>3. CASE ~(Len(k.rdy[TASK_Q]) < 2)
  <2>1. k.rdy[TASK_Q] # <<>>
    BY <1>1, <1>3, EmptySeq
  <2>2. /\ Append(Tail(k.rdy[TASK_Q]), Head(k.rdy[TASK_Q])) \in Seq(Proc)
        /\ ToSet(Append(Tail(k.rdy[TASK_Q]), Head(k.rdy[TASK_Q]))) = ToSet(k.rdy[TASK_Q])
        /\ IsInjective(Append(Tail(k.rdy[TASK_Q]), Head(k.rdy[TASK_Q])))
    BY <1>1, <2>1, RotateFacts
  <2>3. /\ m \in Kernel /\ m.flags = k.flags /\ m.getfrom = k.getfrom /\ m.callerq = k.callerq
        /\ m.rdy = [k.rdy EXCEPT ![TASK_Q] = Append(Tail(@), Head(@))]
    <3>1. [k.rdy EXCEPT ![TASK_Q] = Append(Tail(@), Head(@))] \in [Queue -> Seq(Proc)]
      BY <1>1, <2>2
    <3>2. m = [k EXCEPT !.rdy = [k.rdy EXCEPT ![TASK_Q] = Append(Tail(@), Head(@))]]
      OBVIOUS
    <3> QED BY <1>1, <3>1, <3>2 DEF Kernel
  <2>4. Sched(k) = PickProc(m)
    BY <1>3 DEF Sched
  <2> HIDE DEF m
  <2>5. Listed(m)
    BY <1>1, <2>2, <2>3 DEF Listed
  <2> QED BY <2>3, <2>4, <2>5, PickKeeps
<1> QED BY <1>2, <1>3

\* The order in which tasks were created puts each of a class on its list once.
LEMMA OrderFacts ==
  ASSUME NEW q \in Queue, NEW o \in ReadyOrders(q)
  PROVE  /\ o \in Seq(Proc) /\ IsInjective(o)
         /\ ToSet(o) = {p \in ToSet(Created) : QueueOf(p) = q}
<1> DEFINE S == {p \in ToSet(Created) : QueueOf(p) = q}
<1>1. S \subseteq Proc /\ IsFiniteSet(S)
  BY Numbering, FS_Subset
<1>2. Cardinality(S) \in Nat
  BY <1>1, FS_CardinalityType
<1>3. /\ o \in [1 .. Cardinality(S) -> S] /\ ToSet(o) = S
      /\ \A i, j \in DOMAIN o : i < j =>
           \E a, b \in DOMAIN Created : a < b /\ Created[a] = o[i] /\ Created[b] = o[j]
  BY DEF ReadyOrders
<1>4. DOMAIN Created \subseteq Int
  BY PortAssumption, LenProperties
<1> HIDE DEF S
<1>5. \A i, j \in DOMAIN o : i < j => o[i] # o[j]
  <2> SUFFICES ASSUME NEW i \in DOMAIN o, NEW j \in DOMAIN o, i < j PROVE o[i] # o[j]
    OBVIOUS
  <2>1. PICK a \in DOMAIN Created, b \in DOMAIN Created :
          a < b /\ Created[a] = o[i] /\ Created[b] = o[j]
    BY <1>3
  <2>2. a # b
    BY <1>4, <2>1
  <2> QED BY <2>1, <2>2, PortAssumption DEF IsInjective
<1>6. IsInjective(o)
  <2> SUFFICES ASSUME NEW i \in DOMAIN o, NEW j \in DOMAIN o, o[i] = o[j], i # j PROVE FALSE
    BY DEF IsInjective
  <2>1. i < j \/ j < i
    BY <1>2, <1>3
  <2> QED BY <1>5, <2>1
<1>7. o \in Seq(Proc)
  BY <1>1, <1>2, <1>3
<1> QED BY <1>3, <1>6, <1>7 DEF S

\* proc_init() and kmain() leave a proper kernel: who is created can run and nobody waits.
LEMMA InitKeeps ==
  ASSUME Init
  PROVE  /\ KInv(kern)
         /\ \A p \in Proc : {"SENDING", "RECEIVING"} \cap kern.flags[p] = {}
<1> PICK t \in ReadyOrders(TASK_Q), s \in ReadyOrders(SERVER_Q), u \in ReadyOrders(USER_Q) :
       kern = PickProc(
         [flags   |-> [p \in Proc |-> IF p \in ToSet(Created) THEN {} ELSE {"P_SLOT_FREE"}],
          getfrom |-> [p \in Proc |-> NONE],
          callerq |-> [p \in Proc |-> <<>>],
          rdy     |-> <<t, s, u>>,
          cur     |-> IDLE,
          ptr     |-> HARDWARE])
  BY DEF Init
<1> DEFINE k ==
         [flags   |-> [p \in Proc |-> IF p \in ToSet(Created) THEN {} ELSE {"P_SLOT_FREE"}],
          getfrom |-> [p \in Proc |-> NONE],
          callerq |-> [p \in Proc |-> <<>>],
          rdy     |-> <<t, s, u>>,
          cur     |-> IDLE,
          ptr     |-> HARDWARE]
<1>1. Queue = {1, 2, 3} /\ TASK_Q = 1 /\ SERVER_Q = 2 /\ USER_Q = 3
  BY DEF Queue, TASK_Q, SERVER_Q, USER_Q
<1>2. \A q \in Queue : /\ k.rdy[q] \in Seq(Proc) /\ IsInjective(k.rdy[q])
                       /\ ToSet(k.rdy[q]) = {p \in ToSet(Created) : QueueOf(p) = q}
  <2>1. k.rdy[1] = t /\ k.rdy[2] = s /\ k.rdy[3] = u
    OBVIOUS
  <2> HIDE DEF k
  <2> QED BY <1>1, <2>1, OrderFacts
<1>3. k \in Kernel
  <2>1. k.rdy \in [Queue -> Seq(Proc)]
    <3>1. k.rdy = [q \in Queue |-> k.rdy[q]]
      BY <1>1
    <3> HIDE DEF k
    <3> QED BY <1>2, <3>1
  <2>2. /\ [p \in Proc |-> IF p \in ToSet(Created) THEN {} ELSE {"P_SLOT_FREE"}] \in [Proc -> SUBSET Flag]
        /\ [p \in Proc |-> NONE] \in [Proc -> Proc \cup {ANY}]
        /\ [p \in Proc |-> <<>>] \in [Proc -> Seq(Proc)]
    <3>1. <<>> \in Seq(Proc)
      BY EmptySeq
    <3> QED BY <3>1, Numbering DEF Flag
  <2> QED BY <2>1, <2>2, Numbering DEF Kernel
<1>4. /\ \A p \in Proc : k.flags[p] = IF p \in ToSet(Created) THEN {} ELSE {"P_SLOT_FREE"}
      /\ \A p \in Proc : k.callerq[p] = <<>>
      /\ k.cur = IDLE /\ k.ptr = HARDWARE
  OBVIOUS
<1> HIDE DEF k
<1>5. Listed(k)
  <2> SUFFICES ASSUME NEW q \in Queue
               PROVE  ToSet(k.rdy[q]) = {p \in Proc : QueueOf(p) = q /\ k.flags[p] = {}}
    BY <1>2 DEF Listed
  <2>1. ToSet(k.rdy[q]) = {p \in ToSet(Created) : QueueOf(p) = q}
    BY <1>2
  <2>2. \A p \in Proc : k.flags[p] = {} <=> p \in ToSet(Created)
    BY <1>4
  <2> QED BY <2>1, <2>2, Numbering
<1>6. AtHead(k)
  BY <1>4 DEF AtHead
<1>7. \A e \in Proc : QueuedOn(k, e) = {} /\ IsInjective(k.callerq[e])
  BY <1>4, EmptySeq DEF QueuedOn, ToSet, IsInjective
<1>8. Queued(k) /\ Matched(k)
  BY <1>4, <1>7 DEF Queued, Matched
<1>9. "P_SLOT_FREE" \in k.flags[HARDWARE]
  BY <1>4, Numbering
<1>10. Inv(k)
  BY <1>3, <1>5, <1>6, <1>8, <1>9 DEF Inv
<1>11. KInv(kern) /\ kern.flags = k.flags
  <2>1. kern = PickProc(k)
    BY DEF k
  <2> QED BY <1>3, <1>5, <1>10, <2>1, PickKeeps
<1> QED BY <1>4, <1>11
-----------------------------------------------------------------------------
\* The inductive invariant.
IndInv == KInv(kern) /\ sched_ticks \in 1 .. SCHED_RATE /\ tick \in BOOLEAN

\* The interrupt: at most CLOCK stops waiting, and a process is chosen.
LEMMA InterruptKeeps ==
  ASSUME IndInv, irq_dispatch
  PROVE  /\ IndInv' /\ kern'.getfrom = kern.getfrom /\ kern'.callerq = kern.callerq
         /\ \/ kern'.flags = kern.flags
            \/ /\ Waiting(kern, HARDWARE, CLOCK)
               /\ kern'.flags = [kern.flags EXCEPT ![CLOCK] = @ \ {"RECEIVING"}]
<1> DEFINE sent == ~SendFails(kern, HARDWARE, CLOCK)
           k    == IF sent THEN MiniSend(kern, HARDWARE, CLOCK) ELSE kern
<1>1. Inv(kern) /\ sched_ticks \in 1 .. SCHED_RATE
  BY DEF IndInv, KInv
<1>2. /\ Inv(k) /\ k.getfrom = kern.getfrom /\ k.callerq = kern.callerq
      /\ \/ k.flags = kern.flags
         \/ /\ Waiting(kern, HARDWARE, CLOCK)
            /\ k.flags = [kern.flags EXCEPT ![CLOCK] = @ \ {"RECEIVING"}]
  <2>1. CASE sent
    <3>1. Waiting(kern, HARDWARE, CLOCK) /\ k = MiniSend(kern, HARDWARE, CLOCK)
      BY <2>1 DEF SendFails
    <3> HIDE DEF k
    <3>2. /\ Inv(k) /\ k.getfrom = kern.getfrom
          /\ k.flags = [kern.flags EXCEPT ![CLOCK] = @ \ {"RECEIVING"}]
      <4>1. HARDWARE \in Proc /\ CLOCK \in Proc /\ HARDWARE # CLOCK
        BY Numbering
      <4> QED BY <1>1, <3>1, <4>1, MiniSendFacts
    <3>3. k.callerq = kern.callerq
      <4>1. "RECEIVING" \in kern.flags[CLOCK] /\ k = Deblock(kern, CLOCK, "RECEIVING")
        BY <3>1 DEF MiniSend, Waiting
      <4>2. kern \in Kernel /\ Listed(kern) /\ AtHead(kern)
        BY <1>1 DEF Inv
      <4> QED BY <4>1, <4>2, DeblockFacts, Numbering
    <3> QED BY <3>1, <3>2, <3>3
  <2>2. CASE ~sent
    BY <1>1, <2>2
  <2> QED BY <2>1, <2>2
<1>3. tick' = (tick \/ sent) /\ tick' \in BOOLEAN
  BY DEF irq_dispatch
<1>4. \/ sched_ticks' = SCHED_RATE /\ kern' = Sched(k)
      \/ sched_ticks # 1 /\ sched_ticks' = sched_ticks - 1 /\ kern' = PickProc(k)
  BY DEF irq_dispatch
<1> HIDE DEF k
<1>5. sched_ticks' \in 1 .. SCHED_RATE
  BY <1>1, <1>4, PortAssumption
<1>6. /\ KInv(Sched(k)) /\ Sched(k).flags = k.flags
      /\ Sched(k).getfrom = k.getfrom /\ Sched(k).callerq = k.callerq
  BY <1>2, SchedKeeps
<1>7. /\ KInv(PickProc(k)) /\ PickProc(k).flags = k.flags
      /\ PickProc(k).getfrom = k.getfrom /\ PickProc(k).callerq = k.callerq
  <2>1. k \in Kernel /\ Listed(k)
    BY <1>2 DEF Inv
  <2> QED BY <1>2, <2>1, PickKeeps
<1>8. KInv(kern')
  BY <1>4, <1>6, <1>7
<1>9. kern'.flags = k.flags /\ kern'.getfrom = k.getfrom /\ kern'.callerq = k.callerq
  BY <1>4, <1>6, <1>7
<1>10. IndInv'
  BY <1>3, <1>5, <1>8 DEF IndInv, KInv, Inv, IdleOnly, Listed, AtHead, Queued, Matched, QueuedOn, Waiting
<1> QED BY <1>2, <1>9, <1>10

\* What a trap that is not refused finds.
LEMMA TrapFacts ==
  ASSUME IndInv, NEW call \in Calls, brk_dispatch(call[1], call[2], call[3])
  PROVE  /\ Inv(kern) /\ kern.cur = call[2] /\ kern.flags[call[2]] = {}
         /\ call[1] \in {"SEND", "RECEIVE"} /\ call[2] \in Proc \ {HARDWARE}
         /\ call[3] \in Proc \cup {ANY}
         /\ call[1] = "SEND" => call[3] \in Proc \ {HARDWARE} /\ call[3] # call[2]
<1>1. Inv(kern) /\ kern.cur = call[2] /\ kern \in Kernel
  BY DEF brk_dispatch, IndInv, KInv, Inv
<1>2. /\ call[1] \in {"SEND", "RECEIVE"} /\ call[2] \in ToSet(Created)
      /\ call[3] \in Proc \cup {ANY}
      /\ call[1] = "SEND" => call[3] # ANY /\ call[3] # call[2]
  BY PortAssumption
<1>3. call[2] \in Proc \ {HARDWARE} /\ call[2] # IDLE
  BY <1>2, Numbering
<1>4. kern.flags[call[2]] = {}
  BY <1>1, <1>3, RunningFacts DEF Inv
<1>5. call[1] = "SEND" => call[3] # HARDWARE
  BY <1>1 DEF brk_dispatch, SendFails, Inv
<1> QED BY <1>1, <1>2, <1>3, <1>4, <1>5

\* The trap keeps the invariant.
LEMMA TrapKeeps ==
  ASSUME IndInv, NEW call \in Calls, brk_dispatch(call[1], call[2], call[3])
  PROVE  IndInv'
<1> DEFINE c  == call[2]
           sd == call[3]
<1>1. /\ Inv(kern) /\ kern.cur = c /\ kern.flags[c] = {}
      /\ call[1] \in {"SEND", "RECEIVE"} /\ c \in Proc \ {HARDWARE} /\ sd \in Proc \cup {ANY}
      /\ call[1] = "SEND" => sd \in Proc \ {HARDWARE} /\ sd # c
  BY TrapFacts
<1>2. /\ kern' = IF call[1] = "RECEIVE" THEN MiniRec(kern, c, sd) ELSE MiniSend(kern, c, sd)
      /\ sched_ticks' = sched_ticks /\ tick' = tick
  BY DEF brk_dispatch
<1>3. KInv(kern')
  <2>1. CASE call[1] = "SEND"
    <3>1. KInv(MiniSend(kern, c, sd))
      BY <1>1, <2>1, MiniSendFacts DEF KInv
    <3> QED BY <1>2, <2>1, <3>1
  <2>2. CASE call[1] = "RECEIVE"
    <3>1. KInv(MiniRec(kern, c, sd))
      <4>1. CASE Accepted(kern, c, sd) # {}
        BY <1>1, <4>1, MiniRecFound DEF KInv
      <4>2. CASE Accepted(kern, c, sd) = {}
        BY <1>1, <4>2, MiniRecBlocked DEF KInv
      <4> QED BY <4>1, <4>2
    <3> QED BY <1>2, <2>2, <3>1
  <2> QED BY <1>1, <2>1, <2>2
<1> QED BY <1>2, <1>3 DEF IndInv, KInv, Inv, IdleOnly, Listed, AtHead, Queued, Matched, QueuedOn, Waiting

\* Every step keeps the invariant.
LEMMA NextKeeps == IndInv /\ [Next]_vars => IndInv'
<1> SUFFICES ASSUME IndInv, [Next]_vars PROVE IndInv'
  OBVIOUS
<1>1. CASE irq_dispatch
  BY <1>1, InterruptKeeps
<1>2. CASE CountTick
  <2>1. kern' = kern /\ sched_ticks' = sched_ticks /\ tick' = FALSE
    BY <1>2 DEF CountTick
  <2> QED BY <2>1 DEF IndInv, KInv, Inv, IdleOnly, Listed, AtHead, Queued, Matched, QueuedOn, Waiting
<1>3. CASE \E p \in ToSet(Created) : Traps(p)
  <2>1. PICK call \in Calls : brk_dispatch(call[1], call[2], call[3])
    BY <1>3 DEF Traps
  <2> QED BY <2>1, TrapKeeps
<1>4. CASE UNCHANGED vars
  <2>1. kern' = kern /\ sched_ticks' = sched_ticks /\ tick' = tick
    BY <1>4 DEF vars
  <2> QED BY <2>1 DEF IndInv, KInv, Inv, IdleOnly, Listed, AtHead, Queued, Matched, QueuedOn, Waiting
<1> QED BY <1>1, <1>2, <1>3, <1>4 DEF Next

\* It holds at the start.
LEMMA InitInv == Init => IndInv
<1> SUFFICES ASSUME Init PROVE IndInv
  OBVIOUS
<1>1. sched_ticks = SCHED_RATE /\ tick = FALSE
  BY DEF Init
<1>2. sched_ticks \in 1 .. SCHED_RATE
  BY <1>1, PortAssumption
<1>3. tick \in BOOLEAN
  BY <1>1, Zenon
<1> QED BY <1>2, <1>3, InitKeeps DEF IndInv

\* The invariant of the port's kernel holds in every reachable state.
THEOREM PortInvariance == Spec => []IndInv
<1> QED BY InitInv, NextKeeps, PTL DEF Spec

\* After every dispatcher (brk_dispatch, irq_dispatch) the process chosen by
\* pick_proc() is the head of its ready list, the lists hold exactly the
\* processes that can run, and the machine idles only when nobody can.
THEOREM RunnerIsPicked == Spec => []RunnerPicked
<1>1. IndInv => RunnerPicked
  BY DEF IndInv, KInv, Inv, IdleOnly, RunnerPicked, TypeOK
<1> QED BY <1>1, PortInvariance, PTL
-----------------------------------------------------------------------------
(* The port implements Rendezvous. *)

\* Who p is queued on and whom it wants a message from, in a kernel state.
To(k, p)   == IF "SENDING" \in k.flags[p]
              THEN CHOOSE d \in Proc : p \in ToSet(k.callerq[d]) ELSE IDLE
From(k, p) == IF "RECEIVING" \in k.flags[p] THEN k.getfrom[p] ELSE IDLE
Tos(k)     == [p \in Proc |-> To(k, p)]
Froms(k)   == [p \in Proc |-> From(k, p)]
State(k)   == [to |-> Tos(k), from |-> Froms(k)]

\* The queue a process is on says on whom it is blocked.
LEMMA ToFacts ==
  ASSUME NEW k, Inv(k), NEW p \in Proc
  PROVE  /\ \A d \in Proc : p \in QueuedOn(k, d) <=> To(k, p) = d
         /\ To(k, p) = IDLE <=> "SENDING" \notin k.flags[p]
<1>1. /\ "SENDING" \in k.flags[p] <=> \E d \in Proc : p \in QueuedOn(k, d)
      /\ \A d, e \in Proc : p \in QueuedOn(k, d) /\ p \in QueuedOn(k, e) => d = e
  BY DEF Inv, Queued
<1>2. IDLE \notin Proc
  BY Numbering
<1>3. "SENDING" \in k.flags[p] => To(k, p) \in Proc /\ p \in QueuedOn(k, To(k, p))
  BY <1>1 DEF To, QueuedOn
<1>4. "SENDING" \notin k.flags[p] => To(k, p) = IDLE
  BY DEF To
<1> QED BY <1>1, <1>2, <1>3, <1>4

\* A process on the same queue is blocked on the same process.
LEMMA SameTo ==
  ASSUME NEW k, Inv(k), NEW r, Inv(r), NEW p \in Proc,
         \A d \in Proc : p \in QueuedOn(r, d) <=> p \in QueuedOn(k, d)
  PROVE  To(r, p) = To(k, p)
<1>1. CASE \E d \in Proc : p \in QueuedOn(k, d)
  BY <1>1, ToFacts
<1>2. CASE ~\E d \in Proc : p \in QueuedOn(k, d)
  BY <1>2, ToFacts DEF Inv, Queued
<1> QED BY <1>1, <1>2

\* Waiting for a message from c is wanting one from c or from anybody.
LEMMA WaitingIs ==
  ASSUME NEW k \in Kernel, NEW c \in Proc, NEW d \in Proc
  PROVE  Waiting(k, c, d) <=> From(k, d) \in {c, ANY}
BY Numbering DEF Waiting, From, Kernel

\* mini_send() does what a send does.
LEMMA SendMaps ==
  ASSUME NEW k, Inv(k), NEW c \in Proc \ {HARDWARE}, NEW d \in Proc, c # d, k.cur = c
  PROVE  State(MiniSend(k, c, d)) = IPC!AfterSend(State(k), c, d)
<1> DEFINE r == MiniSend(k, c, d)
<1>1. k \in Kernel /\ k.flags \in [Proc -> SUBSET Flag]
  BY DEF Inv, Kernel
<1>2. /\ Inv(r) /\ r.getfrom = k.getfrom
      /\ r.flags = IF Waiting(k, c, d) THEN [k.flags EXCEPT ![d] = @ \ {"RECEIVING"}]
                                       ELSE [k.flags EXCEPT ![c] = @ \cup {"SENDING"}]
      /\ \A e, p \in Proc : p \in QueuedOn(r, e) <=>
           p \in QueuedOn(k, e) \/ (~Waiting(k, c, d) /\ p = c /\ e = d)
  BY MiniSendFacts
<1> HIDE DEF r
<1>3. CASE Waiting(k, c, d)
  <2>1. \A p \in Proc : To(r, p) = To(k, p)
    BY <1>2, <1>3, SameTo
  <2>2. \A p \in Proc : From(r, p) = IF p = d THEN IDLE ELSE From(k, p)
    BY <1>1, <1>2, <1>3 DEF From
  <2>3. IPC!AfterSend(State(k), c, d) = [State(k) EXCEPT !.from[d] = IDLE]
    BY <1>1, <1>3, WaitingIs DEF IPC!AfterSend, State, Froms
  <2>4. Tos(r) = Tos(k) /\ Froms(r) = [Froms(k) EXCEPT ![d] = IDLE]
    BY <2>1, <2>2 DEF Tos, Froms
  <2> QED BY <2>3, <2>4 DEF State, r
<1>4. CASE ~Waiting(k, c, d)
  <2>1. \A p \in Proc : To(r, p) = IF p = c THEN d ELSE To(k, p)
    BY <1>2, <1>4, SameTo, ToFacts
  <2>2. \A p \in Proc : From(r, p) = From(k, p)
    BY <1>1, <1>2, <1>4 DEF From
  <2>3. IPC!AfterSend(State(k), c, d) = [State(k) EXCEPT !.to[c] = d]
    BY <1>1, <1>4, WaitingIs DEF IPC!AfterSend, State, Froms
  <2>4. Tos(r) = [Tos(k) EXCEPT ![c] = d] /\ Froms(r) = Froms(k)
    BY <2>1, <2>2 DEF Tos, Froms
  <2> QED BY <2>3, <2>4 DEF State, r
<1> QED BY <1>3, <1>4

\* mini_rec() does what a receive does.
LEMMA RecMaps ==
  ASSUME NEW k, Inv(k), NEW c \in Proc, NEW s \in Proc \cup {ANY}, k.cur = c
  PROVE  State(MiniRec(k, c, s)) \in IPC!AfterReceive(State(k), c, s)
<1> DEFINE r == MiniRec(k, c, s)
           senders == {p \in Proc : To(k, p) = c /\ s \in {p, ANY}}
<1>1. /\ k \in Kernel /\ k.flags \in [Proc -> SUBSET Flag]
      /\ k.getfrom \in [Proc -> Proc \cup {ANY}] /\ k.callerq \in [Proc -> Seq(Proc)]
  BY DEF Inv, Kernel
<1>2. {p \in Proc : State(k).to[p] = c /\ s \in {p, ANY}} = senders
  BY DEF State, Tos
<1>3. IPC!AfterReceive(State(k), c, s) =
        IF senders # {} THEN {[State(k) EXCEPT !.to[p] = IDLE] : p \in senders}
                        ELSE {[State(k) EXCEPT !.from[c] = s]}
  BY <1>2 DEF IPC!AfterReceive
<1>4. CASE Accepted(k, c, s) # {}
  <2>1. /\ Inv(r) /\ IdleOnly(r) /\ r.getfrom = k.getfrom
        /\ \E w \in Proc :
             /\ w \in QueuedOn(k, c) /\ s \in {ANY, w}
             /\ r.flags = [k.flags EXCEPT ![w] = @ \ {"SENDING"}]
             /\ \A e, p \in Proc : p \in QueuedOn(r, e) <=>
                  p \in QueuedOn(k, e) /\ ~(p = w /\ e = c)
    BY <1>4, MiniRecFound
  <2> HIDE DEF r
  <2>2. PICK w \in Proc :
             /\ w \in QueuedOn(k, c) /\ s \in {ANY, w}
             /\ r.flags = [k.flags EXCEPT ![w] = @ \ {"SENDING"}]
             /\ \A e, p \in Proc : p \in QueuedOn(r, e) <=>
                  p \in QueuedOn(k, e) /\ ~(p = w /\ e = c)
    BY <2>1
  <2>4. w \in senders
    BY <2>2, ToFacts
  <2>5. To(r, w) = IDLE
    BY <1>1, <2>2 DEF To
  <2>6. \A p \in Proc : To(r, p) = IF p = w THEN IDLE ELSE To(k, p)
    BY <2>1, <2>2, <2>5, SameTo
  <2>7. \A p \in Proc : From(r, p) = From(k, p)
    BY <1>1, <2>1, <2>2 DEF From
  <2>8. State(r) = [State(k) EXCEPT !.to[w] = IDLE]
    <3>1. Tos(r) = [Tos(k) EXCEPT ![w] = IDLE]
      BY <2>6 DEF Tos
    <3>2. Froms(r) = Froms(k)
      BY <2>7 DEF Froms
    <3> QED BY <3>1, <3>2 DEF State
  <2> QED BY <1>3, <2>4, <2>8 DEF r
<1>5. CASE Accepted(k, c, s) = {}
  <2>1. /\ Inv(r) /\ IdleOnly(r)
        /\ r.getfrom = [k.getfrom EXCEPT ![c] = s]
        /\ r.flags = [k.flags EXCEPT ![c] = @ \cup {"RECEIVING"}]
        /\ \A e, p \in Proc : p \in QueuedOn(r, e) <=> p \in QueuedOn(k, e)
    BY <1>5, MiniRecBlocked
  <2> HIDE DEF r
  <2>2. senders = {}
    <3> SUFFICES ASSUME NEW p \in Proc, To(k, p) = c, s \in {p, ANY} PROVE FALSE
      OBVIOUS
    <3>1. p \in QueuedOn(k, c)
      BY ToFacts
    <3>2. PICK i \in DOMAIN k.callerq[c] : p = k.callerq[c][i]
      BY <3>1 DEF QueuedOn, ToSet
    <3> QED BY <3>2, <1>5 DEF Accepted
  <2>3. \A p \in Proc : To(r, p) = To(k, p)
    BY <2>1, SameTo
  <2>4. \A p \in Proc : From(r, p) = IF p = c THEN s ELSE From(k, p)
    BY <1>1, <2>1 DEF From
  <2>5. State(r) = [State(k) EXCEPT !.from[c] = s]
    <3>1. Froms(r) = [Froms(k) EXCEPT ![c] = s]
      BY <2>4 DEF Froms
    <3>2. Tos(r) = Tos(k)
      BY <2>3 DEF Tos
    <3> QED BY <3>1, <3>2 DEF State
  <2> QED BY <1>3, <2>2, <2>5 DEF r
<1> QED BY <1>4, <1>5

\* The variables of Rendezvous are the state of the kernel.
LEMMA NowIs ==
  /\ IPC!Now = State(kern)
  /\ \A b : IPC!Then(b) <=> State(kern').to = b.to /\ State(kern').from = b.from
  /\ \A p \in Proc : kern.flags[p] = {} => IPC!Free(p)
BY DEF IPC!Now, IPC!Then, IPC!Free, State, Tos, Froms, To, From, BlockedOn, WaitsFor

\* A trap is a send or a receive of its caller.
LEMMA TrapMaps ==
  ASSUME IndInv, NEW call \in Calls, brk_dispatch(call[1], call[2], call[3])
  PROVE  IPC!Next
<1> DEFINE c  == call[2]
           sd == call[3]
<1>1. /\ Inv(kern) /\ kern.cur = c /\ kern.flags[c] = {}
      /\ call[1] \in {"SEND", "RECEIVE"} /\ c \in Proc \ {HARDWARE} /\ sd \in Proc \cup {ANY}
      /\ call[1] = "SEND" => sd \in Proc \ {HARDWARE} /\ sd # c
  BY TrapFacts
<1>2. kern' = IF call[1] = "RECEIVE" THEN MiniRec(kern, c, sd) ELSE MiniSend(kern, c, sd)
  BY DEF brk_dispatch
<1> HIDE DEF c, sd
<1>3. IPC!Now = State(kern) /\ IPC!Free(c)
  BY <1>1, NowIs
<1>4. CASE call[1] = "SEND"
  <2>1. State(kern') = IPC!AfterSend(State(kern), c, sd)
    BY <1>1, <1>2, <1>4, SendMaps
  <2>2. IPC!Send(c, sd)
    BY <1>3, <2>1, NowIs DEF IPC!Send
  <2> QED BY <1>1, <1>4, <2>2 DEF IPC!Next
<1>5. CASE call[1] = "RECEIVE"
  <2>1. State(kern') \in IPC!AfterReceive(State(kern), c, sd)
    BY <1>1, <1>2, <1>5, RecMaps
  <2>2. IPC!Receive(c, sd)
    BY <1>3, <2>1, NowIs DEF IPC!Receive
  <2> QED BY <1>1, <2>2 DEF IPC!Next
<1> QED BY <1>1, <1>4, <1>5

\* The interrupt gives CLOCK a message it wants, or gives nobody one.
LEMMA InterruptMaps ==
  ASSUME IndInv, irq_dispatch
  PROVE  IPC!Next \/ State(kern') = State(kern)
<1>1. /\ Inv(kern) /\ kern \in Kernel /\ kern.flags \in [Proc -> SUBSET Flag]
      /\ CLOCK \in Proc /\ HARDWARE \in Proc
  BY Numbering DEF IndInv, KInv, Inv, Kernel
<1>2. /\ IndInv' /\ kern'.getfrom = kern.getfrom /\ kern'.callerq = kern.callerq
      /\ \/ kern'.flags = kern.flags
         \/ /\ Waiting(kern, HARDWARE, CLOCK)
            /\ kern'.flags = [kern.flags EXCEPT ![CLOCK] = @ \ {"RECEIVING"}]
  BY InterruptKeeps
<1>3. CASE kern'.flags = kern.flags
  BY <1>2, <1>3 DEF State, Tos, Froms, To, From
<1>4. CASE /\ Waiting(kern, HARDWARE, CLOCK)
           /\ kern'.flags = [kern.flags EXCEPT ![CLOCK] = @ \ {"RECEIVING"}]
  <2>1. \A p \in Proc : To(kern', p) = To(kern, p)
    BY <1>1, <1>2, <1>4 DEF To
  <2>2. \A p \in Proc : From(kern', p) = IF p \in {CLOCK} THEN IDLE ELSE From(kern, p)
    BY <1>1, <1>2, <1>4 DEF From
  <2>3. From(kern, CLOCK) \in {ANY, HARDWARE}
    BY <1>1, <1>4, WaitingIs
  <2>4. Tos(kern') = Tos(kern)
    BY <2>1 DEF Tos
  <2>5. Froms(kern') = [p \in Proc |-> IF p \in {CLOCK} THEN IDLE ELSE Froms(kern)[p]]
    BY <2>2 DEF Froms
  <2>6. {CLOCK} \in SUBSET {p \in Proc : Froms(kern)[p] \in {ANY, HARDWARE}}
    BY <1>1, <2>3 DEF Froms
  <2>7. IPC!Hardware
    BY <2>4, <2>5, <2>6 DEF IPC!Hardware, Tos, Froms, To, From, BlockedOn, WaitsFor
  <2> QED BY <2>7 DEF IPC!Next
<1> QED BY <1>2, <1>3, <1>4

\* The port implements the same rendezvous as the MINIX kernel: whom a process is
\* blocked on, in mini_send() and mini_rec() and by the interrupt, changes only as
\* Rendezvous says.
THEOREM PortImplementsRendezvous == Spec => ImplementsRendezvous
<1>1. Init => IPC!Init
  <2> SUFFICES ASSUME Init PROVE IPC!Init
    OBVIOUS
  <2>1. \A p \in Proc : BlockedOn(p) = IDLE /\ WaitsFor(p) = IDLE
    BY InitKeeps DEF BlockedOn, WaitsFor
  <2> QED BY <2>1 DEF IPC!Init
<1>2. IndInv /\ [Next]_vars => [IPC!Next]_(IPC!vars)
  <2> SUFFICES ASSUME IndInv, [Next]_vars
               PROVE  IPC!Next \/ State(kern') = State(kern)
    <3>1. ASSUME State(kern') = State(kern) PROVE UNCHANGED IPC!vars
      <4>1. Tos(kern') = Tos(kern) /\ Froms(kern') = Froms(kern)
        BY <3>1 DEF State
      <4> QED BY <4>1 DEF IPC!vars, Tos, Froms, To, From, BlockedOn, WaitsFor
    <3> QED BY <3>1
  <2>1. CASE irq_dispatch
    BY <2>1, InterruptMaps
  <2>2. CASE CountTick
    BY <2>2 DEF CountTick
  <2>3. CASE \E p \in ToSet(Created) : Traps(p)
    <3>1. PICK call \in Calls : brk_dispatch(call[1], call[2], call[3])
      BY <2>3 DEF Traps
    <3> QED BY <3>1, TrapMaps
  <2>4. CASE UNCHANGED vars
    BY <2>4 DEF vars
  <2> QED BY <2>1, <2>2, <2>3, <2>4 DEF Next
<1> QED BY <1>1, <1>2, PortInvariance, PTL DEF Spec, ImplementsRendezvous, IPC!Spec
=============================================================================
