------------------------------ MODULE SysProofs ------------------------------
(***************************************************************************)
(* Slots are clean when they are empty and quiet until they can run, and   *)
(* no request is lost in SYSTASK's buffer, for every number of tasks and   *)
(* processes, every set of calls in which the servers call SYSTASK as they *)
(* do, and however far fork takes sig_procs from the truth, if no task     *)
(* speaks to FS unasked.                                                   *)
(*                                                                         *)
(* Proc's invariant holds here without its part on signals.  Three parts   *)
(* are added: what is true of the slots and of the queues (Tidy); that a   *)
(* ready task keeps servers and users from running (Prompt), so that a     *)
(* server which runs finds SYSTASK waiting for its request; and where the  *)
(* request is: SYSTASK has none (Free), or runs with one and its caller    *)
(* waits (Asked).  While SYSTASK runs, interrupts alone can come between.  *)
(***************************************************************************)
EXTENDS SysTask, ProcProofs

\* Nobody is queued for a user or for SYSTASK, nobody waits for a user, and no task
\* is queued; a slot that is free has no other flag, and one without a map waits.
Tidy(k) ==
  /\ \A p \in User \cup {SYSTASK} : \A q \in Proc : q \notin QueuedOn(k, p)
  /\ \A d \in Proc : k.getfrom[d] \notin User
  /\ \A t \in Task : "SENDING" \notin k.flags[t]
  /\ \A p \in Proc : "P_SLOT_FREE" \in k.flags[p] => p \in User /\ k.flags[p] = {"P_SLOT_FREE"}
  /\ \A p \in Proc : "NO_MAP" \in k.flags[p] => p \in User /\ k.flags[p] = {"NO_MAP", "RECEIVING"}

\* A task runs if one is ready.
Prompt(k) == \A t \in Task \ {HARDWARE} : k.flags[t] = {} => k.cur \in Task

\* A server waits for SYSTASK's reply.
Requests(k, s) == "RECEIVING" \in k.flags[s] /\ k.getfrom[s] = SYSTASK

\* SYSTASK waits for a request.
Idle(k) == k.flags[SYSTASK] = {"RECEIVING"} /\ k.getfrom[SYSTASK] = ANY

\* SYSTASK has no request, wherever it is in its loop.
Free(k, pc) == /\ \A s \in {MM, FS} : ~Requests(k, s)
               /\ (pc = "work" /\ Idle(k)) \/ (pc = "receive" /\ k.flags[SYSTASK] = {})

\* SYSTASK runs, with the request of a server that waits, and the only one.
AskedBy(k, s) == /\ k.mess[SYSTASK] = s /\ k.flags[s] = {"RECEIVING"} /\ k.getfrom[s] = SYSTASK
                 /\ \A u \in {MM, FS} : Requests(k, u) => u = s
Asked(k)      == k.cur = SYSTASK /\ \E s \in {MM, FS} : AskedBy(k, s)

\* The inductive invariant of a kernel state.
Sound(k)    == Inv(k) /\ Tidy(k)
SInv(k, pc) == /\ Sound(k) /\ Prompt(k)
               /\ Free(k, pc) \/ (pc \in {"work", "reply"} /\ Asked(k))

\* Who leaves SYSTASK alone and makes no request leaves it without one.
LEMMA FreeKeeps ==
  ASSUME NEW k, NEW r, NEW pc, Free(k, pc),
         r.flags[SYSTASK] = k.flags[SYSTASK], r.getfrom[SYSTASK] = k.getfrom[SYSTASK],
         \A s \in {MM, FS} : Requests(r, s) => Requests(k, s)
  PROVE  Free(r, pc)
BY DEF Free, Idle

\* Who leaves the servers and SYSTASK's buffer alone leaves the request there.
LEMMA AskedKeeps ==
  ASSUME NEW k, NEW r, Asked(k), r.cur = SYSTASK, r.mess[SYSTASK] = k.mess[SYSTASK],
         \A s \in {MM, FS} : r.flags[s] = k.flags[s] /\ r.getfrom[s] = k.getfrom[s]
  PROVE  Asked(r)
BY DEF Asked, AskedBy, Requests

\* The processes that have numbers of their own are different ones.
LEMMA Names ==
  /\ SYSTASK \in Proc \ {HARDWARE, MM, FS} /\ MM \in Proc \ {HARDWARE, FS} /\ HARDWARE \in Proc
  /\ FS \in Proc \ {HARDWARE, MM} /\ ANY \notin {SYSTASK, MM, FS} /\ SYSTASK \in Task /\ HARDWARE \in Task
  /\ User \subseteq Proc \ {HARDWARE, MM, FS, SYSTASK}
  /\ ANY \notin User /\ Task \cap User = {} /\ Task \subseteq Proc /\ MM \notin Task /\ FS \notin Task
  /\ Devices \subseteq Task \ {HARDWARE, SYSTASK}
  /\ ANY \in Source /\ SYSTASK \in Source /\ User \subseteq Slot
BY Numbering, ConstantAssumption DEF SYSTASK, HARDWARE, MM, FS, ANY, User, Task, Slot, Proc,
   LOW_USER, Source

\* Who is not SENDING is on no queue, and nobody is on two.
LEMMA NotQueued ==
  ASSUME NEW k, Inv(k), NEW p \in Proc
  PROVE  /\ "SENDING" \notin k.flags[p] => \A e \in Proc : p \notin QueuedOn(k, e)
         /\ \A d, e \in Proc : p \in QueuedOn(k, d) /\ p \in QueuedOn(k, e) => d = e
         /\ \A e \in Proc : p \in QueuedOn(k, e) => "SENDING" \in k.flags[p]
BY DEF Inv, Queued, QueuedOn
-----------------------------------------------------------------------------
(* A ready task runs. *)

\* pick_proc() takes a task if there is one.
LEMMA PickedPrompt ==
  ASSUME NEW k \in Kernel, Listed(k), k.cur = Highest(k)
  PROVE  Prompt(k)
<1> SUFFICES ASSUME NEW t \in Task \ {HARDWARE}, k.flags[t] = {}
             PROVE  k.cur \in Task
  BY DEF Prompt
<1>1. t \in Proc /\ QueueOf(t) = TASK_Q /\ TASK_Q \in Queue /\ k.rdy \in [Queue -> Seq(Proc)]
  BY ConstantAssumption, Names DEF Task, QueueOf, Queue, Kernel
<1>2. t \in ToSet(k.rdy[TASK_Q])
  BY <1>1 DEF Listed
<1>3. k.rdy[TASK_Q] # <<>>
  BY <1>2 DEF ToSet
<1>4. k.cur \in Proc /\ k.cur \in ToSet(k.rdy[TASK_Q])
  BY <1>1, <1>3, HeadFacts DEF Highest
<1>5. QueueOf(k.cur) = TASK_Q
  BY <1>1, <1>4 DEF Listed
<1> QED BY <1>4, <1>5, ConstantAssumption
        DEF QueueOf, TASK_Q, SERVER_Q, USER_Q, Proc, Task, Slot

\* The same of the result of pick_proc().
LEMMA PickPrompt ==
  ASSUME NEW k \in Kernel, Listed(k)
  PROVE  Prompt(PickProc(k))
<1> DEFINE r == PickProc(k)
<1>1. r \in Kernel /\ r.flags = k.flags /\ r.rdy = k.rdy
  <2>1. Classed(k)
    BY DEF Listed, Classed
  <2> QED BY <2>1, PickProcFacts
<1>2. r.cur = Highest(k)
  BY DEF PickProc, Kernel
<1> HIDE DEF r
<1>3. Listed(r) /\ r.cur = Highest(r)
  BY <1>1, <1>2 DEF Listed, Highest
<1> QED BY <1>1, <1>3, PickedPrompt DEF r

\* A step that readies no task while the same process runs on.
LEMMA SamePrompt ==
  ASSUME NEW k, NEW r, Prompt(k), r.cur = k.cur,
         \A t \in Task : r.flags[t] = {} => k.flags[t] = {}
  PROVE  Prompt(r)
BY DEF Prompt

\* A running process that blocks leaves its place to a task that is ready.
LEMMA BlockPrompt ==
  ASSUME NEW k \in Kernel, NEW p \in Proc \ {HARDWARE}, NEW f \in Flag,
         Listed(k), AtHead(k), Prompt(k) \/ k.cur = p
  PROVE  Prompt(Block(k, p, f))
<1> DEFINE m == [k EXCEPT !.flags[p] = @ \cup {f}]
           q == QueueOf(p)
           n == [m EXCEPT !.rdy[q] = RemoveFirst(@, p)]
           r == Block(k, p, f)
           picks == k.rdy[q] # <<>> /\ Head(k.rdy[q]) = p
<1>1. q \in Queue /\ k.rdy \in [Queue -> Seq(Proc)] /\ k.flags \in [Proc -> SUBSET Flag]
  BY Numbering DEF Kernel
<1>2. r \in Kernel /\ r.flags = [k.flags EXCEPT ![p] = @ \cup {f}] /\ Listed(r)
  BY BlockFacts
<1>3. r = IF picks THEN PickProc(n) ELSE n
  <2>1. m.rdy = k.rdy
    BY DEF Kernel
  <2> HIDE DEF m
  <2> QED BY <2>1 DEF Block, Unready, m
<1>4. n.cur = k.cur /\ DOMAIN n = DOMAIN k
  BY DEF Kernel
<1> SUFFICES Prompt(r)
  OBVIOUS
<1>5. CASE picks
  <2>1. r.cur = Highest(n) /\ r.rdy = n.rdy
    <3>1. DOMAIN n = {"flags", "getfrom", "callerq", "mess", "rdy", "cur", "prev", "bill",
                      "pending", "sig_procs"}
      BY <1>4 DEF Kernel
    <3> HIDE DEF n, r
    <3> QED BY <1>3, <1>5, <3>1 DEF PickProc
  <2> HIDE DEF r, n
  <2>2. r.cur = Highest(r)
    BY <2>1 DEF Highest
  <2> QED BY <1>2, <2>2, PickedPrompt
<1>6. CASE ~picks
  <2>1. r.cur = k.cur
    <3> HIDE DEF n, r
    <3> QED BY <1>3, <1>4, <1>6
  <2>2. k.cur # p
    BY <1>6, Numbering DEF AtHead
  <2>3. \A x \in Proc : r.flags[x] = {} => k.flags[x] = {}
    <3> HIDE DEF r
    <3> QED BY <1>1, <1>2
  <2> HIDE DEF r
  <2> QED BY <2>1, <2>2, <2>3, SamePrompt, Names
<1> QED BY <1>5, <1>6

\* mini_send() blocks the running process, or readies its destination beside it.
LEMMA SendPrompt ==
  ASSUME NEW k, Inv(k), Prompt(k), NEW c \in Proc \ {HARDWARE}, NEW d \in Proc \ {HARDWARE}, c # d,
         k.cur = c, k.flags[c] = {}, Waiting(k, c, d) /\ d \in Task => c \in Task
  PROVE  Prompt(MiniSend(k, c, d))
<1> DEFINE r == MiniSend(k, c, d)
<1>1. k \in Kernel /\ Listed(k) /\ AtHead(k) /\ k.flags \in [Proc -> SUBSET Flag]
  BY DEF Inv, Kernel
<1>2. r.flags = IF Waiting(k, c, d) THEN [k.flags EXCEPT ![d] = @ \ {"RECEIVING"}]
                                    ELSE [k.flags EXCEPT ![c] = @ \cup {"SENDING"}]
  BY MiniSendFacts
<1> SUFFICES Prompt(r)
  OBVIOUS
<1>3. CASE Waiting(k, c, d)
  <2>1. r.cur = k.cur
    BY <1>1, <1>3, SendCur
  <2> HIDE DEF r
  <2>2. CASE c \in Task
    BY <2>1, <2>2 DEF Prompt
  <2>3. CASE d \notin Task
    <3>1. \A t \in Task : r.flags[t] = k.flags[t]
      BY <1>1, <1>2, <1>3, <2>3, Names
    <3> QED BY <2>1, <3>1, SamePrompt
  <2> QED BY <1>3, <2>2, <2>3
<1>4. CASE ~Waiting(k, c, d)
  <2> DEFINE b == Block(k, c, "SENDING")
  <2>1. Prompt(b) /\ b \in Kernel
    <3>1. "SENDING" \in Flag
      BY DEF Flag
    <3> QED BY <1>1, <3>1, BlockPrompt, BlockFacts
  <2>2. r = [b EXCEPT !.callerq[d] = Append(@, c)]
    BY <1>4 DEF MiniSend
  <2> HIDE DEF b, r
  <2>3. r.cur = b.cur /\ r.flags = b.flags
    BY <2>1, <2>2 DEF Kernel
  <2> QED BY <2>1, <2>3 DEF Prompt
<1> QED BY <1>3, <1>4

\* inform() readies no task.
LEMMA InformPrompt ==
  ASSUME NEW k, Inv(k), Prompt(k)
  PROVE  Prompt(Inform(k))
<1> DEFINE r == Inform(k)
<1>1. r.cur = k.cur /\ k.flags \in [Proc -> SUBSET Flag]
  BY InformCur DEF Inv, Kernel
<1>2. r.flags = k.flags \/ r.flags = [k.flags EXCEPT ![MM] = @ \ {"RECEIVING"}]
  BY InformFacts
<1> SUFFICES Prompt(r)
  OBVIOUS
<1> HIDE DEF r
<1>3. \A t \in Task : r.flags[t] = k.flags[t]
  BY <1>1, <1>2, Names
<1> QED BY <1>1, <1>3, SamePrompt

\* mini_rec() frees a sender, who is no task, or blocks its caller.
LEMMA RecPrompt ==
  ASSUME NEW k, Sound(k), NEW c \in Proc \ {HARDWARE}, NEW s \in Source,
         "RECEIVING" \notin k.flags[c], Prompt(k) \/ (k.cur = c /\ Found(k, c, s) = {})
  PROVE  Prompt(MiniRec(k, c, s))
<1> DEFINE r == MiniRec(k, c, s)
<1>1. /\ Inv(k) /\ k \in Kernel /\ Listed(k) /\ AtHead(k) /\ k.flags \in [Proc -> SUBSET Flag]
      /\ Task \subseteq Proc /\ "RECEIVING" \in Flag
  BY Names DEF Sound, Inv, Kernel, Flag
<1> SUFFICES Prompt(r)
  OBVIOUS
<1>2. CASE Found(k, c, s) # {}
  <2>1. r.cur = k.cur
    BY <1>1, <1>2, FoundCur
  <2>2. \E w \in Proc : Taken(k, r, c, s, w)
    BY <1>1, <1>2, FoundFacts
  <2> HIDE DEF r
  <2>3. PICK w \in Proc : Taken(k, r, c, s, w)
    BY <2>2
  <2>4. "SENDING" \in k.flags[w]
    BY <1>1, <2>3, NotQueued DEF Taken
  <2>5. w \notin Task
    BY <2>4 DEF Sound, Tidy
  <2>6. \A t \in Task : r.flags[t] = k.flags[t]
    BY <1>1, <2>3, <2>5 DEF Taken
  <2> QED BY <1>2, <2>1, <2>6, SamePrompt
<1>3. CASE Found(k, c, s) = {}
  <2> DEFINE m == [k EXCEPT !.getfrom[c] = s]
             b == Block([k EXCEPT !.getfrom[c] = s], c, "RECEIVING")
  <2>1. Inv(b) /\ r \in {b, Inform(b)}
    <3>1. /\ Inv(b)
          /\ b.getfrom = [k.getfrom EXCEPT ![c] = s] /\ b.callerq = k.callerq
          /\ b.flags = [k.flags EXCEPT ![c] = @ \cup {"RECEIVING"}]
          /\ b.pending = k.pending /\ b.sig_procs = k.sig_procs /\ b.mess = k.mess
          /\ r = IF b.sig_procs > 0 /\ c = MM /\ s = ANY THEN Inform(b) ELSE b
      BY <1>1, <1>3, AwaitBlock
    <3> HIDE DEF b, r
    <3> QED BY <3>1
  <2>2. m \in Kernel /\ m.flags = k.flags /\ m.rdy = k.rdy /\ m.cur = k.cur
    BY <1>1 DEF Kernel
  <2> HIDE DEF m
  <2>3. Listed(m) /\ AtHead(m) /\ (Prompt(m) \/ m.cur = c)
    BY <1>1, <2>2 DEF Listed, AtHead, Prompt
  <2>4. Prompt(Block(m, c, "RECEIVING"))
    BY <1>1, <2>2, <2>3, BlockPrompt
  <2>5. Prompt(b)
    BY <2>4 DEF m
  <2> HIDE DEF b
  <2> QED BY <2>1, <2>5, InformPrompt
<1> QED BY <1>2, <1>3

\* sched() while a task runs leaves it running.
LEMMA SchedPrompt ==
  ASSUME NEW k, Inv(k), k.cur \in Task
  PROVE  Sched(k).cur = k.cur
<1>1. CASE k.rdy[USER_Q] = <<>>
  BY <1>1 DEF Sched
<1>2. CASE k.rdy[USER_Q] # <<>>
  <2> DEFINE m == [k EXCEPT !.rdy[USER_Q] = Append(Tail(@), Head(@))]
  <2>1. Sched(k) = PickProc(m)
    BY <1>2 DEF Sched
  <2>2. k \in Kernel /\ AtHead(k)
    BY DEF Inv
  <2>3. m.rdy[TASK_Q] = k.rdy[TASK_Q] /\ m.cur = k.cur /\ DOMAIN m = DOMAIN k
    BY <2>2 DEF Kernel, Queue, TASK_Q, SERVER_Q, USER_Q
  <2>4. QueueOf(k.cur) = TASK_Q /\ k.cur # IDLE
    BY Names, Numbering, ConstantAssumption DEF QueueOf, Task
  <2>5. k.rdy[TASK_Q] # <<>> /\ Head(k.rdy[TASK_Q]) = k.cur
    BY <2>2, <2>4 DEF AtHead
  <2> HIDE DEF m
  <2>6. PickProc(m).cur = Highest(m)
    BY <2>2, <2>3 DEF PickProc, Kernel
  <2> QED BY <2>1, <2>3, <2>5, <2>6 DEF Highest
<1> QED BY <1>1, <1>2
-----------------------------------------------------------------------------
(* The kernel's procedures, for the queues and SYSTASK's request. *)

\* mini_send(): a task sends only to who waits, as is who sends to a user or SYSTASK.
LEMMA SendTidy ==
  ASSUME NEW k, Sound(k), NEW c \in Proc, NEW d \in Proc \ {HARDWARE}, c # d,
         k.flags[c] = {}, c \in Task => Waiting(k, c, d),
         d \in User \cup {SYSTASK} => Waiting(k, c, d), d \in User => k.flags[d] = {"RECEIVING"}
  PROVE  Sound(MiniSend(k, c, d))
<1> DEFINE r == MiniSend(k, c, d)
<1>1. /\ k.flags \in [Proc -> SUBSET Flag] /\ User \subseteq Proc /\ HARDWARE \in Task
      /\ Task \subseteq Proc /\ Inv(k) /\ Tidy(k)
  BY Names DEF Sound, Inv, Kernel
<1>2. /\ Inv(r) /\ r.getfrom = k.getfrom
      /\ r.flags = IF Waiting(k, c, d) THEN [k.flags EXCEPT ![d] = @ \ {"RECEIVING"}]
                                       ELSE [k.flags EXCEPT ![c] = @ \cup {"SENDING"}]
      /\ \A e, p \in Proc : p \in QueuedOn(r, e) <=>
           p \in QueuedOn(k, e) \/ (~Waiting(k, c, d) /\ p = c /\ e = d)
  BY <1>1, MiniSendFacts
<1> HIDE DEF r
<1>3. \A p \in User \cup {SYSTASK} : \A q \in Proc : q \notin QueuedOn(r, p)
  BY <1>1, <1>2, Names DEF Tidy
<1>4. \A e \in Proc : r.getfrom[e] \notin User
  BY <1>1, <1>2 DEF Tidy
<1>5. ASSUME NEW p \in Proc
      PROVE  r.flags[p] = k.flags[p] \/ r.flags[p] \subseteq {"SENDING"}
  <2>1. CASE Waiting(k, c, d)
    <3>1. "RECEIVING" \in k.flags[d]
      BY <2>1 DEF Waiting
    <3>2. k.flags[d] \subseteq {"SENDING", "RECEIVING"}
      BY <1>1, <3>1 DEF Tidy, Flag
    <3> QED BY <1>1, <1>2, <2>1, <3>2
  <2>2. CASE ~Waiting(k, c, d)
    BY <1>1, <1>2, <2>2
  <2> QED BY <2>1, <2>2
<1>6. \A t \in Task : "SENDING" \notin r.flags[t]
  BY <1>1, <1>2 DEF Tidy
<1>7. Tidy(r)
  BY <1>1, <1>3, <1>4, <1>5, <1>6 DEF Tidy
<1> QED BY <1>2, <1>7 DEF Sound, r

\* mini_send() between processes other than SYSTASK touches no request.
LEMMA SendApart ==
  ASSUME NEW k, Inv(k), NEW c \in Proc \ {SYSTASK}, NEW d \in Proc \ {HARDWARE, SYSTASK}, c # d,
         k.flags[c] = {}, c = HARDWARE => Waiting(k, c, d)
  PROVE  LET r == MiniSend(k, c, d)
         IN  /\ r.flags[SYSTASK] = k.flags[SYSTASK] /\ r.getfrom = k.getfrom
             /\ \A s \in {MM, FS} : /\ Requests(r, s) => Requests(k, s)
                                    /\ Requests(k, s) => r.flags[s] = k.flags[s]
             /\ Waiting(k, c, d) => r.mess[SYSTASK] = k.mess[SYSTASK]
<1> DEFINE r == MiniSend(k, c, d)
<1>1. /\ k.flags \in [Proc -> SUBSET Flag] /\ k.mess \in [Proc -> Proc]
      /\ SYSTASK \in Proc /\ MM \in Proc /\ FS \in Proc /\ SYSTASK # ANY
  BY Names DEF Inv, Kernel
<1>2. /\ r.getfrom = k.getfrom
      /\ r.flags = IF Waiting(k, c, d) THEN [k.flags EXCEPT ![d] = @ \ {"RECEIVING"}]
                                       ELSE [k.flags EXCEPT ![c] = @ \cup {"SENDING"}]
  BY MiniSendFacts
<1>3. r.mess = IF Waiting(k, c, d) THEN [k.mess EXCEPT ![d] = k.mess[c]] ELSE k.mess
  BY SendMess
<1> HIDE DEF r
<1>4. r.flags[SYSTASK] = k.flags[SYSTASK]
  BY <1>1, <1>2
<1>5. ASSUME NEW s \in {MM, FS}
      PROVE  Requests(r, s) => Requests(k, s)
  BY <1>1, <1>2 DEF Requests
<1>6. ASSUME NEW s \in {MM, FS}, Requests(k, s)
      PROVE  r.flags[s] = k.flags[s]
  <2>1. c # s /\ (Waiting(k, c, d) => d # s)
    BY <1>1, <1>6 DEF Requests, Waiting
  <2> QED BY <1>1, <1>2, <2>1
<1>7. Waiting(k, c, d) => r.mess[SYSTASK] = k.mess[SYSTASK]
  BY <1>1, <1>3
<1> QED BY <1>2, <1>4, <1>5, <1>6, <1>7 DEF r

\* inform() leaves SYSTASK alone, and MM only waits less.
LEMMA InformSound ==
  ASSUME NEW k, NEW pc, Sound(k), Free(k, pc)
  PROVE  Sound(Inform(k)) /\ Free(Inform(k), pc)
<1> DEFINE r == Inform(k)
<1>1. /\ k.flags \in [Proc -> SUBSET Flag] /\ SYSTASK \in Proc \ {MM} /\ MM \in Proc
      /\ MM \notin User /\ User \subseteq Proc /\ Inv(k) /\ Tidy(k) /\ Task \subseteq Proc
  BY Names DEF Sound, Inv, Kernel
<1>2. /\ Inv(r) /\ r.getfrom = k.getfrom
      /\ r.flags = k.flags \/ r.flags = [k.flags EXCEPT ![MM] = @ \ {"RECEIVING"}]
      /\ \A e, p \in Proc : p \in QueuedOn(r, e) <=> p \in QueuedOn(k, e)
  BY <1>1, InformFacts
<1> HIDE DEF r
<1>3. \A p \in Proc : p # MM => r.flags[p] = k.flags[p]
  BY <1>1, <1>2
<1>4. r.flags[MM] \subseteq k.flags[MM]
  BY <1>1, <1>2
<1>5. \A s \in {MM, FS} : Requests(r, s) => Requests(k, s)
  BY <1>1, <1>2, <1>3, <1>4, Names DEF Requests
<1>6. Free(r, pc)
  BY <1>1, <1>2, <1>3, <1>5, FreeKeeps
<1>7. Tidy(r)
  <2>1. {"P_SLOT_FREE", "NO_MAP"} \cap k.flags[MM] = {}
    BY <1>1 DEF Tidy
  <2>2. \A p \in Proc : {"P_SLOT_FREE", "NO_MAP"} \cap r.flags[p] # {} => r.flags[p] = k.flags[p]
    BY <1>3, <1>4, <2>1
  <2>3. \A t \in Task : "SENDING" \notin r.flags[t]
    BY <1>1, <1>3, Names DEF Tidy
  <2> QED BY <1>1, <1>2, <2>2, <2>3 DEF Tidy
<1> QED BY <1>2, <1>6, <1>7 DEF Sound, r

\* mini_rec() of a process other than SYSTASK, from anybody but SYSTASK and users.
LEMMA RecSound ==
  ASSUME NEW k, NEW pc, Sound(k), Free(k, pc), NEW c \in Proc \ {HARDWARE, SYSTASK},
         NEW s \in Source \ {SYSTASK}, s \notin User, k.flags[c] \subseteq {"SENDING"}
  PROVE  Sound(MiniRec(k, c, s)) /\ Free(MiniRec(k, c, s), pc)
<1> DEFINE r == MiniRec(k, c, s)
<1>1. /\ k.flags \in [Proc -> SUBSET Flag] /\ k.getfrom \in [Proc -> Source]
      /\ SYSTASK \in Proc /\ MM \in Proc /\ FS \in Proc /\ SYSTASK \in Task
      /\ User \subseteq Proc /\ Task \subseteq Proc
      /\ Inv(k) /\ Tidy(k) /\ "RECEIVING" \notin k.flags[c]
  BY Names DEF Sound, Inv, Kernel
<1> SUFFICES Sound(r) /\ Free(r, pc)
  OBVIOUS
<1>2. CASE Found(k, c, s) # {}
  <2>1. Inv(r) /\ r.getfrom = k.getfrom /\ \E w \in Proc : Taken(k, r, c, s, w)
    BY <1>1, <1>2, FoundFacts
  <2> HIDE DEF r
  <2>2. PICK w \in Proc : Taken(k, r, c, s, w)
    BY <2>1
  <2>3. "SENDING" \in k.flags[w]
    BY <1>1, <2>2, NotQueued DEF Taken
  <2>4. w \notin Task
    BY <1>1, <2>3 DEF Tidy
  <2>5. \A p \in Proc : r.flags[p] \subseteq k.flags[p] /\ (p # w => r.flags[p] = k.flags[p])
    BY <1>1, <2>2 DEF Taken
  <2>6. Free(r, pc)
    <3>1. \A u \in {MM, FS} : Requests(r, u) => Requests(k, u)
      BY <1>1, <2>1, <2>5 DEF Requests
    <3> QED BY <1>1, <2>1, <2>4, <2>5, <3>1, FreeKeeps
  <2>7. Tidy(r)
    <3>1. k.flags[w] \subseteq {"SENDING", "RECEIVING"}
      BY <1>1, <2>3 DEF Tidy, Flag
    <3>2. \A p \in Proc : {"P_SLOT_FREE", "NO_MAP"} \cap r.flags[p] # {} => r.flags[p] = k.flags[p]
      BY <2>5, <3>1
    <3>3. \A p \in User \cup {SYSTASK} : \A q \in Proc : q \notin QueuedOn(r, p)
      BY <1>1, <2>2 DEF Taken, Tidy
    <3>4. \A t \in Task : "SENDING" \notin r.flags[t]
      BY <1>1, <2>5 DEF Tidy
    <3> QED BY <1>1, <2>1, <3>2, <3>3, <3>4 DEF Tidy
  <2> QED BY <2>1, <2>6, <2>7 DEF Sound
<1>3. CASE Found(k, c, s) = {}
  <2>1. /\ Inv(r) /\ r.getfrom = [k.getfrom EXCEPT ![c] = s]
        /\ \/ r.flags = [k.flags EXCEPT ![c] = @ \cup {"RECEIVING"}]
           \/ c = MM /\ s = ANY /\ r.flags = k.flags
        /\ \A e, p \in Proc : p \in QueuedOn(r, e) <=> p \in QueuedOn(k, e)
    BY <1>1, <1>3, BlockedFacts
  <2> HIDE DEF r
  <2>2. \A p \in Proc : p # c => r.flags[p] = k.flags[p] /\ r.getfrom[p] = k.getfrom[p]
    BY <1>1, <2>1
  <2>3. /\ r.getfrom[c] = s /\ r.flags[c] \subseteq {"SENDING", "RECEIVING"}
        /\ "SENDING" \in r.flags[c] => "SENDING" \in k.flags[c]
    BY <1>1, <2>1
  <2>4. Free(r, pc)
    <3>1. \A u \in {MM, FS} : Requests(r, u) => Requests(k, u)
      BY <1>1, <2>2, <2>3 DEF Requests
    <3> QED BY <1>1, <2>2, <3>1, FreeKeeps
  <2>5. Tidy(r)
    <3>1. \A p \in Proc : {"P_SLOT_FREE", "NO_MAP"} \cap r.flags[p] # {} => r.flags[p] = k.flags[p]
      BY <2>2, <2>3
    <3>2. \A d \in Proc : r.getfrom[d] \notin User
      BY <1>1, <2>2, <2>3 DEF Tidy
    <3>3. \A t \in Task : "SENDING" \notin r.flags[t]
      BY <1>1, <2>2, <2>3 DEF Tidy
    <3> QED BY <1>1, <2>1, <3>1, <3>2, <3>3 DEF Tidy
  <2> QED BY <2>1, <2>4, <2>5 DEF Sound
<1> QED BY <1>2, <1>3
-----------------------------------------------------------------------------
(* Calls. *)

\* A running process composes its message in its own buffer.
LEMMA OwnKeeps ==
  ASSUME NEW k, Sound(k), NEW c \in Proc, k.flags[c] = {},
         NEW own, own = [k EXCEPT !.mess[c] = c]
  PROVE  /\ Sound(own) /\ SameProcs(k, own) /\ own.mess = [k.mess EXCEPT ![c] = c]
<1>1. own \in Kernel /\ SameProcs(k, own) /\ own.mess = [k.mess EXCEPT ![c] = c]
  BY DEF Sound, Inv, Kernel, SameProcs
<1>2. Inv(own)
  BY <1>1, SameProcsFacts DEF Sound
<1>3. Tidy(own)
  BY <1>1 DEF Sound, Tidy, SameProcs, QueuedOn
<1> QED BY <1>1, <1>2, <1>3 DEF Sound

\* A server runs only while no task is ready, so that SYSTASK waits for it.
LEMMA SystemListens ==
  ASSUME NEW k, NEW pc, SInv(k, pc), NEW s \in {MM, FS}, k.cur = s
  PROVE  /\ pc = "work" /\ Free(k, pc) /\ Idle(k) /\ Waiting(k, s, SYSTASK)
         /\ \A t \in Task \ {HARDWARE} : k.flags[t] # {}
<1>1. k.cur \notin Task /\ k.cur # SYSTASK /\ SYSTASK \in Task \ {HARDWARE}
  BY Names
<1>2. Free(k, pc)
  BY <1>1 DEF SInv, Asked
<1>3. \A t \in Task \ {HARDWARE} : k.flags[t] # {}
  BY <1>1 DEF SInv, Prompt
<1>4. pc = "work" /\ Idle(k)
  BY <1>1, <1>2, <1>3 DEF Free
<1> QED BY <1>2, <1>3, <1>4 DEF Idle, Waiting

\* A server's BOTH to SYSTASK hands the request over, blocks and lets SYSTASK run.
LEMMA AskKeeps ==
  ASSUME NEW k, NEW pc, SInv(k, pc), NEW s \in {MM, FS}, k.cur = s, k.flags[s] = {},
         k.mess[s] = s, NEW r, r = MiniRec(MiniSend(k, s, SYSTASK), s, SYSTASK)
  PROVE  SInv(r, pc)
<1> DEFINE m == MiniSend(k, s, SYSTASK)
<1>1. /\ k.flags \in [Proc -> SUBSET Flag] /\ k.mess \in [Proc -> Proc]
      /\ k.getfrom \in [Proc -> Source] /\ k \in Kernel
      /\ SYSTASK \in Proc \ {HARDWARE} /\ s \in Proc \ {HARDWARE}
      /\ SYSTASK # ANY /\ SYSTASK # s /\ MM # FS /\ s \notin Task /\ SYSTASK \in Task
      /\ s \notin User /\ SYSTASK \notin User /\ SYSTASK \in Source /\ Task \subseteq Proc
      /\ Inv(k) /\ Sound(k) /\ Prompt(k)
  BY Names DEF SInv, Sound, Inv, Kernel
<1>2. /\ pc = "work" /\ Free(k, pc) /\ Idle(k) /\ Waiting(k, s, SYSTASK)
      /\ \A t \in Task \ {HARDWARE} : k.flags[t] # {}
  BY SystemListens
<1>3. m.cur = s
  BY <1>1, <1>2, SendCur
<1>4. /\ m.getfrom = k.getfrom /\ m.flags = [k.flags EXCEPT ![SYSTASK] = @ \ {"RECEIVING"}]
      /\ Inv(m)
  <2>1. /\ Inv(k) /\ s \in Proc /\ SYSTASK \in Proc \ {HARDWARE} /\ s # SYSTASK
        /\ s # HARDWARE /\ k.flags[s] = {}
    BY <1>1
  <2>2. /\ Inv(m)
        /\ m.getfrom = k.getfrom /\ m.pending = k.pending /\ m.sig_procs = k.sig_procs
        /\ m.flags = IF Waiting(k, s, SYSTASK) THEN [k.flags EXCEPT ![SYSTASK] = @ \ {"RECEIVING"}]
                                               ELSE [k.flags EXCEPT ![s] = @ \cup {"SENDING"}]
        /\ \A e, p \in Proc : p \in QueuedOn(m, e) <=>
             p \in QueuedOn(k, e) \/ (~Waiting(k, s, SYSTASK) /\ p = s /\ e = SYSTASK)
    BY <2>1, MiniSendFacts, SMTT(20)
  <2> HIDE DEF m
  <2>3. Waiting(k, s, SYSTASK)
    BY <1>2
  <2> QED BY <2>2, <2>3
<1>5. m.mess = [k.mess EXCEPT ![SYSTASK] = s]
  BY <1>1, <1>2, SendMess
<1>6. Sound(m)
  BY <1>1, <1>2, SendTidy
<1> HIDE DEF m
<1>7. /\ m.flags[SYSTASK] = {} /\ m.flags[s] = {} /\ Inv(m)
      /\ \A p \in Proc \ {SYSTASK} : m.flags[p] = k.flags[p]
  BY <1>1, <1>2, <1>4, <1>6 DEF Idle, Sound
<1>8. Found(m, s, SYSTASK) = {}
  <2>1. "SENDING" \notin m.flags[SYSTASK] /\ SYSTASK \notin QueuedOn(m, s)
    BY <1>1, <1>7, NotQueued
  <2> QED BY <1>1, <2>1 DEF Found, QueuedOn, ToSet
<1>9. r = MiniRec(m, s, SYSTASK) /\ "RECEIVING" \notin m.flags[s]
  BY <1>7 DEF m
<1>10. /\ Inv(r) /\ r.getfrom = [m.getfrom EXCEPT ![s] = SYSTASK]
       /\ r.flags = [m.flags EXCEPT ![s] = @ \cup {"RECEIVING"}]
       /\ \A e, p \in Proc : p \in QueuedOn(r, e) <=> p \in QueuedOn(m, e)
  <2> DEFINE n == MiniRec(m, s, SYSTASK)
  <2>1. Inv(m) /\ s \in Proc \ {HARDWARE} /\ SYSTASK \in Source /\ SYSTASK # ANY
    BY <1>1, <1>7
  <2>2. /\ Inv(n) /\ n.getfrom = [m.getfrom EXCEPT ![s] = SYSTASK]
        /\ n.flags = [m.flags EXCEPT ![s] = @ \cup {"RECEIVING"}]
        /\ \A e, p \in Proc : p \in QueuedOn(n, e) <=> p \in QueuedOn(m, e)
    BY <1>8, <1>9, <2>1, BlockedFacts
  <2> HIDE DEF n
  <2> QED BY <1>9, <2>2 DEF n
<1>11. r.mess = m.mess
  <2>1. Inv(m) /\ s \in Proc \ {HARDWARE} /\ SYSTASK \in Source /\ SYSTASK # ANY
    BY <1>1, <1>7
  <2>2. MiniRec(m, s, SYSTASK).mess = m.mess
    BY <1>8, <1>9, <2>1, BlockedCopies
  <2> QED BY <1>9, <2>2
<1>12. Prompt(r)
  BY <1>1, <1>3, <1>6, <1>8, <1>9, RecPrompt
<1>13. /\ r.flags[SYSTASK] = {} /\ r.flags[s] = {"RECEIVING"} /\ r.getfrom[s] = SYSTASK
       /\ \A p \in Proc \ {SYSTASK, s} : r.flags[p] = k.flags[p] /\ r.getfrom[p] = k.getfrom[p]
       /\ r.getfrom[SYSTASK] = k.getfrom[SYSTASK] /\ r.mess[SYSTASK] = s
  BY <1>1, <1>4, <1>5, <1>7, <1>10, <1>11
<1>14. r.cur = SYSTASK
  <2>1. r.cur \in Task
    BY <1>1, <1>12, <1>13 DEF Prompt
  <2>2. r.cur \in Proc \ {HARDWARE} /\ r.flags[r.cur] = {}
    BY <1>10, <2>1, RunningFacts, Names, Numbering
  <2> QED BY <1>1, <1>2, <1>13, <2>1, <2>2
<1>15. Asked(r)
  <2>1. \A u \in {MM, FS} : Requests(r, u) => u = s
    BY <1>1, <1>2, <1>13, Names DEF Free, Requests
  <2> QED BY <1>13, <1>14, <2>1 DEF Asked, AskedBy
<1>16. Tidy(r)
  <2>1. \A p \in User \cup {SYSTASK} : \A q \in Proc : q \notin QueuedOn(r, p)
    BY <1>1, <1>6, <1>10, Names DEF Sound, Tidy
  <2>2. \A d \in Proc : r.getfrom[d] \notin User
    BY <1>1, <1>13 DEF Sound, Tidy
  <2>3. \A p \in Proc : r.flags[p] = k.flags[p] \/ r.flags[p] \subseteq {"RECEIVING"}
    BY <1>13
  <2> QED BY <1>1, <2>1, <2>2, <2>3 DEF Sound, Tidy
<1> QED BY <1>2, <1>10, <1>12, <1>15, <1>16 DEF SInv, Sound

\* A message from the running process to anybody but SYSTASK.
LEMMA SendKept ==
  ASSUME NEW k, NEW pc, Sound(k), Free(k, pc), Prompt(k), NEW c \in Proc \ {HARDWARE, SYSTASK},
         k.cur = c, k.flags[c] = {}, NEW d \in Proc \ {HARDWARE, SYSTASK}, c # d,
         d \in User => k.flags[d] = {"RECEIVING"} /\ k.getfrom[d] = c,
         c \in Task => Waiting(k, c, d)
  PROVE  LET m == MiniSend(k, c, d)
         IN  /\ Sound(m) /\ Free(m, pc) /\ m.flags[c] \subseteq {"SENDING"}
             /\ (Waiting(k, c, d) /\ d \in Task => c \in Task) => Prompt(m)
             /\ Waiting(k, c, d) => m.cur = c
<1> DEFINE m == MiniSend(k, c, d)
<1>1. Inv(k) /\ k \in Kernel /\ k.flags \in [Proc -> SUBSET Flag] /\ c # HARDWARE
  BY DEF Sound, Inv, Kernel
<1>2. m.flags = IF Waiting(k, c, d) THEN [k.flags EXCEPT ![d] = @ \ {"RECEIVING"}]
                                    ELSE [k.flags EXCEPT ![c] = @ \cup {"SENDING"}]
  BY <1>1, MiniSendFacts
<1>3. Sound(m)
  <2>1. d \in User \cup {SYSTASK} => Waiting(k, c, d)
    BY DEF Waiting
  <2>2. c \in Proc /\ d \in Proc \ {HARDWARE}
    OBVIOUS
  <2> QED BY <2>1, <2>2, SendTidy
<1>4. Free(m, pc)
  <2>1. /\ m.flags[SYSTASK] = k.flags[SYSTASK] /\ m.getfrom = k.getfrom
        /\ \A s \in {MM, FS} : /\ Requests(m, s) => Requests(k, s)
                               /\ Requests(k, s) => m.flags[s] = k.flags[s]
        /\ Waiting(k, c, d) => m.mess[SYSTASK] = k.mess[SYSTASK]
    BY <1>1, SendApart
  <2> HIDE DEF m
  <2> QED BY <2>1, FreeKeeps
<1>5. ASSUME Waiting(k, c, d) /\ d \in Task => c \in Task
      PROVE  Prompt(m)
  <2>1. c \in Proc \ {HARDWARE} /\ d \in Proc \ {HARDWARE}
    OBVIOUS
  <2> QED BY <1>1, <1>5, <2>1, SendPrompt
<1>6. Waiting(k, c, d) => m.cur = c
  BY <1>1, SendCur
<1> HIDE DEF m
<1>7. m.flags[c] \subseteq {"SENDING"}
  BY <1>1, <1>2
<1> QED BY <1>3, <1>4, <1>5, <1>6, <1>7 DEF m

\* A call of anybody but SYSTASK, which only MM and FS call.
LEMMA CallKeeps ==
  ASSUME NEW k, NEW pc, SInv(k, pc), NEW fn \in {SEND, RECEIVE, BOTH},
         NEW c \in Proc \ {HARDWARE, SYSTASK}, NEW d \in Source, k.cur = c, k.flags[c] = {},
         fn # RECEIVE => d \in Proc \ {HARDWARE} /\ c # d,
         d = SYSTASK => fn = BOTH /\ c \in {MM, FS},
         d \in User => fn = SEND /\ k.flags[d] = {"RECEIVING"} /\ k.getfrom[d] = c,
         c \in Task /\ fn # RECEIVE => Waiting(k, c, d),
         fn = SEND /\ d \in Task => c \in Task
  PROVE  SInv(SysCallResult(k, fn, c, d), pc)
<1> DEFINE r == SysCallResult(k, fn, c, d)
           own == [k EXCEPT !.mess[c] = c]
           m == MiniSend(own, c, d)
<1>1. /\ SEND # RECEIVE /\ SEND # BOTH /\ RECEIVE # BOTH
      /\ Sound(k) /\ Free(k, pc) /\ Prompt(k) /\ k.mess \in [Proc -> Proc]
  BY DEF SEND, RECEIVE, BOTH, SInv, Asked, Sound, Inv, Kernel
<1>2. /\ Sound(own) /\ SameProcs(k, own) /\ own.mess = [k.mess EXCEPT ![c] = c]
      /\ Free(own, pc) /\ Prompt(own)
  <2>1. c \in Proc
    OBVIOUS
  <2>2. Sound(own)
    BY <1>1, <2>1, OwnKeeps
  <2>3. SameProcs(k, own)
    BY <1>1, <2>1, OwnKeeps
  <2>4. own.mess = [k.mess EXCEPT ![c] = c]
    BY <1>1, <2>1, OwnKeeps
  <2> HIDE DEF own
  <2>5. Free(own, pc)
    BY <1>1, <2>3 DEF Free, Idle, Requests, SameProcs
  <2>6. Prompt(own)
    BY <1>1, <2>3 DEF Prompt, SameProcs
  <2> QED BY <2>2, <2>3, <2>4, <2>5, <2>6
<1>3. /\ fn = SEND    => r = m
      /\ fn = RECEIVE => r = MiniRec(k, c, d)
      /\ fn = BOTH    => r = MiniRec(m, c, d)
  BY <1>1 DEF SysCallResult
<1> SUFFICES SInv(r, pc)
  OBVIOUS
<1> HIDE DEF r, own
<1>4. /\ own.cur = c /\ own.flags[c] = {} /\ own.mess[c] = c
      /\ own.flags = k.flags /\ own.getfrom = k.getfrom
      /\ (Waiting(own, c, d) <=> Waiting(k, c, d))
  BY <1>1, <1>2 DEF SameProcs, Waiting
<1>5. ASSUME fn # RECEIVE, d # SYSTASK
      PROVE  /\ Sound(m) /\ Free(m, pc) /\ m.flags[c] \subseteq {"SENDING"}
             /\ (Waiting(own, c, d) /\ d \in Task => c \in Task) => Prompt(m)
             /\ Waiting(own, c, d) => m.cur = c
  <2>1. /\ d \in Proc \ {HARDWARE, SYSTASK} /\ c # d
        /\ d \in User => own.flags[d] = {"RECEIVING"} /\ own.getfrom[d] = c
        /\ c \in Task => Waiting(own, c, d)
    BY <1>4, <1>5
  <2> QED BY <1>2, <1>4, <2>1, SendKept
<1> HIDE DEF m
<1>6. CASE fn = SEND
  <2>1. d # SYSTASK /\ (Waiting(own, c, d) /\ d \in Task => c \in Task)
    BY <1>1, <1>6
  <2> QED BY <1>1, <1>3, <1>5, <1>6, <2>1 DEF SInv
<1>7. CASE fn = RECEIVE
  <2>1. d \in Source \ {SYSTASK} /\ d \notin User
    BY <1>1, <1>7
  <2>2. k.flags[c] \subseteq {"SENDING"} /\ "RECEIVING" \notin k.flags[c]
    OBVIOUS
  <2>3. Sound(MiniRec(k, c, d)) /\ Free(MiniRec(k, c, d), pc)
    BY <1>1, <2>1, <2>2, RecSound
  <2>4. Prompt(MiniRec(k, c, d))
    BY <1>1, <2>2, RecPrompt
  <2> QED BY <1>3, <1>7, <2>3, <2>4 DEF SInv
<1>8. CASE fn = BOTH /\ d # SYSTASK
  <2>1. d \in Source \ {SYSTASK} /\ d \notin User /\ d \in Proc /\ fn # RECEIVE
    BY <1>1, <1>8
  <2>2. /\ Sound(m) /\ Free(m, pc) /\ m.flags[c] \subseteq {"SENDING"}
        /\ (Waiting(own, c, d) /\ d \in Task => c \in Task) => Prompt(m)
        /\ Waiting(own, c, d) => m.cur = c
    BY <1>5, <1>8, <2>1
  <2>3. "RECEIVING" \notin m.flags[c] /\ Inv(m)
    BY <2>2 DEF Sound
  <2>4. Sound(MiniRec(m, c, d)) /\ Free(MiniRec(m, c, d), pc)
    BY <2>1, <2>2, RecSound
  <2>5. Prompt(m) \/ (m.cur = c /\ Found(m, c, d) = {})
    <3> SUFFICES ASSUME d \in Task
                 PROVE  Found(m, c, d) = {}
      BY <2>2
    <3>1. "SENDING" \notin m.flags[d]
      BY <2>2 DEF Sound, Tidy
    <3>2. d \notin QueuedOn(m, c) /\ d # ANY
      BY <2>1, <2>3, <3>1, NotQueued, Numbering
    <3> QED BY <3>2 DEF Found, QueuedOn, ToSet
  <2>6. Prompt(MiniRec(m, c, d))
    BY <2>2, <2>3, <2>5, RecPrompt
  <2> QED BY <1>3, <1>8, <2>4, <2>6 DEF SInv
<1>9. CASE fn = BOTH /\ d = SYSTASK
  <2>1. SInv(own, pc)
    BY <1>2, <1>4 DEF SInv
  <2>2. c \in {MM, FS} /\ r = MiniRec(MiniSend(own, c, SYSTASK), c, SYSTASK)
    BY <1>3, <1>9 DEF m
  <2> QED BY <1>4, <2>1, <2>2, AskKeeps
<1> QED BY <1>6, <1>7, <1>8, <1>9

\* What the calls that are made, and accepted, are like.
LEMMA OthersCall ==
  ASSUME ServersCallSystem, NEW k, NEW pc, SInv(k, pc), NEW call \in Calls, k.cur = call[2],
         call[2] # SYSTASK, call[1] # BOTH => call[2] < LOW_USER,
         call[1] # RECEIVE => call[3] # ANY /\ ~SendFails(k, call[2], call[3]),
         call[1] = SEND /\ call[3] \in User =>
           k.flags[call[3]] = {"RECEIVING"} /\ k.getfrom[call[3]] = call[2],
         call[1] # RECEIVE /\ call[2] \in Task => Waiting(k, call[2], call[3])
  PROVE  SInv(SysCallResult(k, call[1], call[2], call[3]), pc)
<1>1. /\ call[1] \in {SEND, RECEIVE, BOTH} /\ call[2] \in Proc \ {HARDWARE, SYSTASK}
      /\ call[3] \in Source /\ call[2] \in Int
      /\ SEND # RECEIVE /\ SEND # BOTH /\ RECEIVE # BOTH
  BY ConstantAssumption, Numbering DEF SEND, RECEIVE, BOTH
<1>2. /\ k.flags[call[2]] = {}
      /\ call[1] # RECEIVE => call[3] \in Proc \ {HARDWARE} /\ call[2] # call[3]
  BY CallerOwn DEF SInv, Sound
<1>3. /\ call[3] = SYSTASK => call[1] = BOTH /\ call[2] \in {MM, FS}
      /\ call[3] \in User => call[1] = SEND
      /\ call[1] = SEND /\ call[3] \in Task => call[2] \in Task
  <2>1. CASE call[2] < LOW_USER
    BY <2>1 DEF ServersCallSystem
  <2>2. CASE ~(call[2] < LOW_USER)
    <3>1. call[1] = BOTH /\ call[2] >= LOW_USER
      BY <1>1, <2>2 DEF LOW_USER
    <3>2. call[3] \in {FS, MM}
      BY <1>1, <3>1 DEF SendFails
    <3> QED BY <1>1, <3>1, <3>2, Names
  <2> QED BY <2>1, <2>2
<1> PICK fn \in {SEND, RECEIVE, BOTH}, c \in Proc \ {HARDWARE, SYSTASK}, d \in Source :
      fn = call[1] /\ c = call[2] /\ d = call[3]
  BY <1>1
<1>4. /\ k.flags[c] = {} /\ k.cur = c
      /\ fn # RECEIVE => d \in Proc \ {HARDWARE} /\ c # d
      /\ d = SYSTASK => fn = BOTH /\ c \in {MM, FS}
      /\ d \in User => fn = SEND /\ k.flags[d] = {"RECEIVING"} /\ k.getfrom[d] = c
      /\ c \in Task /\ fn # RECEIVE => Waiting(k, c, d)
      /\ fn = SEND /\ d \in Task => c \in Task
  BY <1>2, <1>3
<1>5. SInv(SysCallResult(k, fn, c, d), pc)
  BY <1>4, CallKeeps
<1> QED BY <1>5

\* SYSTASK, which nobody is queued for, waits for a request.
LEMMA ReceiveKeeps ==
  ASSUME NEW k, SInv(k, "receive"), k.flags[SYSTASK] = {}
  PROVE  SInv(MiniRec(k, SYSTASK, ANY), "work")
<1> DEFINE r == MiniRec(k, SYSTASK, ANY)
<1>1. /\ k.flags \in [Proc -> SUBSET Flag] /\ k.getfrom \in [Proc -> Source]
      /\ k.callerq \in [Proc -> Seq(Proc)]
      /\ SYSTASK \in Proc \ {HARDWARE} /\ SYSTASK \notin User /\ User \subseteq Proc
      /\ ANY \in Source /\ ANY \notin User /\ Task \subseteq Proc
      /\ Sound(k) /\ Inv(k) /\ Tidy(k) /\ Prompt(k) /\ Free(k, "receive")
  BY Names DEF SInv, Sound, Inv, Kernel
<1> SUFFICES SInv(r, "work")
  OBVIOUS
<1>2. Found(k, SYSTASK, ANY) = {}
  <2>1. k.callerq[SYSTASK] \in Seq(Proc) /\ \A q \in Proc : q \notin ToSet(k.callerq[SYSTASK])
    BY <1>1 DEF Tidy, QueuedOn
  <2>2. k.callerq[SYSTASK] = <<>>
    BY <2>1, HeadFacts
  <2> QED BY <2>2 DEF Found
<1>3. "RECEIVING" \notin k.flags[SYSTASK]
  OBVIOUS
<1>4. /\ Inv(r) /\ r.getfrom = [k.getfrom EXCEPT ![SYSTASK] = ANY]
      /\ r.flags = [k.flags EXCEPT ![SYSTASK] = @ \cup {"RECEIVING"}]
      /\ \A e, p \in Proc : p \in QueuedOn(r, e) <=> p \in QueuedOn(k, e)
  <2>1. SYSTASK # MM
    BY Names
  <2>2. /\ Inv(r) /\ r.getfrom = [k.getfrom EXCEPT ![SYSTASK] = ANY]
        /\ \/ r.flags = [k.flags EXCEPT ![SYSTASK] = @ \cup {"RECEIVING"}]
           \/ SYSTASK = MM /\ ANY = ANY /\ r.flags = k.flags
        /\ \A e, p \in Proc : p \in QueuedOn(r, e) <=> p \in QueuedOn(k, e)
    BY <1>1, <1>2, <1>3, BlockedFacts
  <2> HIDE DEF r
  <2> QED BY <2>1, <2>2
<1>5. Prompt(r)
  BY <1>1, <1>2, <1>3, RecPrompt
<1> HIDE DEF r
<1>6. /\ Idle(r)
      /\ \A p \in Proc : p # SYSTASK => r.flags[p] = k.flags[p] /\ r.getfrom[p] = k.getfrom[p]
  BY <1>1, <1>4 DEF Idle
<1>7. Free(r, "work")
  BY <1>1, <1>6, Names DEF Free, Requests
<1>8. Tidy(r)
  <2>1. \A p \in User \cup {SYSTASK} : \A q \in Proc : q \notin QueuedOn(r, p)
    BY <1>1, <1>4 DEF Tidy
  <2>2. \A d \in Proc : r.getfrom[d] \notin User
    BY <1>1, <1>4 DEF Tidy
  <2>3. \A p \in Proc : r.flags[p] = k.flags[p] \/ r.flags[p] = {"RECEIVING"}
    BY <1>6 DEF Idle
  <2>4. /\ \A t \in Task : "SENDING" \notin k.flags[t]
        /\ \A p \in Proc : "P_SLOT_FREE" \in k.flags[p] => p \in User /\ k.flags[p] = {"P_SLOT_FREE"}
        /\ \A p \in Proc : "NO_MAP" \in k.flags[p] => p \in User /\ k.flags[p] = {"NO_MAP", "RECEIVING"}
    BY <1>1 DEF Tidy
  <2>5. \A t \in Task : "SENDING" \notin r.flags[t]
    <3> SUFFICES ASSUME NEW t \in Task
                 PROVE  "SENDING" \notin r.flags[t]
      OBVIOUS
    <3>1. t \in Proc
      BY <1>1
    <3> QED BY <2>3, <2>4, <3>1
  <2>6. \A p \in Proc : "P_SLOT_FREE" \in r.flags[p] => p \in User /\ r.flags[p] = {"P_SLOT_FREE"}
    BY <2>3, <2>4
  <2>7. \A p \in Proc : "NO_MAP" \in r.flags[p] => p \in User /\ r.flags[p] = {"NO_MAP", "RECEIVING"}
    BY <2>3, <2>4
  <2> QED BY <2>1, <2>2, <2>5, <2>6, <2>7 DEF Tidy
<1> QED BY <1>4, <1>5, <1>7, <1>8 DEF SInv, Sound

\* SYSTASK's reply finds its caller waiting, and leaves nobody who requests.
LEMMA ReplyKeeps ==
  ASSUME NEW k, SInv(k, "reply")
  PROVE  SInv(SysCallResult(k, SEND, SYSTASK, k.mess[SYSTASK]), "receive")
<1> PICK s \in {MM, FS} : AskedBy(k, s)
  BY DEF SInv, Free, Asked
<1> DEFINE own == [k EXCEPT !.mess[SYSTASK] = SYSTASK]
           r   == MiniSend(own, SYSTASK, s)
<1>1. /\ k.flags \in [Proc -> SUBSET Flag] /\ k \in Kernel
      /\ SYSTASK \in Proc \ {HARDWARE} /\ s \in Proc \ {HARDWARE} /\ SYSTASK # s
      /\ s \notin User /\ SYSTASK \in Task /\ MM # SYSTASK /\ FS # SYSTASK
      /\ MM \in Proc /\ FS \in Proc
      /\ Sound(k) /\ Inv(k) /\ k.cur = SYSTASK
  BY Names DEF SInv, Sound, Inv, Kernel, Free, Asked
<1>2. k.flags[SYSTASK] = {}
  BY <1>1, RunningFacts, Numbering
<1>3. SysCallResult(k, SEND, SYSTASK, k.mess[SYSTASK]) = r
  BY DEF SysCallResult, AskedBy, SEND, RECEIVE, BOTH
<1>4. Sound(own) /\ SameProcs(k, own)
  <2>1. SYSTASK \in Proc
    BY <1>1
  <2>2. Sound(own)
    BY <1>1, <1>2, <2>1, OwnKeeps
  <2>3. SameProcs(k, own)
    BY <1>1, <1>2, <2>1, OwnKeeps
  <2> QED BY <2>2, <2>3
<1> HIDE DEF own
<1>5. /\ own.flags = k.flags /\ own.getfrom = k.getfrom /\ own.cur = SYSTASK /\ Inv(own)
      /\ Waiting(own, SYSTASK, s) /\ own.flags[SYSTASK] = {} /\ own \in Kernel
  BY <1>1, <1>2, <1>4 DEF SameProcs, AskedBy, Waiting, Sound, Inv
<1>6. /\ Inv(r) /\ r.getfrom = own.getfrom
      /\ r.flags = [own.flags EXCEPT ![s] = @ \ {"RECEIVING"}]
  BY <1>1, <1>5, MiniSendFacts
<1>7. Sound(r)
  BY <1>1, <1>4, <1>5, SendTidy
<1>8. r.cur = SYSTASK
  BY <1>5, SendCur
<1> HIDE DEF r
<1>9. r.flags[SYSTASK] = {} /\ r.flags[s] = {} /\ \A u \in Proc : u # s => r.flags[u] = k.flags[u]
  BY <1>1, <1>5, <1>6 DEF AskedBy
<1>10. Free(r, "receive")
  <2>1. ASSUME NEW u \in {MM, FS}, Requests(r, u)
        PROVE  FALSE
    <3>1. u # s /\ u \in Proc
      BY <1>1, <1>9, <2>1 DEF Requests
    <3>2. Requests(k, u)
      BY <1>5, <1>6, <1>9, <2>1, <3>1 DEF Requests
    <3> QED BY <3>1, <3>2 DEF AskedBy
  <2> QED BY <1>9, <2>1 DEF Free
<1>11. Prompt(r)
  BY <1>1, <1>8 DEF Prompt
<1> QED BY <1>3, <1>7, <1>10, <1>11 DEF SInv
-----------------------------------------------------------------------------
(* The clock, interrupts and signals. *)

\* What only picks another process, or moves one on its list, keeps the rest.
LEMMA FrameKeeps ==
  ASSUME NEW k, Sound(k), NEW r, Inv(r), Frame(k, r), r.flags = k.flags
  PROVE  Sound(r) /\ \A pc : Free(k, pc) => Free(r, pc)
<1>1. Tidy(r)
  BY DEF Sound, Tidy, Frame, QueuedOn
<1>2. \A pc : Free(k, pc) => Free(r, pc)
  BY DEF Frame, Free, Idle, Requests
<1> QED BY <1>1, <1>2 DEF Sound

\* cause_sig() of a task other than SYSTASK notes a signal and informs.
LEMMA CauseKeeps ==
  ASSUME NEW k, NEW pc, SInv(k, pc), k.cur \in Task \ {SYSTASK}, NEW p \in Slot
  PROVE  SInv(CauseSig(k, p), pc)
<1>1. Sound(k) /\ Inv(k) /\ Free(k, pc)
  BY DEF SInv, Sound, Asked
<1>2. PICK m : /\ CauseSig(k, p) = Inform(m) /\ Inv(m)
               /\ m.flags = k.flags /\ m.getfrom = k.getfrom /\ m.callerq = k.callerq
               /\ m.cur = k.cur /\ m.mess = k.mess
  BY <1>1, MarkFacts
<1>3. Sound(m) /\ Free(m, pc)
  BY <1>1, <1>2 DEF Sound, Tidy, QueuedOn, Free, Idle, Requests
<1>4. Sound(Inform(m)) /\ Free(Inform(m), pc)
  BY <1>3, InformSound
<1>5. Prompt(Inform(m))
  <2>1. m \in Kernel
    BY <1>2 DEF Inv
  <2>2. Inform(m).cur \in Task
    BY <1>2, <2>1, InformCur
  <2> QED BY <2>2 DEF Prompt
<1> QED BY <1>2, <1>4, <1>5 DEF SInv

\* `r' is a state to which interrupt messages have brought `k': the running process
\* is the same, and SYSTASK and the servers are as they were.
Told(k, r) == /\ r.cur = k.cur /\ r.mess[SYSTASK] = k.mess[SYSTASK]
              /\ \A p \in {SYSTASK, MM, FS} : /\ r.flags[p] = k.flags[p]
                                              /\ r.getfrom[p] = k.getfrom[p]

\* interrupt() tells a task that waits.
LEMMA TellKeeps ==
  ASSUME NEW k, Sound(k), NEW t \in Devices, Waiting(k, HARDWARE, t)
  PROVE  Sound(MiniSend(k, HARDWARE, t)) /\ Told(k, MiniSend(k, HARDWARE, t))
<1> DEFINE r == MiniSend(k, HARDWARE, t)
<1>1. /\ Inv(k) /\ k \in Kernel /\ k.flags[HARDWARE] = {}
      /\ k.flags \in [Proc -> SUBSET Flag] /\ k.mess \in [Proc -> Proc]
      /\ HARDWARE \in Proc /\ t \in Proc \ {HARDWARE} /\ t \notin User /\ HARDWARE # t
      /\ t \notin {SYSTASK, MM, FS} /\ {SYSTASK, MM, FS} \subseteq Proc
  BY Names DEF Sound, Inv, Kernel
<1>2. Sound(r)
  BY <1>1, SendTidy
<1>3. r.getfrom = k.getfrom /\ r.flags = [k.flags EXCEPT ![t] = @ \ {"RECEIVING"}]
  BY <1>1, MiniSendFacts
<1>4. r.mess = [k.mess EXCEPT ![t] = k.mess[HARDWARE]]
  BY <1>1, SendMess
<1>5. r.cur = k.cur
  BY <1>1, SendCur
<1> HIDE DEF r
<1>6. Told(k, r)
  BY <1>1, <1>3, <1>4, <1>5 DEF Told
<1> QED BY <1>2, <1>6 DEF r

\* The scan touches only tasks that have interrupts.
LEMMA ScanKeeps ==
  ASSUME NEW k, Sound(k), NEW S \in SUBSET Devices, \A t \in S : Waiting(k, HARDWARE, t),
         NEW o \in ScanOrders({t \in S : k.flags[t] = {"RECEIVING"}})
  PROVE  Sound(SendPending(k, S, o)) /\ Told(k, SendPending(k, S, o))
<1> DEFINE r == SendPending(k, S, o)
<1>1. /\ S \in SUBSET (Task \ {HARDWARE}) /\ S \subseteq Proc \ User
      /\ {SYSTASK, MM, FS} \subseteq Proc \ S /\ Inv(k) /\ Tidy(k) /\ Task \subseteq Proc
  BY Names DEF Sound
<1>2. /\ o \in Seq(Proc) /\ IsInjective(o)
      /\ ToSet(o) = {t \in S : k.flags[t] = {"RECEIVING"}}
  BY <1>1, ScanFacts
<1>3. Inv(r) /\ HandedOut(k, r, S)
  BY <1>1, <1>2, PendingKeeps
<1> HIDE DEF r
<1>4. Told(k, r)
  BY <1>1, <1>3 DEF Told, HandedOut
<1>5. Tidy(r)
  <2>1. \A p \in Proc : {"P_SLOT_FREE", "NO_MAP"} \cap r.flags[p] # {} => r.flags[p] = k.flags[p]
    BY <1>1, <1>3 DEF HandedOut, Tidy
  <2>2. \A t \in Task : "SENDING" \notin r.flags[t]
    BY <1>1, <1>3 DEF HandedOut, Tidy
  <2> QED BY <1>1, <1>3, <2>1, <2>2 DEF Tidy, HandedOut, QueuedOn
<1> QED BY <1>3, <1>4, <1>5 DEF Sound, r

\* After it a ready task runs: the running process is a task or gives way to one.
LEMMA PreemptPrompt ==
  ASSUME NEW k \in Kernel, Listed(k)
  PROVE  Prompt(Preempt(k))
<1>1. CASE Preempt(k) = PickProc(k)
  BY <1>1, PickPrompt
<1>2. CASE Preempt(k) # PickProc(k)
  <2>1. Preempt(k) = k /\ ~(k.rdy[TASK_Q] # <<>> /\ (k.cur >= 0 \/ k.cur = IDLE))
    BY <1>2 DEF Preempt
  <2> SUFFICES ASSUME NEW t \in Task \ {HARDWARE}, k.flags[t] = {}
               PROVE  k.cur \in Task
    BY <2>1 DEF Prompt
  <2>2. t \in Proc /\ QueueOf(t) = TASK_Q /\ TASK_Q \in Queue
    BY ConstantAssumption, Names DEF Task, QueueOf, Queue
  <2>3. t \in ToSet(k.rdy[TASK_Q])
    BY <2>2 DEF Listed
  <2>4. k.rdy[TASK_Q] # <<>>
    BY <2>3 DEF ToSet
  <2>5. k.cur \in Proc /\ ~(k.cur >= 0)
    BY <2>1, <2>4 DEF Kernel
  <2> QED BY <2>5, ConstantAssumption DEF Proc, Task, Slot
<1> QED BY <1>1, <1>2

\* The interrupt as a whole.
LEMMA InterruptKept ==
  ASSUME NEW pc, SInv(kern, pc), busy_map \subseteq Devices, NEW t \in Devices, Interrupt(t)
  PROVE  SInv(kern', pc) /\ busy_map' \subseteq Devices
<1> DEFINE sent  == ~SendFails(kern, HARDWARE, t)
           k     == IF sent THEN MiniSend(kern, HARDWARE, t) ELSE kern
           old   == IF sent THEN busy_map \ {t} ELSE busy_map
           woken == Woken(k, old)
           R     == {i \in woken : k.flags[i] = {"RECEIVING"}}
<1>1. Sound(k) /\ Told(kern, k)
  <2>1. CASE sent
    <3>1. Waiting(kern, HARDWARE, t)
      BY <2>1 DEF SendFails
    <3> QED BY <2>1, <3>1, TellKeeps DEF SInv
  <2>2. CASE ~sent
    BY <2>2 DEF SInv, Told
  <2> QED BY <2>1, <2>2
<1>2. old \subseteq Devices
  OBVIOUS
<1>3. /\ busy_map' = (IF sent \/ t = CLOCK THEN old ELSE busy_map \cup {t}) \ woken
      /\ \E order \in ScanOrders(R) : kern' = Preempt(SendPending(k, woken, order))
  BY DEF Interrupt
<1> HIDE DEF k, old, sent
<1>4. woken \in SUBSET Devices /\ \A i \in woken : Waiting(k, HARDWARE, i)
  BY <1>2 DEF Woken, SendFails, HARDWARE
<1>5. PICK o \in ScanOrders(R) : kern' = Preempt(SendPending(k, woken, o))
  BY <1>3
<1> HIDE DEF woken
<1> DEFINE r == SendPending(k, woken, o)
<1>6. Sound(r) /\ Told(k, r)
  BY <1>1, <1>4, ScanKeeps
<1>7. kern' = Preempt(r)
  BY <1>5
<1> HIDE DEF r
<1>8. Told(kern, r) /\ r \in Kernel /\ Listed(r) /\ Inv(r)
  BY <1>1, <1>6 DEF Told, Sound, Inv
<1> DEFINE n == Preempt(r)
<1>9. Prompt(n)
  BY <1>8, PreemptPrompt
<1> HIDE DEF n
<1>10. ASSUME Free(kern, pc)
       PROVE  SInv(n, pc)
  <2>1. Free(r, pc)
    BY <1>8, <1>10 DEF Told, Free, Idle, Requests
  <2>2. Inv(PickProc(r)) /\ Frame(r, PickProc(r)) /\ PickProc(r).flags = r.flags
    BY <1>8, PickFrame DEF Inv
  <2>3. Sound(PickProc(r)) /\ Free(PickProc(r), pc)
    BY <1>6, <2>1, <2>2, FrameKeeps
  <2>4. n = r \/ n = PickProc(r)
    BY DEF n, Preempt
  <2> QED BY <1>6, <1>9, <2>1, <2>3, <2>4 DEF SInv
<1>11. ASSUME pc \in {"work", "reply"} /\ Asked(kern)
       PROVE  SInv(n, pc)
  <2>1. Asked(r) /\ r.cur = SYSTASK
    BY <1>8, <1>11 DEF Told, Asked, AskedBy, Requests
  <2>2. n = r
    BY <2>1 DEF n, Preempt, SYSTASK, IDLE
  <2> QED BY <1>6, <1>9, <1>11, <2>1, <2>2 DEF SInv
<1>12. SInv(n, pc)
  BY <1>10, <1>11 DEF SInv
<1>13. busy_map' \subseteq Devices
  BY <1>2, <1>3
<1> QED BY <1>7, <1>12, <1>13 DEF n
-----------------------------------------------------------------------------
(* SYSTASK's handlers. *)

\* A handler that leaves the servers and SYSTASK alone leaves the request to be answered.
LEMMA ServedKeeps ==
  ASSUME NEW k, Asked(k), NEW r, Sound(r), r.cur = SYSTASK, r.mess[SYSTASK] = k.mess[SYSTASK],
         \A s \in {MM, FS} : r.flags[s] = k.flags[s] /\ r.getfrom[s] = k.getfrom[s]
  PROVE  SInv(r, "reply")
<1>1. Asked(r)
  BY AskedKeeps
<1>2. Prompt(r)
  BY Names DEF Prompt
<1> QED BY <1>1, <1>2 DEF SInv

\* do_fork() fills a free slot like that of a process that waits for MM.
LEMMA ForkedKeeps ==
  ASSUME NEW k, Sound(k), Asked(k), NEW k1 \in User, NEW k2 \in User,
         k.flags[k1] = {"RECEIVING"}, k.getfrom[k1] = MM, "P_SLOT_FREE" \in k.flags[k2]
  PROVE  SInv(Forked(k, k1, k2), "reply")
<1> DEFINE r == Forked(k, k1, k2)
<1>1. /\ k \in Kernel /\ k.flags \in [Proc -> SUBSET Flag] /\ k.mess \in [Proc -> Proc]
      /\ k.getfrom \in [Proc -> Source] /\ k.callerq \in [Proc -> Seq(Proc)]
      /\ k.pending \in SUBSET Slot
      /\ k1 \in Proc /\ k2 \in Proc \ {HARDWARE, SYSTASK, MM, FS} /\ k2 \in Slot
      /\ FS \in Proc /\ k2 \notin Task /\ Task \subseteq Proc /\ k.cur = SYSTASK
      /\ MM \in Proc /\ MM \in Source /\ MM \notin User
      /\ SYSTASK \in Proc /\ HARDWARE \in Proc /\ Inv(k) /\ Tidy(k)
  BY Names DEF Sound, Asked, Inv, Kernel, Source
<1>2. k.flags[k2] = {"P_SLOT_FREE"}
  BY <1>1 DEF Tidy
<1>3. /\ r.flags = [k.flags EXCEPT ![k2] = {"RECEIVING", "NO_MAP"}]
      /\ r.getfrom = [k.getfrom EXCEPT ![k2] = MM]
      /\ r.callerq = [k.callerq EXCEPT ![k2] = k.callerq[k1]]
      /\ r.mess = [k.mess EXCEPT ![k2] = k.mess[k1]]
      /\ r.rdy = k.rdy /\ r.cur = k.cur
  <2>1. k.flags[k1] \cup {"NO_MAP"} = {"RECEIVING", "NO_MAP"}
    OBVIOUS
  <2> QED BY <1>1, <2>1 DEF Forked, Kernel
<1>4. r \in Kernel
  <2>1. r.pending \in SUBSET Slot
    BY <1>1 DEF Forked, Kernel
  <2>2. /\ [k.flags EXCEPT ![k2] = {"RECEIVING", "NO_MAP"}] \in [Proc -> SUBSET Flag]
        /\ [k.getfrom EXCEPT ![k2] = MM] \in [Proc -> Source]
        /\ [k.callerq EXCEPT ![k2] = k.callerq[k1]] \in [Proc -> Seq(Proc)]
        /\ [k.mess EXCEPT ![k2] = k.mess[k1]] \in [Proc -> Proc]
    BY <1>1 DEF Flag
  <2>3. r = [k EXCEPT !.flags = r.flags, !.getfrom = r.getfrom, !.callerq = r.callerq,
                      !.mess = r.mess, !.pending = r.pending]
    BY DEF Forked, Kernel
  <2> HIDE DEF r
  <2>4. /\ r.flags \in [Proc -> SUBSET Flag] /\ r.getfrom \in [Proc -> Source]
        /\ r.callerq \in [Proc -> Seq(Proc)] /\ r.mess \in [Proc -> Proc]
    BY <1>3, <2>2
  <2> QED BY <1>1, <2>1, <2>3, <2>4 DEF Kernel
<1> HIDE DEF r
<1>5. \A p, e \in Proc : p \in QueuedOn(r, e) <=> p \in QueuedOn(k, e)
  <2>1. \A p \in Proc : p \notin QueuedOn(k, k1) /\ p \notin QueuedOn(k, k2)
    BY <1>1 DEF Tidy
  <2>2. \A e \in Proc : r.callerq[e] = IF e = k2 THEN k.callerq[k1] ELSE k.callerq[e]
    BY <1>1, <1>3
  <2> QED BY <1>1, <2>1, <2>2 DEF QueuedOn
<1>6. /\ \A p \in Proc : p # k2 => /\ r.flags[p] = k.flags[p] /\ r.getfrom[p] = k.getfrom[p]
                                   /\ r.mess[p] = k.mess[p]
      /\ r.flags[k2] = {"RECEIVING", "NO_MAP"} /\ r.getfrom[k2] = MM
  BY <1>1, <1>3
<1>7. \A p \in Proc : /\ r.flags[p] = {} <=> k.flags[p] = {}
                      /\ "SENDING" \in r.flags[p] <=> "SENDING" \in k.flags[p]
  BY <1>2, <1>6
<1>8. Listed(r) /\ AtHead(r) /\ r.flags[HARDWARE] = {}
  <2>1. Listed(k) /\ AtHead(k) /\ k.flags[HARDWARE] = {}
    BY <1>1 DEF Inv
  <2>2. Listed(r)
    BY <1>3, <1>7, <2>1 DEF Listed
  <2>3. AtHead(r)
    BY <1>3, <2>1 DEF AtHead
  <2> QED BY <1>1, <1>6, <2>1, <2>2, <2>3
<1>9. Queued(r)
  <2>1. \A d \in Proc : IsInjective(r.callerq[d])
    BY <1>1, <1>3 DEF Inv, Queued
  <2> QED BY <1>1, <1>5, <1>7, <2>1 DEF Inv, Queued, QueuedOn
<1>10. Matched(r)
  <2> SUFFICES ASSUME NEW d \in Proc, NEW p \in ToSet(r.callerq[d])
               PROVE  ~Waiting(r, p, d)
    BY DEF Matched
  <2>1. r.callerq[d] \in Seq(Proc)
    BY <1>4 DEF Kernel
  <2>2. p \in Proc
    BY <2>1, ToSetIn
  <2>3. p \in ToSet(k.callerq[d])
    BY <1>5, <2>2 DEF QueuedOn
  <2>4. d # k2 /\ ~Waiting(k, p, d)
    BY <1>1, <2>2, <2>3 DEF Inv, Matched, Tidy, QueuedOn
  <2> QED BY <1>6, <2>4 DEF Waiting
<1>11. Tidy(r)
  <2>1. \A p \in User \cup {SYSTASK} : \A q \in Proc : q \notin QueuedOn(r, p)
    BY <1>1, <1>5, Names DEF Tidy
  <2>2. \A d \in Proc : r.getfrom[d] \notin User
    BY <1>1, <1>6 DEF Tidy
  <2>3. \A t \in Task : "SENDING" \notin r.flags[t]
    BY <1>1, <1>7 DEF Tidy
  <2>4. r.flags[k2] = {"NO_MAP", "RECEIVING"} /\ "P_SLOT_FREE" \notin r.flags[k2]
    BY <1>6
  <2>5. \A p \in Proc : p = k2 \/ r.flags[p] = k.flags[p]
    BY <1>6
  <2>6. \A p \in Proc : "P_SLOT_FREE" \in r.flags[p] => p \in User /\ r.flags[p] = {"P_SLOT_FREE"}
    BY <1>1, <2>4, <2>5 DEF Tidy
  <2>7. \A p \in Proc : "NO_MAP" \in r.flags[p] => p \in User /\ r.flags[p] = {"NO_MAP", "RECEIVING"}
    BY <1>1, <2>4, <2>5 DEF Tidy
  <2> QED BY <2>1, <2>2, <2>3, <2>6, <2>7 DEF Tidy
<1>12. Sound(r)
  BY <1>4, <1>8, <1>9, <1>10, <1>11 DEF Inv, Sound
<1>13. /\ r.cur = SYSTASK /\ r.mess[SYSTASK] = k.mess[SYSTASK]
       /\ \A s \in {MM, FS} : r.flags[s] = k.flags[s] /\ r.getfrom[s] = k.getfrom[s]
  BY <1>1, <1>3, <1>6
<1>14. SInv(r, "reply")
  BY <1>12, <1>13, ServedKeeps
<1> QED BY <1>14 DEF r

\* Deblock() leaves the running process alone.
LEMMA DeblockCur ==
  ASSUME NEW k \in Kernel, NEW p, NEW f
  PROVE  Deblock(k, p, f).cur = k.cur
<1> DEFINE m == [k EXCEPT !.flags[p] = @ \ {f}]
<1>1. m.cur = k.cur /\ Ready(m, p).cur = m.cur
  BY DEF Kernel, Ready
<1>2. Deblock(k, p, f) \in {m, Ready(m, p)}
  BY DEF Deblock
<1> HIDE DEF m
<1> QED BY <1>1, <1>2

\* A user that loses a flag other than SENDING.
LEMMA FreedKeeps ==
  ASSUME NEW k, Sound(k), Asked(k), NEW p \in User,
         NEW f \in k.flags[p], f # "SENDING",
         k.flags[p] \in {{"RECEIVING"}, {"NO_MAP", "RECEIVING"}}, f = "RECEIVING" => k.flags[p] = {f}
  PROVE  SInv(Deblock(k, p, f), "reply")
<1> DEFINE r == Deblock(k, p, f)
<1>1. /\ k \in Kernel /\ k.flags \in [Proc -> SUBSET Flag]
      /\ p \in Proc \ {HARDWARE, SYSTASK, MM, FS} /\ MM \in Proc /\ FS \in Proc
      /\ p \notin Task /\ Task \subseteq Proc /\ k.cur = SYSTASK /\ SYSTASK \in Proc
      /\ HARDWARE \in Proc
      /\ Listed(k) /\ AtHead(k) /\ Inv(k) /\ Tidy(k)
  BY Names DEF Sound, Asked, Inv, Kernel
<1>2. /\ r \in Kernel /\ Frame(k, r) /\ r.flags = [k.flags EXCEPT ![p] = @ \ {f}]
      /\ Listed(r) /\ AtHead(r)
  BY <1>1, DeblockFacts
<1>2a. r.cur = SYSTASK
  BY <1>1, DeblockCur
<1> HIDE DEF r
<1>3. \A q \in Proc : /\ q # p => r.flags[q] = k.flags[q]
                      /\ "SENDING" \in r.flags[q] <=> "SENDING" \in k.flags[q]
                      /\ "RECEIVING" \in r.flags[q] => "RECEIVING" \in k.flags[q]
  BY <1>1, <1>2
<1>4. r.flags[p] \subseteq {"RECEIVING"}
  BY <1>1, <1>2
<1>5. Inv(r)
  <2>1. Queued(r)
    BY <1>1, <1>2, <1>3 DEF Inv, Queued, Frame
  <2>2. Matched(r)
    BY <1>1, <1>2, <1>3 DEF Inv, Matched, Frame, Waiting
  <2> QED BY <1>1, <1>2, <1>3, <2>1, <2>2 DEF Inv
<1>6. Tidy(r)
  <2>1. \A x \in User \cup {SYSTASK} : \A q \in Proc : q \notin QueuedOn(r, x)
    BY <1>1, <1>2 DEF Tidy, Frame, QueuedOn
  <2>2. \A d \in Proc : r.getfrom[d] \notin User
    BY <1>1, <1>2 DEF Tidy, Frame
  <2>3. \A t \in Task : "SENDING" \notin r.flags[t]
    BY <1>1, <1>3 DEF Tidy
  <2>4. \A x \in Proc : "P_SLOT_FREE" \in r.flags[x] => x \in User /\ r.flags[x] = {"P_SLOT_FREE"}
    BY <1>1, <1>3, <1>4 DEF Tidy
  <2>5. \A x \in Proc : "NO_MAP" \in r.flags[x] => x \in User /\ r.flags[x] = {"NO_MAP", "RECEIVING"}
    BY <1>1, <1>3, <1>4 DEF Tidy
  <2> QED BY <2>1, <2>2, <2>3, <2>4, <2>5 DEF Tidy
<1>7. /\ r.mess[SYSTASK] = k.mess[SYSTASK]
      /\ \A s \in {MM, FS} : r.flags[s] = k.flags[s] /\ r.getfrom[s] = k.getfrom[s]
  BY <1>1, <1>2, <1>3 DEF Frame
<1>8. SInv(r, "reply")
  BY <1>2a, <1>5, <1>6, <1>7, ServedKeeps DEF Sound
<1> QED BY <1>8 DEF r

\* unready() takes a process off its list, if it is on one.
LEMMA UnreadyFacts ==
  ASSUME NEW k \in Kernel, NEW p \in Proc \ {HARDWARE}, Listed(k), AtHead(k)
  PROVE  LET r == Unready(k, p)
         IN  /\ r \in Kernel /\ Frame(k, r) /\ r.flags = k.flags /\ AtHead(r)
             /\ \A q \in Queue : /\ IsInjective(r.rdy[q])
                                 /\ \A x \in Proc : x \in ToSet(r.rdy[q]) <=>
                                      x \in ToSet(k.rdy[q]) /\ x # p
<1> DEFINE q == QueueOf(p)
           s == RemoveFirst(k.rdy[q], p)
           n == [k EXCEPT !.rdy[q] = s]
           r == Unready(k, p)
<1>1. q \in Queue /\ k.rdy \in [Queue -> Seq(Proc)]
  BY Numbering DEF Kernel
<1>2. k.rdy[q] \in Seq(Proc) /\ IsInjective(k.rdy[q])
  BY <1>1 DEF Listed
<1>3. /\ s \in Seq(Proc) /\ ToSet(s) = ToSet(k.rdy[q]) \ {p} /\ IsInjective(s)
      /\ k.rdy[q] # <<>> /\ Head(k.rdy[q]) # p => s # <<>> /\ Head(s) = Head(k.rdy[q])
  BY <1>2, RemoveFirstFacts
<1>4. r = IF k.rdy[q] # <<>> /\ Head(k.rdy[q]) = p THEN PickProc(n) ELSE n
  BY DEF Unready
<1> HIDE DEF s, r
<1>5. /\ n \in Kernel /\ Frame(k, n) /\ n.flags = k.flags /\ n.cur = k.cur
      /\ n.rdy = [k.rdy EXCEPT ![q] = s]
  <2>1. [k.rdy EXCEPT ![q] = s] \in [Queue -> Seq(Proc)]
    BY <1>1, <1>3
  <2>2. n = [k EXCEPT !.rdy = [k.rdy EXCEPT ![q] = s]]
    OBVIOUS
  <2> QED BY <2>1, <2>2 DEF Kernel, Frame
<1> HIDE DEF n
<1>6. \A y \in Queue : /\ IsInjective(n.rdy[y])
                       /\ \A x \in Proc : x \in ToSet(n.rdy[y]) <=> x \in ToSet(k.rdy[y]) /\ x # p
  BY <1>1, <1>3, <1>5 DEF Listed
<1>7. CASE k.rdy[q] # <<>> /\ Head(k.rdy[q]) = p
  <2>1. Classed(n)
    BY <1>6 DEF Listed, Classed
  <2>2. /\ PickProc(n) \in Kernel /\ Frame(n, PickProc(n)) /\ PickProc(n).flags = n.flags
        /\ PickProc(n).rdy = n.rdy /\ AtHead(PickProc(n))
    BY <1>5, <2>1, PickProcFacts
  <2>3. Frame(k, PickProc(n))
    BY <1>5, <2>2 DEF Frame
  <2> QED BY <1>4, <1>5, <1>6, <1>7, <2>2, <2>3 DEF r
<1>8. CASE ~(k.rdy[q] # <<>> /\ Head(k.rdy[q]) = p)
  <2>1. AtHead(n)
    <3> SUFFICES ASSUME k.cur # IDLE
                 PROVE  n.rdy[QueueOf(k.cur)] # <<>> /\ Head(n.rdy[QueueOf(k.cur)]) = k.cur
      BY <1>5 DEF AtHead
    <3>1. k.rdy[QueueOf(k.cur)] # <<>> /\ Head(k.rdy[QueueOf(k.cur)]) = k.cur
      BY DEF AtHead
    <3>2. QueueOf(k.cur) \in Queue
      BY Numbering DEF Kernel
    <3>3. CASE QueueOf(k.cur) = q
      BY <1>1, <1>3, <1>5, <1>8, <3>1, <3>3
    <3>4. CASE QueueOf(k.cur) # q
      BY <1>1, <1>5, <3>1, <3>2, <3>4
    <3> QED BY <3>3, <3>4
  <2> QED BY <1>4, <1>5, <1>6, <1>8, <2>1 DEF r
<1> QED BY <1>7, <1>8

\* The running task keeps the CPU when a user is taken off its list.
LEMMA UnreadyCur ==
  ASSUME NEW k, Inv(k), k.cur \in Task, NEW p \in User
  PROVE  Unready(k, p).cur = k.cur
<1> DEFINE n == [k EXCEPT !.rdy[QueueOf(p)] = RemoveFirst(@, p)]
<1>1. Unready(k, p) \in {n, PickProc(n)}
  BY DEF Unready
<1>2. k \in Kernel /\ AtHead(k)
  BY DEF Inv
<1>3. QueueOf(p) = USER_Q
  BY ConstantAssumption DEF QueueOf, User, Slot, LOW_USER
<1>4. n.rdy[TASK_Q] = k.rdy[TASK_Q] /\ n.cur = k.cur /\ DOMAIN n = DOMAIN k
  BY <1>2, <1>3 DEF Kernel, Queue, TASK_Q, SERVER_Q, USER_Q
<1>5. QueueOf(k.cur) = TASK_Q /\ k.cur # IDLE
  BY Names, Numbering, ConstantAssumption DEF QueueOf, Task
<1>6. k.rdy[TASK_Q] # <<>> /\ Head(k.rdy[TASK_Q]) = k.cur
  BY <1>2, <1>5 DEF AtHead
<1> HIDE DEF n
<1>7. PickProc(n).cur = Highest(n)
  BY <1>2, <1>4 DEF PickProc, Kernel
<1> QED BY <1>1, <1>4, <1>6, <1>7 DEF Highest

\* do_xit(): what is left of a process is a free slot.
LEMMA ExitedKeeps ==
  ASSUME NEW k, Sound(k), Asked(k), NEW p \in User
  PROVE  SInv(Exited(k, p), "reply")
<1> DEFINE u == Unready(k, p)
           Q == [d \in Proc |-> IF "SENDING" \in k.flags[p] THEN RemoveFirst(u.callerq[d], p)
                                                          ELSE u.callerq[d]]
           r == Exited(k, p)
<1>1. /\ k \in Kernel /\ k.flags \in [Proc -> SUBSET Flag] /\ k.callerq \in [Proc -> Seq(Proc)]
      /\ p \in Proc \ {HARDWARE, SYSTASK, MM, FS} /\ MM \in Proc /\ FS \in Proc
      /\ p \notin Task /\ Task \subseteq Proc /\ k.cur = SYSTASK /\ SYSTASK \in Proc
      /\ HARDWARE \in Proc
      /\ Listed(k) /\ AtHead(k) /\ Queued(k) /\ Matched(k) /\ k.flags[HARDWARE] = {}
      /\ Inv(k) /\ Tidy(k)
  BY Names DEF Sound, Asked, Inv, Kernel
<1>2. /\ u \in Kernel /\ Frame(k, u) /\ u.flags = k.flags /\ AtHead(u)
      /\ \A q \in Queue : /\ IsInjective(u.rdy[q])
                          /\ \A x \in Proc : x \in ToSet(u.rdy[q]) <=>
                               x \in ToSet(k.rdy[q]) /\ x # p
  BY <1>1, UnreadyFacts
<1>2a. u.cur = SYSTASK
  BY <1>1, Names, UnreadyCur
<1>3. r = [u EXCEPT !.callerq = Q, !.flags[p] = {"P_SLOT_FREE"}]
  BY DEF Exited
<1> HIDE DEF u, r
<1>4. \A d \in Proc : /\ Q[d] \in Seq(Proc) /\ IsInjective(Q[d])
                      /\ \A x \in Proc : x \in ToSet(Q[d]) <=> x \in QueuedOn(k, d) /\ x # p
  <2> TAKE d \in Proc
  <2>1. u.callerq[d] = k.callerq[d] /\ k.callerq[d] \in Seq(Proc) /\ IsInjective(k.callerq[d])
    BY <1>1, <1>2 DEF Frame, Queued
  <2>2. /\ RemoveFirst(k.callerq[d], p) \in Seq(Proc)
        /\ ToSet(RemoveFirst(k.callerq[d], p)) = ToSet(k.callerq[d]) \ {p}
        /\ IsInjective(RemoveFirst(k.callerq[d], p))
    BY <2>1, RemoveFirstFacts
  <2>3. "SENDING" \notin k.flags[p] => p \notin ToSet(k.callerq[d])
    BY <1>1 DEF Queued
  <2> QED BY <2>1, <2>2, <2>3 DEF QueuedOn
<1>5. Q \in [Proc -> Seq(Proc)]
  BY <1>4
<1> HIDE DEF Q
<1>6. /\ r \in Kernel /\ r.callerq = Q /\ r.flags = [k.flags EXCEPT ![p] = {"P_SLOT_FREE"}]
      /\ r.getfrom = k.getfrom /\ r.mess = k.mess /\ r.rdy = u.rdy /\ r.cur = u.cur
  <2>1. [k.flags EXCEPT ![p] = {"P_SLOT_FREE"}] \in [Proc -> SUBSET Flag]
    BY <1>1 DEF Flag
  <2>2. r = [u EXCEPT !.callerq = Q, !.flags = [k.flags EXCEPT ![p] = {"P_SLOT_FREE"}]]
    BY <1>2, <1>3
  <2>3. u.getfrom = k.getfrom /\ u.mess = k.mess
    BY <1>2 DEF Frame
  <2> QED BY <1>2, <1>5, <2>1, <2>2, <2>3 DEF Kernel
<1>7. /\ \A x \in Proc : x # p => r.flags[x] = k.flags[x]
      /\ r.flags[p] = {"P_SLOT_FREE"}
      /\ \A d, x \in Proc : x \in ToSet(r.callerq[d]) <=> x \in ToSet(k.callerq[d]) /\ x # p
  BY <1>1, <1>4, <1>6 DEF QueuedOn
<1>8. Listed(r)
  <2>1. \A q \in Queue : IsInjective(r.rdy[q])
    BY <1>2, <1>6
  <2>2. ASSUME NEW q \in Queue, NEW x \in Proc
        PROVE  x \in ToSet(r.rdy[q]) <=> q = QueueOf(x) /\ r.flags[x] = {} /\ x # HARDWARE
    <3>1. x \in ToSet(r.rdy[q]) <=> x \in ToSet(k.rdy[q]) /\ x # p
      BY <1>2, <1>6
    <3>2. x \in ToSet(k.rdy[q]) <=> q = QueueOf(x) /\ k.flags[x] = {} /\ x # HARDWARE
      BY <1>1 DEF Listed
    <3>3. r.flags[p] # {}
      BY <1>7
    <3> QED BY <1>7, <3>1, <3>2, <3>3
  <2> QED BY <2>1, <2>2 DEF Listed
<1>9. AtHead(r)
  BY <1>2, <1>6 DEF AtHead
<1>10. Queued(r)
  <2>1. \A d \in Proc : IsInjective(r.callerq[d])
    BY <1>4, <1>6
  <2>2. \A x, d, e \in Proc : x \in ToSet(r.callerq[d]) /\ x \in ToSet(r.callerq[e]) => d = e
    BY <1>1, <1>7 DEF Queued
  <2>3. \A x \in Proc : "SENDING" \in r.flags[x] <=> \E d \in Proc : x \in ToSet(r.callerq[d])
    BY <1>1, <1>7 DEF Queued
  <2> QED BY <2>1, <2>2, <2>3 DEF Queued
<1>11. Matched(r)
  <2> SUFFICES ASSUME NEW d \in Proc, NEW x \in ToSet(r.callerq[d])
               PROVE  ~Waiting(r, x, d)
    BY DEF Matched
  <2>1. x \in Proc
    BY <1>4, <1>6, ToSetIn
  <2>2. x \in ToSet(k.callerq[d])
    BY <1>7, <2>1
  <2>3. ~Waiting(k, x, d)
    BY <1>1, <2>2 DEF Matched
  <2>4. "RECEIVING" \in r.flags[d] => "RECEIVING" \in k.flags[d]
    BY <1>7
  <2> QED BY <1>6, <2>3, <2>4 DEF Waiting
<1>12. Inv(r)
  BY <1>1, <1>6, <1>7, <1>8, <1>9, <1>10, <1>11 DEF Inv
<1>13. Tidy(r)
  <2>1. \A x \in User \cup {SYSTASK} : \A q \in Proc : q \notin QueuedOn(r, x)
    BY <1>1, <1>7, Names DEF Tidy, QueuedOn
  <2>2. \A d \in Proc : r.getfrom[d] \notin User
    BY <1>1, <1>6 DEF Tidy
  <2>3. \A t \in Task : "SENDING" \notin r.flags[t]
    BY <1>1, <1>7 DEF Tidy
  <2>4. \A x \in Proc : x = p \/ r.flags[x] = k.flags[x]
    BY <1>7
  <2>5. r.flags[p] = {"P_SLOT_FREE"} /\ "NO_MAP" \notin r.flags[p]
    BY <1>7
  <2>6. \A x \in Proc : "P_SLOT_FREE" \in r.flags[x] => x \in User /\ r.flags[x] = {"P_SLOT_FREE"}
    BY <1>1, <2>4, <2>5 DEF Tidy
  <2>7. \A x \in Proc : "NO_MAP" \in r.flags[x] => x \in User /\ r.flags[x] = {"NO_MAP", "RECEIVING"}
    BY <1>1, <2>4, <2>5 DEF Tidy
  <2> QED BY <2>1, <2>2, <2>3, <2>6, <2>7 DEF Tidy
<1>14. /\ r.cur = SYSTASK /\ r.mess[SYSTASK] = k.mess[SYSTASK]
       /\ \A s \in {MM, FS} : r.flags[s] = k.flags[s] /\ r.getfrom[s] = k.getfrom[s]
  BY <1>2a, <1>1, <1>6, <1>7
<1>15. SInv(r, "reply")
  BY <1>12, <1>13, <1>14, ServedKeeps DEF Sound
<1> QED BY <1>15 DEF r
-----------------------------------------------------------------------------
(* The specification. *)

\* The inductive invariant.
SysInd == /\ SInv(kern, sys_pc)
          /\ busy_map \subseteq Devices /\ lost_ticks \in 0 .. MaxLost
          /\ sys_pc \in {"receive", "work", "reply"} /\ sys_if \in BOOLEAN

\* At the start nobody waits for anything.
LEMMA SysStarts ==
  ASSUME SysInit
  PROVE  SysInd
<1> DEFINE r1 == Numbers(-NR_TASKS, HARDWARE - 1)
           x  == [flags     |-> [p \in Proc |-> IF p \in Live THEN {} ELSE {"P_SLOT_FREE"}],
                  getfrom   |-> [p \in Proc |-> ANY],
                  callerq   |-> [p \in Proc |-> <<>>],
                  mess      |-> [p \in Proc |-> p],
                  rdy       |-> <<r1, Numbers(MM, FS), Numbers(LOW_USER, LAST_LIVE)>>,
                  cur       |-> 0,
                  prev      |-> 0,
                  bill      |-> HARDWARE,
                  pending   |-> {},
                  sig_procs |-> 0]
<1>1. kern = PickProc(x) /\ busy_map = {} /\ sys_pc = "receive" /\ sys_if = TRUE
  BY DEF SysInit, Init
<1> HIDE DEF r1
<1>2. kern.flags = x.flags /\ kern.getfrom = x.getfrom /\ kern.callerq = x.callerq
  BY <1>1 DEF PickProc
<1>3. Inv(kern) /\ lost_ticks \in 0 .. MaxLost
  BY InitKeeps DEF SysInit, IndInv, KInv
<1>4. \A p, d \in Proc : p \notin QueuedOn(kern, d)
  BY <1>2 DEF QueuedOn, ToSet
<1>5. \A p \in Proc : p \in Live \/ p \in User
  BY ConstantAssumption DEF Proc, Live, User, Slot, Task, LOW_USER
<1>6. {SYSTASK, MM, FS} \subseteq Live \cap Proc
  BY ConstantAssumption, Names DEF Live, Task, SYSTASK, MM, FS, LOW_USER
<1>7. \A p \in Proc : kern.flags[p] = {} \/ (p \in User /\ kern.flags[p] = {"P_SLOT_FREE"})
  BY <1>2, <1>5
<1>8. Tidy(kern)
  <2>1. \A d \in Proc : kern.getfrom[d] \notin User
    BY <1>2, Names
  <2> QED BY <1>4, <1>7, <2>1, Names DEF Tidy
<1>9. Free(kern, "receive")
  <2>1. kern.flags[SYSTASK] = {} /\ kern.flags[MM] = {} /\ kern.flags[FS] = {}
    BY <1>2, <1>6
  <2> QED BY <2>1 DEF Free, Requests
<1>10. Prompt(kern)
  <2>1. kern.cur = Highest(kern)
    BY <1>1 DEF PickProc, Highest
  <2> QED BY <1>3, <2>1, PickedPrompt DEF Inv
<1> QED BY <1>1, <1>3, <1>8, <1>9, <1>10 DEF SysInd, SInv, Sound

\* A step of anybody but SYSTASK.
LEMMA OthersKeep ==
  ASSUME ServersCallSystem, Unasked = {}, SysInd, Others
  PROVE  SysInd'
<1>0. SInv(kern, sys_pc)
  BY DEF SysInd
<1>1. CASE \E c \in Calls : c[2] # SYSTASK /\ ServerDoes(c) /\ TaskDoes(c) /\ SysCall(c[1], c[2], c[3])
  <2>1. PICK c \in Calls : c[2] # SYSTASK /\ ServerDoes(c) /\ TaskDoes(c) /\ SysCall(c[1], c[2], c[3])
    BY <1>1
  <2>2. /\ kern.cur = c[2]
        /\ c[1] # BOTH => c[2] < LOW_USER
        /\ c[1] # RECEIVE => c[3] # ANY /\ ~SendFails(kern, c[2], c[3])
        /\ kern' = SysCallResult(kern, c[1], c[2], c[3])
        /\ busy_map' = busy_map /\ lost_ticks' = lost_ticks
    BY <2>1 DEF SysCall
  <2>3. c[1] = SEND /\ c[3] \in User =>
          kern.flags[c[3]] = {"RECEIVING"} /\ kern.getfrom[c[3]] = c[2]
    BY <2>1 DEF ServerDoes, Served
  <2>4. c[1] # RECEIVE /\ c[2] \in Task => Waiting(kern, c[2], c[3])
    BY <2>1 DEF TaskDoes
  <2>5. SInv(SysCallResult(kern, c[1], c[2], c[3]), sys_pc)
    BY <1>0, <2>1, <2>2, <2>3, <2>4, OthersCall
  <2>6. SInv(kern', sys_pc)
    BY <2>2, <2>5
  <2> QED BY <2>2, <2>6 DEF SysInd, Others
<1>2. CASE \E p \in LOW_USER .. LAST_LIVE : kern.cur # SYSTASK /\ CauseSignal(p)
  <2>1. PICK p \in LOW_USER .. LAST_LIVE : kern.cur # SYSTASK /\ CauseSignal(p)
    BY <1>2
  <2>2. p \in Slot /\ kern.cur \in Task \ {SYSTASK}
    BY <2>1, ConstantAssumption DEF Slot, LOW_USER, CauseSignal
  <2>3. SInv(CauseSig(kern, p), sys_pc)
    BY <1>0, <2>2, CauseKeeps
  <2> QED BY <2>1, <2>3 DEF SysInd, Others, CauseSignal
<1>3. CASE TakeLostTicks
  BY <1>3, ConstantAssumption DEF SysInd, Others, TakeLostTicks
<1>4. CASE Reschedule
  <2>1. kern.cur \in Task \ {SYSTASK} /\ kern' = Sched(kern)
    BY <1>4, ConstantAssumption, Names DEF Reschedule, CLOCK, SYSTASK
  <2>2. Sound(kern) /\ Inv(kern) /\ Free(kern, sys_pc) /\ Prompt(kern)
    BY <1>0, <2>1 DEF SInv, Sound, Asked
  <2>3. Inv(Sched(kern)) /\ Frame(kern, Sched(kern)) /\ Sched(kern).flags = kern.flags
    BY <2>2, SchedFrame
  <2>4. Sched(kern).cur = kern.cur
    BY <2>1, <2>2, SchedPrompt
  <2>5. Sound(Sched(kern)) /\ Free(Sched(kern), sys_pc)
    BY <2>2, <2>3, FrameKeeps
  <2>6. Prompt(Sched(kern))
    BY <2>2, <2>3, <2>4, SamePrompt
  <2> QED BY <1>4, <2>1, <2>5, <2>6 DEF SysInd, SInv, Others, Reschedule
<1> QED BY <1>1, <1>2, <1>3, <1>4 DEF Others

\* What serving a request leaves is a kernel state with the request to answer.
LEMMA ThenKeeps ==
  ASSUME SysInd, NEW r, SInv(r, "reply"), Then(r), sys_if' \in BOOLEAN
  PROVE  SysInd'
BY DEF SysInd, Then

\* SYSTASK runs: its flags are 0, and past its receive it has a request.
LEMMA Runs ==
  ASSUME SysInd, kern.cur = SYSTASK
  PROVE  kern.flags[SYSTASK] = {} /\ (sys_pc # "receive" => Asked(kern) /\ Sound(kern))
<1>1. SYSTASK # IDLE /\ SInv(kern, sys_pc) /\ Inv(kern)
  BY Names, Numbering DEF SysInd, SInv, Sound
<1>2. kern.flags[SYSTASK] = {}
  BY <1>1, RunningFacts
<1>3. ~Idle(kern)
  BY <1>2 DEF Idle
<1> QED BY <1>1, <1>2, <1>3 DEF SInv, Free

\* Each step of SYSTASK.
LEMMA SystemKeeps ==
  ASSUME SysInd,
         \/ Receive \/ DoOther \/ Reply
         \/ \E k1, k2 \in User : DoFork(k1, k2)
         \/ \E p \in User : DoNewMap(p) \/ DoExec(p) \/ DoXit(p)
  PROVE  SysInd'
<1>1. SInv(kern, sys_pc) /\ sys_if \in BOOLEAN
  BY DEF SysInd
<1>2. CASE Receive
  <2>1. /\ kern' = MiniRec(kern, SYSTASK, ANY) /\ kern.cur = SYSTASK
        /\ sys_pc = "receive" /\ sys_pc' = "work"
        /\ busy_map' = busy_map /\ lost_ticks' = lost_ticks /\ sys_if' = sys_if
    BY <1>2 DEF Receive, SysCall, SysCallResult, SEND, RECEIVE, BOTH
  <2>2. SInv(kern', "work")
    BY <1>1, <2>1, Runs, ReceiveKeeps
  <2> QED BY <2>1, <2>2 DEF SysInd
<1>3. CASE DoOther
  <2>1. /\ sys_pc = "work" /\ sys_pc' = "reply" /\ kern.cur = SYSTASK
        /\ kern' = kern /\ busy_map' = busy_map /\ lost_ticks' = lost_ticks /\ sys_if' = sys_if
    BY <1>3 DEF DoOther, vars
  <2>2. SInv(kern, "reply")
    BY <1>1, <2>1, Runs DEF SInv
  <2> QED BY <2>1, <2>2 DEF SysInd
<1>4. CASE Reply
  <2>1. /\ kern' = SysCallResult(kern, SEND, SYSTASK, kern.mess[SYSTASK])
        /\ sys_pc = "reply" /\ sys_pc' = "receive"
        /\ busy_map' = busy_map /\ lost_ticks' = lost_ticks /\ sys_if' = sys_if
    BY <1>4 DEF Reply, SysCall
  <2>2. SInv(kern', "receive")
    BY <1>1, <2>1, ReplyKeeps
  <2> QED BY <2>1, <2>2 DEF SysInd
<1>5. ASSUME Serving
      PROVE  sys_pc = "work" /\ Sound(kern) /\ Asked(kern) /\ kern \in Kernel
  BY <1>5, Runs DEF Serving, Sound, Inv
<1>6. ASSUME NEW k1 \in User, NEW k2 \in User, DoFork(k1, k2)
      PROVE  SysInd'
  <2>1. /\ Serving /\ kern.flags[k1] = {"RECEIVING"} /\ kern.getfrom[k1] = MM
        /\ "P_SLOT_FREE" \in kern.flags[k2] /\ Then(Forked(kern, k1, k2)) /\ sys_if' = sys_if
    BY <1>6 DEF DoFork, Served, Alive
  <2>2. SInv(Forked(kern, k1, k2), "reply")
    BY <1>5, <2>1, ForkedKeeps
  <2> QED BY <1>1, <2>1, <2>2, ThenKeeps
<1>7. ASSUME NEW p \in User, DoNewMap(p)
      PROVE  SysInd'
  <2>1. Serving /\ Then(Mapped(kern, p)) /\ sys_if' = sys_if
    BY <1>7 DEF DoNewMap
  <2>2. /\ Sound(kern) /\ Asked(kern) /\ kern \in Kernel /\ p \in Proc
        /\ kern.flags \in [Proc -> SUBSET Flag]
    BY <1>5, <2>1, Names DEF Kernel
  <2>3. SInv(Mapped(kern, p), "reply")
    <3>1. CASE p \in Unmapped
      <4>1. kern.flags[p] = {"NO_MAP", "RECEIVING"}
        BY <2>2, <3>1 DEF Unmapped, Sound, Tidy
      <4>2. SInv(Deblock(kern, p, "NO_MAP"), "reply")
        BY <2>2, <4>1, FreedKeeps
      <4> QED BY <4>1, <4>2 DEF Mapped
    <3>2. CASE p \notin Unmapped
      <4>1. kern.flags[p] = {"RECEIVING"}
        BY <1>7, <3>2 DEF DoNewMap, Served
      <4>2. Deblock(kern, p, "NO_MAP") = [kern EXCEPT !.flags[p] = @ \ {"NO_MAP"}]
        <5>2. [kern EXCEPT !.flags[p] = @ \ {"NO_MAP"}].flags[p] # {}
          BY <2>2, <4>1 DEF Kernel
        <5> QED BY <5>2 DEF Deblock
      <4>3. [kern EXCEPT !.flags[p] = @ \ {"NO_MAP"}] = kern
        <5>2. [kern.flags EXCEPT ![p] = @ \ {"NO_MAP"}] = kern.flags
          BY <2>2, <4>1
        <5> QED BY <2>2, <5>2 DEF Kernel
      <4>4. Mapped(kern, p) = kern
        BY <4>1, <4>2, <4>3 DEF Mapped
      <4>5. SInv(kern, sys_pc) /\ Prompt(kern)
        BY <1>1 DEF SInv
      <4> QED BY <2>2, <4>4, <4>5 DEF SInv
    <3> QED BY <3>1, <3>2
  <2> QED BY <1>1, <2>1, <2>3, ThenKeeps
<1>8. ASSUME NEW p \in User, DoExec(p)
      PROVE  SysInd'
  <2>1. /\ Serving /\ kern.flags[p] = {"RECEIVING"}
        /\ Then(Execed(kern, p)) /\ sys_if' = sys_if
    BY <1>8 DEF DoExec, Served
  <2>2. SInv(Execed(kern, p), "reply")
    BY <1>5, <2>1, FreedKeeps DEF Execed
  <2> QED BY <1>1, <2>1, <2>2, ThenKeeps
<1>9. ASSUME NEW p \in User, DoXit(p)
      PROVE  SysInd'
  <2>1. Serving /\ Then(Exited(kern, p)) /\ sys_if' \in BOOLEAN
    BY <1>1, <1>9 DEF DoXit
  <2>2. SInv(Exited(kern, p), "reply")
    BY <1>5, <2>1, ExitedKeeps
  <2> QED BY <2>1, <2>2, ThenKeeps
<1> QED BY <1>2, <1>3, <1>4, <1>6, <1>7, <1>8, <1>9

\* Every step.
LEMMA SysKeeps ==
  ASSUME ServersCallSystem, Unasked = {}, SysInd, [SysNext]_sys_vars
  PROVE  SysInd'
<1>1. CASE UNCHANGED sys_vars
  BY <1>1 DEF SysInd, sys_vars, vars
<1>2. CASE Others
  BY <1>2, OthersKeep
<1>3. CASE SysInterrupt
  <2>1. PICK t \in Devices : Interrupt(t)
    BY <1>3 DEF SysInterrupt
  <2>2. SInv(kern', sys_pc) /\ busy_map' \subseteq Devices
    BY <2>1, InterruptKept DEF SysInd
  <2>3. lost_ticks' \in 0 .. MaxLost
    BY <2>1, ConstantAssumption DEF SysInd, Interrupt
  <2> QED BY <1>3, <2>2, <2>3 DEF SysInd, SysInterrupt
<1>4. CASE \/ Receive \/ DoOther \/ Reply
           \/ \E k1, k2 \in User : DoFork(k1, k2)
           \/ \E p \in User : DoNewMap(p) \/ DoExec(p) \/ DoXit(p)
  BY <1>4, SystemKeeps
<1> QED BY <1>1, <1>2, <1>3, <1>4 DEF SysNext

\* The invariant holds if the servers call SYSTASK as they do and no task sends unasked.
THEOREM SysInvariance == ASSUME ServersCallSystem, Unasked = {} PROVE SysSpec => []SysInd
BY SysStarts, SysKeeps, PTL DEF SysSpec

\* Slots are clean when they are empty, and quiet until they can run: fork
\* copies slots whole, and a process can be killed in any state.
THEOREM SlotsStay == ASSUME ServersCallSystem, Unasked = {} PROVE SysSpec => []SlotsKept
<1>1. SysInd => SlotsKept
  <2> SUFFICES ASSUME SysInd
               PROVE  SlotsKept
    OBVIOUS
  <2>1. /\ Inv(kern) /\ Tidy(kern) /\ kern \in Kernel /\ Listed(kern)
        /\ kern.callerq \in [Proc -> Seq(Proc)]
    BY DEF SysInd, SInv, Sound, Inv, Kernel
  <2>2. SysTypeOK /\ ListsKept
    <3>1. busy_map \in SUBSET Task
      BY Names DEF SysInd
    <3> QED BY <2>1, <3>1 DEF SysInd, SysTypeOK, TypeOK, ListsKept, ReadyLists, CallerQueues,
                              RunningIsHead, Inv
  <2>3. ASSUME NEW p \in User
        PROVE  /\ kern.callerq[p] = <<>>
               /\ \A d \in Proc : Waiting(kern, p, d) => kern.getfrom[d] = ANY
    <3>1. p \in Proc /\ kern.callerq[p] \in Seq(Proc)
      BY <2>1, Names
    <3>2. kern.callerq[p] # <<>> => Head(kern.callerq[p]) \in Proc \cap QueuedOn(kern, p)
      BY <3>1, HeadFacts DEF QueuedOn
    <3> QED BY <2>1, <3>1, <3>2 DEF Tidy, Waiting
  <2>4. ASSUME NEW p \in User, ~Alive(kern, p)
        PROVE  \A d \in Proc : p \notin ToSet(kern.callerq[d])
    <3>1. "SENDING" \notin kern.flags[p] /\ p \in Proc
      BY <2>1, <2>4, Names DEF Alive, Tidy
    <3> QED BY <2>1, <3>1, NotQueued DEF QueuedOn
  <2>5. UnmappedHeld
    <3> SUFFICES ASSUME NEW p \in Unmapped
                 PROVE  "RECEIVING" \in kern.flags[p] /\ p \notin ToSet(kern.rdy[USER_Q])
      BY DEF UnmappedHeld
    <3>1. p \in Proc /\ kern.flags[p] = {"NO_MAP", "RECEIVING"}
      BY <2>1, Names DEF Unmapped, Tidy
    <3> QED BY <2>1, <3>1 DEF Listed, Queue
  <2> QED BY <2>2, <2>3, <2>4, <2>5 DEF SlotsKept, FreeSlotsUnused
<1> QED BY <1>1, SysInvariance, PTL

\* inform() never spoils a server's request in SYSTASK's buffer, and SYSTASK
\* never blocks on its reply, as long as no task sends to a server that does not
\* wait for it.
THEOREM RequestKept == ASSUME ServersCallSystem, Unasked = {} PROVE SysSpec => []RequestIntact
<1>1. SysInd => RequestIntact
  BY DEF SysInd, SInv, Free, Idle, Asked, AskedBy, RequestIntact, Waiting
<1> QED BY <1>1, SysInvariance, PTL
=============================================================================
