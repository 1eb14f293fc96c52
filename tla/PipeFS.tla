------------------------------- MODULE PipeFS -------------------------------
(***************************************************************************)
(* Pipes in the file system: fs/pipe.c, the parts of read_write() that     *)
(* serve pipes, and the descriptors and their sharing (fs/filedes.c;       *)
(* do_close() of fs/open.c; do_dup(), do_fork(), do_exit() of fs/misc.c).  *)
(*                                                                         *)
(* FS is one process.  A turn of its main loop takes a message, or, while  *)
(* `reviving' is not 0, the saved call of a suspended process, and does    *)
(* the whole call; a turn is one action.  Its procedures are operators     *)
(* from one state `s' of FS to the next:                                   *)
(*   fd[p]       fp_filp, from descriptors to filp slots                   *)
(*   saved[p]    the call that fp_fd, fp_nbytes keep while fp_suspended,   *)
(*               else NONE                                                 *)
(*   revived     the processes with fp_revived set                         *)
(*   filp[f]     count, mode, ino, pos                                     *)
(*   inode[n]    count, size: only those of pipes                          *)
(*   susp_count, reviving                                                  *)
(*   answered    a reply has been sent, dont_reply is FALSE                *)
(* The bytes in a pipe, other files, and suspension on terminals are left  *)
(* out.                                                                    *)
(***************************************************************************)
EXTENDS FiniteSetsExt, Integers

CONSTANTS NR_PROCS, NR_FDS, NR_FILPS,
          NR_PIPES,    \* the i-nodes there are for pipes
          PIPE_SIZE,   \* in units of what is read and written
          MAX_DRIFT    \* bound on how far susp_count falls below 0

Proc  == 0 .. NR_PROCS - 1
Fd    == 0 .. NR_FDS - 1
Filp  == 1 .. NR_FILPS
Inode == 1 .. NR_PIPES
NIL   == 0
Call  == [fn : {"READ", "WRITE"}, fd : Fd, bytes : 1 .. PIPE_SIZE]
NONE  == [fn |-> "NONE", fd |-> 0, bytes |-> 0]
\* A free slot: only its count is ever looked at.
FREE  == [count |-> 0, mode |-> "R", ino |-> 1, pos |-> 0]

ASSUME PipeAssumption ==
  /\ {NR_PROCS, NR_FDS, NR_FILPS, NR_PIPES, PIPE_SIZE} \subseteq Nat \ {0}
  /\ MAX_DRIFT \in Nat

VARIABLES fs,
          user,     \* what each process does: "runs", "waits" for FS, or "free"
          crowded   \* history: the pipes at which two processes hung at one end

pipe_vars == <<fs, user, crowded>>
-----------------------------------------------------------------------------
Open(s, p, d) == s.fd[p][d] # NIL
FilpOf(s, p, d) == s.filp[s.fd[p][d]]

\* find_filp(): is this end of the pipe open in any process?
find_filp(s, n, mode) ==
  \E f \in Filp : s.filp[f].count # 0 /\ s.filp[f].ino = n /\ s.filp[f].mode = mode

Suspended(s) == {p \in Proc : s.saved[p] # NONE}

\* The processes that hang in `fn' on pipe n.
Hanging(s, n, fn) ==
  {p \in Suspended(s) : s.saved[p].fn = fn /\ FilpOf(s, p, s.saved[p].fd).ino = n}

\* suspend(XPIPE).
suspend(s, p, call) ==
  [s EXCEPT !.susp_count = @ + 1, !.saved[p] = call, !.answered = FALSE]

\* release(), for one process, the first in the table, or for all: each is
\* counted, and revive() then passes over those that are being revived.
Released(s, who) ==
  [s EXCEPT !.susp_count = @ - Cardinality(who),
            !.reviving   = @ + Cardinality(who \ s.revived),
            !.revived    = @ \cup who]
releaseAll(s, n, fn) == Released(s, Hanging(s, n, fn))
\* Mutant: nobody is released.
releaseOne_None(s, n, fn) == s
releaseOne(s, n, fn) ==
  Released(s, IF Hanging(s, n, fn) = {} THEN {} ELSE {Min(Hanging(s, n, fn))})

\* Both positions go back to 0 when a reader has emptied the pipe.
Drained(s, n) ==
  [s EXCEPT !.inode[n].size = 0,
            !.filp = [f \in Filp |-> IF @[f].count # 0 /\ @[f].ino = n
                                     THEN [@[f] EXCEPT !.pos = 0] ELSE @[f]]]

\* read_write(READING) on a pipe: "if a process reads from an empty pipe for
\* which a writer still exists, suspend the reader".
Read(s, p, call) ==
  LET f == s.fd[p][call.fd]
      n == s.filp[f].ino
      to == Min({s.filp[f].pos + call.bytes, s.inode[n].size})
      moved == [s EXCEPT !.filp[f].pos = to]
  IN  IF s.filp[f].pos < s.inode[n].size
      THEN IF to = s.inode[n].size THEN Drained(moved, n) ELSE moved
      ELSE IF ~find_filp(s, n, "W") THEN s
      ELSE LET hung == suspend(s, p, call)
           IN  IF hung.susp_count > 0 THEN releaseOne(hung, n, "WRITE") ELSE hung

\* read_write(WRITING): without a reader there is only an error, and a signal;
\* what does not fit waits; data put into an empty pipe wake one reader.
Write(s, p, call) ==
  LET f == s.fd[p][call.fd]
      n == s.filp[f].ino
      to == s.filp[f].pos + call.bytes
      woken == IF s.filp[f].pos = 0 THEN releaseOne(s, n, "READ") ELSE s
  IN  IF ~find_filp(s, n, "R") THEN s
      ELSE IF to > PIPE_SIZE THEN suspend(s, p, call)
      ELSE [woken EXCEPT !.filp[f].pos = to, !.inode[n].size = Max({@, to})]

\* A descriptor that is not open for it only gets an error.
read_write(s, p, call) ==
  IF ~Open(s, p, call.fd) THEN s
  ELSE CASE call.fn = "READ"  /\ FilpOf(s, p, call.fd).mode = "R" -> Read(s, p, call)
         [] call.fn = "WRITE" /\ FilpOf(s, p, call.fd).mode = "W" -> Write(s, p, call)
         [] OTHER -> s

\* A slot to which one descriptor less refers, or some more.
Fewer(slot)   == IF slot.count = 1 THEN FREE ELSE [slot EXCEPT !.count = @ - 1]
More(slot, k) == [slot EXCEPT !.count = @ + k]

\* Mutant: those who hang at the other end are not released.
do_close_Silent(s, p, d) ==
  IF ~Open(s, p, d) THEN s
  ELSE LET n == FilpOf(s, p, d).ino
           last == FilpOf(s, p, d).count = 1
       IN  [s EXCEPT !.filp[s.fd[p][d]] = Fewer(@),
                     !.inode[n].count = IF last THEN @ - 1 ELSE @,
                     !.fd[p][d] = NIL]

\* do_close(): everyone who hangs at the other end of the pipe is released,
\* whether or not the end stays open elsewhere.
do_close(s, p, d) ==
  IF ~Open(s, p, d) THEN s
  ELSE LET n == FilpOf(s, p, d).ino
           r == releaseAll(s, n, IF FilpOf(s, p, d).mode = "R" THEN "WRITE" ELSE "READ")
           last == FilpOf(s, p, d).count = 1
       IN  [r EXCEPT !.filp[s.fd[p][d]] = Fewer(@),
                     !.inode[n].count = IF last THEN @ - 1 ELSE @,
                     !.fd[p][d] = NIL]

\* get_fd(): the first free descriptor of p, and a free filp slot.
FreeFds(s, p) == {d \in Fd : ~Open(s, p, d)}
FreeFilps(s)  == {f \in Filp : s.filp[f].count = 0}
get_fd(s, p)  == FreeFds(s, p) # {} /\ FreeFilps(s) # {}

\* One end of pipe n for p.
Opened(s, p, mode, n) ==
  LET f == Min(FreeFilps(s))
  IN  [s EXCEPT !.fd[p][Min(FreeFds(s, p))] = f,
                !.filp[f] = [count |-> 1, mode |-> mode, ino |-> n, pos |-> 0]]

\* do_pipe(): both ends and an i-node, or nothing.
do_pipe(s, p) ==
  IF ~get_fd(s, p) \/ \A n \in Inode : s.inode[n].count # 0 THEN s
  ELSE LET n == Min({i \in Inode : s.inode[i].count = 0})
           r == Opened(s, p, "R", n)
       IN  IF ~get_fd(r, p) THEN s
           ELSE [Opened(r, p, "W", n) EXCEPT !.inode[n] = [count |-> 2, size |-> 0]]

\* do_dup(): dup(), which wants a filp slot it does not use, and dup2(), which
\* closes d2 first.
Shared(s, p, d, d2) ==
  [s EXCEPT !.fd[p][d2] = s.fd[p][d], !.filp[s.fd[p][d]] = More(@, 1)]
dup(s, p, d) == IF get_fd(s, p) THEN Shared(s, p, d, Min(FreeFds(s, p))) ELSE s
dup2(s, p, d, d2) == IF d = d2 THEN s ELSE Shared(do_close(s, p, d2), p, d, d2)

\* Mutant: the child's descriptors are not counted.
do_fork_Uncounted(s, p, child) ==
  [s EXCEPT !.fd[child] = s.fd[p]]

\* do_fork(): the child inherits the descriptors.
do_fork(s, p, child) ==
  [s EXCEPT !.fd[child] = s.fd[p],
            !.filp = [f \in Filp |-> More(@[f], Cardinality({d \in Fd : s.fd[p][d] = f}))]]

\* do_exit(): p is no longer suspended; all its descriptors are closed in turn.
do_exit(s, p) ==
  LET freed == [s EXCEPT !.susp_count = IF p \in Suspended(s) THEN @ - 1 ELSE @,
                         !.saved[p] = NONE]
      closed[i \in 0 .. NR_FDS] == IF i = 0 THEN freed ELSE do_close(closed[i - 1], p, i - 1)
  IN  closed[NR_FDS]
-----------------------------------------------------------------------------
PipeInit ==
  /\ fs = [fd         |-> [p \in Proc |-> [d \in Fd |-> NIL]],
           saved      |-> [p \in Proc |-> NONE],
           revived    |-> {},
           filp       |-> [f \in Filp |-> FREE],
           inode      |-> [n \in Inode |-> [count |-> 0, size |-> 0]],
           susp_count |-> 0, reviving |-> 0, answered |-> TRUE]
  /\ user = [p \in Proc |-> IF p = 0 THEN "runs" ELSE "free"]
  /\ crowded = {}

\* What the main loop does after call `s' of p: reply, unless p was suspended.
Then(p, s) ==
  /\ s.susp_count >= - MAX_DRIFT
  /\ fs' = [s EXCEPT !.answered = TRUE]
  /\ user' = [user EXCEPT ![p] = IF s.answered THEN "runs" ELSE "waits"]
  /\ crowded' = crowded \cup {n \in Inode :
       \E fn \in {"READ", "WRITE"} : Cardinality(Hanging(s, n, fn)) > 1}

\* get_work() receives a message: nobody is to be revived.
Receives == fs.reviving = 0

Request(p) ==
  /\ Receives /\ user[p] = "runs"
  /\ \/ \E call \in Call : Open(fs, p, call.fd) /\ Then(p, read_write(fs, p, call))
     \/ \E d \in Fd : Open(fs, p, d) /\ (Then(p, do_close(fs, p, d)) \/ Then(p, dup(fs, p, d)))
     \/ \E d, d2 \in Fd : Open(fs, p, d) /\ Then(p, dup2(fs, p, d, d2))
     \/ Then(p, do_pipe(fs, p))

\* MM's messages: a process forked; one ended, or was killed while it waits.
Fork(p, child) ==
  /\ Receives /\ user[p] = "runs" /\ user[child] = "free"
  /\ fs' = do_fork(fs, p, child)
  /\ user' = [user EXCEPT ![child] = "runs"]
  /\ UNCHANGED crowded

Exit(p) ==
  /\ Receives /\ user[p] # "free" /\ \E q \in Proc \ {p} : user[q] # "free"
  /\ do_exit(fs, p).susp_count >= - MAX_DRIFT
  /\ fs' = do_exit(fs, p)
  /\ user' = [user EXCEPT ![p] = "free"]
  /\ UNCHANGED crowded

\* Mutant: the process is taken to be still hanging while its call is tried again.
Retry_Hanging ==
  /\ fs.reviving # 0 /\ fs.revived # {}
  /\ LET p == Min(fs.revived)
         s == [fs EXCEPT !.revived = @ \ {p}, !.reviving = @ - 1]
     IN  Then(p, read_write(s, p, s.saved[p]))

\* get_work() takes the saved call of the first process that is being revived.
Retry ==
  /\ fs.reviving # 0 /\ fs.revived # {}
  /\ LET p == Min(fs.revived)
         s == [fs EXCEPT !.saved[p] = NONE, !.revived = @ \ {p}, !.reviving = @ - 1]
     IN  Then(p, read_write(s, p, fs.saved[p]))

PipeNext == \/ \E p \in Proc : Request(p) \/ Exit(p) \/ \E child \in Proc : Fork(p, child)
        \/ Retry

PipeSpec == PipeInit /\ [][PipeNext]_pipe_vars
-----------------------------------------------------------------------------
\* The type invariant.
PipeTypeOK ==
  /\ fs \in [fd : [Proc -> [Fd -> Filp \cup {NIL}]],
             saved : [Proc -> Call \cup {NONE}], revived : SUBSET Proc,
             filp : [Filp -> [count : 0 .. NR_PROCS * NR_FDS, mode : {"R", "W"},
                              ino : Inode, pos : 0 .. PIPE_SIZE]],
             inode : [Inode -> [count : 0 .. 2, size : 0 .. PIPE_SIZE]],
             susp_count : Int, reviving : Nat, answered : BOOLEAN]
  /\ user \in [Proc -> {"runs", "waits", "free"}]
  /\ crowded \subseteq Inode

\* Who hangs and will not be revived.
Stuck(s) == Suspended(s) \ s.revived

\* "get_work couldn't revive anyone" does not happen, and nobody is revived who
\* does not hang: reviving counts the processes with fp_revived set.  susp_count
\* never counts more than hang, so that release() is not called for nobody; it
\* may count less, as release() also counts those who are being revived.
RevivingCounts ==
  /\ fs.reviving = Cardinality(fs.revived) /\ fs.revived \subseteq Suspended(fs)
  /\ fs.susp_count <= Cardinality(Stuck(fs))

\* Every process that waits for FS is suspended, and the other way round: each
\* call gets one reply, whatever released, retried or killed the caller, and a
\* slot is clean when it is given to a child.
WaitsIffSuspended ==
  PipeTypeOK /\ RevivingCounts /\ Suspended(fs) = {p \in Proc : user[p] = "waits"}

\* A slot of the filp table is in use as long as descriptors refer to it, and an
\* i-node as long as ends of its pipe are open, whoever shares them.
CountsExact ==
  /\ \A f \in Filp :
       fs.filp[f].count = Cardinality({x \in Proc \X Fd : fs.fd[x[1]][x[2]] = f})
  /\ \A n \in Inode :
       fs.inode[n].count = Cardinality({f \in Filp : fs.filp[f].count # 0 /\ fs.filp[f].ino = n})

\* Nobody hangs at a pipe whose other end nobody has open any more: "if the pipe
\* is empty and there is no writer, return 0 bytes".
NobodyOrphaned ==
  \A p \in Stuck(fs) :
    LET n == FilpOf(fs, p, fs.saved[p].fd).ino
    IN  find_filp(fs, n, IF fs.saved[p].fn = "READ" THEN "W" ELSE "R")

\* "When a process can't continue it is suspended, and revived later when it is
\* able to continue": a reader and a writer never both wait on a pipe, since
\* there are data for the one or room for the other.  That is so of a pipe where
\* only one process hung at each end at a time (release() wakes one reader when
\* data come to an empty pipe, and none while some are left) and as long as
\* susp_count has not fallen below the number who hang (pipe_check() then calls
\* release() for nobody).
PairsMeet ==
  fs.susp_count = Cardinality(Stuck(fs)) =>
    \A n \in Inode \ crowded :
      Stuck(fs) \cap Hanging(fs, n, "READ") = {} \/ Stuck(fs) \cap Hanging(fs, n, "WRITE") = {}
=============================================================================
