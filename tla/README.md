# Models and proofs of MINIX 1.2 and its 65816 port

The repository holds the sources of MINIX 1.2 for the 8088
(`src/old-minix-1.2/`) and the beginning of a port to the 65816
(`src/port/`).  This directory holds TLA+ modules that model the parts of both
that are hard to get right, configurations under which TLC checks them, and
proofs, checked by TLAPS, about both kernels' message cores, the clock and system
tasks, the terminal, printer and diskette drivers, MM's core map and processes, and
FS's block cache, pipes and files.
File names below are relative to `src/old-minix-1.2/src/` unless they start
with `port/`.

## 1. The system

MINIX is a set of sequential processes that exchange fixed-size messages
through the kernel.  A send blocks until the destination takes the message, a
receive until somebody sends one.  Processes run in three classes: the tasks
(drivers, the clock and the system task, which are part of the kernel), the two
servers (MM, the memory manager, and FS, the file system), and the users.
Users call only MM and FS, with BOTH (send, then receive the answer); MM calls
FS and the system task, FS calls the drivers, and drivers and interrupts
report upwards.

| component | state | operations | what is hard |
|---|---|---|---|
| kernel: messages and scheduling (`kernel/proc.c`) | process table (`p_flags`, `p_getfrom`, `p_callerq`), three ready lists, `busy_map`, `lost_ticks`, `sig_procs` | `interrupt`, `sys_call` (send, receive, both), `sched` | interrupts for tasks that do not listen, blocking in any order, preemption without a preempting `ready()` |
| kernel: system task (`kernel/system.c`) | slots of the process table, `p_pending`, `sig_procs` | fork, newmap, exec, exit, signals, copies | slots copied and destroyed while they are queued, ready, blocked or signalled |
| kernel: clock (`kernel/clock.c`) | `realtime`, `p_alarm`, `next_alarm`, `sched_ticks`, `prev_ptr` | ticks, alarms, time, quantum | ticks that come while earlier ones are counted; alarms of processes that fork and exit |
| kernel: terminal (`kernel/tty.c`) | character rings, pending reads and writes | typed characters, read, write, ioctl, cancel | rings at their limit, erase and end-of-file, cancel against a late answer |
| kernel: printer (`kernel/printer.c`) | the request, `pcount`, the last interrupt's message | write, cancel, the interrupt, CLOCK's restart | interrupts lost or late, `pr_char()` interrupted in CLOCK |
| kernel: diskette (`kernel/floppy.c`) | one request, motors, calibration, density, a watchdog in CLOCK | read, write, seek, recalibrate, reset | motors that stop late or while they are wanted, retries, guessing the density |
| kernel: hard disk, memory | one request at a time | read, write | retries |
| kernel: `mpx88.s`, `klib88.s` | saved registers | save, restart, lock | which code runs with interrupts off |
| MM: core map (`mm/alloc.c`) | hole list, free slots of its table | allocate, free | merging, the table's limit |
| MM: processes and signals (`mm/forkexit.c`, `signal.c`, `main.c`) | `mproc` flags, parents, alarms | fork, exit, wait, kill, alarm, pause | who waits, hangs or is dead when a signal or an exit comes |
| MM: exec, break, ids | segment maps | exec, brk, get and set ids | old and new image at the same time |
| FS: block cache (`fs/cache.c`) | buffers, hash chains, LRU chain, `bufs_in_use` | get, put, flush, invalidate | eviction, failed transfers, what a crash loses |
| FS: pipes and descriptors (`fs/pipe.c`, `filedes.c`) | `filp` table, `fp_suspended`, `fp_revived`, `susp_count`, `reviving` | read, write, close, dup, fork, exit, suspend, release, revive | wake-ups that are lost, doubled or meant for the dead |
| FS: i-nodes, bit maps, zones | i-node table, bit maps, super blocks | allocate, free, truncate, map | use counts against link counts, order of writes |
| FS: paths, links, mounting | directories | lookup, link, unlink, mount | counts, mounted roots, busy devices |
| FS: devices, terminals | `fp_task`, late replies | `rw_dev`, unpause, revive | replies to other requests than the last |
| file system checker (`tools/fsck.c`) | the disk, its own bit maps and link counts, the path it is on | check a device, ask, repair, make an empty file system | repairs that depend on each other, answers of no, quitting halfway |
| library, commands, other tools | none shared | | ordinary programs |
| port: messages, scheduling, clock (`port/kernel/proc.c`, `clock.c`) | as in the kernel, without interrupt bookkeeping | interrupt and BRK dispatch, send, receive, rotation of tasks | ticks lost, tasks that never block |
| port: context switch (`port/kernel/context.s`) | the stacks' frames, `p_sp` | save, restart | agreement of three pieces of code on a frame |
| port: console, runtime, boot, host tools | screen, scratch registers | | multiplication and interrupts |

What makes each of them correct is stated with its module in section 3; the
hazards, each at its line, are in `PROJECT.json`.

## 2. Modules and how they are composed

| module | models | used by |
|---|---|---|
| `Proc` | `kernel/proc.c`, `cause_sig` and `inform` of `system.c` | `SysTask`, `Clock` (EXTENDS), `ProcProofs` |
| `Rendezvous` | what the kernel promises about messages; abstract | refined by `Proc` and by `PortProc` |
| `SysTask` | `kernel/system.c`, in a running `Proc` | `MCSysTask`, `SysProofs` |
| `Clock` | `kernel/clock.c`, in a running `Proc` | `MCClock`, `ClockProofs` |
| `Tty` | `kernel/tty.c`: input queue, readers, modes, stopped output | `MCDevices`, `DriverProofs` |
| `Screen` | `kernel/tty.c`: `out_char` to `escape`, the video RAM | `MCDevices`, `DriverProofs` |
| `Printer` | `kernel/printer.c`, and CLOCK's call of `pr_char` | `MCDevices`, `DriverProofs` |
| `Floppy` | `kernel/floppy.c`, the watchdogs that CLOCK runs for it, controller and motors | `MCDevices`, `DriverProofs` |
| `Alloc` | `mm/alloc.c` and its callers | `MCMM`, `MMProofs` |
| `Memory` | what the core map promises; abstract | refined by `Alloc` |
| `MMProcs` | `mm/forkexit.c`, `signal.c` and the answers of `main.c` | `MCMM`, `MMProofs` |
| `BufCache` | `fs/cache.c`, the flush of `misc.c`, partial writes of `read.c` | `MCDevices`, `FSProofs` |
| `PipeFS` | `fs/pipe.c`, `filedes.c` and what of `main.c`, `read.c`, `open.c`, `misc.c` concerns pipes | `MCFS`, `FSProofs` |
| `FileTree` | `fs/inode.c`, `path.c`, `link.c`, `open.c`, `stadir.c`, `mount.c`, the i-node half of `super.c`, and what `misc.c`, `protect.c`, `time.c` do with i-nodes | `MCFS` |
| `Zones` | writing, truncating and the zones of files: `fs/read.c`, `write.c`, `truncate` of `link.c`, `alloc_zone` and `free_zone` of `cache.c` | `MCFS`, `FSProofs` |
| `Fsck` | `tools/fsck.c` on a damaged disk, and whoever answers its questions | `MCFS` |
| `PortProc` | `port/kernel/proc.c`, `clock.c`, start in `main.c` | `MCPortProc`, `PortProofs` |
| `PortContext` | frames of `port/kernel/context.s`, `create_task`, `brk_dispatch` | itself |
| `SeqLemmas` | lemmas on lists without repetition | `ProcProofs`, `PortProofs`, `FSProofs`, `DriverProofs` |
| `ProcProofs`, `SysProofs`, `ClockProofs`, `DriverProofs`, `MMProofs`, `FSProofs`, `PortProofs` | the theorems about the module each is named for; `MMProofs` those about `Alloc` and `MMProcs`, `DriverProofs` those about `Printer`, `Floppy`, `Tty` and `Screen`, `FSProofs` those about `BufCache`, `PipeFS` and `Zones` | `SysProofs` and `ClockProofs` extend `ProcProofs` |
| `MC...` | constants for TLC | |

The procedures of the kernel and of each server call each other inside one
uninterruptible step.  They are therefore operators from one state record to
the next (`k` in `Proc` and `PortProc`, `c` in `BufCache`, `s` in `PipeFS`,
`FileTree` and `Zones`, `c` in `Fsck`, `m` in `MMProcs`, `t` in `Tty`, `s` in `Screen` and
`Printer`), named as the C procedures are, and an action is one entry point: an
interrupt, a system call, a call of MM or FS, a message for a task.  In each
module's header the fields of the record are set against the C variables.
`map` in `PROJECT.json` gives for each definition the lines it stands for.

What justifies the grain of the actions:

* `Proc`: everything in `proc.c` runs with interrupts off.  `sys_call` is
  entered by a trap, `interrupt` from a handler, `sched` locks.
* `SysTask`: a task is not preempted, and an interrupt touches only tasks that
  wait, `busy_map` and `lost_ticks`; so a handler is one step, and the loop's
  receive, work and reply are three.  `sys_if` is the interrupt flag in
  SYSTASK's saved status word.
* `Clock`: the one datum shared with interrupts is `lost_ticks`, so the three
  statements of `do_clocktick` that move it to `realtime` are three steps.  So is
  each signal it sends (`SignalDue`), and the end of its loop (`AlarmsDone`).
  `lost_ticks -= t` is taken to be one instruction, a subtraction from memory;
  a compiler that loads, subtracts and stores would lose ticks.
* `Tty`: the keyboard's interrupt touches `tty_driver_buf` and `tty_inhibited`
  only.  `do_charint` copies the one with interrupts off, `console` looks at the
  other before each character, so a typed character, a character that is taken
  from the copy and a character that is printed are a step each.  `Screen` does
  one character of output at a time.
* `Printer`: `do_write` disables interrupts and never enables them again, so
  the task is one step per message; CLOCK calls `pr_char` with interrupts
  enabled, and there each statement that reads or writes a shared variable is a
  step (`RestartLoop`, `RestartOutput`, `RestartCount`).
* `Floppy`: tasks do not take the CPU from each other, so the driver is one step
  from one blocking call to the next, and CLOCK calls a watchdog only while the
  driver is blocked.
* `BufCache`, `PipeFS`, `FileTree`, `Zones`, `Alloc`, `MMProcs`: FS and MM do one
  call at a time.  A crash is what the disk holds between two writes, so
  `FileTree` checks the disk at each write inside a call (`torn`).
* `Fsck`: each change is asked for and written by itself, so an entry, a zone, a
  count and a bit map are a step each; `descendtree`'s recursion is the sequence
  `top`.
* `PortProc`: both dispatchers run with interrupts off until the `rti`.

Interactions across modules.  `SysTask` and `Clock` extend `Proc` and have its
actions among theirs; the calls that other processes make are the constant
`Calls`, enumerated in the MC modules from the loops of the sources.  The
kernel's promise about messages is `Rendezvous`; `Tty`, `Printer`, `MMProcs` and
`PipeFS` take from it that a request waits until it is received and that its
caller waits for the answer, and have as state which of their callers wait
(`user`, `where`).  What kernel interrupts add to that (a message in `busy_map`
that comes late, `late` of `Printer`) is there where it matters.

Modules that share no state that they keep are checked in one run, in which the
initial state chooses the part that is driven: `MCFS` (pipes, tree,
zones, checker), `MCMM` (process table, core map) and `MCDevices` (terminal, screen,
printer, diskette, and the block cache above them).  A run then has the sum of the parts' behaviours and not their
product.

## 3. What the runs check

`Proc`, run **proc** (`MCProc.cfg`: three tasks beside HARDWARE, MM, FS and
one user; one lost tick; signals to the user at any time).  The calls are those
the sources make; the user calls FS.  Lists and queues say what the flags say
and the running process heads its list, which `unready` and `sched` rely on
(`ListsKept`, with the types); nobody waits for a message that waits for him
(`NoMissedMatch`); nobody runs or idles in the place of a higher
class (`PriorityKept`, with the two exceptions that are real: `mini_rec`
readies a process after its caller blocked and picks nobody); no signal waits
while MM listens (`SignalsReachMM`); after an interrupt no task is both busy
and listening (`BusyTasksServed`).  `ImplementsRendezvous`: the whole kernel
implements the abstract send and receive, whatever queues and scheduler do.

Run **proc_buffer** is a violation: with BOTH the reply is received in the
buffer in which the request still waits.  If the terminal task sends FS a
message while FS's request is queued for it, the request is replaced by that
message (`QueuedMessageIntact`).  The same can happen to MM, whose request to FS
waits while FS sends it the SIGPIPE of `pipe.c:120`.

`SysTask`, run **systask** (two users, one of which is killed and forked again,
the clock's interrupt; MM calls SYSTASK to change slots, FS to copy): a
freed slot is on no list or queue and nobody waits for
it (`FreeSlotsUnused`, with the types and lists), a child does not run before it
has a map (`UnmappedHeld`; the two are `SlotsKept`), `inform`'s use of SYSTASK's buffer does not hit a
request and SYSTASK's replies never block (`RequestIntact`).  Fork copies
`p_pending` without counting the child, so that `sig_procs` drifts from the
truth; `MaxDrift = 1` lets it do so once, and the properties hold all the same.
Proc's `SignalsReachMM` does not: TLC finds within seconds that a signal stays in
the kernel while MM listens.

`RequestIntact` is checked, and proved, for tasks that send only to who waits for
their message.  All do but two: the terminal and the printer send FS a message
that it did not ask for when a suspended process can go on (`REVIVE`), and
may block on it.  The constant `Unasked` names such tasks.  With one in it, and
its message to FS among `Calls`, TLC finds `RequestIntact` violated in seven
steps, and the code does the same: TTY blocks on FS (`tty.c:277`, in `do_charint`),
FS receives the message, which readies TTY, and goes on; for the next call it asks
SYSTASK for a copy (`fs/read.c:331`), so that SYSTASK is ready behind TTY; FS blocks,
TTY runs, comes to a DEL and calls `cause_sig`; MM listens, so `inform` composes
its message in `m` (`system.c:459`), where the request is.  SYSTASK runs and finds
KSIG for a request: it answers `E_BAD_FCN`, and the copy is not made.

`Clock`, run **clock** (two ticks lost at most, alarms of at most two ticks, a
quantum of two, MM and FS calling the clock, forks and exits): every interrupt is in
`realtime`, in `lost_ticks` or on its way, never twice (`TicksConserved`); when
CLOCK listens no armed alarm is overdue and `next_alarm` is not late
(`AlarmsAhead`).  At first two users only compute and the servers wait: then each
user gets the CPU again and again (`ComputingUsersRun`), until one of them is
ended and the others go to work (`WorkBegins` of `MCClock`).  Fairness: the clock
ticks (weak), CLOCK goes on (weak: no interrupt takes the CPU from a task), and a
server that gets the CPU again and again goes on (strong: it may be preempted
every time).  Nothing is assumed of users.  Users that block on FS inside their
quantum have no such promise: `sched` rotates when `bill_ptr == prev_ptr`, and
whom it moves then need not be who ran.

`MMProcs` and `Alloc`, run **mm**.  *Processes* (INIT and two users with alarms
and terminals, INIT and three users who kill each other, or two users under a
superuser who uses `kill(-1)`): everybody's parent has a slot and the chain of
parents ends in INIT, the dead and the free do not run and have no kernel alarm,
who waits has children and all of them live (`TreeKept`); each call is answered
once, and nobody gets an answer who waits for none (`AnsweredOnce`); INIT
collects whom it inherits (`OrphansCollected`), unless lower slots die again and
again, since `do_wait` takes the lowest.  Fairness: INIT calls wait() when it
can (weak), as its program does; nobody else owes anything.  *Core map* (four
processes, 12 clicks of which 2 are reserved, images of 1 to 3): the holes are
sorted and never touch, although `merge` looks at three only (`HolesSeparate`);
`free_mem` never finds its table full while it has two entries more than there
are processes (`HoleSlotLeft`); `ImplementsMemory`: the list implements the set
of free clicks with lowest-fit placement, so that no click is lost or shared and
no request fails that fits.
Run **mm_alarm** is a violation: `check_sig` clears ALARM_ON of every process it
passes on its way to the one whose alarm it is (`AlarmsAccurate`), which then
never gets its own SIGALRM.  Two more properties of `MMProcs` fail in larger
settings and are in no run: `ExitsOnce` (with `killall` a dead process exits
again, `signal.c:162`), and `AnsweredOnce` with `BeforeTable = TRUE` (a signal
for a process that died makes `main` answer HARDWARE, and look at `mproc[-1]`).

`Tty`, `Screen`, `Printer`, `Floppy` and `BufCache`, run **devices**.  *Terminal* (two users, an input
queue of two, a driver's buffer of one, COOKED and RAW): the task and FS agree on
who hangs (`AnswersAgree`); a reader does not hang while a line is there
(`NoLineWithheld`); output that CTRL-S stopped goes on when CTRL-Q is typed again
and again and CTRL-S no more (`OutputResumes`).  Fairness: the task handles what
it has (weak).  The exceptions are real: `chuck` does not count down an
end-of-file it erases, and `in_char` overruns a ring with one place left
(`lost`); with a full queue CTRL-Q is discarded before it is looked at, and FS
stands still for ever.  `LineCountExact` is the comment's claim that `chuck`
breaks; no run has it.  *Screen* (a window of two lines of three in a RAM of 7
words, a queue of two): after each character the screen is that of a terminal
(`ScreenAsTold`); the reverse scroll, and a line feed from beyond a line's end,
are the only ways in which characters go elsewhere than the cursor says.
*Printer* (two writers, three characters, interrupts that get lost or come late,
a printer that fails): each request is answered once and to who waits
(`WriterServed`), and at last (`WriterRevived`).  Fairness: interrupts that are
asked for come, the printer prints, CLOCK looks after it (weak), and its task
gets the CPU (strong, as CLOCK may run in between; tasks run in the order in
which they are readied).  That a request
that ended well has been printed (`PrintedWhenDone`) is false and in no run: a
second TTY_O_DONE from the last character's acknowledgement, or one that outlives
a cancellation in `busy_map`, ends the next request.
*Diskette* (two drives, two densities of two and three sectors, four errors, a
controller that at any command does not listen, fails or succeeds): the driver,
CLOCK and the controller agree on who waits for whom, and while the head moves or
data pass the motor is at full speed, whatever watchdog was left behind
(`FloppyAgrees`).  Run **floppy_place** is a violation: `transfer` guesses another
density after an error (`floppy.c:239`) while `do_rdwt` computed cylinder, head
and sector for the old one, so that a request may end well with another block's
data (`BlockInPlace`); the comment there says that this is done for diskettes that
have not been read yet, but the flag for that is not looked at, and the new
density stays when the request fails.
*Cache* (two buffers, two chains, two devices with three
blocks together, each transfer may fail with an error or EOF, but those of one
block only, one device is also written through a block special file; two uses at a
time): no write is lost but by a failed transfer of that block, and the chains are complete (`Coherent`,
with `ChainsComplete`), metadata that nobody uses is on disk (`MetaOnDisk`: what a crash
finds), a sync writes all (`SyncFlushes`).  Two buffers for three blocks make
every miss an eviction.  `RestReadIn` is in no run: a write of less than a block
to a block special file, where `i_size` is 0, does not read the block in.

`PipeFS`, `FileTree`, `Zones` and `Fsck`, run **fs**.

*Pipes* (three processes of two descriptors, three filp slots, a
pipe of two units, `susp_count` at most one below 0): whoever waits for FS is
suspended and the other way round, so that each call gets one answer, and
`reviving` counts who is being revived, so that `get_work` never panics
(`WaitsIffSuspended`); counts of slots and i-nodes are exact (`CountsExact`);
nobody hangs at a pipe whose other end is closed (`NobodyOrphaned`); a reader
and a writer do not both sleep at a pipe
(`PairsMeet`).  The last needs two conditions, and TLC shows both: without the
first, two readers sleep, a write wakes one, and the other sleeps on with a byte
in the pipe until all its users hang; without the second, `release` has counted
a process twice (it was being revived already, when a process with two
descriptors of one end exited) and `pipe_check` thinks there is nobody to wake.

*Tree* (two devices of three i-nodes, four i-node slots, two super blocks, one
filp slot, so that every table fills; MM and up to two users; four sets of calls,
`SomeUses`, each with callers for whom a directory is full or closed): whichever
step of a call failed, an i-node's count is the number of directories, open
files and mounts that refer to it, no i-node is in two slots, and none in use is
of an unmounted device (`UsesCounted`); link counts are the numbers of entries
and the bit map is what they say (`LinksExact`); no crash would leave an entry of
a free i-node (`CrashLeavesNoTornEntry`).  Exceptions that are real: an unlink of
a directory that is mounted on, or of ".." in a mounted root, counts down the
wrong i-node (`skewed`), and `advance` follows NIL_INODE after ".." in a mounted
root (`wild`, where the part stops).  `NilNotFollowed` and `MapsReleasedOnce`
say that neither this nor a second release of bit maps happens; both are
violated within a few calls and in no run.

*Zones* (two files; zones of one or two blocks, direct, indirect and double
indirect, two to four zones on the device; copies from the user that fail): the
zones of the files are their own, none is lost, and a file reads as it was
written, with zeros in its holes (`FilesIntact`).  Exceptions that are real: a
failed copy (`failed`, `lost`), and files that a write on a full device made
longer (`grown`).  The second is run **fs_holes**, a violation of
`HolesReadAsZeros`: `read_write` sets `i_size` to the position of a write that
found no zone, and the next write there, at the end of the file as it seems, does
not clear a new zone of two blocks before it.

*Checker* (a file system of three i-nodes, a directory and a file with two names and
an indirect zone, in six zones; each i-node, entry, zone number, size, count and
bit damaged in turn, alone or in a file system whose directory already shares a
zone with a file): whoever says yes to everything has a sound file system after
three runs (`Repaired`), and the reference for that, `Sound`, looks at the disk
alone.  One run is not enough: an i-node is removed when its zones are marked and
its entries counted already.  A directory whose size is no whole number of entries
is excepted (`Torn`): `chkdirzone` gives it another size in memory and never
writes it.  With any answers, and quitting at any question, i-nodes that the
damage has not touched keep contents, names and bits, and the checker gives up
only for a damaged root (`UntouchedKept`); who says no to "truncate" also loses
the answers given before in the same block of entries, since `chkdirzone` returns
before it writes them.  With more links in an i-node than MAX_LINKS the counts come
right only after a further run, which is beyond the bound.

Deadlock is not checked in **mm**, **fs** and **devices**: a process alone at its
own pipe waits for ever, users owe no calls, and the tree stops when `wild`.

`PortProc`, run **port** (the three tasks of `kmain` and one server, for which
`proc.h` has slots and a ready list; the two demonstration tasks and the server
send and receive in all ways, which the interface allows; four processes are the
fewest of which one receives from the second of its callers):
`RunnerPicked`, `ImplementsRendezvous` as above; each task that can run gets its
turn (`EveryTaskRuns`; a server may wait for ever behind tasks that never
block).  Fairness: the interrupt comes (weak), CLOCK goes on when it
gets the CPU again and again (strong); the other tasks may compute for ever.
A tick that finds CLOCK busy or queued is dropped (`E_OVERRUN` is not looked at),
so `clock_ticks` counts fewer than the interrupts.  Unlike MINIX the port never
idles with a ready task.

`PortContext`, run **port_frames**, is a violation: after its pushes the
dispatcher stores S, which on the 65816 is one below the frame, while
`create_task` and `brk_dispatch` take `p_sp` as the address of the frame's first
byte (`FrameBase`).  TLC finds it in the first interrupt.

Why the bounds are enough to see these things: each hazard needs at most three
actors (two parties and an interrupt or a third process), queues and tables of
two or three that can be full, and one event repeated once; the constants give
each of these and one more where the time allows.

## 4. What is proved

All of it holds for every value of the constants that the named assumption of the
module allows; nothing else is assumed.  `SeqLemmas` has the facts on appending to,
and removing from, lists without repetition that the ready lists, caller queues
and hash chains need.

**`ProcProofs`**, for every number of tasks, slots and live processes, every set of
calls and of interrupting devices (`ConstantAssumption`): `ListsKept` (`ListsKeep`),
`NoMissedMatch` (`NoneMissed`), `SignalsReachMM` (`SignalsDelivered`), that
`sig_procs` is the number of processes with a pending signal, `BusyTasksServed`,
that `Proc` implements `Rendezvous`, and, if requests go one way, `PriorityKept`.

None of the invariants is inductive alone.  `ready` on a process already listed
would break the lists, and that it never happens rests on the flags that say who is
queued; a message reaches a receiver only because `mini_rec` looked at the queue
before blocking.  The invariant `KInv` of a kernel state is therefore their
conjunction, with what ties them (HARDWARE has no flags and is on no list).  Each
procedure has a lemma that says what it returns and keeps (`PickProcFacts`,
`ReadyFacts`, `DeblockFacts`, `BlockFacts`, `MiniSendFacts`, `InformFacts`,
`CauseSigFacts`, `MiniRec...`); the step lemmas compose them one action at a time,
and `IndInv` adds the other variables.

*The rendezvous.*  `Rendezvous` has only whom each process sends to and receives
from.  The mapping reads the first off the caller queues (`To`) and the second off
`p_flags` and `p_getfrom` (`From`).  That the first is a function is `CallerQueues`:
a process is on one queue exactly while it is SENDING.  Each procedure then moves
at most one pair: a send either ends the receiver's wait or blocks the sender, a
receive takes the first of the queue that it accepts or blocks; BOTH, and
`mini_rec`'s `inform`, are two such moves in one step, which `Rendezvous` has as
one.  Ready lists and scheduling map to stutters.

*Busy tasks.*  `interrupt` tries again each task that was busy before, and those it
finds waiting leave `busy_map`.  One that stays was refused because it does not wait,
or has no slot, which `Installed` excludes (only tasks that are there are recorded);
and what is delivered to one task does not make another wait.

*Priorities.*  `PriorityKept` (`PriorityHolds`) is about the lists; `Fair` says it by
the flags.  Who blocks, runs, and `unready` then picks the first in line, so nobody
is passed over (`PickedOver`, `BlockOver`); who runs on is a task or a server, or a
user whose calls ready nobody but MM and FS; `interrupt` picks the task it has
readied.  What is left is whom `mini_rec` readies after its caller blocked: MM, told
of a signal, or a process that was queued on the caller.  For that one to be called
back its message must still be its own, and it is if it did not call with BOTH:
`Sent` says that of everybody who is queued.  Hence the hypothesis `OneWay`, that no
two processes call each other with BOTH.  Of two that do, each would find the other
queued, and one would be freed without having been answered.  It is true of the
calls in the sources once FS has reported to MM at initialization, and TLC evaluates it
for those of `MCProc`.

**`ClockProofs`** (`ClockAssumption` in addition: SYSTASK only replies, so it does
not call CLOCK; alarms are asked for below OFF, which stands for MAX_P_LONG):
`TicksConserved` (`TicksKept`) and `AlarmsAhead` (`NoAlarmPassed`).  The inductive
invariant `CInd` has the kernel's, and `Marks`: nobody who is queued on CLOCK has
the hardware's message in his buffer, so the message that makes `do_clocktick` run
is always an interrupt's own, and no tick is counted twice.  A caller's buffer is
its own when it calls; only one that also waits for the answer, in BOTH, could get
another message into it while it is queued, and it waits for CLOCK's alone.
Further parts tie CLOCK's place in its loop to the kernel: it is blocked on its
receive at "dispatch" or on its reply at "receive" and nowhere else, and what is in its
message decides what is still owed.  `busy_map` stays empty, since a tick that finds
CLOCK busy goes to `lost_ticks`.  For the alarms: all are ahead of `realtime` unless CLOCK is between adding
the ticks and the end of its loop, and `next_alarm` is never after the first, which
`AlarmOff` and `AlarmForked` keep although they leave `next_alarm` alone.

**`SysProofs`**, for every number of tasks and slots, every set of calls in which the
servers call SYSTASK with BOTH and wait for no user (`ServersCallSystem`), every
`MaxDrift`, and `Unasked = {}` (why, see run **systask**): `SlotsKept` (`SlotsStay`)
and `RequestIntact` (`RequestKept`).  Fork spoils the count of signals, so the
invariant has of `ProcProofs` only `Inv`, lists, queues and matches, which its lemmas
keep without the count.  Three parts are added (`SInv`).  `Tidy`: nobody is queued for a
user or SYSTASK, no task is queued, and a slot that is free or lacks a map has the
flags for it and no others; so a slot can be emptied and filled without leaving
anybody behind.  `Prompt`: a ready task keeps servers and users from running.  And
where the request is: SYSTASK has none (`Free`), or it runs with one and its
author waits (`Asked`).  The first two make the third inductive: a server that
calls SYSTASK runs, so no task is ready, so SYSTASK is not, so it waits on its
receive; the request is in its buffer at once, the server blocks, and SYSTASK, the
only task that is ready, runs.  From then to its reply only interrupts come, and
they do not take the CPU from it.  `cause_sig` is called by tasks that run, hence
while there is no request.  A task that a server readies and runs on, as FS does in the
counterexample above, is what breaks `Prompt`.

**`DriverProofs`**, on the printer, proves `WriterServed` for any number of writers and of characters.
What is added for induction (`PrinterInv`) is what the task believes between
steps: the task is not within a write when a message comes, and `pr_char`, whose
statements in CLOCK alternate with the interrupts, touches the count and the
port but not who prints or who is to be answered.

On the diskette it proves `FloppyAgrees` for any number of drives, densities and
retries.  The invariant `FInv` adds to it `GoalKept`, that from the moment a motor
is on until the driver is done the goal is what runs, so that a `stop_motor` that
comes late has nothing to stop, and `AtSpeed`, that a motor that is on has its
speed but for the one that `start_motor` waits for.

On the terminal it proves `AnswersAgree` (`ReadersAndWritersKnown`) and `NoLineWithheld`
(`LinesReachTheReader`), for every size of the queue and of the driver's buffer and
any number of users.  The invariant `TtyInv` adds that `tty_lfct` is the number of
lines in the queue (`Counted`): the lemmas `EndsAppended`, `EndsRead` and
`EndsErased` say what each operation on the ring does to that number, so that
"there is a line" (`tty_lfct > 0`), which is what the code asks, is the same as a
line being there.  `Hungry`, that who hangs has none, does not hold at every step: when
CTRL-Q is among what was typed, `console` runs before `do_charint` looks at the
reader again.  Like the properties, the theorems promise nothing once the count is
lost, by an overrun of the ring or by an end of file that `chuck` erased.

On the screen it proves the action property `ScreenAsTold` (`ScreenTheorem`), for every
width, number of lines, size of the RAM and of the queue, and every TAB_SIZE.  The one
thing to know of a state is that what is queued was put in the cursor's line, so the
queue is no longer than `tty_column`, and is empty within an escape sequence (`SInv`).
The rest is arithmetic modulo the RAM's size, done once: `Cell(s, p)` is the word `p`
places after the window's origin, `vid_copy` changes just the cells it is meant to as
long as they are in the window (`CopyFacts`), wherever that wraps, and a scroll shifts
all cells by a line (`ScrollFacts`).  `Seen` is a cell once the queue is out, so a
character that is queued is seen at once (`QueueFacts`) and `flush` changes nothing.
A line feed on the bottom line scrolls with the queue not yet out: it is the same place
in the RAM, now a line higher in the window, so nothing is lost (`ScrollUp`).  That
needs a second line, `SCR_LINES > 1`: on a screen of one line what is queued could come
out on the blank one.  The console has 25.

**`MMProofs`**, on the core map, for every core, every number of processes and every size of their
images: `HolesSeparate`, `HoleSlotLeft`, and that `Alloc` implements `Memory`
(`AllocImplementsMemory`).  The invariant is that holes and images partition the
core: each click is in one image or in one hole of the list.  `free_mem` inserts
before the first hole that is not lower, and `merge` from there on looks at three
holes only; that this is enough is the lemma on merging: before the call no two
holes touch, so only the new one can touch its neighbours.  `HoleSlotLeft` is a
count: between two holes that do not touch lies a click that is in no hole, hence
of an image, and images are contiguous, so the map from each hole but the last to
the image that has the click at its end is an injection into the processes.

On the processes it proves `TreeKept` (`TreeTheorem`), for every number of slots and
every use of the system (`MMAssumption`), and `AnsweredOnce` (`AnsweredOnceTheorem`)
where `BeforeTable` is FALSE: with bytes before `mproc[0]` that look like a slot in
use, MM does send to HARDWARE (`do_ksig_dead`, section 3).  Both rest on one
invariant, `Settled(m, X)`, of a state `m` in which MM is doing the calls of `X`:
between actions `X` is empty, in a call it has the caller, and in `do_fork` the child
as well.  A living process is then in a call of MM exactly if it pauses, waits or is in
`X`, never two of these; so whoever answers, the caller's own branch, `cleanup`,
`unpause` or a signal sent by somebody else, ends one reason and leaves none, and a
caller that dies of its own `kill` is not answered.  `mm_exit` and `cleanup` break
`Settled` on their way, the first since the kernel is told last, the second since INIT
may wait with the dead among the children it has just inherited: `Sound` is what is
left, and `cleanup`'s second turn restores the rest because `INIT` then waits no more.
That the ancestors of everybody end in INIT is kept as `Rooted`, that any set of
users has one whose parent is not in it: it is kept when children go over to INIT, and
gives by counting that each generation of `Ancestors` adds a process or has INIT.
`check_sig`'s loop goes through all slots as a function whose value is, as that of
`do_exit` below, shown by the least counterexample (`PassesExist`), and
each passage keeps the invariant, whatever the signal does to its process.

**`FSProofs`**, on the cache, for every number of buffers and hash chains, all devices
and blocks, and every failure of a transfer: `Coherent` (`WritesAreKept`), `MetaOnDisk`
(`MetadataSurvives`) and the action property `SyncFlushes` (`SyncReachesDisk`).  The
argument goes from the list to the data.  Chains are complete: a buffer is on the
chain of its block and on no other (`ChainsComplete` is part of the invariant), so
`get_block` finds a block that is there, so no block is in two buffers, so what one
buffer says of its block is not contradicted by another, and each block is either
on disk as last written, or in the one buffer that is dirty, or was lost by a
transfer of its own.  `LoseFacts` and `FlushFacts` say what a transfer does with a
set of buffers of one device.  `MetaOnDisk` is about blocks whose device is not
written through the special file too.

On the pipes it proves, for every number of processes, descriptors, filp slots and
pipes, every size of a pipe and every `MAX_DRIFT`, all that run **fs** checks of them:
`WaitsIffSuspended` (`WaitersAreSuspended`), `CountsExact` (`EndsAreCounted`),
`NobodyOrphaned` (`NobodyHangsAlone`) and `PairsMeet` (`ReaderAndWriterMeet`).  The
invariant (`PipeInv`) adds what makes them inductive.  Each end of a pipe is one slot,
however many share it (`OnePerEnd`), and who hangs has its own end open (`AtEnd`); so
the count of its slot is what keeps the end open for it, and closing a descriptor
cannot take the i-node from under somebody who hangs.  The positions of the two ends
say whether there is something in the pipe (`Positions`): the writer's is the size, and
the reader's is below it or both are 0.  Therefore a reader hangs at an empty pipe only
(`Empty`) and a writer, whose request is no larger than the pipe, only at one that is
not.  So a writer does not come to hang where a reader does; a reader may, where a
writer does, and then `release` wakes that writer, if it is the only one and if
`susp_count` is above 0.  `susp_count` never exceeds the number of those that hang, and
the difference never shrinks: `release` takes those that are being revived off once
more, everything else changes both alike.  So while it is exact it has never been
wrong, and it is above 0 when somebody hangs; this is what the condition of `PairsMeet`
is for.  The calls of `do_exit` to `do_close` are a function on `0 .. NR_FDS`; that it
has the value its definition says (`ClosesExist`) goes by the least counterexample.

On the contents of files it proves `FilesIntact` (`FilesStayIntact`), for every number
of files and every geometry: blocks, zones of any number of them, direct and indirect
zones, size of the device, with and without copies that fail (`ZoneAssumption`).  The
invariant (`ZInv`) has three parts.  `Tidy`: a pointer is named by the zone that holds
it and its index there, 0 for the i-node; no zone is at two such places, and the bit
map has those zones, the lost ones and nothing else.  `NoLoss`: without failing copies
nothing is lost.  `Going`, of a file and the position at which it ends: none of its
zones begins at the end or beyond, all its blocks that begin before the end hold what
it wrote and zeros, the rest of its last block included, and it has the zone of its last
position.  The last two are what makes `FilesIntact` inductive: what is between the
end and a later write must be known to be zeros or not there, in the last block by
`Reads`, in the rest of its zone because `clear_zone` clears it (`ClearedFrom`), behind
it by `Extent`; and `truncate`, which looks at positions below the end, finds all
zones (`FoundAll`).  Of a file in `grown` only `Extent` is said, of one
in `failed` nothing but that its zones are its own.  `Tidy` is kept by `write_map` since it puts a zone nobody
has at an empty place (`HungOnce`), an indirect zone first, which is empty itself;
between the allocation and that, the zone is in the set `X` of `Tidy(s, X)`, and
`free_zone` takes it out again.  What one write does to other files is nothing, since
their zones are others (`Undisturbed`).  In the loop of `read_write`, a function on
`0 .. n` as in `do_close` above, `Going` holds of the position reached.  That different
positions in a file lead to different pointers (`SpotsApart`) is arithmetic of
quotients and remainders.

**`PortProofs`**, for every number of tasks and processes, every set of calls and every
quantum: `RunnerPicked` (`RunnerIsPicked`) and that `PortProc` implements `Rendezvous`
(`PortImplementsRendezvous`).  Inside a dispatcher the process that runs may have
blocked or no longer head its list, so there are two invariants: `KInv` holds of
lists and queues within a step, `Inv` adds the runner, which `pick_proc` at the end
establishes.

The runs check the same properties on small instances, and there they are
shown to fail for mutants of the code.

Only model-checked: everything about `FileTree`, `Fsck`,
`PortContext`, the diskette's agreement with the sector wanted (it has none,
see **floppy_place**), and all liveness (fairness and ENABLED are beyond
the prover).  `FileTree` has recursive operators (`Cross`, `advance`), which the prover
cannot see.

## 5. What is left out

* In `Proc`: contents of messages but for their author, segment maps and address
  checks, `RET_REG`.  Two of `unready`'s returns leave out the `restore` that pairs
  with its `lock` (`proc.c:318`); every caller has interrupts off anyway.
* In `Clock`: `boot_time`, charged times; watchdogs and the printer's restart are
  in `Floppy` and `Printer`.  Times are distances from `realtime`, which is not
  bounded otherwise.  An alarm set while ticks are lost counts from a `realtime`
  that is behind and goes off early (`clock.c:112`); no property speaks of it.
* In `SysTask`: segment maps, and what copies and `getsp` return.
* In `Alloc`: how free slots are linked; images that `brk` reshapes inside.
* In `MMProcs`: pids, groups, exit statuses, the handler's stack frame, core dumps.
* In `Tty`: scan codes, echoing, carriage returns and delays; an address error of
  the reader (`tty.c:549`), which leaves `tty_inleft` as it is.
* In `Floppy`: DMA, the data rate, the bytes of commands, request checks.
  `fl_curcyl` is never set to a cylinder, so the driver always seeks.
* In `BufCache`: zones, read-ahead, buffers across a 64K boundary.  Metadata is
  written by FS itself only, not through the special file.
* In `FileTree`: special files and pipes, modes, times, `lseek`, `stat`, and how
  `alloc_bit` searches.  In `Zones`: read-ahead, disk errors, directories.  A crash
  may leave a removed link's i-node with its old count on disk (`link.c:78`).
* In `Fsck`: double indirect zones, special files, listings and what is changed
  from them, the super block's checks and what `mkfs` asks (`chksuper` wants one
  bit map block more than `mkfs` makes when the i-nodes fill the last), errors of
  the disk.
* In `PipeFS`: the bytes, other files, suspension on terminals, SIGPIPE.
* In `PortProc`: that `cp_mess_from` copies one word more than a message has
  (`port/kernel/proc.c:275`).  In `PortContext`: how `brk_dispatch` acts on what it
  misreads.
* The servers together.  `Tty`, `Printer`, `PipeFS` and `MMProcs` each have what the
  others may ask of them, but no module has FS, MM and a task at once.
* Not modelled at all: the components with no module in `PROJECT.json`, each with
  its reason there.

## 6. Plan

Done: `Proc`, `Rendezvous`, `ProcProofs` (everything else rests on messages);
`SysTask`; `Clock`; `Alloc`, `Memory`; `BufCache`; `PortProc`, `PortContext`;
`PipeFS`; `MMProcs`; `Tty`, `Screen`; `Printer`; `Floppy`; `FileTree`; `Zones`; `Fsck`.

Next, most important first:

1. `Servers`: FS, MM and the terminal task over `Rendezvous`: late replies in
   `rw_dev`, `do_unpause`, `do_cancel`, and no cycle of servers that wait for
   each other.
2. `exec` and `brk` with their segment maps; `malloc`; the hard disk's driver.
3. Theorems: `UsesCounted` of `FileTree`, which counts references, once `Cross` and `advance`
   are functions; `Repaired` for one round of `Fsck`.
