# A TLA+ verification project for the Nix Mark IV kernel

Nix Mark IV is a Plan 9 derived operating system kernel, in C, for many-core
amd64 machines.  This directory holds TLA+ models of its concurrent core, its
protocol stack and its devices, the TLC configurations that check them on small
instances, and proofs that TLAPS checks.  Every definition is translated from
the C source; `PROJECT.json` gives the lines of each one under "map", and lists
the runs, the seeded faults ("mutants"), the findings, the hazards and the
theorems.

## 1. Inventory

`port/` is the portable kernel, `k10/` the amd64 port, `ip/` the protocol stack,
`386/` drivers shared with the 386 port (and 22 000 lines of firmware images),
`boot/` and `root/` user programs used to start up.  The repository has no
tests; what the code promises is in its comments and its panics.

| component | state | operations | interacts with | what is hard | what makes it correct |
|---|---|---|---|---|---|
| spin locks (`taslock.c`) | Lock.key, up->nlocks, nschedlocks, delaysched | lock, unlock, ilock, canlock | sched(), interrupts | rescheduling is put off while locks are held, at most Ndelaysched times | exclusion; no sched() under a no-sched lock; every delayed sched happens |
| QLock and RWlock (`qlock.c`) | queue of processes, readers, writer, locked | qlock, qunlock, rlock, wlock, ... | ready(), sched() | a queued process is readied before it has given up its processor | exclusion, hand-over, no stranded waiter, fairness |
| scheduler (`proc.c`, `ps.c`, `edf.c`) | run queues per group of processors, p->state, p->mach, p->sch, p->wired | sched, ready, runproc, newproc, pexit, procwired, execsched | everything that blocks | unlocked stores to p->mach, shared run queues, wiring across schedulers, slots reused | one processor per kernel stack, one queue per ready process, exact counters |
| sleep and wakeup, notes, rendezvous (`proc.c`, `sysproc.c`) | r->p, p->r, p->trend, notepending, two spin locks | sleep, tsleep, wakeup, postnote, rendezvous | timers, every driver | two locks taken in both orders; wakeup, note and timeout race | nothing that should end a sleep is lost; no panic |
| semaphores (`sysproc.c`) | value in user memory, list of Semas on kernel stacks | semacquire, tsemacquire, semrelease | sleep, wakeup | flag and value are changed outside of the lock of the list | no waiter forgotten, no Sema left on the list |
| exit, wait, broken processes (`proc.c`) | wait queue, nchild, broken list | pexit, pwait, addbroken, freebroken | scheduler, notes | parent and child exit together; slots reused | each child waited for once |
| timers, alarms (`portclock.c`, `alarm.c`, `tod.c`) | timer lists per processor, alarm list | timeradd, timerdel, timerintr, procalarm | tsleep | functions are called with the list unlocked | a timer is on a list just when it is set |
| I/O queues (`qio.c`) | list of blocks, len, dlen, limit, Qstarve, Qflow, Qclosed | qread, qwrite, qbread, qbwrite, qpass, qproduce, qget, qconsume, qdiscard, qiwrite, qclose, qhangup, qreopen, qflush, qsetlimit, qnoblock | sleep/wakeup, pipes, protocols, drivers | data is copied with the queue unlocked; flow control flags are tested and set apart from sleep() | ordered delivery without loss or duplication; neither end sleeps when it should not |
| mount driver (`devmnt.c`) | RPC queue, tags, who reads | mountrpc, mountio, mntflush | 9P server | replies are read by whoever waits; interrupted readers | each reply to its request; somebody always reads |
| channels, name space (`chan.c`, `mnt.c`, `sysfile.c`, `pgrp.c`) | reference counts, mount table, fd tables | open, dup, close, bind, mount, unmount, fork | all devices | close racing with use; binds in any order | references exact; a bind after keeps what was there |
| memory (`page.c`, `segment.c`, `fault.c`, `qmalloc.c`) | page and segment references, free lists, the heap | fault, copy on write, split and join of pages, malloc | scheduler, mmu | locks let go of during I/O and before the mmu is told | references exact; no shared page is writable; no two blocks overlap |
| `ip/` | conversations, TCP control blocks, interfaces, ARP, routes, fragments | calls, ctl messages, input, timers | qio, timers, media | loss, reordering, retransmission; lock order of protocol and conversation | stream semantics; the right conversation, address and route |
| storage (`devaoe.c`, `sdiahci.c`, `devsd.c`) | outstanding frames, command slots, units and partitions | I/O, retransmission, reset, configuration | network, interrupts | timeouts racing answers; media and units that change | a request is done once, with its own data |
| `devtls.c`, `devssl.c` | record states, secrets, sequence numbers | records, alerts, handshake, ctl | qio | alerts and notes in the middle of a record | both ends in step |
| network interfaces (`netif.c`, `devether.c`, the `ether*.c` rings) | files, filters, descriptor rings | open, connect, transmit, receive | interrupts, qio | rings shared with a device; lock order | packets once, in order, to who wants them |
| serial lines, `#s`, `#e`, `#\|` | queues, flow control, postings, variables, pipe ends | open, close, read, write, ctl | qio, interrupts | flow control against drain; close racing with open | output goes on; names stay what they are |
| real-time scheduling, process control, console, tracing, other drivers, `boot/`, `root/` | | | | | not modelled, section 7 |

The hazards found while reading, each at its line, are in `PROJECT.json`.

## 2. Modules and how they correspond to the code

| module | models | checked by | proved in |
|---|---|---|---|
| `RWLock` | RWlock of `port/qlock.c` | `RWLock.cfg` | `RWLockProofs` |
| `Lock` | QLock, spin locks, delayed rescheduling: `qlock.c`, `taslock.c`, the end of `trap()` | `Lock.cfg` | `LockProofs` |
| `Sched` | scheduler of `port/proc.c`, `ps.c` | `Sched.cfg`, `SchedReuse.cfg`, `MCProcs` | `SchedProofs` |
| `Rendez` | sleep, tsleep, wakeup, postnote, timer expiry, rendezvous | `RendezStale.cfg`, `MCProcs`, `MCKernel` | `RendezProofs` |
| `Sema` | semaphores | `MCKernel` | `SemaProofs` |
| `Timer`, `Alarm` | timer lists, alarms | `MCKernel` | |
| `Wait` | exit, wait, broken processes, slots | `MCProcs` | |
| `Mem` | page faults, segments, fork, segfree, exit | `MCProcs`, `MemFork.cfg` | `MemProofs` |
| `Palloc`, `Qmalloc` | page frames, heap | `MCProcs` | |
| `Fd`, `Ns` | descriptors and chans, mount table | `MCProcs` | |
| `Fifo` | abstract: what a queue promises about bytes | through `Qio` | |
| `Qio` | `port/qio.c`, shown to implement `Fifo` | `MCQio` | `QioProofs` |
| `Mnt` | multiplexing of 9P calls, `devmnt.c` | `MCDevs`, `MCKernel` | |
| `Tls`, `Ssl` | record layers of `devtls.c`, `devssl.c` | `MCDevs` | |
| `Aoe`, `Ahci`, `Sd` | `devaoe.c`, `sdiahci.c`, `devsd.c` | `MCDevs` | |
| `Ether`, `Netif` | rings of six network cards, `netif.c` and `devether.c` | `MCDevs` | |
| `Uart` | `devuart.c` over `uarti8250.c` | `MCDevs` | |
| `Conv`, `Ipifc` | `devip.c` with UDP, `ipifc.c` with `ethermedium.c` | `MCDevs` | |
| `Arp`, `Frag`, `Route`, `Gre` | `arp.c`, fragmentation in `ip.c` and `ipv6.c`, `iproute.c`, tunnels of `gre.c` | `MCDevs` | |
| `Srv`, `Env`, `Pipe` | `#s`, `#e`, `#\|` | `MCProcs` | |
| `Tcp` | both ends of a connection, `ip/tcp.c` | `MCTcp` | |

`MCProcs`, `MCKernel` and `MCDevs` gather components that do not share state:
each behaviour is of one of them, chosen in the initial state (variable `on`),
and the variables of the others keep one value.  A property of such a run is a
conjunction over the components it is about.

**Grain.** A critical section under one spin lock or QLock is one action.  Whatever
the code does with no lock held and another processor can see (`up->mach = nil`, a
flag set before a sleep, the time between queueing and sched()) is an action of
its own.  In `Rendez` and `Lock`, where locks are the subject, every
acquisition is an action, and so is the commit of a sleep after its test.  In the
other modules sleep() and wakeup() are atomic, which is what `Rendez` is about;
a lock that is waited for is a guard there unless the order of two locks matters
(`Conv`, `Netif`).  Memory is sequentially consistent: amd64 is weaker only in store
buffering, and the code has coherence() where it matters.

**RWLock.** `queue` is q->head..q->tail, `readers` and `writer` the fields,
`state` p->state, `oncpu` is p->mach # nil, `pc` the call a process is in or the
lock it holds.  rlock, canrlock, runlock, wlock, wunlock are the functions of the
same name; `sched` and `resume` are the end of the queueing half of rlock()/wlock()
and the scheduler running the process again.  A process may be readied between
queueing and `sched`.

**Lock.** `key` says who has each spin lock (an ordinary one, a no-sched one, an
ilock, and q->use of the QLock), `have` what a process holds, in order, `cpu`
who runs where.  The clock may come between any two steps of a process: `clock`,
`hzsched` and `trapend` are the ways into sched() from an interrupt, which is put
off while locks are held, at most Ndelaysched times.

**Sched.** `pc[m]` says where a processor is: running a process ("up"), running
one that has queued itself somewhere but is not saved ("out"), at the label of
schedinit ("init"), about to execute `up->mach = nil` ("clear"), in runproc
("pick", "idle"), and with a process picked and not dispatched ("got").  `Block`
and `Wake` stand for all the ways of waiting, taken from qlock() and qunlock().
Run queues are sets, as no property depends on the order in them;
reprioritize() may give any priority; edf processes have their own queues and
are left out.  `MayExit` and `ExitYields` choose what exits do in an instance,
so that what holds in spite of the defects of exit can be separated from what
does not.  `MaxDrift` stops wiring when nrdy has gone astray, as without it
nrdy has no bound.

**Rendez.** Actors are processes, wakers (other processes, interrupt handlers),
posters of notes and the clock.  `rlock` and `plock` are the two spin locks;
sleep() is `sleepLock`, `sleepTest` (r->p = up and the look at the condition, which
others make true with no lock held) and `sleepCommit`; `noteTry` is the canlock() of
postnote(), with its retry; `twakeup` is called by the clock after timerintr() has
let go of the list, and wakes through the Rendez it reads from p->trend then.  A
condition is a Boolean per Rendez; the caller's protocol (one sleeper per Rendez)
is a guard.

**Sema, Timer, Alarm, Wait.** `value` is the word in user memory, changed by compare
and swap, `list` the Semas of the segment, `waiting` the flag; `announce`, `try`,
`sleep` are the loop of semacquire(), `passOn` its end.  In `Timer` times are
relative to now; a function runs after its timer was taken off the list, with the
list unlocked.  `Alarm` has the list and alarmkproc().  `Wait` has the slots of the
process table, their pids, the wait records and the list of broken processes.

**Memory.** `Mem` follows a fault from fault() to mmuput() with a step wherever the
code lets go of the segment; an address is of the text, of the initialised data (read
through the text segment) or beyond the file.  `Palloc`
has pages that are split and joined, their Pgallocs inside of the page that was
split.  newpg() gives its lock up between looking for a page, splitting a larger one and taking
of the new allocator, and each is a step: others may empty the allocator in between.  A
panic is named for its cause ("no free pages" if there was none, "pages missed" if one was
free by then).  `raced` says during whose call others took or freed pages, `torn` that a
free list is no list any more.  `Qmalloc` is the tail, quick lists and rover list of a heap of
a dozen units.  A process that waited in morecore() goes on without mainlock: it looks at the
lists (`look`) and changes them (`search`) in two steps, and ends with an iunlock() of
whoever has the lock; `torn` is set when two uses of the heap overlap.

**Fd, Ns.** A system call takes a chan with a reference of its own; fdclose, dup,
open, pipe (two descriptors or none), fork and exec work on the table, and opening `#d/n`
is a dup that may set the CCEXEC of a chan others have.  `Ns` is the prefix mount table as a
value, and what a name leads to is computed from it with mntlookup() and the walks of the
code.  NsExact compares where every name led before a bind or an unmount with where it leads
after (`was`, `is`): below the name bound it is what was bound, elsewhere nothing changes.  A
chan of a union above that comes first hides the Mount (`Hidden`).  AfterKeeps is about
initunion(), which replicates what a name was before the first bind -a or -b; where no Mount
on the way has chans that are counted (`Remembers`) it finds nothing, which includes every name
of a name space with only its root, and the property says that what the name was is lost.

**Qio.** Bytes are numbered as they are written, a block is a sequence of
them and counts 1 in q->len.  Writers and readers are processes that hold
q->wlock and q->rlock; agents are drivers and protocols that use the operations
without blocking.  qread() is `qwait`, `qwaitSleep`, `qreadRemove` (blocks leave
the queue), and, after a copy with the queue unlocked, `qreadDone` (what does
not fit is put back).  `Fifo` is instantiated with chan = the bytes a reader
holds followed by those on the queue; property `Stream` is its specification.

**Mnt.** A Mntrpc has its tag, its request and whether it is done; whoever finds no reader
becomes it (`gate`), `mountmux` gives a reply to its request, `mntgate` hands the reading over.
A note may meet a caller while qbwrite() waits with the request queued already (`writeNoted`),
while it reads for the others (`readNoted`), while it sleeps or was woken and did not run
(`interrupted`), and once more while mntabort() waits for its flush; the error paths of
mountrpcreq(), mountrpcrep(), mntreqing() and mntabort() follow.  A Tflush that is answered
makes the tag free to be used again.  `unflushed` is the set of tags whose request was given up
without the answer to a Tflush: mntreqing() and the reader's error path set its Mntrpc free and
send none, and a second note ends the wait for the answer.  The server still has the request,
and a later request with the tag may be given its reply.  RepliesMatch states just this
exception: the reply is then that of an earlier request, and of one with the tag, never of a
request without that history.  QueueExact states when the panics of mntqrm() and mntfree() are
in reach.  The server is external.

**Tcp.** Initial sequence numbers are part of an instance; in the transfers of data those of
the writer wrap around between its first byte and its second.  A connection block per end,
limbo calls at the listener, segments as records in a set of copies that may be lost,
duplicated and overtaken.  Timers that are on may go off at any time; the congestion window may
stop output at any time.

**Devices.** The hardware is external in `Ether`, `Ahci` and `Uart`: the models do to
the rings, the command slot and the registers what the drivers rely on.  Bytes,
packets and characters are numbers in the order in which they were made, so that
"once and in order" can be said.  The headers of the modules say what they leave out.

**Exceptions.** Where the code breaks the rule that a property is about, the property is not
dropped for the whole behaviour: it says who is concerned and what still holds. In `Ahci`,
`slip` marks a request started again after its first command, of which only the last block is
then certain, `busy` one given to a disk still at a command that had timed out, of which none
is; NoLateDma says that no other command is of a request that is over.  In `Conv`, `raced` is
the set of pairs that got one quadruple because setluniqueport() compares it with those of
connected and announced conversations only, and udpiput() not at all; any other pair differs.
In `Srv`, `late` is the set of the channels that an open of a freed service confused, `renamed`
that of the services whose name was changed.  In `Env`, FilesExact is about a file as long as
its group is the one it was opened in.  `Tls` has the writes to handq and to the channel with
their errors: `hqnoted` when the block is queued and freed, `wfails` when the other end is
gone; setting opened is two steps, under the locks of both directions (`seclocked`).

## 3. Runs

Every bound is a named constant.

| run | instance | what it shows |
|---|---|---|
| `rwlock` | four processes | exclusion, exact counters, no stranded waiter, no panic, no barging, and whoever queues gets the lock |
| `lock` | two processes, one of which nests locks, two processors, Ndelaysched 2 | a QLock has one holder; who has a no-sched lock keeps its processor; somebody always gets through |
| `sched` | three processors, two schedulers, three processes, wiring | stack safety and queueing once survive the wrong counters that wiring causes |
| `sched_reuse` | two processors, exits | finding |
| `rendez_stale` | a sleeper, two Rendez, a waker, the clock | finding |
| `procs` | one to three processes per component | exits on one processor; sleepers, waker, notes, clock; exit and wait; faults, fork and segfree; descriptors; binds and mounts; pages; heap; services, variables, pipes |
| `mem_fork` | three processes, one shared data segment | finding |
| `kernel` | semaphores on one and two addresses (three processes), one sleeper, timers on two processors, alarms, 9P calls; with fairness | lists are exact, no waiter is forgotten, whoever waits for what has come goes on |
| `devs` | one or two processes per device | the devices and protocols of section 2, one per behaviour |
| `tcp` | Modulus 16, window 2, two bytes one way or one byte and a fault, calls, close, hang-up | what is read is what was written; what leaves the write queue was received; both ends finish |
| `qio` | two writers, two readers, two agents, limit 2, three bytes, three kinds of use | refinement of `Fifo`, no lost reader, no stalled writer, what is written is read |
| `qio_zero` | a writer of empty blocks, qconsume() | finding |

**Why the bounds are enough for the interesting cases.**  Four processes are the fewest with a
holder, a reader and a writer waiting, and a newcomer; two processors are the fewest to share a
run queue, three to have two schedulers.  With a limit of two blocks, three writes fill a
queue, stop a writer and use its restart. Sequence numbers of a TCP transfer start so that they
wrap around between the two bytes. Frames of memory: in `pages` two processes may have two
pages each of an allocator of two bundles, so that one empties the new allocator of the other
before it takes its page; in `joins` and `bundles` a page is split into one bundle and into
several, so that the range test of joinbundle() is passed and failed; in `frees` two processes
join at once.  9P: one note with series of two requests, and two notes with single ones, so
that the second meets the wait for the first one's flush; three callers, so that there is
somebody to hand the reading to.  Rings have four descriptors and take batches of two, so that
they fill, empty and wrap around. Tables (arp chains, fragment queues, quick lists, broken
processes, incoming calls) have one or two entries, so that a third comer finds them full.  Two
answers to one AoE frame, two copies of a fragment and two paths are the fewest that can be
mistaken for each other.  For the seven components of section 4 the theorems show that what was
found on these instances does not depend on them. Run `sched` takes processes as symmetric, as
none of them may exit and no property names one.

For each property of a passing run, and for every component that a grouped
property is about, a seeded fault (an operator next to the one it replaces,
"Fault seeded to test ...") breaks it.

Deadlock is checked for `rwlock`, `sched` and `lock`, which never stop.  The other
runs stop when their bound on messages, releases or requests is used up and everybody
waits; their properties say which ways of waiting are legitimate.

**Fairness.** `rwlock`: a holder unlocks (the kernel's critical sections end), sched()
and the scheduler proceed; nobody is forced to ask for a lock.  `lock`: a process
that can go on again and again does (spin locks are held for a few instructions,
and the clock gives the processor to others: strong fairness of its steps), and
interrupts end.  `kernel`: strong fairness of each thread of the kernel, because a
spin lock that is free again and again is got by a spinner and postnote() retries
with its lock released; weak fairness of callers inside a system call; nobody is
forced to release, wake up or post.  `tcp`: weak fairness of what the system does
by itself (timers, output, delivery of a segment that was sent again); losses are
bounded.  `qio`: processes in a call and wakeups proceed and the readers keep
reading, as `Delivered` is about a queue that is read; writers need not write.

## 4. Proofs

Seven components have theorems, for every value of their constants.  Each proof has
the same shape: an inductive invariant, a conjunction of named parts; a lemma
per action that the step keeps it; the theorem from these by temporal logic.  TLC
checked every inductive invariant on a small instance before it was proved.

**`RWLockProofs`** (assumption `ProcFinite`): `TypeCorrect`, `MutualExclusion`,
`CountersExact`, `NobodyStranded`, `PanicFree` and `QueueIsFair`, the last an action
property (`Spec => NoBarging`).  None is inductive alone: Exclusion depends on the
counters, the counters on a process being on the queue once, the hand-over on the
head of the queue being a writer when readers hold the lock.  `IInv` conjoins them
with `QueueInv` (the queue lists the processes in a queueing state, once each) and
`CallInv` (the state of a process tells the call it is in).  The wake-up of all readers
at the head needs `FrontCardinality`, that as many processes become readers as readers
is incremented by.  NoBarging follows from `StepFromHead`: the processes that a step
takes off the queue are its first n, and nobody else gets the lock while it has any.

**`LockProofs`** (assumption `ConstantsOK`: names differ): `LocksAreHeld`, the property
LocksHold of run `lock`, and `SpinLocksExclude`.  `IInv` is `Types`, `PlaceOK` (what a process
holds, by where it is: the locks it has are one of a few sequences), `KeysOK` (a key has
a value just when somebody has the lock, once), `QueueOK` (who waits is queued once
or has been given the lock; the QLock is locked just when it has an owner), `OnCpu`
and `CpuOK` (a process is on one processor).  That a no-sched lock keeps its
holder on its processor needs all of them: sched() is reached from an interrupt, from
unlock() and from qlock(), and only nschedlocks, which counts what `have` lists,
tells them apart.

**`SchedProofs`**: `StackSafety` and `ReadyQueuedOnce` while no process exits
(`ASSUME MayExit = {}`; with exits StackSafe is false, see `sched_reuse`), for any number of
processors, schedulers, priorities and processes, and any wiring.  `NoExitInv` is types,
QueuedOnce, `Placed` (where a processor is determines the state of its process and
p->mach), `PickedOnce` (a process is picked by one processor) and `Alive` (who is not
dead has a scheduler).  The heart is that runproc() picks only processes with
mach = nil, under the lock of the queue, and that `up->mach = nil` is the last thing a
processor does for a process.  `TypesKept` is unconditional: the state stays well
typed with exits and reuse too; it needs `HasUp`, that a processor past
schedinit() has a process.

**`RendezProofs`** (premise `Distinct`: processes, wakers, posters and the clock are different
actors, and nil is none of them): `TypesKept`, `PanicFree`, `WakeupsKept`, `NotesKept`,
`TimeoutsKept`. These are the conjuncts of NoneLost, which run `procs` checks for this
component among others.  `Agree` relates the two directions: r->p is p just when p sleeps, or
is about to, on r (`Linked`), and the two spin locks say who is between which steps (`LockR`,
`LockP`).  This is where both locks matter: with one of them a waker that read r->p before the
commit could find another process in the bed (`Found`).  `WakeComes`, `NoteComes` and
`TimeComes` are the properties strengthened to the time between the test of the condition and
the commit.

**`QioProofs`** (assumptions `ConstantsOK`, `ReadOneWay`: a queue that processes read is not
also read at interrupt level, as in every caller): `CountsExact`, `StreamRefined`,
`ReaderWoken`, `MessagesWhole`, `WriterRestarted`, for any number of readers, writers and
agents, any limit, any bytes and any mixture of operations.  `IInv` is `CtlOK` (where everybody
is, and who has q->rlock and q->wlock), `BufOK` (types, and that the counts are those of the
blocks) and `CopyOK` (only a reader in the middle of its copy holds bytes).  `StreamRefined` is
the refinement: `Init` maps to Fifo's, and every action to a write, a read, a discard or a
stutter.  `AwakeOK` adds for readers that Qstarve is set whenever one is at sleep() with
nothing to wake it; `BlocksOK` that the blocks of a message queue are whole messages; `FlowOK`
that a writer asleep before a queue with room is on somebody's list of wakeups.  `NoStall` does
not hold without the premise `Restartable`: with a limit below 2 nothing restarts a writer, and
where a queue is both written by processes and filled by qiwrite(), qpass() or qproduce(), or
has its limit changed, or blocks of length 0 are taken by qconsume(), Qflow can be cleared for
one that is about to sleep or the length never be seen to cross half of the limit.  Pipes,
protocol queues and streams satisfy it; the output queue of a serial line that is also the
console (qwrite() and qiwrite()) does not. Sequences of blocks are flattened by a recursive
function of the community modules; its facts need induction over the length, for which the
first lemmas use `NatMin` (a nonempty set of naturals has a least element) instead of the
induction theorems, whose operator parameters the provers cannot instantiate.

**`SemaProofs`** (premise `Sane`: finitely many processes, natural numbers as values, nil
is no process): `SemasListed`, `WakeupsKept` and `NobodyForgotten`, which run `kernel` checks
for this component in ListsExact and NoForgottenWaiter.  The argument counts units.  A
release of n puts n units on their way; the releaser carries them through semwakeup(), then
the acquirer whose flag it clears carries one, until it tries again or, leaving the
loop, passes it on (`Carries`).  `Covered`: while somebody sleeps with its flag set, its
semaphore is worth no more than the units on their way to it.  This is not inductive, since a
semwakeup() that comes to the end of the list drops what it still carries;
`PassedOver` adds that the units of the process at the list do not count for a
sleeper that it has passed, so that at the end nobody depends on them.  A process
that starts to sleep after the scan has tried after it set its flag, which leaves the
value 0.  Sums over the processes are sizes of sets of units (`Units`), as the provers
have no induction for a fold; `SumStep` and `SumPositive` are what they need to know.

**`MemProofs`** (premise `Sane`: finitely many processes and addresses, kinds of address apart,
nil is none of them): `CountsAreExact`, for whatever `May` allows, and, with the premise
`Alone`, `PagesAreExact` and `NoWriteIsShared`.  `Alone` says that where data segments are
shared there is no fork without RFMEM, no segfree() and no I/O error; the instances of run
`procs` are of this kind, and `mem_fork` and section 5 say what happens otherwise.  `Basic` is
what holds without `Alone`: types, who has a segment and an address (`Lives`, `Children`), that
a page is at one address and a free segment empty, and the counts.  A count is the size of a
set of places, so each step is matched by the lemma about the places it fills or empties
(`PutPlace`, `DropPlace`, `CopyRow`, `ClearRow`, and for segments `JoinsSegment`,
`FoundsSegment`, `LeavesSegment`).  NoSharedWrite is not inductive: between cow() and mmuput()
a process acts on an entry it saw with the segment locked.  `There` says that the entry is
still there and read in, `Owned` that a page about to be written has one reference already;
both need `Private` or, in a shared segment, `Locked`, and `Reading` for a page that another is
still reading. `OnlyPlace` (one reference, one place) turns `Owned` into the absence of the
page elsewhere.

**Only model-checked.**  Liveness (`Progress`, `Unstuck`, `GoesOn`, `Delivered`, `Finishes`),
as fairness and ENABLED are out of TLAPS's reach; `StreamExact` and `Reliable` of `Tcp`; the
grouped properties of `procs`, `kernel` and `devs`, except for the `Rendez` part of NoneLost
and the `Sema` parts of ListsExact and NoForgottenWaiter and for NoSharedWrite and the `Mem`
part of RefsExact; the exact counters `nrdy` and `runvec` with one scheduler (part of
NoneAstray).

## 5. Findings

Each is a run that TLC finds violated.

- `sched_reuse`: schedinit() frees a dead process and then stores nil in its
  p->mach; another processor may run the slot's next owner by then, and the store
  lets a third pick run it twice.
- `rendez_stale`: timerintr() unlocks the list before it calls the function, so
  timerdel() does not wait for it and a finished tsleep() can time the next one out.
- `mem_fork`: fixfault() tells the mmu about a writable page after it let go of the
  segment; a process that shares the segment may have forked in between.
- `qio_zero`: qconsume() drops blocks of length 0 without restarting the writer they
  had stopped.

Further observations, made while modelling.  The properties state them as exceptions, or the
instances avoid them, as the comments of the properties and the headers of the modules say;
where a comment of the code promises otherwise its line is given:

- *Processes.* pexit() clears up->sch long before it dies (`proc.c:1139`): preempted or blocked
  after that, it is readied with a nil scheduler.  rqrunproc() changes p->sch before
  unlinkproc() takes the counters to update from it (`proc.c:458`): nrdy of the wrong scheduler
  changes, and a processor can halt with work on its queue.  An alarm may be posted to the next
  owner of a slot.  sysrendezvous() does not look at notepending.
- *Memory.* In a shared segment fixfault() locks s->lk again after pagein() and does not look
  whether a segfree() has emptied the entry meanwhile; after an I/O error it unlocks s->lk a
  second time (`fault.c:221`), which another process may have by then.  joinbundle() compares a
  page number of one size with bounds of another (`page.c:1085`), so that the free of a page in
  a bundle beyond the first npg / bsz ones panics; two frees may both join their page, the
  second with a page that is not on the free list.  newpg() may find the allocator that it just
  made empty, and panic with memory free (`page.c:986`, `1042`) or follow nil (`page.c:966`).
  A process that waits in morecore() returns without mainlock (`qmalloc.c:888`), uses the heap,
  and releases the lock of whoever has it.  maxsz is not kept when a block becomes the only one
  of the rover list.
- *Queues.* qread() puts the rest of a block back on a queue that was closed during the copy,
  although qclose() says that all blocks are released.  qflush() wakes nobody.
- *Names.* bindmount() closes whatever is in its descriptor by then.  setslash() does not count
  the root's chan: as long as nothing is bound at the root, the first bind -a on a name
  replaces what it was, although initunion() is there to keep it (`mnt.c:319`).
- *Mount driver.* A note during the write of a request, or while its caller reads, frees the
  Mntrpc and its tag without a Tflush (`devmnt.c:543`, `1103`), and the next request with the
  tag may take the old reply.  A note to the process that mntgate() woke to be the next reader
  leaves all others asleep.  mntqrm() panics ("already done") if the reply comes before the
  error path has the lock; mntfree() panics, or a free Mntrpc stays on the queue, if a wait of
  mntabort() ends without a reply.
- *TLS and SSL.* `if(m == ECloseNotify)` compares the processor (`devtls.c:1681`), so SLClose
  is never set.  A handshake record whose qbwrite() is interrupted is queued and freed
  (`devtls.c:884`, `783`); the comment above it relies on b not being dropped.  In devssl a
  zero length record with a short header waits for more data; records are cut without room for
  the digest; a failed digest is not counted and frees only the first block; a Block is freed
  with free(); a failed "alg" leaves the state clear.
- *AoE.* If hset() fails the request is dropped without waking its process; unbound() waits for
  the reader to exist; removedev() uses a device after it unlocked the list.
- *SATA and devsd.* `goto retry` in iario() starts over with the data but not with the block
  number; a command that timed out stays with the disk and its late end passes for the end of
  the next; clearci() ends a sleep of a command that is not done.  sdbio() with the device gone
  drops a reference of nil; sdaddpart() looks for the name only up to the first free slot;
  version numbers of a device made again may match those of an open file.
- *IP.* A conversation and its protocol are locked in both orders; bind on a connected
  conversation leaves its old hash entry; a call may come in on a closed conversation; two
  concurrent connects may take one port (`devip.c:728` promises a unique quadruple).  A TCP
  reset without ACK that is out of the window is taken for an acknowledgement of 0
  (`tcp.c:2179`): if 0 is in the window data counts as acknowledged that was not.  Segments
  that carry nothing but a FIN are queued out of order without a bound, as addreseq() counts
  bytes of data.  iplinkfree() and ipselffree() have their comparison of times inverted; bind
  and unbind open and close different queues; recvarp() reads the address lists unlocked.  The
  length of a reassembled packet is taken from the header of a first fragment that an overlap
  may have cut.  Lookups walk the route trees while others balance them.  A GRE tunnel that is
  resumed sends what it buffered with the addresses the packets came with; a packet sent while
  the tunnel is handed over or closed is put in its ring afterwards, and a report then stops at
  it.
- *Interfaces.* The loop of netifclose() over types does not advance; the interface and its
  files are locked in both orders; connecting to -1 twice counts nif->all twice.  The card of
  `Netif` has a filter whose bits several addresses share and no driver clears; ether82557.c
  has none, so multicast() makes it promiscuous, and the last file to leave promiscuous mode
  turns that off again though multicast addresses are still in use (ether82557.c:588, 600).
- *Serial lines.* uartkick() of a blocked line does not wake a drainer; m0 while CTS is low
  leaves the line dead until it is opened again; flow control settings outlive close.
- *Small devices.* A Srv is listed before its owner is set, and a remove or a wstat compares
  with the owner it does not have, a fault of the kernel (`devsrv.c:210`); a rename does not
  look for duplicates; envcpy() numbers variables anew, so that an inherited file may name
  another one; a pipe with both ends closed is opened again with what it holds.

## 6. Plan

Done, in this order: locks, scheduler, sleep and wakeup, queues; semaphores, exit and wait,
timers; mount driver, descriptors, name space; memory; TCP, IP, ARP, routes; storage,
records, network interfaces, serial lines, small devices; the proofs of section 4.

Next:

1. `Mnt`: each reply to its request, as a refinement of independent calls.
2. `Sched`: exact counters for one scheduler; `Runq`, the linked lists and the affinity order,
   refining the sets of `Sched`.
3. Edf admission, stop and start by `/proc`, FPU state, the caches
   of `cache.c`; block editing functions against a reference definition.

## 7. Not modelled, and why

Start-up code, assembler, PCI and ACPI (their behaviour is the hardware's, which the
repository does not define); probing, EEPROMs and PHYs of the cards; the other cards; tracing
and profiling devices (nothing depends on their state); formatting and parsing of status
files; statistics and load averages; the firmware images; the console, `/proc`
control and real-time scheduling, which are in the plan.  Of the modelled components:
the order within a run queue and the affinity preference of runproc(), edf queues, delivery
of notes to user code, the hash of rendezvous tags, qbypass(), kick routines (they use
the interrupt level operations, which are there), q->limit below 2, qflush() of a queue
in use by a sleeping reader, which no caller does, the contents of 9P messages, TCP options
and round trip times, ciphers and digests, AoE discovery, SCSI command sets, ICMP and
router advertisements, point to point interfaces.
