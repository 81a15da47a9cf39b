-------------------------------- MODULE Lock --------------------------------
(***************************************************************************)
(* Spin locks, src/port/taslock.c, and the queueing locks of               *)
(* src/port/qlock.c made with them, against the clock interrupt and        *)
(* sched(): who holds a spin lock puts off being rescheduled, at most      *)
(* Ndelaysched times, and not at all before a no-sched lock is let go.     *)
(*                                                                         *)
(* "l" is a lock taken with lock(), "n" one taken with noschedlock(), "i"  *)
(* one taken with ilock() by processes and by the interrupt, "use" the one *)
(* in the QLock.  A process is at:                                         *)
(*   "run"    out of all this, perhaps with locks                          *)
(*   "tas"    nlocks is incremented and the key not taken; "spin"          *)
(*   "use"    it has q->use; "dec" a key is given up and nlocks is not     *)
(*            decremented                                                  *)
(*   "qsched" it queued for the QLock and is to call sched(); "qgot" that  *)
(*            returned                                                     *)
(*   "ready"  it is to ready the process it handed the QLock to            *)
(***************************************************************************)
EXTENDS Naturals, SequencesExt

CONSTANTS
  Proc, Machs, nil,
  Ndelaysched,
  Deep          \* the processes that take a lock while they hold another

ASSUME ConstantsOK ==
  /\ Proc \cap {nil, "offline", "l", "n", "i", "use"} = {}
  /\ nil \notin {"offline", "l", "n", "i", "use"}
  /\ 0 \in Machs /\ Ndelaysched \in Nat /\ Deep \subseteq Proc

VARIABLES
  key,          \* [lock -> who has it]
  have,         \* the spin locks of each process, in the order it took them
  nlocks,       \* up->nlocks
  delaysched,   \* up->delaysched, up to Ndelaysched
  hi,           \* the processes that turned interrupts off
  qlocked,      \* q->locked
  queue,        \* q->head .. q->tail
  holds,        \* the processes that returned from qlock()
  op,           \* what each process does: "lock" "qlock" "canqlock" "qunlock"
  cur,          \* the lock it is about, or whom it hands the QLock to
  pc,
  then,         \* where it goes on after unlock()
  state,        \* p->state
  cpu,          \* [processor -> its process]
  intr          \* [processor -> "no", in the handler, or "end"ing the trap]

spin == <<key, have, nlocks, hi>>
qvars == <<qlocked, queue, holds>>
own == <<op, cur, pc, then>>
lvars == <<spin, delaysched, qvars, own, state, cpu, intr>>

Init ==
  /\ key = [l \in {"l", "n", "i", "use"} |-> nil] /\ have = [p \in Proc |-> <<>>]
  /\ nlocks = [p \in Proc |-> 0] /\ delaysched = [p \in Proc |-> 0] /\ hi = {}
  /\ qlocked = FALSE /\ queue = <<>> /\ holds = {}
  /\ op = [p \in Proc |-> "lock"] /\ cur = [p \in Proc |-> nil]
  /\ pc = [p \in Proc |-> "run"] /\ then = [p \in Proc |-> "run"]
  /\ state = [p \in Proc |-> "Ready"]
  /\ cpu \in [Machs -> {nil, "offline"}] /\ cpu[0] = nil
  /\ intr = [m \in Machs |-> "no"]

Running(p) == \E m \in Machs : cpu[m] = p /\ intr[m] = "no"
At(p, here) == pc[p] = here /\ Running(p)
Go(p, there) == pc' = [pc EXCEPT ![p] = there]
Set(f, p, v) == [f EXCEPT ![p] = v]
Return(p) ==
  /\ Go(p, "run")
  /\ op' = [op EXCEPT ![p] = "lock"] /\ cur' = [cur EXCEPT ![p] = nil]
  /\ then' = [then EXCEPT ![p] = "run"]
Up(n) == IF n < Ndelaysched THEN n + 1 ELSE n

(* up->nschedlocks is not 0.                                               *)
nosched(p) == "n" \in ToSet(have[p]) \/ (cur[p] = "n" /\ pc[p] \in {"tas", "dec"})
-----------------------------------------------------------------------------
(* The processor of p runs something else: schedinit() readies p unless it *)
(* waits or was readied already.                                           *)
Switch(p) ==
  /\ cpu' = [m \in Machs |-> IF cpu[m] = p THEN nil ELSE cpu[m]]
  /\ state' = Set(state, p, IF state[p] = "Running" THEN "Ready" ELSE state[p])
  /\ delaysched' = Set(delaysched, p, 0)

(* Fault seeded to test LocksHold: no-sched locks are like the others.     *)
DelaysAlike(p) == nlocks[p] > 0 /\ delaysched[p] < Ndelaysched

(* Is sched() put off ?                                                    *)
Delays(p) == nlocks[p] > 0 /\ (delaysched[p] < Ndelaysched \/ nosched(p))

(* sched(), by p or by the interrupt that is in it.  Put off, it returns.  *)
sched(p) ==
  \/ /\ Delays(p)
     /\ delaysched' = Set(delaysched, p, Up(delaysched[p]))
     /\ UNCHANGED <<state, cpu>>
  \/ ~Delays(p) /\ Switch(p)

(* runproc(): processor m takes a process that is ready and saved.         *)
dispatch(m, p) ==
  /\ cpu[m] = nil /\ state[p] = "Ready" /\ \A o \in Machs : cpu[o] # p
  /\ cpu' = Set(cpu, m, p) /\ state' = Set(state, p, "Running")
  /\ UNCHANGED <<spin, delaysched, qvars, own, intr>>
-----------------------------------------------------------------------------
(* Before the key is tried: sched() is put off from here on, or interrupts *)
(* are turned off.                                                         *)
Mask(p, l) ==
  /\ nlocks' = Set(nlocks, p, nlocks[p] + (IF l = "i" THEN 0 ELSE 1))
  /\ hi' = IF l = "i" THEN hi \cup {p} ELSE hi

Begin(p, o, l) ==
  /\ Mask(p, l)
  /\ op' = Set(op, p, o) /\ cur' = Set(cur, p, l)
  /\ then' = Set(then, p, "run") /\ Go(p, "tas")
  /\ UNCHANGED <<key, have, delaysched, qvars, state, cpu, intr>>

(* lock(), noschedlock() and ilock(), perhaps with another spin lock held. *)
xlock(p, l) ==
  /\ At(p, "run") /\ p \notin holds
  /\ \/ have[p] = <<>>
     \/ p \in Deep /\ have[p] = <<"l">> /\ l # "l"
  /\ Begin(p, "lock", l)

(* qlock() and canqlock(), without a spin lock.                            *)
qlock(p) == At(p, "run") /\ have[p] = <<>> /\ p \notin holds /\ Begin(p, "qlock", "use")
canqlock(p) == At(p, "run") /\ have[p] = <<>> /\ p \notin holds /\ Begin(p, "canqlock", "use")
qunlock(p) == At(p, "run") /\ have[p] = <<>> /\ p \in holds /\ Begin(p, "qunlock", "use")

(* TAS(&l->key).                                                           *)
tas(p) ==
  LET l == cur[p]
  IN  /\ At(p, "tas") /\ key[l] = nil
      /\ key' = Set(key, l, p) /\ have' = Set(have, p, Append(have[p], l))
      /\ IF l = "use" THEN Go(p, "use") /\ UNCHANGED <<op, cur, then>> ELSE Return(p)
      /\ UNCHANGED <<nlocks, hi, delaysched, qvars, state, cpu, intr>>

(* ... that fails: sched() and interrupts are let in again, and canlock()  *)
(* gives up.                                                               *)
tasFails(p) ==
  LET l == cur[p]
  IN  /\ At(p, "tas") /\ key[l] # nil
      /\ nlocks' = Set(nlocks, p, nlocks[p] - (IF l = "i" THEN 0 ELSE 1))
      /\ hi' = hi \ (IF l = "i" THEN {p} ELSE {})
      /\ IF op[p] = "canqlock" THEN Return(p) ELSE Go(p, "spin") /\ UNCHANGED <<op, cur, then>>
      /\ UNCHANGED <<key, have, delaysched, qvars, state, cpu, intr>>

(* The key was seen free.                                                  *)
spinning(p) ==
  /\ At(p, "spin") /\ key[cur[p]] = nil
  /\ Mask(p, cur[p])
  /\ Go(p, "tas")
  /\ UNCHANGED <<key, have, delaysched, qvars, op, cur, then, state, cpu, intr>>

Release(p) ==
  /\ key' = Set(key, Last(have[p]), nil) /\ have' = Set(have, p, Front(have[p]))

(* unlock() and iunlock() of the lock taken last.                          *)
xunlock(p) ==
  LET l == Last(have[p])
  IN  /\ At(p, "run") /\ have[p] # <<>>
      /\ Release(p)
      /\ IF l = "i" THEN hi' = hi \ {p} /\ UNCHANGED own
         ELSE /\ cur' = Set(cur, p, l) /\ then' = Set(then, p, "run") /\ Go(p, "dec")
              /\ UNCHANGED <<hi, op>>
      /\ UNCHANGED <<nlocks, delaysched, qvars, state, cpu, intr>>

(* ... and sched() if it was put off and this was the last lock.           *)
dec(p) ==
  /\ At(p, "dec")
  /\ nlocks' = Set(nlocks, p, nlocks[p] - 1)
  /\ IF then[p] = "run" THEN Return(p) ELSE Go(p, then[p]) /\ UNCHANGED <<op, cur, then>>
  /\ IF nlocks[p] = 1 /\ delaysched[p] > 0 /\ p \notin hi THEN Switch(p)
     ELSE UNCHANGED <<delaysched, state, cpu>>
  /\ UNCHANGED <<key, have, hi, qvars, intr>>
-----------------------------------------------------------------------------
(* Fault seeded to test LocksHold: the lock is free while it is handed     *)
(* over.                                                                   *)
qunlockUseFrees(p) ==
  /\ qlocked' = FALSE /\ holds' = holds \ {p}
  /\ IF queue # <<>>
     THEN queue' = Tail(queue) /\ cur' = Set(cur, p, Head(queue)) /\ then' = Set(then, p, "ready")
     ELSE UNCHANGED <<queue, cur, then>>
  /\ UNCHANGED state

(* qunlock() with q->use: the lock goes to the first in the queue.         *)
qunlockUse(p) ==
  /\ holds' = holds \ {p}
  /\ IF queue # <<>>
     THEN /\ queue' = Tail(queue) /\ cur' = Set(cur, p, Head(queue))
          /\ then' = Set(then, p, "ready") /\ UNCHANGED qlocked
     ELSE qlocked' = FALSE /\ UNCHANGED <<queue, cur, then>>
  /\ UNCHANGED state

(* qlock() and canqlock() with q->use: taken, or queued for, or given up.  *)
qlockUse(p) ==
  /\ \/ /\ ~qlocked
        /\ qlocked' = TRUE /\ holds' = holds \cup {p}
        /\ UNCHANGED <<queue, state, then>>
     \/ /\ qlocked /\ op[p] = "qlock"
        /\ queue' = Append(queue, p) /\ state' = Set(state, p, "Queueing")
        /\ then' = Set(then, p, "qsched")
        /\ UNCHANGED <<qlocked, holds>>
     \/ qlocked /\ op[p] = "canqlock" /\ UNCHANGED <<qvars, state, then>>
  /\ UNCHANGED cur

use(p) ==
  /\ At(p, "use")
  /\ IF op[p] = "qunlock" THEN qunlockUse(p) ELSE qlockUse(p)
  /\ Release(p) /\ Go(p, "dec")
  /\ UNCHANGED <<nlocks, hi, delaysched, op, cpu, intr>>

(* The sched() of qlock() returns when the lock was handed over.           *)
qsched(p) ==
  /\ At(p, "qsched")
  /\ sched(p) /\ Go(p, "qgot")
  /\ UNCHANGED <<spin, qvars, op, cur, then, intr>>

qgot(p) ==
  /\ At(p, "qgot") /\ Return(p)
  /\ holds' = holds \cup {p}
  /\ UNCHANGED <<spin, delaysched, qlocked, queue, state, cpu, intr>>

(* ready() of the process the lock was handed to, which may still be on    *)
(* its way to sched().                                                     *)
ready(p) ==
  /\ At(p, "ready") /\ Return(p)
  /\ state' = Set(state, cur[p], "Ready")
  /\ UNCHANGED <<spin, delaysched, qvars, cpu, intr>>
-----------------------------------------------------------------------------
(* The clock interrupts a process, and takes an ilock, ...                 *)
clock(m) ==
  /\ cpu[m] \in Proc \ hi /\ intr[m] = "no"
  /\ intr' = Set(intr, m, "in")
  /\ UNCHANGED <<spin, delaysched, qvars, own, state, cpu>>

(* Fault seeded to test Unstuck: who spins is not preempted.               *)
hzschedSpins(m) ==
  LET p == cpu[m]
  IN  /\ intr[m] = "in" /\ key["i"] = nil
      /\ intr' = Set(intr, m, "end")
      /\ delaysched' = IF state[p] = "Running" /\ pc[p] # "spin"
                          /\ \E q \in Proc : state[q] = "Ready"
                       THEN Set(delaysched, p, Up(delaysched[p])) ELSE delaysched
      /\ UNCHANGED <<spin, qvars, own, state, cpu>>

(* ... and hzsched() asks for a reschedule, if another process is ready;   *)
(* a quantum is one tick here.                                             *)
hzsched(m) ==
  LET p == cpu[m]
  IN  /\ intr[m] = "in" /\ key["i"] = nil
      /\ intr' = Set(intr, m, "end")
      /\ delaysched' = IF state[p] = "Running" /\ \E q \in Proc : state[q] = "Ready"
                       THEN Set(delaysched, p, Up(delaysched[p])) ELSE delaysched
      /\ UNCHANGED <<spin, qvars, own, state, cpu>>

(* The end of the trap.                                                    *)
trapend(m) ==
  /\ intr[m] = "end"
  /\ intr' = Set(intr, m, "no")
  /\ IF delaysched[cpu[m]] > 0 THEN sched(cpu[m]) ELSE UNCHANGED <<delaysched, state, cpu>>
  /\ UNCHANGED <<spin, qvars, own>>
-----------------------------------------------------------------------------
(* What a process does once it is in one of these functions or has a lock. *)
Goes(p) ==
  \/ tas(p) \/ tasFails(p) \/ spinning(p) \/ xunlock(p) \/ dec(p) \/ use(p) \/ qsched(p) \/ qgot(p)
  \/ ready(p) \/ qunlock(p)

Next ==
  \/ \E p \in Proc :
       \/ Goes(p) \/ qlock(p) \/ canqlock(p) \/ \E l \in {"l", "n", "i"} : xlock(p, l)
       \/ \E m \in Machs : dispatch(m, p)
  \/ \E m \in Machs : clock(m) \/ hzsched(m) \/ trapend(m)

Spec == Init /\ [][Next]_lvars

(* What goes on by itself: a process, the end of its locks, a processor    *)
(* that takes up a process, and the clock of a processor.                  *)
Step(j, p) ==
  \/ j = 1 /\ Goes(p)
  \/ j = 2 /\ Len(have[p]) = 1 /\ xunlock(p)
  \/ j = 3 /\ \E m \in Machs : dispatch(m, p)
Tick(m) == clock(m) \/ hzsched(m) \/ trapend(m)
-----------------------------------------------------------------------------
(* Whoever returned from qlock() has the lock, alone; whoever waits for it *)
(* is on the queue, once, or is being readied; and whoever has a no-sched  *)
(* lock is on a processor: neither the delayed sched(), which may come in  *)
(* any unlock() after the process queued, nor the limit on delays changes  *)
(* that.                                                                   *)
LocksHold ==
  /\ \A p, q \in holds : p = q
  /\ holds # {} => qlocked
  /\ IsInjective(queue)
  /\ \A p \in Proc :
       /\ state[p] = "Queueing" => \/ p \in ToSet(queue)
                                   \/ \E q \in Proc : cur[q] = p /\ pc[q] \in {"dec", "ready"}
       /\ key["n"] = p => \E m \in Machs : cpu[m] = p

(* A process that spins gets the lock in the end if it is let go of again  *)
(* and again; whoever is ready is taken up; clocks tick.                   *)
FairSpec ==
  /\ Spec
  /\ \A j \in 1..3, p \in Proc : SF_lvars(Step(j, p))
  /\ \A m \in Machs : WF_lvars(Tick(m))

(* Nobody is through with its locks: all wait, or hold one for ever.       *)
Stuck == \A p \in Proc : pc[p] # "run" \/ have[p] # <<>> \/ p \in holds

(* Whoever waits for a lock, spinning or queued, does not keep everybody   *)
(* from going on: again and again some process has no lock and waits for   *)
(* none, although those that spin may be on all processors and who has the *)
(* lock on none.                                                           *)
Unstuck == []<>~Stuck
=============================================================================
