------------------------------- MODULE Sched --------------------------------
(***************************************************************************)
(* The process scheduler of src/port/proc.c: run queues shared by groups   *)
(* of Schedsz processors, dispatching, blocking and waking up, process     *)
(* creation and exit, wiring and moving between schedulers.                *)
(*                                                                         *)
(* A step is what one processor does under lock(sch), or one unlocked      *)
(* store that another processor can observe:                               *)
(*   pc[m] = "up"    m runs the process up[m]                              *)
(*           "out"   up[m] has put itself on some wait list and released   *)
(*                   its lock, but still runs on its own kernel stack: it  *)
(*                   is not saved yet (qlock, sleep, rendezvous, ...)      *)
(*           "init"  the process is saved, m is at the label of schedinit  *)
(*           "clear" m is about to execute up->mach = nil; up = nil        *)
(*           "pick"  m is in the loop of runproc                           *)
(*           "idle"  m is in the loop around idlehands                     *)
(*           "got"   runproc has returned up[m], which does not run yet    *)
(*                                                                         *)
(* A run queue is the set of its processes: the order in it, which the     *)
(* properties do not depend on, is the subject of module Runq.             *)
(* reprioritize() depends on time and load: here it may return any         *)
(* priority.  The affinity pass of runproc only prefers some of the        *)
(* processes its second pass may take, so p->mp is left out, and so are    *)
(* real-time (edf) processes, which have queues of their own.              *)
(***************************************************************************)
EXTENDS Integers, FiniteSets

LOCAL INSTANCE TLC

CONSTANTS
  Proc,          \* the proc table, procalloc.arena
  NMach,         \* the number of processors
  Schedsz,       \* one scheduler every Schedsz machs
  Npriq,         \* the number of priority levels
  nil,
  WireTo,        \* the processors processes are wired to (nil: an id without one)
  MayExit,       \* the processes that exit in this instance
  ExitYields,    \* may pexit() lose its processor after up->sch = nil ?
  MaxDrift       \* bound: how far nrdy may go astray before wiring stops

Mach == 0..(NMach-1)
Pri == 0..(Npriq-1)
SchOf(m) == m \div Schedsz             \* setsched(): m->sch
Scheds == {SchOf(m) : m \in Mach}

ASSUME ConstantsOK ==
  /\ IsFiniteSet(Proc)
  /\ NMach \in Nat \ {0} /\ Schedsz \in Nat \ {0} /\ Npriq \in Nat \ {0}
  /\ nil \notin Proc /\ nil \notin Mach /\ nil \notin Scheds
  /\ WireTo \subseteq Mach \cup {nil}
  /\ MayExit \subseteq Proc
  /\ ExitYields \in BOOLEAN
  /\ MaxDrift \in Nat

VARIABLES
  runq,          \* [scheduler -> [priority -> the processes of sch->runq[pri]]]
  nrdy,          \* sch->nrdy
  runvec,        \* sch->runvec, the set of the bits that are set
  state,         \* p->state; "Blocked" is any state in which p waits
  mach,          \* p->mach
  sch,           \* p->sch
  wired,         \* p->wired
  up,            \* [processor -> its process]
  pc,            \* [processor -> where it is, see above]
  free,          \* procalloc.free
  procalloc      \* the lock of procalloc, when held across sched() by pexit

qvars == <<runq, nrdy, runvec>>
pvars == <<mach, sch, wired>>
avars == <<free, procalloc>>
vars == <<runq, nrdy, runvec, state, mach, sch, wired, up, pc, free, procalloc>>

Queued(s) == UNION {runq[s][pri] : pri \in Pri}
-----------------------------------------------------------------------------
(* The boot process, whose exit is a panic, runs; the others are free.     *)
Init ==
  /\ runq = [s \in Scheds |-> [pri \in Pri |-> {}]]
  /\ nrdy = [s \in Scheds |-> 0]
  /\ runvec = [s \in Scheds |-> {}]
  /\ \E p \in Proc \ MayExit :
       /\ state = [q \in Proc |-> IF q = p THEN "Running" ELSE "Dead"]
       /\ mach = [q \in Proc |-> IF q = p THEN 0 ELSE nil]
       /\ sch = [q \in Proc |-> IF q = p THEN SchOf(0) ELSE nil]
       /\ up = [m \in Mach |-> IF m = 0 THEN p ELSE nil]
       /\ free = Proc \ {p}
  /\ pc = [m \in Mach |-> IF m = 0 THEN "up" ELSE "pick"]
  /\ wired = [p \in Proc |-> nil]
  /\ procalloc = FALSE
-----------------------------------------------------------------------------
(* Fault seeded to test TypeOK: the bit of the next priority is set.       *)
linkprocNextBit(p, s, pri) ==
  /\ runq' = [runq EXCEPT ![s][pri] = @ \cup {p}]
  /\ nrdy' = [nrdy EXCEPT ![s] = @ + 1]
  /\ runvec' = [runvec EXCEPT ![s] = @ \cup {pri + 1}]

(* Fault seeded to test NoneAstray: the bit is set, nrdy is not counted.   *)
linkprocUncounted(p, s, pri) ==
  /\ runq' = [runq EXCEPT ![s][pri] = @ \cup {p}]
  /\ runvec' = [runvec EXCEPT ![s] = @ \cup {pri}]
  /\ UNCHANGED nrdy

linkproc(p, s, pri) ==
  /\ runq' = [runq EXCEPT ![s][pri] = @ \cup {p}]
  /\ nrdy' = [nrdy EXCEPT ![s] = @ + 1]
  /\ runvec' = [runvec EXCEPT ![s] = @ \cup {pri}]

(* ready(p): "picks a new priority for a process and sticks it in the runq *)
(* for that priority".  There is no scheduler to lock when sch is nil.     *)
ready(p) ==
  /\ sch[p] # nil
  /\ state' = [state EXCEPT ![p] = "Ready"]
  /\ \E pri \in Pri : linkproc(p, sch[p], pri)

(* sched() by a running process: the clock (hzsched), an interrupt         *)
(* (preempted), yield(), or a loop that waits for another processor.       *)
sched(m) ==
  /\ pc[m] = "up"
  /\ sch[up[m]] = nil => ExitYields
  /\ pc' = [pc EXCEPT ![m] = "init"]
  /\ UNCHANGED <<qvars, state, pvars, up, avars>>

(* The process sets its state under the lock of what it waits for; from    *)
(* here on another processor may ready() it.                               *)
Block(m) ==
  /\ pc[m] = "up"
  /\ sch[up[m]] = nil => ExitYields
  /\ state' = [state EXCEPT ![up[m]] = "Blocked"]
  /\ pc' = [pc EXCEPT ![m] = "out"]
  /\ UNCHANGED <<qvars, pvars, up, avars>>

(* procsave(up), setlabel(&up->sched), gotolabel(&m->sched).               *)
Save(m) ==
  /\ pc[m] = "out"
  /\ pc' = [pc EXCEPT ![m] = "init"]
  /\ UNCHANGED <<qvars, state, pvars, up, avars>>

(* Whoever finds p on a wait list takes it off and calls ready(p): another *)
(* process, or an interrupt.                                               *)
Wake(p) ==
  /\ state[p] = "Blocked"
  /\ ready(p)
  /\ UNCHANGED <<pvars, up, pc, avars>>

(* Fault seeded to test NoneAstray: the dead process is not released.      *)
schedinitLeaks(m) ==
  /\ pc[m] = "init"
  /\ \/ /\ state[up[m]] = "Running"
        /\ ready(up[m])
        /\ UNCHANGED avars
     \/ /\ state[up[m]] = "Moribund"
        /\ state' = [state EXCEPT ![up[m]] = "Dead"]
        /\ procalloc' = FALSE
        /\ UNCHANGED <<qvars, free>>
     \/ /\ state[up[m]] \notin {"Running", "Moribund"}
        /\ UNCHANGED <<qvars, state, avars>>
  /\ pc' = [pc EXCEPT ![m] = "clear"]
  /\ UNCHANGED <<pvars, up>>

(* schedinit(): switch(up->state).                                         *)
schedinit(m) ==
  /\ pc[m] = "init"
  /\ \/ /\ state[up[m]] = "Running"
        /\ ready(up[m])
        /\ UNCHANGED avars
     \/ /\ state[up[m]] = "Moribund"
        /\ state' = [state EXCEPT ![up[m]] = "Dead"]
        /\ free' = free \cup {up[m]}
        /\ procalloc' = FALSE
        /\ UNCHANGED qvars
     \/ /\ state[up[m]] \notin {"Running", "Moribund"}
        /\ UNCHANGED <<qvars, state, avars>>
  /\ pc' = [pc EXCEPT ![m] = "clear"]
  /\ UNCHANGED <<pvars, up>>

(* schedinit(), its end: only now another processor may pick the process. *)
clear(m) ==
  /\ pc[m] = "clear"
  /\ mach' = [mach EXCEPT ![up[m]] = nil]
  /\ up' = [up EXCEPT ![m] = nil]
  /\ pc' = [pc EXCEPT ![m] = "pick"]
  /\ UNCHANGED <<qvars, state, sch, wired, avars>>
-----------------------------------------------------------------------------
(* Fault seeded to test StackSafe: p->mach is not looked at.               *)
EligibleUnsaved(m, p) ==
  wired[p] # nil => (sch[p] # SchOf(wired[p]) \/ wired[p] = m)

(* rqrunproc(): may m take p off the run queue rq it is scanning ?         *)
Eligible(m, p) ==
  /\ mach[p] = nil
  /\ wired[p] # nil => (sch[p] # SchOf(wired[p]) \/ wired[p] = m)

Rewired(p) == IF wired[p] # nil THEN SchOf(wired[p]) ELSE sch[p]

(* rebalance() moves the processes of the queues between priorities, with  *)
(* unlinkproc() and linkproc(); nothing moves when no second has elapsed.  *)
Rebalanced(s) ==
  {[pri \in Pri |-> {p \in Queued(s) : npri[p] = pri}] : npri \in [Queued(s) -> Pri]}

RebalancedBits(s, rq) ==
  (runvec[s] \ {pri \in Pri : rq[pri] = {} /\ runq[s][pri] # {}})
     \cup {pri \in Pri : ~(rq[pri] \subseteq runq[s][pri])}

(* Fault seeded to test QueuedOnce: the queue, too, is found in p->sch.    *)
unlinkprocWrongQueue(s, rq, pri, p) ==
  LET t == Rewired(p)
  IN  /\ runq' = [runq EXCEPT ![s] = rq, ![t][pri] = @ \ {p}]
      /\ nrdy' = [nrdy EXCEPT ![t] = @ - 1]
      /\ runvec' = [runvec EXCEPT ![s] = RebalancedBits(s, rq)]

(* unlinkproc(rq, l, p), on the queue rq[pri] of scheduler s, finds the    *)
(* scheduler whose counters it updates in p->sch, which may have just been *)
(* changed by rqrunproc().  Then rq - sch->runq is an index out of range   *)
(* and any bit, or none, is cleared.                                       *)
unlinkproc(s, rq, pri, p) ==
  LET t == Rewired(p)
      rvec == RebalancedBits(s, rq)
  IN  /\ runq' = [runq EXCEPT ![s] = [rq EXCEPT ![pri] = @ \ {p}]]
      /\ nrdy' = [nrdy EXCEPT ![t] = @ - 1]
      /\ IF rq[pri] # {p} THEN runvec' = [runvec EXCEPT ![s] = rvec]
         ELSE IF t = s THEN runvec' = [runvec EXCEPT ![s] = rvec \ {pri}]
         ELSE \E b \in Pri \cup {nil} :
                runvec' = [runvec EXCEPT ![s] = rvec, ![t] = @ \ {b}]

(* Under lock(sch): rebalance() once a second, then the process to run is  *)
(* taken from the highest priority that has one m may run.                 *)
runproc(m) ==
  LET s == SchOf(m)
  IN  /\ pc[m] = "pick"
      /\ \E rq \in Rebalanced(s) :
         \/ \E pri \in Pri, p \in Proc :
              /\ p \in rq[pri] /\ Eligible(m, p)
              /\ \A hi \in Pri : hi > pri => \A q \in rq[hi] : ~Eligible(m, q)
              /\ unlinkproc(s, rq, pri, p)
              /\ sch' = [sch EXCEPT ![p] = Rewired(p)]
              /\ state' = [state EXCEPT ![p] = "Scheding"]
              /\ up' = [up EXCEPT ![m] = p]
              /\ pc' = [pc EXCEPT ![m] = "got"]
         \/ /\ \A p \in Queued(s) : ~Eligible(m, p)
            /\ runq' = [runq EXCEPT ![s] = rq]
            /\ runvec' = [runvec EXCEPT ![s] = RebalancedBits(s, rq)]
            /\ pc' = [pc EXCEPT ![m] = "idle"]
            /\ UNCHANGED <<nrdy, sch, state, up>>
      /\ UNCHANGED <<mach, wired, avars>>

(* while(sch->nrdy == 0) idlehands();                                      *)
idle(m) ==
  /\ pc[m] = "idle"
  /\ nrdy[SchOf(m)] # 0
  /\ pc' = [pc EXCEPT ![m] = "pick"]
  /\ UNCHANGED <<qvars, state, pvars, up, avars>>

(* The rest of sched(): m runs what runproc() returned.                    *)
dispatch(m) ==
  /\ pc[m] = "got"
  /\ state' = [state EXCEPT ![up[m]] = "Running"]
  /\ mach' = [mach EXCEPT ![up[m]] = m]
  /\ pc' = [pc EXCEPT ![m] = "up"]
  /\ UNCHANGED <<qvars, sch, wired, up, avars>>
-----------------------------------------------------------------------------
(* psalloc(): under the lock of procalloc, wait for a free one.            *)
psalloc(p) ==
  /\ ~procalloc /\ p \in free
  /\ free' = free \ {p}

(* newproc() and ready(p), for a process of scheduler s wired to w.        *)
newproc(p, s, w) ==
  /\ psalloc(p)
  /\ mach' = [mach EXCEPT ![p] = nil]
  /\ wired' = [wired EXCEPT ![p] = w]
  /\ sch' = [sch EXCEPT ![p] = s]
  /\ state' = [state EXCEPT ![p] = "Ready"]
  /\ \E pri \in Pri : linkproc(p, s, pri)
  /\ UNCHANGED <<up, procalloc>>

kproc(m, p) ==
  /\ pc[m] = "up"
  /\ newproc(p, SchOf(m), nil)
  /\ UNCHANGED pc

(* rfork(): the child has the scheduler and the wiring of its parent, that *)
(* gives up its processor.                                                 *)
rfork(m, p) ==
  /\ pc[m] = "up" /\ sch[up[m]] # nil
  /\ newproc(p, sch[up[m]], wired[up[m]])
  /\ pc' = [pc EXCEPT ![m] = "init"]

(* execsched(): an exec moves the process to another scheduler in use.     *)
execsched(m) ==
  /\ pc[m] = "up" /\ sch[up[m]] # nil
  /\ wired[up[m]] = nil
  /\ \E s \in Scheds : sch' = [sch EXCEPT ![up[m]] = s]
  /\ UNCHANGED <<qvars, state, mach, wired, up, pc, avars>>

(* procwired(), called by a process through /proc, whatever p is doing.    *)
procwired(m, p) ==
  /\ pc[m] = "up"
  /\ state[p] # "Dead" /\ sch[p] # nil
  /\ \A s \in Scheds : nrdy[s] \in (-MaxDrift)..(Cardinality(Proc) + MaxDrift)
  /\ \E bm \in WireTo : wired' = [wired EXCEPT ![p] = bm]
  /\ UNCHANGED <<qvars, state, mach, sch, up, pc, avars>>

(* pexit(), the step under up->exl: the process has no scheduler any more. *)
pexitSch(m) ==
  /\ pc[m] = "up" /\ up[m] \in MayExit
  /\ sch[up[m]] # nil
  /\ sch' = [sch EXCEPT ![up[m]] = nil]
  /\ UNCHANGED <<qvars, state, mach, wired, up, pc, avars>>

(* pexit(), the end: noschedlock(&procalloc), Moribund, sched().           *)
pexit(m) ==
  /\ pc[m] = "up" /\ sch[up[m]] = nil
  /\ ~procalloc
  /\ procalloc' = TRUE
  /\ state' = [state EXCEPT ![up[m]] = "Moribund"]
  /\ pc' = [pc EXCEPT ![m] = "init"]
  /\ UNCHANGED <<qvars, pvars, up, free>>

Steps ==
  \/ \E m \in Mach : \/ sched(m) \/ Block(m) \/ Save(m) \/ schedinit(m) \/ clear(m)
                     \/ runproc(m) \/ idle(m) \/ dispatch(m) \/ execsched(m)
  \/ \E p \in Proc : Wake(p)
  \/ \E m \in Mach, p \in Proc : kproc(m, p) \/ rfork(m, p) \/ procwired(m, p)

Next == Steps \/ \E m \in Mach : pexitSch(m) \/ pexit(m)

Spec == Init /\ [][Next]_vars
(* Nothing tells processes apart when none may exit.                       *)
Symmetry == Permutations(Proc)

(* The scheduler while no process exits, as the theorems suppose.          *)
NoExits == Init /\ [][Steps]_vars
-----------------------------------------------------------------------------
States == {"Dead", "Moribund", "Ready", "Scheding", "Running", "Blocked"}

(* Every variable has its type; runvec has bits of run queues only.        *)
TypeOK ==
  /\ runq \in [Scheds -> [Pri -> SUBSET Proc]]
  /\ nrdy \in [Scheds -> Int]
  /\ runvec \in [Scheds -> SUBSET Pri]
  /\ state \in [Proc -> States]
  /\ mach \in [Proc -> Mach \cup {nil}]
  /\ sch \in [Proc -> Scheds \cup {nil}]
  /\ wired \in [Proc -> Mach \cup {nil}]
  /\ up \in [Mach -> Proc \cup {nil}]
  /\ pc \in [Mach -> {"up", "out", "init", "clear", "pick", "idle", "got"}]
  /\ free \subseteq Proc
  /\ procalloc \in BOOLEAN

(* The kernel stack of a process is used by one processor at a time: from  *)
(* the moment runproc() returns it until it is saved, no other processor   *)
(* runs it or picks it.                                                    *)
OnStack(m) == pc[m] \in {"got", "up", "out"}
StackSafe == \A m, n \in Mach :
  (m # n /\ OnStack(m) /\ OnStack(n)) => up[m] # up[n]

(* A process is on at most one run queue, and then it is Ready; every      *)
(* Ready process is on one: none is lost and none is linked twice, which   *)
(* linkproc() answers with a panic or a corrupted list.                    *)
QueuedOnce ==
  /\ \A p \in Proc, s, t \in Scheds, a, b \in Pri :
       (p \in runq[s][a] /\ p \in runq[t][b]) => s = t /\ a = b
  /\ \A p \in Proc : state[p] = "Ready" <=> \E s \in Scheds : p \in Queued(s)

(* Every process is in exactly one place: free, on a run queue, waiting    *)
(* for a ready(), or in the hands of a processor.  So no process and no    *)
(* slot of the process table gets lost.                                    *)
Whereabouts == \A p \in Proc :
  LET running == {m \in Mach : pc[m] # "clear" /\ up[m] = p}
  IN  /\ p \in free <=> state[p] = "Dead"
      /\ Cardinality(running) <= 1
      /\ state[p] \in {"Scheding", "Running", "Moribund"} <=>
           /\ running # {}
           /\ state[p] \notin {"Blocked", "Ready"}

(* sch->nrdy counts the queued processes and sch->runvec tells the queues  *)
(* that have some.                                                         *)
Accounting == \A s \in Scheds :
  /\ nrdy[s] = Cardinality(Queued(s))
  /\ runvec[s] = {pri \in Pri : runq[s][pri] # {}}

(* What makes StackSafe and QueuedOnce inductive while no process exits:   *)
(* where a processor is tells the state of its process, and p->mach names  *)
(* the processor from the dispatch until schedinit() lets go of p.         *)
Placed == \A m \in Mach :
  /\ pc[m] \in {"pick", "idle"} <=> up[m] = nil
  /\ pc[m] = "got" => state[up[m]] = "Scheding" /\ mach[up[m]] = nil
  /\ pc[m] \in {"up", "out", "init", "clear"} => mach[up[m]] = m
  /\ pc[m] = "up" => state[up[m]] = "Running"
  /\ pc[m] = "out" => state[up[m]] \in {"Blocked", "Ready"}
  /\ pc[m] = "init" => state[up[m]] \in {"Running", "Blocked", "Ready"}
  /\ pc[m] = "clear" => state[up[m]] \in {"Blocked", "Ready"}
PickedOnce == \A m, n \in Mach :
  (pc[m] = "got" /\ pc[n] = "got" /\ up[m] = up[n]) => m = n
Alive == \A p \in Proc :
  /\ state[p] = "Dead" <=> p \in free
  /\ state[p] # "Dead" => sch[p] # nil
NoExitInv == TypeOK /\ QueuedOnce /\ Placed /\ PickedOnce /\ Alive
=============================================================================
