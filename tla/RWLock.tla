------------------------------- MODULE RWLock -------------------------------
(***************************************************************************)
(* The queueing reader/writer lock of src/port/qlock.c.                    *)
(*                                                                         *)
(* Every body in qlock.c runs between lock(&q->use) and unlock(&q->use),   *)
(* so it is one action here.  What is NOT inside that critical section is  *)
(* the call of sched() that ends rlock() and wlock(): a process that has   *)
(* queued itself keeps its processor until sched() has saved it, and       *)
(* another processor may take it off the queue and ready() it before that. *)
(* A readied process holds the lock from that moment on (the lock is       *)
(* handed over); it runs again later and never looks at the lock again on  *)
(* its way out of rlock() or wlock().                                      *)
(*                                                                         *)
(* The linked list head/tail/qnext is the sequence "queue".                *)
(***************************************************************************)
EXTENDS Naturals, Sequences, FiniteSets

CONSTANT Proc           \* the processes that use the lock

ASSUME ProcFinite == IsFiniteSet(Proc)

VARIABLES
  readers,              \* q->readers
  writer,               \* q->writer
  queue,                \* q->head .. q->tail, linked by qnext
  state,                \* p->state
  oncpu,                \* p->mach # nil: the process is not saved yet
  pc                    \* the call the process is in, or the lock it holds

vars == <<readers, writer, queue, state, oncpu, pc>>

PC == {"out", "rlock", "wlock", "reading", "writing"}
ProcState == {"Running", "QueueingR", "QueueingW", "Ready"}
-----------------------------------------------------------------------------
Init ==
  /\ readers = 0
  /\ writer = FALSE
  /\ queue = <<>>
  /\ state = [p \in Proc |-> "Running"]
  /\ oncpu = [p \in Proc |-> TRUE]
  /\ pc = [p \in Proc |-> "out"]

(* The second half of rlock() and wlock(): link up at the tail and change  *)
(* its state; the sched() that follows is the action sched.                *)
Enqueue(p, st, call) ==
  /\ queue' = Append(queue, p)
  /\ state' = [state EXCEPT ![p] = st]
  /\ pc' = [pc EXCEPT ![p] = call]
  /\ UNCHANGED <<readers, writer, oncpu>>

(* Fault seeded to test NoBarging: readers do not look at the queue.       *)
TakeReadPastQueue(p) ==
  /\ ~writer
  /\ readers' = readers + 1
  /\ pc' = [pc EXCEPT ![p] = "reading"]
  /\ UNCHANGED <<writer, queue, state, oncpu>>

TakeRead(p) ==
  /\ ~writer /\ queue = <<>>
  /\ readers' = readers + 1
  /\ pc' = [pc EXCEPT ![p] = "reading"]
  /\ UNCHANGED <<writer, queue, state, oncpu>>

rlock(p) ==
  /\ pc[p] = "out"
  /\ \/ TakeRead(p)
     \/ (writer \/ queue # <<>>) /\ Enqueue(p, "QueueingR", "rlock")

(* canrlock() that fails returns 0 and changes nothing.                    *)
canrlock(p) == pc[p] = "out" /\ TakeRead(p)

(* Fault seeded to test NoStrandedWaiter: the last reader only leaves.     *)
runlockNoHandOver(p) ==
  /\ pc[p] = "reading"
  /\ readers' = readers - 1
  /\ pc' = [pc EXCEPT ![p] = "out"]
  /\ UNCHANGED <<writer, queue, state, oncpu>>

(* Fault seeded to test Counters: the hand-over forgets q->writer = 1.     *)
runlockNoWriter(p) ==
  /\ pc[p] = "reading"
  /\ readers' = readers - 1
  /\ pc' = [pc EXCEPT ![p] = "out"]
  /\ \/ /\ readers - 1 > 0 \/ queue = <<>>
        /\ UNCHANGED <<queue, state>>
     \/ /\ readers - 1 = 0 /\ queue # <<>>
        /\ queue' = Tail(queue)
        /\ state' = [state EXCEPT ![Head(queue)] = "Ready"]
  /\ UNCHANGED <<writer, oncpu>>

(* The last reader hands the lock to the head of the queue.  The head must *)
(* be a writer, or the kernel panics; see NoPanic.                         *)
runlock(p) ==
  /\ pc[p] = "reading"
  /\ readers' = readers - 1
  /\ pc' = [pc EXCEPT ![p] = "out"]
  /\ \/ /\ readers - 1 > 0 \/ queue = <<>>
        /\ UNCHANGED <<writer, queue, state>>
     \/ /\ readers - 1 = 0 /\ queue # <<>>
        /\ state[Head(queue)] = "QueueingW"
        /\ queue' = Tail(queue)
        /\ writer' = TRUE
        /\ state' = [state EXCEPT ![Head(queue)] = "Ready"]
  /\ UNCHANGED oncpu

(* Fault seeded to test Exclusion: the writer does not look at readers.    *)
wlockIgnoresReaders(p) ==
  /\ pc[p] = "out"
  /\ \/ /\ ~writer
        /\ writer' = TRUE
        /\ pc' = [pc EXCEPT ![p] = "writing"]
        /\ UNCHANGED <<readers, queue, state, oncpu>>
     \/ writer /\ Enqueue(p, "QueueingW", "wlock")

wlock(p) ==
  /\ pc[p] = "out"
  /\ \/ /\ readers = 0 /\ ~writer
        /\ writer' = TRUE
        /\ pc' = [pc EXCEPT ![p] = "writing"]
        /\ UNCHANGED <<readers, queue, state, oncpu>>
     \/ (readers # 0 \/ writer) /\ Enqueue(p, "QueueingW", "wlock")

(* n is the number of processes "waken waiting readers" takes off the      *)
(* queue: all the readers at its front, up to the first writer.            *)
FrontReaders(n) ==
  /\ n \in 1..Len(queue)
  /\ \A i \in 1..n : state[queue[i]] = "QueueingR"
  /\ n < Len(queue) => state[queue[n+1]] # "QueueingR"

(* Fault seeded to test NoPanic: only the first reader is woken.           *)
WakeOneReader ==
  /\ queue # <<>> /\ state[Head(queue)] = "QueueingR"
  /\ queue' = Tail(queue)
  /\ readers' = readers + 1
  /\ writer' = FALSE
  /\ state' = [state EXCEPT ![Head(queue)] = "Ready"]

(* Fault seeded to test TypeOK: the woken readers are not counted.         *)
WakeUncounted ==
  \E n \in 1..Len(queue) :
     /\ FrontReaders(n)
     /\ queue' = SubSeq(queue, n+1, Len(queue))
     /\ writer' = FALSE
     /\ state' = [q \in Proc |-> IF \E i \in 1..n : q = queue[i]
                                 THEN "Ready" ELSE state[q]]
     /\ UNCHANGED readers

WakeReaders ==
  \E n \in 1..Len(queue) :
     /\ FrontReaders(n)
     /\ queue' = SubSeq(queue, n+1, Len(queue))
     /\ readers' = readers + n
     /\ writer' = FALSE
     /\ state' = [q \in Proc |-> IF \E i \in 1..n : q = queue[i]
                                 THEN "Ready" ELSE state[q]]

wunlock(p) ==
  /\ pc[p] = "writing"
  /\ pc' = [pc EXCEPT ![p] = "out"]
  /\ \/ /\ queue = <<>>
        /\ writer' = FALSE
        /\ UNCHANGED <<readers, queue, state>>
     \/ /\ queue # <<>>
        /\ state[Head(queue)] = "QueueingW"
        /\ queue' = Tail(queue)
        /\ state' = [state EXCEPT ![Head(queue)] = "Ready"]
        /\ UNCHANGED <<readers, writer>>
     \/ WakeReaders
  /\ UNCHANGED oncpu

(* sched() and schedinit(): the processor saves the process and lets go of *)
(* it.  Its state may be Ready already: then it is on a run queue, where   *)
(* nobody takes it while p->mach is set.                                   *)
(* Fault seeded to test Progress: a process readied before it was saved is *)
(* lost, as if runproc() dropped what it finds with p->mach set.           *)
schedDropsReady(p) ==
  /\ pc[p] \in {"rlock", "wlock"}
  /\ oncpu[p] /\ state[p] # "Ready"
  /\ oncpu' = [oncpu EXCEPT ![p] = FALSE]
  /\ UNCHANGED <<readers, writer, queue, state, pc>>

sched(p) ==
  /\ pc[p] \in {"rlock", "wlock"}
  /\ oncpu[p]
  /\ oncpu' = [oncpu EXCEPT ![p] = FALSE]
  /\ UNCHANGED <<readers, writer, queue, state, pc>>

(* runproc() picks the process again: sched() returns, then its caller.    *)
resume(p) ==
  /\ pc[p] \in {"rlock", "wlock"}
  /\ state[p] = "Ready" /\ ~oncpu[p]
  /\ state' = [state EXCEPT ![p] = "Running"]
  /\ oncpu' = [oncpu EXCEPT ![p] = TRUE]
  /\ pc' = [pc EXCEPT ![p] = IF @ = "rlock" THEN "reading" ELSE "writing"]
  /\ UNCHANGED <<readers, writer, queue>>

Next == \E p \in Proc :
  \/ rlock(p) \/ canrlock(p) \/ runlock(p)
  \/ wlock(p) \/ wunlock(p)
  \/ sched(p) \/ resume(p)

(* A holder gives the lock up, and the scheduler runs what is ready.       *)
Fairness == \A p \in Proc :
  WF_vars(runlock(p)) /\ WF_vars(wunlock(p)) /\ WF_vars(sched(p)) /\ WF_vars(resume(p))

Spec == Init /\ [][Next]_vars
FairSpec == Spec /\ Fairness
-----------------------------------------------------------------------------
(* Every variable has its type: in particular q->readers does not wrap     *)
(* below 0, whatever runlock() and wunlock() hand over.                    *)
TypeOK ==
  /\ readers \in Nat
  /\ writer \in BOOLEAN
  /\ queue \in Seq(Proc)
  /\ state \in [Proc -> ProcState]
  /\ oncpu \in [Proc -> BOOLEAN]
  /\ pc \in [Proc -> PC]

(* Who holds the lock: those that returned from rlock()/wlock(), and those *)
(* it was handed to while they still sleep inside the call.                *)
Readers == {p \in Proc : pc[p] = "reading" \/ (pc[p] = "rlock" /\ state[p] = "Ready")}
Writers == {p \in Proc : pc[p] = "writing" \/ (pc[p] = "wlock" /\ state[p] = "Ready")}

(* At most one writer, and never a writer together with a reader, counting *)
(* the processes the lock was handed to in runlock()/wunlock().            *)
Exclusion ==
  /\ \A p, q \in Writers : p = q
  /\ Writers = {} \/ Readers = {}

(* q->readers and q->writer, which the decisions are taken on, agree with  *)
(* the processes that really hold the lock.                                *)
Counters == readers = Cardinality(Readers) /\ (writer <=> Writers # {})

(* A free lock has no waiters: no unlock forgets to hand it on, in         *)
(* whatever order processes park, are readied and run.                     *)
NoStrandedWaiter == (readers = 0 /\ ~writer) => queue = <<>>

(* panic("runlock") and panic("wunlock") are out of reach: while readers   *)
(* hold the lock the head of the queue is a writer, and whoever is on the  *)
(* queue is in one of the two queueing states.                             *)
NoPanic ==
  /\ \A i \in DOMAIN queue : state[queue[i]] \in {"QueueingR", "QueueingW"}
  /\ (readers > 0 /\ queue # <<>>) => state[Head(queue)] = "QueueingW"

(* Nobody overtakes the queue: while processes wait, a process becomes a   *)
(* holder only by leaving the queue from its head, readers together.       *)
NoBarging == [][
  LET Holders == Readers \cup Writers
  IN  queue # <<>> =>
        \E n \in 0..Len(queue) :
           /\ Holders' \ Holders = {queue[i] : i \in 1..n}
           /\ \A i \in (n+1)..Len(queue) : queue'[i-n] = queue[i]]_vars

(* The strengthening that makes the properties above inductive: the queue  *)
(* lists each process in a queueing state exactly once, and the state of a *)
(* process tells which call it is in.                                      *)
QueueInv ==
  /\ \A i, j \in 1..Len(queue) : queue[i] = queue[j] => i = j
  /\ \A p \in Proc : state[p] \in {"QueueingR", "QueueingW"} <=>
                    \E i \in 1..Len(queue) : queue[i] = p
CallInv == \A p \in Proc :
  /\ state[p] = "QueueingR" => pc[p] = "rlock"
  /\ state[p] = "QueueingW" => pc[p] = "wlock"
  /\ state[p] = "Ready" => pc[p] \in {"rlock", "wlock"}
  /\ state[p] = "Running" => pc[p] \notin {"rlock", "wlock"}
IInv ==
  /\ TypeOK /\ QueueInv /\ CallInv
  /\ Exclusion /\ Counters /\ NoStrandedWaiter /\ NoPanic

(* Every process that queues gets the lock in the end.                     *)
Progress == \A p \in Proc :
  pc[p] \in {"rlock", "wlock"} ~> pc[p] \in {"reading", "writing"}
=============================================================================
