---------------------------- MODULE SchedProofs -----------------------------
(***************************************************************************)
(* Sched keeps every kernel stack on one processor and every process on    *)
(* one run queue, for any number of processors, schedulers and processes,  *)
(* as long as no slot of the process table is released for reuse; and the  *)
(* variables keep their types also when slots are, for which HasUp is      *)
(* needed: a processor that does something for a process has one.          *)
(***************************************************************************)
EXTENDS Sched, TLAPS

(* setsched() puts every processor on a scheduler.                         *)
LEMMA SchOfType == \A m \in Mach : SchOf(m) \in Scheds
BY DEF Scheds

(* nil is none of the processes, processors and schedulers.                *)
LEMMA NilType == nil \notin Proc /\ nil \notin Mach /\ nil \notin Scheds
BY ConstantsOK

(* StackSafe follows from the inductive invariant: two processors on the   *)
(* same stack would both be named by p->mach, or have both picked it.      *)
LEMMA InvStackSafe == NoExitInv => StackSafe
BY DEF NoExitInv, StackSafe, OnStack, Placed, PickedOnce, TypeOK

(* At the start one process runs on the first processor.                   *)
LEMMA InitInv == ASSUME MayExit = {} PROVE Init => NoExitInv
<1> SUFFICES ASSUME Init PROVE NoExitInv  OBVIOUS
<1> USE SchOfType, NilType
<1>0. 0 \in Mach /\ Mach \subseteq Int  BY ConstantsOK DEF Mach
<1>1. PICK p \in Proc :
        /\ state = [q \in Proc |-> IF q = p THEN "Running" ELSE "Dead"]
        /\ mach = [q \in Proc |-> IF q = p THEN 0 ELSE nil]
        /\ sch = [q \in Proc |-> IF q = p THEN SchOf(0) ELSE nil]
        /\ up = [m \in Mach |-> IF m = 0 THEN p ELSE nil]
        /\ free = Proc \ {p}
  BY DEF Init
<1>2. TypeOK  BY <1>0, <1>1 DEF Init, TypeOK, States
<1>3. QueuedOnce  BY <1>1 DEF Init, QueuedOnce, Queued
<1>4. Placed /\ PickedOnce /\ Alive
  BY <1>0, <1>1 DEF Init, Placed, PickedOnce, Alive
<1> QED  BY <1>2, <1>3, <1>4 DEF NoExitInv

(* linkproc() of a process that is on no queue and becomes Ready.          *)
LEMMA LinkQueuedOnce ==
  ASSUME TypeOK, QueuedOnce,
         NEW p \in Proc, NEW s \in Scheds, NEW pri \in Pri,
         state[p] # "Ready", state' = [state EXCEPT ![p] = "Ready"],
         linkproc(p, s, pri)
  PROVE  /\ QueuedOnce'
         /\ runq' \in [Scheds -> [Pri -> SUBSET Proc]]
         /\ nrdy' \in [Scheds -> Int]
         /\ runvec' \in [Scheds -> SUBSET Pri]
<1>1. /\ runq' = [runq EXCEPT ![s][pri] = @ \cup {p}]
      /\ nrdy' = [nrdy EXCEPT ![s] = @ + 1]
      /\ runvec' = [runvec EXCEPT ![s] = @ \cup {pri}]
  BY DEF linkproc
<1>2. /\ runq \in [Scheds -> [Pri -> SUBSET Proc]] /\ state \in [Proc -> States]
      /\ nrdy \in [Scheds -> Int] /\ runvec \in [Scheds -> SUBSET Pri]
  BY DEF TypeOK
<1>3. \A t \in Scheds, a \in Pri :
        runq'[t][a] = IF t = s /\ a = pri THEN runq[t][a] \cup {p} ELSE runq[t][a]
  BY <1>1, <1>2
<1>4. \A t \in Scheds, a \in Pri : p \notin runq[t][a]
  BY <1>2 DEF QueuedOnce, Queued
<1>5. \A q \in Proc, t, u \in Scheds, a, b \in Pri :
        (q \in runq'[t][a] /\ q \in runq'[u][b]) => t = u /\ a = b
  <2> SUFFICES ASSUME NEW q \in Proc, NEW t \in Scheds, NEW u \in Scheds,
                      NEW a \in Pri, NEW b \in Pri,
                      q \in runq'[t][a], q \in runq'[u][b]
               PROVE  t = u /\ a = b
    OBVIOUS
  <2>1. CASE q = p
    <3>1. ASSUME ~(t = s /\ a = pri) PROVE FALSE  BY <3>1, <2>1, <1>3, <1>4
    <3>2. ASSUME ~(u = s /\ b = pri) PROVE FALSE  BY <3>2, <2>1, <1>3, <1>4
    <3> QED  BY <3>1, <3>2
  <2>2. CASE q # p
    <3>1. q \in runq[t][a] /\ q \in runq[u][b]  BY <2>2, <1>3
    <3> QED  BY <3>1 DEF QueuedOnce
  <2> QED  BY <2>1, <2>2
<1>6. ASSUME NEW q \in Proc
      PROVE  state'[q] = "Ready" <=> \E t \in Scheds : q \in Queued(t)'
  <2>1. (\E t \in Scheds : q \in Queued(t)') <=> \E t \in Scheds, a \in Pri : q \in runq'[t][a]
    BY DEF Queued
  <2>2. (\E t \in Scheds : q \in Queued(t)) <=> \E t \in Scheds, a \in Pri : q \in runq[t][a]
    BY DEF Queued
  <2>3. CASE q = p  BY <2>1, <2>3, <1>2, <1>3
  <2>4. CASE q # p
    <3>1. \A t \in Scheds, a \in Pri : q \in runq'[t][a] <=> q \in runq[t][a]
      BY <2>4, <1>3
    <3>2. state'[q] = state[q]  BY <2>4, <1>2
    <3>3. state[q] = "Ready" <=> \E t \in Scheds : q \in Queued(t)  BY DEF QueuedOnce
    <3> QED  BY <3>1, <3>2, <3>3, <2>1, <2>2
  <2> QED  BY <2>3, <2>4
<1>7. QueuedOnce'  BY <1>5, <1>6 DEF QueuedOnce
<1> QED  BY <1>1, <1>2, <1>3, <1>7

(* A step that leaves the run queues and the processes alone.              *)
LEMMA SameQueues ==
  ASSUME QueuedOnce, UNCHANGED runq,
         \A p \in Proc : state'[p] = "Ready" <=> state[p] = "Ready"
  PROVE  QueuedOnce'
BY DEF QueuedOnce, Queued

(* ready(p), of a process whose processor, if any, is on its way out.      *)
LEMMA ReadyInv ==
  ASSUME NoExitInv, NEW p \in Proc, state[p] \in {"Blocked", "Running"}, ready(p)
  PROVE  /\ QueuedOnce'
         /\ runq' \in [Scheds -> [Pri -> SUBSET Proc]]
         /\ nrdy' \in [Scheds -> Int]
         /\ runvec' \in [Scheds -> SUBSET Pri]
         /\ state' = [state EXCEPT ![p] = "Ready"]
<1>1. sch[p] \in Scheds  BY DEF ready, NoExitInv, TypeOK
<1>2. PICK pri \in Pri : linkproc(p, sch[p], pri)  BY DEF ready
<1>3. state' = [state EXCEPT ![p] = "Ready"]  BY DEF ready
<1> QED  BY <1>1, <1>2, <1>3, LinkQueuedOnce DEF NoExitInv

(* The steps of a processor that leave the run queues alone.               *)
LEMMA QuietSteps ==
  ASSUME NoExitInv, NEW m \in Mach,
         \/ sched(m) \/ Block(m) \/ Save(m) \/ clear(m) \/ idle(m)
         \/ dispatch(m) \/ execsched(m)
  PROVE  NoExitInv'
<1> USE NilType, SchOfType DEF NoExitInv
<1>0. up[m] \in Proc \cup {nil} /\ (pc[m] \notin {"pick", "idle"} => up[m] \in Proc)
  BY DEF TypeOK, Placed
<1>1. TypeOK'
  <2>1. CASE sched(m)  BY <1>0, <2>1 DEF TypeOK, sched, qvars, pvars, avars
  <2>2. CASE Block(m)  BY <1>0, <2>2 DEF TypeOK, States, Block, qvars, pvars, avars
  <2>3. CASE Save(m)  BY <1>0, <2>3 DEF TypeOK, Save, qvars, pvars, avars
  <2>4. CASE clear(m)  BY <1>0, <2>4 DEF TypeOK, clear, qvars, avars
  <2>5. CASE idle(m)  BY <1>0, <2>5 DEF TypeOK, idle, qvars, pvars, avars
  <2>6. CASE dispatch(m)  BY <1>0, <2>6 DEF TypeOK, States, dispatch, qvars, avars
  <2>7. CASE execsched(m)  BY <1>0, <2>7 DEF TypeOK, execsched, qvars, avars
  <2> QED  BY <2>1, <2>2, <2>3, <2>4, <2>5, <2>6, <2>7
<1>2. QueuedOnce'
  <2>1. UNCHANGED runq
    BY DEF sched, Block, Save, clear, idle, dispatch, execsched, qvars
  <2>2. \A p \in Proc : state'[p] = "Ready" <=> state[p] = "Ready"
    BY <1>0 DEF TypeOK, Placed, sched, Block, Save, clear, idle, dispatch, execsched
  <2> QED  BY <2>1, <2>2, SameQueues
<1>3. Placed'
  <2>1. CASE sched(m)  BY <1>0, <2>1 DEF TypeOK, Placed, sched, pvars
  <2>2. CASE Block(m)  BY <1>0, <2>2 DEF TypeOK, Placed, Block, pvars
  <2>3. CASE Save(m)  BY <1>0, <2>3 DEF TypeOK, Placed, Save, pvars
  <2>4. CASE clear(m)  BY <1>0, <2>4 DEF TypeOK, Placed, clear, pvars
  <2>5. CASE idle(m)  BY <1>0, <2>5 DEF TypeOK, Placed, idle, pvars
  <2>6. CASE dispatch(m)  BY <1>0, <2>6 DEF TypeOK, Placed, PickedOnce, dispatch, pvars
  <2>7. CASE execsched(m)  BY <1>0, <2>7 DEF TypeOK, Placed, execsched, pvars
  <2> QED  BY <2>1, <2>2, <2>3, <2>4, <2>5, <2>6, <2>7
<1>4. PickedOnce'
  BY <1>0 DEF TypeOK, PickedOnce, sched, Block, Save, clear, idle, dispatch, execsched
<1>5. Alive'
  BY <1>0 DEF TypeOK, Placed, Alive, sched, Block, Save, clear, idle, dispatch, execsched,
              pvars, avars
<1> QED  BY <1>1, <1>2, <1>3, <1>4, <1>5

(* ready() from another processor.                                         *)
LEMMA WakeStep == ASSUME NoExitInv, NEW p \in Proc, Wake(p) PROVE NoExitInv'
<1> USE NilType, SchOfType DEF NoExitInv
<1>1. /\ state[p] = "Blocked" /\ ready(p)
      /\ UNCHANGED <<mach, sch, wired, up, pc, free, procalloc>>
  BY DEF Wake, pvars, avars
<1>2. /\ QueuedOnce' /\ runq' \in [Scheds -> [Pri -> SUBSET Proc]]
      /\ nrdy' \in [Scheds -> Int] /\ runvec' \in [Scheds -> SUBSET Pri]
      /\ state' = [state EXCEPT ![p] = "Ready"]
  BY <1>1, ReadyInv
<1>3. TypeOK'  BY <1>1, <1>2 DEF TypeOK, States
<1>4. Placed' /\ PickedOnce'  BY <1>1, <1>2 DEF TypeOK, Placed, PickedOnce
<1>5. Alive'  BY <1>1, <1>2 DEF TypeOK, Alive
<1> QED  BY <1>2, <1>3, <1>4, <1>5

(* The processor leaves the stack of the process it ran.                   *)
LEMMA SchedinitStep == ASSUME NoExitInv, NEW m \in Mach, schedinit(m) PROVE NoExitInv'
<1> USE NilType, SchOfType DEF NoExitInv
<1>1. /\ pc[m] = "init" /\ up[m] \in Proc /\ mach[up[m]] = m
      /\ state[up[m]] \in {"Running", "Blocked", "Ready"}
      /\ pc' = [pc EXCEPT ![m] = "clear"]
      /\ UNCHANGED <<mach, sch, wired, up>>
  <2>1. pc[m] = "init" /\ pc' = [pc EXCEPT ![m] = "clear"] /\ UNCHANGED <<mach, sch, wired, up>>
    BY DEF schedinit, pvars
  <2>2. up[m] # nil /\ mach[up[m]] = m /\ state[up[m]] \in {"Running", "Blocked", "Ready"}
    BY <2>1 DEF Placed
  <2>3. up[m] \in Proc  BY <2>2 DEF TypeOK
  <2> QED  BY <2>1, <2>2, <2>3
<1>2. CASE state[up[m]] = "Running" /\ ready(up[m]) /\ UNCHANGED avars
  <2>1. /\ QueuedOnce' /\ runq' \in [Scheds -> [Pri -> SUBSET Proc]]
        /\ nrdy' \in [Scheds -> Int] /\ runvec' \in [Scheds -> SUBSET Pri]
        /\ state' = [state EXCEPT ![up[m]] = "Ready"]
    BY <1>1, <1>2, ReadyInv
  <2>2. TypeOK'  BY <1>1, <1>2, <2>1 DEF TypeOK, States, avars
  <2>3. Placed' /\ PickedOnce'
    BY <1>1, <1>2, <2>1 DEF TypeOK, Placed, PickedOnce
  <2>4. Alive'  BY <1>1, <1>2, <2>1 DEF TypeOK, Alive, avars
  <2> QED  BY <2>1, <2>2, <2>3, <2>4
<1>3. CASE state[up[m]] # "Running" /\ UNCHANGED <<qvars, state, avars>>
  <2>1. QueuedOnce'  BY <1>3, SameQueues DEF qvars
  <2>2. TypeOK'  BY <1>1, <1>3 DEF TypeOK, qvars, avars
  <2>3. Placed' /\ PickedOnce'  BY <1>1, <1>3 DEF TypeOK, Placed, PickedOnce
  <2>4. Alive'  BY <1>1, <1>3 DEF Alive, avars
  <2> QED  BY <2>1, <2>2, <2>3, <2>4
<1> QED  BY <1>1, <1>2, <1>3 DEF schedinit

(* A new process takes a slot that nobody uses.                            *)
LEMMA NewprocStep ==
  ASSUME NoExitInv, NEW p \in Proc, NEW s \in Scheds, NEW w \in Mach \cup {nil}, newproc(p, s, w),
         NEW m \in Mach, pc[m] = "up",
         \/ UNCHANGED pc
         \/ pc' = [pc EXCEPT ![m] = "init"]
  PROVE  NoExitInv'
<1> USE NilType, SchOfType DEF NoExitInv
<1>1. /\ p \in free /\ free' = free \ {p} /\ state[p] = "Dead"
      /\ mach' = [mach EXCEPT ![p] = nil]
      /\ wired' = [wired EXCEPT ![p] = w]
      /\ sch' = [sch EXCEPT ![p] = s]
      /\ state' = [state EXCEPT ![p] = "Ready"]
      /\ UNCHANGED <<up, procalloc>>
  BY DEF newproc, psalloc, Alive
<1>2. PICK pri \in Pri : linkproc(p, s, pri)  BY DEF newproc
<1>3. /\ QueuedOnce' /\ runq' \in [Scheds -> [Pri -> SUBSET Proc]]
      /\ nrdy' \in [Scheds -> Int] /\ runvec' \in [Scheds -> SUBSET Pri]
  BY <1>1, <1>2, LinkQueuedOnce
<1>4. TypeOK'  BY <1>1, <1>3 DEF TypeOK, States
<1>5. \A n \in Mach : up[n] # p
  <2>1. SUFFICES ASSUME NEW n \in Mach, up[n] = p PROVE FALSE  OBVIOUS
  <2>2. pc[n] \notin {"pick", "idle"}  BY <2>1 DEF Placed
  <2>3. pc[n] \in {"up", "out", "init", "clear", "got"}  BY <2>2 DEF TypeOK
  <2>4. state[up[n]] # "Dead"  BY <2>3 DEF Placed
  <2> QED  BY <1>1, <2>1, <2>4
<1>6. Placed' /\ PickedOnce'
  <2>1. CASE UNCHANGED pc  BY <2>1, <1>1, <1>5 DEF TypeOK, Placed, PickedOnce
  <2>2. CASE pc' = [pc EXCEPT ![m] = "init"]
    BY <2>2, <1>1, <1>5 DEF TypeOK, Placed, PickedOnce
  <2> QED  BY <2>1, <2>2
<1>7. Alive'  BY <1>1 DEF TypeOK, Alive
<1> QED  BY <1>3, <1>4, <1>6, <1>7

(* kproc() starts a process.                                               *)
LEMMA KprocStep ==
  ASSUME NoExitInv, NEW m \in Mach, NEW p \in Proc, kproc(m, p) PROVE NoExitInv'
  BY NewprocStep, SchOfType DEF kproc

(* rfork() starts a process.                                               *)
LEMMA RforkStep ==
  ASSUME NoExitInv, NEW m \in Mach, NEW p \in Proc, rfork(m, p) PROVE NoExitInv'
<1>1. up[m] \in Proc  BY NilType DEF rfork, NoExitInv, Placed, TypeOK
<1>2. sch[up[m]] \in Scheds /\ wired[up[m]] \in Mach \cup {nil}
  BY <1>1 DEF rfork, NoExitInv, TypeOK
<1> QED  BY <1>2, NewprocStep DEF rfork

(* A process is wired to a processor.                                      *)
LEMMA WireStep ==
  ASSUME NoExitInv, NEW m \in Mach, NEW p \in Proc, procwired(m, p) PROVE NoExitInv'
<1> USE DEF NoExitInv
<1>1. UNCHANGED <<runq, nrdy, runvec, state, mach, sch, up, pc, free, procalloc>>
  BY DEF procwired, qvars, avars
<1>2. wired' \in [Proc -> Mach \cup {nil}]  BY ConstantsOK DEF procwired, TypeOK
<1>3. QueuedOnce'  BY <1>1, SameQueues
<1> QED  BY <1>1, <1>2, <1>3 DEF TypeOK, Placed, PickedOnce, Alive

(* The queues of one scheduler after rebalance(), and perhaps without the  *)
(* process that was picked: still disjoint, and of the same processes.     *)
LEMMA RequeuedOnce ==
  ASSUME TypeOK, QueuedOnce, NEW s \in Scheds, NEW npri \in [Queued(s) -> Pri],
         NEW gone \in SUBSET Queued(s),
         runq' = [runq EXCEPT ![s] =
                    [pri \in Pri |-> {p \in Queued(s) : npri[p] = pri} \ gone]],
         \A p \in Proc : state'[p] = "Ready" <=> (state[p] = "Ready" /\ p \notin gone)
  PROVE  QueuedOnce' /\ runq' \in [Scheds -> [Pri -> SUBSET Proc]]
<1>1. runq \in [Scheds -> [Pri -> SUBSET Proc]]  BY DEF TypeOK
<1>2. Queued(s) \subseteq Proc  BY <1>1 DEF Queued
<1>3. /\ \A t \in Scheds : t # s => runq'[t] = runq[t]
      /\ \A a \in Pri : runq'[s][a] = {p \in Queued(s) : npri[p] = a} \ gone
  BY <1>1
<1>4. \A t \in Scheds, a \in Pri : \A q \in runq[t][a] : q \in Queued(t)
  BY DEF Queued
<1>5. \A q \in Proc, t \in Scheds : q \in Queued(s) /\ q \in Queued(t) => s = t
  BY DEF Queued, QueuedOnce
<1>6. ASSUME NEW q \in Proc, NEW t \in Scheds, NEW u \in Scheds, NEW a \in Pri, NEW b \in Pri,
             q \in runq'[t][a], q \in runq'[u][b]
      PROVE  t = u /\ a = b
  <2>1. CASE t = s /\ u = s  BY <2>1, <1>3, <1>6
  <2>2. CASE t # s /\ u # s  BY <2>2, <1>3, <1>6 DEF QueuedOnce
  <2>3. CASE t = s /\ u # s  BY <2>3, <1>3, <1>4, <1>5, <1>6
  <2>4. CASE t # s /\ u = s  BY <2>4, <1>3, <1>4, <1>5, <1>6
  <2> QED  BY <2>1, <2>2, <2>3, <2>4
<1>7. ASSUME NEW q \in Proc, NEW t \in Scheds
      PROVE  q \in Queued(t)' <=> (q \in Queued(t) /\ q \notin gone)
  <2>1. q \in Queued(t)' <=> \E a \in Pri : q \in runq'[t][a]  BY DEF Queued
  <2>2. q \in Queued(t) <=> \E a \in Pri : q \in runq[t][a]  BY DEF Queued
  <2>3. CASE t = s  BY <2>1, <2>3, <1>3
  <2>4. CASE t # s  BY <2>1, <2>2, <2>4, <1>3, <1>5
  <2> QED  BY <2>3, <2>4
<1>8. \A q \in Proc : state'[q] = "Ready" <=> \E t \in Scheds : q \in Queued(t)'
  BY <1>7 DEF QueuedOnce
<1>9. QueuedOnce'  BY <1>6, <1>8 DEF QueuedOnce
<1>10. runq' \in [Scheds -> [Pri -> SUBSET Proc]]  BY <1>1, <1>2
<1> QED  BY <1>9, <1>10

(* Rebalancing keeps the summary bits of the run queues.                   *)
LEMMA RebalancedBitsType ==
  ASSUME TypeOK, NEW s \in Scheds, NEW rq
  PROVE  RebalancedBits(s, rq) \subseteq Pri
BY DEF RebalancedBits, TypeOK

(* runproc() that picks p: nobody else has it, because p->mach is nil and  *)
(* p was on the queue until now.                                           *)
LEMMA PickStep ==
  ASSUME NoExitInv, NEW m \in Mach, pc[m] = "pick",
         NEW npri \in [Queued(SchOf(m)) -> Pri], NEW rq,
         rq = [pri \in Pri |-> {q \in Queued(SchOf(m)) : npri[q] = pri}],
         NEW pri \in Pri, NEW p \in Proc, p \in rq[pri], Eligible(m, p),
         unlinkproc(SchOf(m), rq, pri, p),
         sch' = [sch EXCEPT ![p] = Rewired(p)],
         state' = [state EXCEPT ![p] = "Scheding"],
         up' = [up EXCEPT ![m] = p],
         pc' = [pc EXCEPT ![m] = "got"],
         UNCHANGED <<mach, wired, avars>>
  PROVE  NoExitInv'
<1> USE NilType, SchOfType DEF NoExitInv
<1> DEFINE s == SchOf(m)
<1>1. p \in Queued(s) /\ s \in Scheds  OBVIOUS
<1>2. state[p] = "Ready" /\ mach[p] = nil  BY <1>1 DEF QueuedOnce, Eligible
<1>3. runq' = [runq EXCEPT ![s] =
                 [b \in Pri |-> {q \in Queued(s) : npri[q] = b} \ {p}]]
  <2>1. runq' = [runq EXCEPT ![s] = [rq EXCEPT ![pri] = @ \ {p}]]  BY DEF unlinkproc
  <2>2. [rq EXCEPT ![pri] = @ \ {p}] = [b \in Pri |-> {q \in Queued(s) : npri[q] = b} \ {p}]
    OBVIOUS
  <2> QED  BY <2>1, <2>2
<1>4. \A q \in Proc : state'[q] = "Ready" <=> (state[q] = "Ready" /\ q \notin {p})
  BY DEF TypeOK
<1>5. QueuedOnce' /\ runq' \in [Scheds -> [Pri -> SUBSET Proc]]
  <2>1. {p} \in SUBSET Queued(s)  BY <1>1
  <2> QED  BY <1>1, <1>3, <1>4, <2>1, RequeuedOnce
<1>6. Rewired(p) \in Scheds  BY <1>2 DEF Rewired, TypeOK, Alive
<1>7. nrdy' \in [Scheds -> Int]  BY <1>6 DEF unlinkproc, TypeOK
<1>8. runvec' \in [Scheds -> SUBSET Pri]
  <2>1. RebalancedBits(s, rq) \subseteq Pri  BY RebalancedBitsType
  <2>2. runvec \in [Scheds -> SUBSET Pri]  BY DEF TypeOK
  <2>3. CASE runvec' = [runvec EXCEPT ![s] = RebalancedBits(s, rq)]
    BY <1>1, <2>1, <2>2, <2>3
  <2>4. CASE runvec' = [runvec EXCEPT ![s] = RebalancedBits(s, rq) \ {pri}]
    BY <1>1, <2>1, <2>2, <2>4
  <2>5. CASE \E b \in Pri \cup {nil} : runvec' = [runvec EXCEPT
               ![s] = RebalancedBits(s, rq), ![Rewired(p)] = @ \ {b}]
    <3>1. PICK b : runvec' = [runvec EXCEPT
               ![s] = RebalancedBits(s, rq), ![Rewired(p)] = @ \ {b}]
      BY <2>5
    <3> QED  BY <1>1, <1>6, <2>1, <2>2, <3>1
  <2> QED  BY <2>3, <2>4, <2>5 DEF unlinkproc
<1>9. TypeOK'  BY <1>5, <1>6, <1>7, <1>8 DEF TypeOK, States, avars
<1>10. \A n \in Mach : up[n] = p => pc[n] \in {"out", "init", "clear", "up"}
  <2> SUFFICES ASSUME NEW n \in Mach, up[n] = p
               PROVE  pc[n] \in {"out", "init", "clear", "up"}
    OBVIOUS
  <2>1. pc[n] \in {"up", "out", "init", "clear", "pick", "idle", "got"}  BY DEF TypeOK
  <2>2. pc[n] \notin {"pick", "idle"}  BY DEF Placed
  <2>3. pc[n] # "got"  BY <1>2 DEF Placed
  <2> QED  BY <2>1, <2>2, <2>3
<1>11. \A n \in Mach : up[n] # p  BY <1>2, <1>10 DEF Placed
<1>12. Placed'  BY <1>2, <1>11 DEF Placed, TypeOK
<1>13. PickedOnce'  BY <1>11 DEF PickedOnce, TypeOK
<1>14. Alive'  BY <1>2, <1>6 DEF Alive, TypeOK, avars
<1> QED  BY <1>5, <1>9, <1>12, <1>13, <1>14

(* runproc() finds a process in a run queue and takes it off.              *)
LEMMA RunprocStep == ASSUME NoExitInv, NEW m \in Mach, runproc(m) PROVE NoExitInv'
<1> USE NilType, SchOfType DEF NoExitInv
<1> DEFINE s == SchOf(m)
<1>1. pc[m] = "pick" /\ UNCHANGED <<mach, wired, avars>>  BY DEF runproc
<1>2. PICK rq \in Rebalanced(s) :
        \/ \E pri \in Pri, p \in Proc :
              /\ p \in rq[pri] /\ Eligible(m, p)
              /\ unlinkproc(s, rq, pri, p)
              /\ sch' = [sch EXCEPT ![p] = Rewired(p)]
              /\ state' = [state EXCEPT ![p] = "Scheding"]
              /\ up' = [up EXCEPT ![m] = p]
              /\ pc' = [pc EXCEPT ![m] = "got"]
        \/ /\ runq' = [runq EXCEPT ![s] = rq]
           /\ runvec' = [runvec EXCEPT ![s] = RebalancedBits(s, rq)]
           /\ pc' = [pc EXCEPT ![m] = "idle"]
           /\ UNCHANGED <<nrdy, sch, state, up>>
  BY DEF runproc
<1>3. PICK npri \in [Queued(s) -> Pri] :
        rq = [pri \in Pri |-> {q \in Queued(s) : npri[q] = pri}]
  BY DEF Rebalanced
<1>4. CASE \E pri \in Pri, p \in Proc :
              /\ p \in rq[pri] /\ Eligible(m, p)
              /\ unlinkproc(s, rq, pri, p)
              /\ sch' = [sch EXCEPT ![p] = Rewired(p)]
              /\ state' = [state EXCEPT ![p] = "Scheding"]
              /\ up' = [up EXCEPT ![m] = p]
              /\ pc' = [pc EXCEPT ![m] = "got"]
  BY <1>1, <1>3, <1>4, PickStep
<1>5. CASE /\ runq' = [runq EXCEPT ![s] = rq]
           /\ runvec' = [runvec EXCEPT ![s] = RebalancedBits(s, rq)]
           /\ pc' = [pc EXCEPT ![m] = "idle"]
           /\ UNCHANGED <<nrdy, sch, state, up>>
  <2>0. PICK gone \in SUBSET Queued(s) : gone = {}  OBVIOUS
  <2>1. rq = [pri \in Pri |-> {q \in Queued(s) : npri[q] = pri} \ gone]  BY <1>3, <2>0
  <2>2. QueuedOnce' /\ runq' \in [Scheds -> [Pri -> SUBSET Proc]]
    <3>1. s \in Scheds  OBVIOUS
    <3>2. \A p \in Proc : state'[p] = "Ready" <=> (state[p] = "Ready" /\ p \notin gone)
      BY <1>5, <2>0
    <3>3. runq' = [runq EXCEPT ![s] =
                     [pri \in Pri |-> {q \in Queued(s) : npri[q] = pri} \ gone]]
      BY <1>5, <2>1
    <3> QED  BY <3>1, <3>2, <3>3, RequeuedOnce
  <2>3. TypeOK'  BY <1>1, <1>5, <2>2, RebalancedBitsType DEF TypeOK, avars
  <2>4. Placed' /\ PickedOnce' /\ Alive'
    BY <1>1, <1>5 DEF TypeOK, Placed, PickedOnce, Alive, avars
  <2> QED  BY <2>2, <2>3, <2>4
<1> QED  BY <1>2, <1>4, <1>5

(* NoExitInv is inductive while no process exits.                          *)
LEMMA NextInv == ASSUME MayExit = {} PROVE NoExitInv /\ [Next]_vars => NoExitInv'
<1> SUFFICES ASSUME NoExitInv, [Next]_vars PROVE NoExitInv'  OBVIOUS
<1>1. ASSUME NEW m \in Mach,
             \/ sched(m) \/ Block(m) \/ Save(m) \/ clear(m) \/ idle(m)
             \/ dispatch(m) \/ execsched(m)
      PROVE  NoExitInv'
  BY <1>1, QuietSteps
<1>2. ASSUME NEW m \in Mach, schedinit(m) PROVE NoExitInv'  BY <1>2, SchedinitStep
<1>3. ASSUME NEW m \in Mach, runproc(m) PROVE NoExitInv'  BY <1>3, RunprocStep
<1>4. ASSUME NEW m \in Mach, pexitSch(m) \/ pexit(m) PROVE FALSE
  BY <1>4, NilType DEF pexitSch, pexit, NoExitInv, TypeOK, Placed, Alive
<1>5. ASSUME NEW p \in Proc, Wake(p) PROVE NoExitInv'  BY <1>5, WakeStep
<1>6. ASSUME NEW m \in Mach, NEW p \in Proc, kproc(m, p) \/ rfork(m, p) \/ procwired(m, p)
      PROVE  NoExitInv'
  BY <1>6, KprocStep, RforkStep, WireStep
<1>7. CASE UNCHANGED vars
  <2>1. QueuedOnce'  BY <1>7, SameQueues DEF vars, NoExitInv
  <2> QED  BY <1>7, <2>1 DEF vars, NoExitInv, TypeOK, Placed, PickedOnce, Alive
<1> QED  BY <1>1, <1>2, <1>3, <1>4, <1>5, <1>6, <1>7 DEF Next, Steps

(* While no process exits, sched(), runproc() and schedinit() never let    *)
(* two processors use the kernel stack of one process.                     *)
THEOREM StackSafety == ASSUME MayExit = {} PROVE Spec => []StackSafe
<1>1. Spec => []NoExitInv  BY InitInv, NextInv, PTL DEF Spec
<1>2. NoExitInv => StackSafe  BY InvStackSafe
<1> QED  BY <1>1, <1>2, PTL

(* While no process exits, every Ready process is on exactly one run       *)
(* queue: ready(), runproc(), rebalance() and wiring lose nobody and link  *)
(* nobody twice.                                                           *)
THEOREM ReadyQueuedOnce == ASSUME MayExit = {} PROVE Spec => []QueuedOnce
<1>1. Spec => []NoExitInv  BY InitInv, NextInv, PTL DEF Spec
<1>2. NoExitInv => QueuedOnce  BY DEF NoExitInv
<1> QED  BY <1>1, <1>2, PTL
-----------------------------------------------------------------------------
(* A processor that does not look for a process has one: what the types    *)
(* of the tables rest on, also while processes exit.                       *)
HasUp == \A m \in Mach : pc[m] \in {"pick", "idle"} \/ up[m] \in Proc

(* linkproc() on the queue of a scheduler.                                 *)
LEMMA LinkTypes ==
  ASSUME TypeOK, NEW p \in Proc, NEW s \in Scheds, NEW pri \in Pri, linkproc(p, s, pri)
  PROVE  /\ runq' \in [Scheds -> [Pri -> SUBSET Proc]]
         /\ nrdy' \in [Scheds -> Int] /\ runvec' \in [Scheds -> SUBSET Pri]
<1>1. nrdy' \in [Scheds -> Int] /\ runvec' \in [Scheds -> SUBSET Pri]
  BY DEF linkproc, TypeOK
<1>2. runq[s][pri] \cup {p} \in SUBSET Proc /\ runq[s] \in [Pri -> SUBSET Proc]
  BY DEF TypeOK
<1>3. [runq[s] EXCEPT ![pri] = @ \cup {p}] \in [Pri -> SUBSET Proc]
  BY <1>2
<1>4. runq' = [runq EXCEPT ![s] = [runq[s] EXCEPT ![pri] = @ \cup {p}]]
  BY DEF linkproc, TypeOK
<1>5. runq' \in [Scheds -> [Pri -> SUBSET Proc]]
  BY <1>3, <1>4 DEF TypeOK
<1> QED BY <1>1, <1>5

(* ready() of a process that has a scheduler.                              *)
LEMMA ReadyTypes ==
  ASSUME TypeOK, NEW p \in Proc, ready(p)
  PROVE  /\ runq' \in [Scheds -> [Pri -> SUBSET Proc]]
         /\ nrdy' \in [Scheds -> Int] /\ runvec' \in [Scheds -> SUBSET Pri]
         /\ state' \in [Proc -> States]
<1>1. sch[p] \in Scheds
  BY DEF ready, TypeOK
<1>2. PICK pri \in Pri : linkproc(p, sch[p], pri)
  BY DEF ready
<1>3. state' \in [Proc -> States]
  BY DEF ready, TypeOK, States
<1> QED BY <1>1, <1>2, <1>3, LinkTypes

(* newproc() and ready() of the new process.                               *)
LEMMA NewprocTypes ==
  ASSUME TypeOK, NEW p \in Proc, NEW s \in Scheds, NEW w \in Mach \cup {nil},
         newproc(p, s, w), pc' \in [Mach -> {"up", "out", "init", "clear", "pick", "idle", "got"}]
  PROVE  TypeOK'
<1>1. PICK pri \in Pri : linkproc(p, s, pri)
  BY DEF newproc
<1>2. /\ runq' \in [Scheds -> [Pri -> SUBSET Proc]]
      /\ nrdy' \in [Scheds -> Int] /\ runvec' \in [Scheds -> SUBSET Pri]
  BY <1>1, LinkTypes
<1> QED BY <1>2 DEF TypeOK, States, newproc, psalloc

(* rebalance(), and unlinkproc() of the process that is picked, whose      *)
(* scheduler may be none when it exits.                                    *)
LEMMA RunprocTypes ==
  ASSUME TypeOK, HasUp, NEW m \in Mach, runproc(m)
  PROVE  TypeOK' /\ HasUp'
<1> DEFINE s == SchOf(m)
<1>0. s \in Scheds /\ UNCHANGED <<mach, wired, free, procalloc>>
  BY SchOfType DEF runproc, avars
<1>1. PICK rq \in Rebalanced(s) :
         \/ \E pri \in Pri, p \in Proc :
              /\ unlinkproc(s, rq, pri, p)
              /\ sch' = [sch EXCEPT ![p] = Rewired(p)]
              /\ state' = [state EXCEPT ![p] = "Scheding"]
              /\ up' = [up EXCEPT ![m] = p]
              /\ pc' = [pc EXCEPT ![m] = "got"]
         \/ /\ runq' = [runq EXCEPT ![s] = rq]
            /\ runvec' = [runvec EXCEPT ![s] = RebalancedBits(s, rq)]
            /\ pc' = [pc EXCEPT ![m] = "idle"]
            /\ UNCHANGED <<nrdy, sch, state, up>>
  BY Zenon DEF runproc
<1>2. rq \in [Pri -> SUBSET Proc]
  <2>1. PICK npri \in [Queued(s) -> Pri] : rq = [pri \in Pri |-> {p \in Queued(s) : npri[p] = pri}]
    BY <1>1 DEF Rebalanced
  <2>2. Queued(s) \subseteq Proc
    BY <1>0 DEF Queued, TypeOK
  <2> QED BY <2>1, <2>2
<1>3. RebalancedBits(s, rq) \subseteq Pri
  BY <1>0, RebalancedBitsType
<1> HIDE DEF s
<1>4. ASSUME NEW pri \in Pri, NEW p \in Proc, unlinkproc(s, rq, pri, p),
             sch' = [sch EXCEPT ![p] = Rewired(p)],
             state' = [state EXCEPT ![p] = "Scheding"],
             up' = [up EXCEPT ![m] = p],
             pc' = [pc EXCEPT ![m] = "got"]
      PROVE  TypeOK' /\ HasUp'
  <2>1. Rewired(p) \in Scheds \cup {nil}
    BY SchOfType DEF Rewired, TypeOK
  <2>2. runq' \in [Scheds -> [Pri -> SUBSET Proc]]
    <3>1. [rq EXCEPT ![pri] = @ \ {p}] \in [Pri -> SUBSET Proc]
      BY <1>2
    <3> QED BY <1>0, <1>4, <3>1 DEF unlinkproc, TypeOK
  <2>3. nrdy' \in [Scheds -> Int]
    <3>1. nrdy' = [nrdy EXCEPT ![Rewired(p)] = @ - 1] /\ nrdy \in [Scheds -> Int]
      BY <1>4 DEF unlinkproc, TypeOK
    <3>2. \A t \in Scheds : nrdy[t] - 1 \in Int
      BY <3>1
    <3> QED BY <2>1, <3>1, <3>2
  <2>4. runvec' \in [Scheds -> SUBSET Pri]
    <3> DEFINE rvec == RebalancedBits(s, rq)
    <3>1. \/ runvec' = [runvec EXCEPT ![s] = rvec]
          \/ runvec' = [runvec EXCEPT ![s] = rvec \ {pri}]
          \/ \E b \in Pri \cup {nil} :
                runvec' = [runvec EXCEPT ![s] = rvec, ![Rewired(p)] = @ \ {b}]
      BY <1>4 DEF unlinkproc
    <3>2. rvec \in SUBSET Pri /\ rvec \ {pri} \in SUBSET Pri
      BY <1>3
    <3>3. runvec \in [Scheds -> SUBSET Pri]
      BY DEF TypeOK
    <3> HIDE DEF rvec
    <3> QED BY <1>0, <2>1, <3>1, <3>2, <3>3
  <2>5. TypeOK'
    BY <1>0, <1>4, <2>1, <2>2, <2>3, <2>4 DEF TypeOK, States
  <2>6. HasUp'
    BY <1>4 DEF HasUp, TypeOK
  <2> QED BY <2>5, <2>6
<1>5. ASSUME runq' = [runq EXCEPT ![s] = rq],
             runvec' = [runvec EXCEPT ![s] = RebalancedBits(s, rq)],
             pc' = [pc EXCEPT ![m] = "idle"],
             UNCHANGED <<nrdy, sch, state, up>>
      PROVE  TypeOK' /\ HasUp'
  <2>1. RebalancedBits(s, rq) \in SUBSET Pri
    BY <1>3
  <2> QED BY <1>0, <1>2, <1>5, <2>1 DEF TypeOK, HasUp
<1> QED BY <1>1, <1>4, <1>5

(* Every variable keeps its type, and runvec the bits of run queues only,  *)
(* also while processes exit and their slots are used again: unlinkproc()  *)
(* with an index out of range and ready() of an exiting process included.  *)
THEOREM TypesKept == Spec => []TypeOK
<1>1. Init => TypeOK /\ HasUp
  <2> SUFFICES ASSUME Init PROVE TypeOK /\ HasUp
    OBVIOUS
  <2> USE SchOfType, NilType
  <2>0. 0 \in Mach /\ Mach \subseteq Int
    BY ConstantsOK DEF Mach
  <2>1. PICK p \in Proc :
        /\ state = [q \in Proc |-> IF q = p THEN "Running" ELSE "Dead"]
        /\ mach = [q \in Proc |-> IF q = p THEN 0 ELSE nil]
        /\ sch = [q \in Proc |-> IF q = p THEN SchOf(0) ELSE nil]
        /\ up = [m \in Mach |-> IF m = 0 THEN p ELSE nil]
        /\ free = Proc \ {p}
    BY DEF Init
  <2> QED BY <2>0, <2>1 DEF Init, TypeOK, States, HasUp
<1>2. TypeOK /\ HasUp /\ [Next]_vars => TypeOK' /\ HasUp'
  <2> SUFFICES ASSUME TypeOK, HasUp, [Next]_vars PROVE TypeOK' /\ HasUp'
    OBVIOUS
  <2>1. ASSUME NEW m \in Mach,
               sched(m) \/ Save(m) \/ idle(m) \/ execsched(m) \/ pexitSch(m)
        PROVE  TypeOK' /\ HasUp'
    BY <2>1, ZenonT(60) DEF TypeOK, HasUp, sched, Save, idle, execsched, pexitSch, qvars, pvars, avars
  <2>2. ASSUME NEW m \in Mach, Block(m) \/ dispatch(m) \/ pexit(m)
        PROVE  TypeOK' /\ HasUp'
    <3>1. CASE Block(m)
      BY <3>1 DEF TypeOK, HasUp, States, Block, qvars, pvars, avars
    <3>2. CASE dispatch(m)
      BY <3>2 DEF TypeOK, HasUp, States, dispatch, qvars, avars
    <3>3. CASE pexit(m)
      BY <3>3 DEF TypeOK, HasUp, States, pexit, qvars, pvars
    <3> QED BY <2>2, <3>1, <3>2, <3>3
  <2>3. ASSUME NEW m \in Mach, clear(m) PROVE TypeOK' /\ HasUp'
    BY <2>3 DEF TypeOK, HasUp, clear, qvars, avars
  <2>4. ASSUME NEW m \in Mach, schedinit(m) PROVE TypeOK' /\ HasUp'
    <3>1. up[m] \in Proc
      BY <2>4 DEF HasUp, schedinit
    <3>2. UNCHANGED <<mach, sch, wired, up>> /\ pc' = [pc EXCEPT ![m] = "clear"]
      BY <2>4 DEF schedinit, pvars
    <3>3. /\ runq' \in [Scheds -> [Pri -> SUBSET Proc]]
          /\ nrdy' \in [Scheds -> Int] /\ runvec' \in [Scheds -> SUBSET Pri]
          /\ state' \in [Proc -> States] /\ free' \subseteq Proc /\ procalloc' \in BOOLEAN
      <4>1. CASE ready(up[m]) /\ UNCHANGED avars
        BY <4>1, <3>1, ReadyTypes DEF TypeOK, avars
      <4>2. CASE /\ state' = [state EXCEPT ![up[m]] = "Dead"]
                 /\ free' = free \cup {up[m]} /\ procalloc' = FALSE /\ UNCHANGED qvars
        BY <4>2, <3>1 DEF TypeOK, States, qvars
      <4>3. CASE UNCHANGED <<qvars, state, avars>>
        BY <4>3 DEF TypeOK, qvars, avars
      <4> QED BY <2>4, <4>1, <4>2, <4>3 DEF schedinit
    <3> QED BY <3>1, <3>2, <3>3 DEF TypeOK, HasUp
  <2>5. ASSUME NEW m \in Mach, runproc(m) PROVE TypeOK' /\ HasUp'
    BY <2>5, RunprocTypes
  <2>6. ASSUME NEW p \in Proc, Wake(p) PROVE TypeOK' /\ HasUp'
    <3>1. UNCHANGED <<mach, sch, wired, up, pc, free, procalloc>> /\ ready(p)
      BY <2>6 DEF Wake, pvars, avars
    <3> QED BY <3>1, ReadyTypes DEF TypeOK, HasUp
  <2>7. ASSUME NEW m \in Mach, NEW p \in Proc, kproc(m, p) \/ rfork(m, p)
        PROVE  TypeOK' /\ HasUp'
    <3>1. CASE kproc(m, p)
      <4>1. newproc(p, SchOf(m), nil) /\ pc' = pc
        BY <3>1 DEF kproc
      <4>2. TypeOK'
        BY <4>1, SchOfType, NewprocTypes DEF TypeOK
      <4> QED BY <4>1, <4>2 DEF HasUp, newproc
    <3>2. CASE rfork(m, p)
      <4>1. /\ newproc(p, sch[up[m]], wired[up[m]]) /\ pc' = [pc EXCEPT ![m] = "init"]
            /\ up[m] \in Proc /\ sch[up[m]] \in Scheds /\ wired[up[m]] \in Mach \cup {nil}
        BY <3>2 DEF rfork, HasUp, TypeOK
      <4>2. TypeOK'
        BY <4>1, NewprocTypes DEF TypeOK
      <4> QED BY <4>1, <4>2 DEF HasUp, newproc, TypeOK
    <3> QED BY <2>7, <3>1, <3>2
  <2>8. ASSUME NEW m \in Mach, NEW p \in Proc, procwired(m, p) PROVE TypeOK' /\ HasUp'
    BY <2>8, ConstantsOK DEF TypeOK, HasUp, procwired, qvars, avars
  <2>9. CASE UNCHANGED vars
    BY <2>9 DEF TypeOK, HasUp, vars
  <2> QED BY <2>1, <2>2, <2>3, <2>4, <2>5, <2>6, <2>7, <2>8, <2>9 DEF Next, Steps
<1> QED BY <1>1, <1>2, PTL DEF Spec
=============================================================================
