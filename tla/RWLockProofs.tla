---------------------------- MODULE RWLockProofs ----------------------------
(***************************************************************************)
(* The reader/writer lock of RWLock excludes for every set of processes.   *)
(***************************************************************************)
EXTENDS RWLock, SequenceTheorems, FiniteSetTheorems, TLAPS

(* The holders are finite sets, so their cardinalities are numbers.        *)
LEMMA HoldersFinite == IsFiniteSet(Readers) /\ IsFiniteSet(Writers)
<1>1. Readers \in SUBSET Proc /\ Writers \in SUBSET Proc  BY DEF Readers, Writers
<1>2. QED  BY <1>1, ProcFinite, FS_Subset

(* The lock is born free.                                                  *)
LEMMA InitInv == Init => IInv
<1> SUFFICES ASSUME Init PROVE IInv  OBVIOUS
<1>1. TypeOK  BY EmptySeq DEF Init, TypeOK, ProcState, PC
<1>2. Readers = {} /\ Writers = {}  BY DEF Init, Readers, Writers
<1>3. Counters  BY <1>2, FS_EmptySet DEF Counters, Init
<1>4. queue = <<>> /\ Len(queue) = 0  BY DEF Init
<1>5. QueueInv /\ CallInv  BY <1>4 DEF QueueInv, CallInv, Init
<1>6. Exclusion  BY <1>2 DEF Exclusion
<1>7. NoStrandedWaiter /\ NoPanic  BY <1>4 DEF NoStrandedWaiter, NoPanic, Init
<1> QED  BY <1>1, <1>3, <1>5, <1>6, <1>7 DEF IInv

(* rlock() that queues.                                                    *)
LEMMA EnqueueInv ==
  ASSUME IInv, NEW p \in Proc, pc[p] = "out",
         NEW st \in {"QueueingR", "QueueingW"},
         NEW call, call = IF st = "QueueingR" THEN "rlock" ELSE "wlock",
         writer \/ readers # 0,
         (writer \/ queue # <<>>) \/ st = "QueueingW",
         Enqueue(p, st, call)
  PROVE  IInv'
<1> USE DEF IInv, TypeOK, PC, ProcState
<1>1. /\ queue' = Append(queue, p)
      /\ state' = [state EXCEPT ![p] = st]
      /\ pc' = [pc EXCEPT ![p] = call]
      /\ UNCHANGED <<readers, writer, oncpu>>
  BY DEF Enqueue
<1>2. /\ queue' \in Seq(Proc) /\ Len(queue') = Len(queue) + 1 /\ queue' # <<>>
      /\ \A i \in 1..Len(queue) : queue'[i] = queue[i]
      /\ queue'[Len(queue)+1] = p
  BY <1>1, AppendProperties
<1>3. TypeOK'  BY <1>1, <1>2
<1>4. state[p] = "Running" /\ \A i \in 1..Len(queue) : queue[i] # p
  BY DEF CallInv, QueueInv
<1>5. QueueInv'
  <2>1. Len(queue) \in Nat  OBVIOUS
  <2>2. ASSUME NEW i \in 1..Len(queue'), NEW j \in 1..Len(queue'), queue'[i] = queue'[j]
        PROVE i = j
    BY <2>1, <2>2, <1>2, <1>4 DEF QueueInv
  <2>3. ASSUME NEW q \in Proc
        PROVE state'[q] \in {"QueueingR", "QueueingW"} <=> \E i \in 1..Len(queue') : queue'[i] = q
    <3>1. CASE q = p  BY <3>1, <2>1, <1>1, <1>2
    <3>2. CASE q # p
      <4>1. state'[q] = state[q]  BY <3>2, <1>1
      <4>2. (\E i \in 1..Len(queue') : queue'[i] = q) <=> (\E i \in 1..Len(queue) : queue[i] = q)
        BY <3>2, <2>1, <1>2, SMTT(30)
      <4>3. QED  BY <4>1, <4>2 DEF QueueInv
    <3>3. QED  BY <3>1, <3>2
  <2>4. QED  BY <2>2, <2>3 DEF QueueInv
<1>6. CallInv'  BY <1>1, <1>4 DEF CallInv
<1>7. Readers' = Readers /\ Writers' = Writers
  BY <1>1, <1>4 DEF Readers, Writers
<1>8. Exclusion' /\ Counters'  BY <1>1, <1>7 DEF Exclusion, Counters
<1>9. NoStrandedWaiter'  BY <1>1 DEF NoStrandedWaiter
<1>10. NoPanic'
  <2>1. Len(queue) \in Nat /\ DOMAIN queue' = 1..Len(queue')  BY <1>2
  <2>2. \A i \in DOMAIN queue' : state'[queue'[i]] \in {"QueueingR", "QueueingW"}
    BY <2>1, <1>5, <1>2, ElementOfSeq DEF QueueInv
  <2>3. ASSUME readers' > 0 PROVE state'[Head(queue')] = "QueueingW"
    <3>1. CASE queue = <<>>
      <4>1. st = "QueueingW"
        <5>1. ~writer  BY <2>3, <1>1, HoldersFinite, FS_EmptySet DEF Exclusion, Counters
        <5>2. QED  BY <5>1, <3>1
      <4>2. Head(queue') = p  BY <3>1, <1>2
      <4>3. QED  BY <4>1, <4>2, <1>1
    <3>2. CASE queue # <<>>
      <4>1. Head(queue') = queue[1] /\ Head(queue) = queue[1] /\ 1 \in 1..Len(queue)
        BY <3>2, <1>2
      <4>2. queue[1] \in Proc /\ queue[1] # p  BY <4>1, <1>4, ElementOfSeq
      <4>3. QED  BY <4>1, <4>2, <3>2, <2>3, <1>1 DEF NoPanic
    <3>3. QED  BY <3>1, <3>2
  <2>4. QED  BY <2>2, <2>3 DEF NoPanic
<1>11. QED  BY <1>3, <1>5, <1>6, <1>8, <1>9, <1>10

(* rlock() and canrlock() that find no writer and no queue.                *)
LEMMA TakeReadInv ==
  ASSUME IInv, NEW p \in Proc, pc[p] = "out", TakeRead(p)
  PROVE  IInv'
<1> USE DEF IInv, TypeOK, PC, ProcState, TakeRead
<1>1. TypeOK'  OBVIOUS
<1>2. state[p] = "Running"  BY DEF CallInv
<1>3. QueueInv' /\ NoPanic' /\ NoStrandedWaiter'
  BY DEF QueueInv, NoPanic, NoStrandedWaiter
<1>4. CallInv'  BY <1>2 DEF CallInv
<1>5. Readers' = Readers \cup {p} /\ Writers' = Writers /\ p \notin Readers
  BY <1>2 DEF Readers, Writers
<1>6. Writers = {}  BY DEF Counters
<1>7. Exclusion'  BY <1>5, <1>6 DEF Exclusion
<1>8. Counters'  BY <1>5, <1>6, HoldersFinite, FS_AddElement DEF Counters
<1>9. QED  BY <1>1, <1>3, <1>4, <1>7, <1>8

(* runlock() and wunlock() hand the lock to the process at the head.       *)
LEMMA HandOver ==
  ASSUME IInv, queue # <<>>, queue' = Tail(queue),
         state' = [state EXCEPT ![Head(queue)] = "Ready"]
  PROVE  /\ Head(queue) \in Proc /\ Head(queue) = queue[1]
         /\ queue' \in Seq(Proc)
         /\ QueueInv'
         /\ \A i \in DOMAIN queue' : state'[queue'[i]] \in {"QueueingR", "QueueingW"}
<1> USE DEF IInv, TypeOK, PC, ProcState
<1> DEFINE h == Head(queue)
<1>1. /\ h \in Proc /\ queue' \in Seq(Proc) /\ Len(queue') = Len(queue) - 1
      /\ \A i \in 1..Len(queue') : queue'[i] = queue[i+1]
      /\ Len(queue) \in Nat \ {0} /\ h = queue[1]
  BY HeadTailProperties, EmptySeq
<1>2. \A i \in 1..Len(queue') : queue'[i] # h /\ queue'[i] \in Proc
  BY <1>1, ElementOfSeq DEF QueueInv
<1>3. ASSUME NEW i \in 1..Len(queue'), NEW j \in 1..Len(queue'), queue'[i] = queue'[j]
      PROVE i = j
  BY <1>1, <1>3 DEF QueueInv
<1>4. ASSUME NEW q \in Proc
      PROVE state'[q] \in {"QueueingR", "QueueingW"} <=> \E i \in 1..Len(queue') : queue'[i] = q
  <2>1. CASE q = h  BY <2>1, <1>1, <1>2
  <2>2. CASE q # h
    <3>1. state'[q] = state[q]  BY <2>2, <1>1
    <3>2. ASSUME NEW i \in 1..Len(queue), queue[i] = q
          PROVE \E j \in 1..Len(queue') : queue'[j] = q
      <4>1. i # 1  BY <3>2, <2>2, <1>1
      <4>2. i - 1 \in 1..Len(queue') /\ queue'[i-1] = q  BY <4>1, <3>2, <1>1
      <4>3. QED  BY <4>2
    <3>3. ASSUME NEW i \in 1..Len(queue'), queue'[i] = q
          PROVE \E j \in 1..Len(queue) : queue[j] = q
      <4>1. i + 1 \in 1..Len(queue) /\ queue[i+1] = q  BY <3>3, <1>1
      <4>2. QED  BY <4>1
    <3>4. QED  BY <3>1, <3>2, <3>3 DEF QueueInv
  <2>3. QED  BY <2>1, <2>2
<1>5. QueueInv'  BY <1>3, <1>4 DEF QueueInv
<1>6. \A i \in DOMAIN queue' : state'[queue'[i]] \in {"QueueingR", "QueueingW"}
  BY <1>5, <1>1, <1>2 DEF QueueInv
<1>7. QED  BY <1>1, <1>5, <1>6

(* runlock(), with the hand-over to a writer by the last reader.           *)
LEMMA RunlockInv ==
  ASSUME IInv, NEW p \in Proc, runlock(p)
  PROVE  IInv'
<1> USE DEF IInv, TypeOK, PC, ProcState
<1>1. /\ pc[p] = "reading" /\ readers' = readers - 1 /\ UNCHANGED oncpu
      /\ pc' = [pc EXCEPT ![p] = "out"]
  BY DEF runlock
<1>2. state[p] = "Running"  BY <1>1 DEF CallInv
<1>3. /\ p \in Readers /\ readers \in Nat \ {0}
      /\ Cardinality(Readers \ {p}) = readers - 1
  <2>1. p \in Readers  BY <1>1 DEF Readers
  <2>2. Cardinality(Readers) = readers  BY DEF Counters
  <2>3. Readers # {}  BY <2>1
  <2>4. readers # 0  BY <2>2, <2>3, HoldersFinite, FS_EmptySet
  <2>5. Cardinality(Readers \ {p}) = readers - 1  BY <2>1, <2>2, HoldersFinite, FS_RemoveElement
  <2>6. QED  BY <2>1, <2>4, <2>5
<1>4. Writers = {} /\ ~writer  BY <1>3 DEF Exclusion, Counters
<1>5. CASE readers - 1 > 0 \/ queue = <<>>
  <2>1. UNCHANGED <<writer, queue, state>>  BY <1>5, <1>3 DEF runlock
  <2>2. TypeOK'  BY <2>1, <1>1, <1>3
  <2>3. Readers' = Readers \ {p} /\ Writers' = Writers
    BY <2>1, <1>1, <1>2 DEF Readers, Writers
  <2>4. QueueInv' /\ CallInv'  BY <2>1, <1>1, <1>2 DEF QueueInv, CallInv
  <2>5. Exclusion' /\ Counters'  BY <2>1, <2>3, <1>1, <1>3, <1>4 DEF Exclusion, Counters
  <2>6. NoStrandedWaiter'  BY <2>1, <1>1, <1>5, <1>3 DEF NoStrandedWaiter
  <2>7. NoPanic'  BY <2>1, <1>1, <1>3 DEF NoPanic
  <2>8. QED  BY <2>2, <2>4, <2>5, <2>6, <2>7
<1>6. CASE readers - 1 = 0 /\ queue # <<>>
  <2> DEFINE h == Head(queue)
  <2>1. /\ state[h] = "QueueingW" /\ queue' = Tail(queue)
        /\ writer' = TRUE /\ state' = [state EXCEPT ![h] = "Ready"]
    BY <1>6, <1>3 DEF runlock
  <2>2. /\ h \in Proc /\ queue' \in Seq(Proc) /\ QueueInv'
        /\ \A i \in DOMAIN queue' : state'[queue'[i]] \in {"QueueingR", "QueueingW"}
    BY <2>1, <1>6, HandOver
  <2>3. TypeOK'  BY <2>1, <2>2, <1>1, <1>3
  <2>4. h # p /\ pc[h] = "wlock"  BY <2>1, <2>2, <1>2 DEF CallInv
  <2>5. CallInv'  BY <2>1, <2>4, <1>1, <1>2 DEF CallInv
  <2>6. Readers' = Readers \ {p}
    BY <2>1, <2>2, <2>4, <1>1, <1>2 DEF Readers
  <2>7. Writers' = {h}
    BY <2>1, <2>2, <2>4, <1>1, <1>2, <1>4 DEF Writers
  <2>8. Readers' = {}  BY <2>6, <1>3, <1>6, HoldersFinite, FS_RemoveElement, FS_EmptySet
  <2>9. Exclusion'  BY <2>7, <2>8 DEF Exclusion
  <2>10. Counters'  BY <2>1, <2>7, <2>8, <1>1, <1>6, FS_EmptySet DEF Counters
  <2>11. NoStrandedWaiter' /\ NoPanic'
    BY <2>1, <2>2, <1>1, <1>6 DEF NoStrandedWaiter, NoPanic
  <2>12. QED  BY <2>2, <2>3, <2>5, <2>9, <2>10, <2>11
<1>7. QED  BY <1>3, <1>5, <1>6

(* wlock() that finds the lock free.                                       *)
LEMMA WlockInv ==
  ASSUME IInv, NEW p \in Proc, pc[p] = "out", readers = 0, ~writer,
         writer' = TRUE, pc' = [pc EXCEPT ![p] = "writing"],
         UNCHANGED <<readers, queue, state, oncpu>>
  PROVE  IInv'
<1> USE DEF IInv, TypeOK, PC, ProcState
<1>1. TypeOK'  OBVIOUS
<1>2. state[p] = "Running"  BY DEF CallInv
<1>3. Readers = {} /\ Writers = {} /\ queue = <<>>
  BY HoldersFinite, FS_EmptySet DEF Counters, NoStrandedWaiter
<1>4. Readers' = {} /\ Writers' = {p}  BY <1>2, <1>3 DEF Readers, Writers
<1>5. Exclusion' /\ Counters'  BY <1>4, FS_EmptySet DEF Exclusion, Counters
<1>6. QueueInv' /\ CallInv' /\ NoStrandedWaiter' /\ NoPanic'
  BY <1>2, <1>3 DEF QueueInv, CallInv, NoStrandedWaiter, NoPanic
<1>7. QED  BY <1>1, <1>5, <1>6

(* wunlock() with nobody waiting, or with a writer at the head.            *)
LEMMA WunlockInv ==
  ASSUME IInv, NEW p \in Proc, wunlock(p), ~WakeReaders
  PROVE  IInv'
<1> USE DEF IInv, TypeOK, PC, ProcState
<1>1. /\ pc[p] = "writing" /\ UNCHANGED oncpu
      /\ pc' = [pc EXCEPT ![p] = "out"]
  BY DEF wunlock
<1>2. state[p] = "Running"  BY <1>1 DEF CallInv
<1>3. Writers = {p} /\ Readers = {} /\ writer /\ readers = 0
  <2>1. p \in Writers  BY <1>1 DEF Writers
  <2>2. Writers = {p} /\ Readers = {}  BY <2>1 DEF Exclusion
  <2>3. QED  BY <2>2, FS_EmptySet DEF Counters
<1>4. CASE queue = <<>> /\ writer' = FALSE /\ UNCHANGED <<readers, queue, state>>
  <2>1. TypeOK'  BY <1>4, <1>1
  <2>2. Readers' = {} /\ Writers' = {}  BY <1>4, <1>1, <1>2, <1>3 DEF Readers, Writers
  <2>3. Exclusion' /\ Counters'  BY <2>2, <1>3, <1>4, FS_EmptySet DEF Exclusion, Counters
  <2>4. QueueInv' /\ CallInv' /\ NoStrandedWaiter' /\ NoPanic'
    BY <1>4, <1>1, <1>2 DEF QueueInv, CallInv, NoStrandedWaiter, NoPanic
  <2>5. QED  BY <2>1, <2>3, <2>4
<1>5. CASE /\ queue # <<>> /\ state[Head(queue)] = "QueueingW"
           /\ queue' = Tail(queue)
           /\ state' = [state EXCEPT ![Head(queue)] = "Ready"]
           /\ UNCHANGED <<readers, writer>>
  <2> DEFINE h == Head(queue)
  <2>2. /\ h \in Proc /\ queue' \in Seq(Proc) /\ QueueInv'
        /\ \A i \in DOMAIN queue' : state'[queue'[i]] \in {"QueueingR", "QueueingW"}
    BY <1>5, HandOver
  <2>3. TypeOK'  BY <2>2, <1>1, <1>5
  <2>4. h # p /\ pc[h] = "wlock"  BY <1>5, <2>2, <1>2 DEF CallInv
  <2>5. CallInv'  BY <1>5, <2>4, <1>1, <1>2 DEF CallInv
  <2>6. Readers' = {}  BY <1>5, <2>2, <2>4, <1>1, <1>2, <1>3 DEF Readers
  <2>7. Writers' = {h}  BY <1>5, <2>2, <2>4, <1>1, <1>2, <1>3 DEF Writers
  <2>8. Exclusion'  BY <2>6, <2>7 DEF Exclusion
  <2>9. Counters'  BY <1>5, <2>6, <2>7, <1>3, FS_EmptySet DEF Counters
  <2>10. NoStrandedWaiter' /\ NoPanic'
    BY <1>5, <2>2, <1>3 DEF NoStrandedWaiter, NoPanic
  <2>11. QED  BY <2>2, <2>3, <2>5, <2>8, <2>9, <2>10
<1>6. QED  BY <1>4, <1>5 DEF wunlock

(* n different processes at the front of the queue are n processes.        *)
LEMMA FrontCardinality ==
  ASSUME NEW n \in Nat, NEW s \in Seq(Proc), n <= Len(s),
         \A i, j \in 1..Len(s) : s[i] = s[j] => i = j
  PROVE  Cardinality({s[i] : i \in 1..n}) = n
<1> DEFINE T == {s[i] : i \in 1..n}
           f == [i \in 1..n |-> s[i]]
<1>1. f \in Surjection(1..n, T)  BY DEF Surjection
<1>2. f \in Injection(1..n, T)
  <2>1. f \in [1..n -> T]  OBVIOUS
  <2>2. Len(s) \in Nat  OBVIOUS
  <2>3. \A i, j \in 1..n : f[i] = f[j] => i = j  BY <2>2
  <2>4. QED  BY <2>1, <2>3 DEF Injection, IsInjective
<1>3. ExistsBijection(1..n, T)  BY <1>1, <1>2 DEF ExistsBijection, Bijection
<1>4. QED  BY <1>3, FS_CountingElements

(* wunlock() that wakes the readers at the front of the queue.             *)
LEMMA WakeReadersInv ==
  ASSUME IInv, NEW p \in Proc, wunlock(p), WakeReaders
  PROVE  IInv'
<1> USE DEF IInv, TypeOK, PC, ProcState
<1>1. /\ pc[p] = "writing" /\ UNCHANGED oncpu
      /\ pc' = [pc EXCEPT ![p] = "out"]
  BY DEF wunlock
<1>2. state[p] = "Running"  BY <1>1 DEF CallInv
<1>3. Writers = {p} /\ Readers = {} /\ writer /\ readers = 0
  <2>1. p \in Writers  BY <1>1 DEF Writers
  <2>2. Writers = {p} /\ Readers = {}  BY <2>1 DEF Exclusion
  <2>3. QED  BY <2>2, FS_EmptySet DEF Counters
<1>4. PICK n \in 1..Len(queue) :
     /\ FrontReaders(n)
     /\ queue' = SubSeq(queue, n+1, Len(queue))
     /\ readers' = readers + n
     /\ writer' = FALSE
     /\ state' = [q \in Proc |-> IF \E i \in 1..n : q = queue[i]
                                 THEN "Ready" ELSE state[q]]
  BY DEF WakeReaders
<1> DEFINE Woken == {queue[i] : i \in 1..n}
<1>5. n \in Nat /\ Len(queue) \in Nat /\ n <= Len(queue)  OBVIOUS
<1>6. \A i \in 1..Len(queue) : queue[i] \in Proc  BY ElementOfSeq
<1>7. /\ queue' \in Seq(Proc) /\ Len(queue') = Len(queue) - n
      /\ \A i \in 1..Len(queue') : queue'[i] = queue[n+i]
  <2>1. \A i \in (n+1)..Len(queue) : queue[i] \in Proc  BY <1>5, <1>6
  <2>2. /\ SubSeq(queue, n+1, Len(queue)) \in Seq(Proc)
        /\ Len(SubSeq(queue, n+1, Len(queue))) =
             IF n+1 <= Len(queue) THEN Len(queue)-(n+1)+1 ELSE 0
        /\ \A i \in 1..(Len(queue)-(n+1)+1) :
             SubSeq(queue, n+1, Len(queue))[i] = queue[(n+1)+i-1]
    BY <2>1, <1>5, SubSeqProperties
  <2>3. QED  BY <2>2, <1>4, <1>5
<1>8. TypeOK'
  <2>1. readers' \in Nat  BY <1>3, <1>4, <1>5
  <2>2. state' \in [Proc -> ProcState]  BY <1>4
  <2>3. QED  BY <2>1, <2>2, <1>1, <1>4, <1>7
<1>9. /\ \A q \in Woken : q \in Proc /\ state[q] = "QueueingR" /\ pc[q] = "rlock" /\ q # p
      /\ \A q \in Proc : state'[q] = IF q \in Woken THEN "Ready" ELSE state[q]
  BY <1>2, <1>4, <1>5, <1>6 DEF FrontReaders, CallInv
<1>10. Readers' = Woken
  BY <1>1, <1>3, <1>9 DEF Readers
<1>11. Writers' = {}
  BY <1>1, <1>3, <1>9 DEF Writers
<1>12. Counters'
  <2>1. Cardinality(Woken) = n  BY <1>5, FrontCardinality DEF QueueInv
  <2>2. readers' = n /\ ~writer'  BY <1>3, <1>4, <1>5
  <2>3. QED  BY <2>1, <2>2, <1>10, <1>11 DEF Counters
<1>13. Exclusion'  BY <1>11 DEF Exclusion
<1>14. CallInv'  BY <1>1, <1>2, <1>9 DEF CallInv
<1>15. QueueInv'
  <2>1. ASSUME NEW i \in 1..Len(queue'), NEW j \in 1..Len(queue'), queue'[i] = queue'[j]
        PROVE i = j
    <3>1. queue[n+i] = queue[n+j]  BY <2>1, <1>7
    <3>2. n+i \in 1..Len(queue) /\ n+j \in 1..Len(queue)  BY <1>5, <1>7
    <3>3. n+i = n+j  BY <3>1, <3>2 DEF QueueInv
    <3>4. QED  BY <3>3, <1>5
  <2>2. \A q \in Woken : ~ \E i \in 1..Len(queue') : queue'[i] = q
    BY <1>5, <1>7 DEF QueueInv
  <2>3. ASSUME NEW q \in Proc
        PROVE state'[q] \in {"QueueingR", "QueueingW"} <=> \E i \in 1..Len(queue') : queue'[i] = q
    <3>1. CASE q \in Woken  BY <3>1, <2>2, <1>9
    <3>2. CASE q \notin Woken
      <4>1. state'[q] = state[q]  BY <3>2, <1>9
      <4>2. ASSUME NEW i \in 1..Len(queue), queue[i] = q
            PROVE \E j \in 1..Len(queue') : queue'[j] = q
        <5>1. i > n  BY <4>2, <3>2, <1>5
        <5>2. i - n \in 1..Len(queue') /\ queue'[i-n] = q  BY <5>1, <4>2, <1>5, <1>7
        <5>3. QED  BY <5>2
      <4>3. ASSUME NEW i \in 1..Len(queue'), queue'[i] = q
            PROVE \E j \in 1..Len(queue) : queue[j] = q
        <5>1. n + i \in 1..Len(queue) /\ queue[n+i] = q  BY <4>3, <1>5, <1>7
        <5>2. QED  BY <5>1
      <4>4. QED  BY <4>1, <4>2, <4>3 DEF QueueInv
    <3>3. QED  BY <3>1, <3>2
  <2>4. QED  BY <2>1, <2>3 DEF QueueInv
<1>16. NoStrandedWaiter'  BY <1>3, <1>4, <1>5 DEF NoStrandedWaiter
<1>17. NoPanic'
  <2>1. DOMAIN queue' = 1..Len(queue')  BY <1>7
  <2>2. \A i \in DOMAIN queue' : state'[queue'[i]] \in {"QueueingR", "QueueingW"}
    BY <2>1, <1>7, <1>15, ElementOfSeq DEF QueueInv
  <2>3. ASSUME queue' # <<>> PROVE state'[Head(queue')] = "QueueingW"
    <3>1. Len(queue') \in Nat \ {0} /\ n < Len(queue)
      BY <2>3, <1>5, <1>7, EmptySeq
    <3>2. Head(queue') = queue'[1] /\ queue'[1] = queue[n+1] /\ 1 \in DOMAIN queue'
      BY <2>1, <2>3, <3>1, <1>7
    <3>3. state[queue[n+1]] # "QueueingR"  BY <3>1, <1>4 DEF FrontReaders
    <3>4. queue[n+1] \in Proc  BY <3>1, <1>5, <1>6
    <3>5. state'[queue[n+1]] # "QueueingR"  BY <3>3, <3>4, <1>9
    <3>6. QED  BY <3>2, <3>5, <2>2
  <2>4. QED  BY <2>2, <2>3 DEF NoPanic
<1>18. QED  BY <1>8, <1>12, <1>13, <1>14, <1>15, <1>16, <1>17

(* sched() and the later return from it change who runs, not who holds.    *)
LEMMA SwitchInv ==
  ASSUME IInv, NEW p \in Proc, sched(p) \/ resume(p)
  PROVE  IInv'
<1> USE DEF IInv, TypeOK, PC, ProcState
<1>1. CASE sched(p)
  BY <1>1 DEF sched, QueueInv, CallInv, Exclusion, Counters, Readers, Writers,
              NoStrandedWaiter, NoPanic
<1>2. CASE resume(p)
  <2>1. /\ pc[p] \in {"rlock", "wlock"} /\ state[p] = "Ready"
        /\ state' = [state EXCEPT ![p] = "Running"]
        /\ oncpu' = [oncpu EXCEPT ![p] = TRUE]
        /\ pc' = [pc EXCEPT ![p] = IF pc[p] = "rlock" THEN "reading" ELSE "writing"]
        /\ UNCHANGED <<readers, writer, queue>>
    BY <1>2 DEF resume
  <2>2. TypeOK'  BY <2>1
  <2>3. Readers' = Readers /\ Writers' = Writers  BY <2>1 DEF Readers, Writers
  <2>4. Exclusion' /\ Counters' /\ NoStrandedWaiter'
    BY <2>1, <2>3 DEF Exclusion, Counters, NoStrandedWaiter
  <2>5. \A i \in 1..Len(queue) : queue[i] # p  BY <2>1 DEF QueueInv
  <2>6. QueueInv' /\ CallInv'  BY <2>1, <2>5 DEF QueueInv, CallInv
  <2>7. queue # <<>> => Head(queue) = queue[1] /\ 1 \in 1..Len(queue)  BY EmptySeq
  <2>8. \A i \in DOMAIN queue : state'[queue[i]] = state[queue[i]]
    BY <2>1, <2>5, ElementOfSeq
  <2>9. NoPanic'  BY <2>1, <2>7, <2>8 DEF NoPanic
  <2>10. QED  BY <2>2, <2>4, <2>6, <2>9
<1>3. QED  BY <1>1, <1>2

(* IInv is inductive.                                                      *)
LEMMA NextInv == IInv /\ [Next]_vars => IInv'
<1> SUFFICES ASSUME IInv, [Next]_vars PROVE IInv'  OBVIOUS
<1>1. CASE UNCHANGED vars
  BY <1>1 DEF vars, IInv, TypeOK, QueueInv, CallInv, Exclusion, Counters,
              Readers, Writers, NoStrandedWaiter, NoPanic
<1>2. ASSUME NEW p \in Proc, rlock(p) PROVE IInv'
  <2>1. CASE TakeRead(p)  BY <2>1, <1>2, TakeReadInv DEF rlock
  <2>2. CASE (writer \/ queue # <<>>) /\ Enqueue(p, "QueueingR", "rlock")
    <3>1. writer \/ readers # 0  BY <2>2 DEF IInv, NoStrandedWaiter
    <3>2. QED  BY <3>1, <2>2, <1>2, EnqueueInv DEF rlock
  <2>3. QED  BY <2>1, <2>2, <1>2 DEF rlock
<1>3. ASSUME NEW p \in Proc, canrlock(p) PROVE IInv'  BY <1>3, TakeReadInv DEF canrlock
<1>4. ASSUME NEW p \in Proc, runlock(p) PROVE IInv'  BY <1>4, RunlockInv
<1>5. ASSUME NEW p \in Proc, wlock(p) PROVE IInv'
  <2>1. CASE (readers # 0 \/ writer) /\ Enqueue(p, "QueueingW", "wlock")
    BY <2>1, <1>5, EnqueueInv DEF wlock
  <2>2. QED  BY <2>1, <1>5, WlockInv DEF wlock
<1>6. ASSUME NEW p \in Proc, wunlock(p) PROVE IInv'  BY <1>6, WunlockInv, WakeReadersInv
<1>7. ASSUME NEW p \in Proc, sched(p) \/ resume(p) PROVE IInv'  BY <1>7, SwitchInv
<1>8. QED  BY <1>1, <1>2, <1>3, <1>4, <1>5, <1>6, <1>7 DEF Next

(* The variables keep their types; in particular q->readers never goes     *)
(* below zero.                                                             *)
THEOREM TypeCorrect == Spec => []TypeOK
<1>1. IInv => TypeOK  BY DEF IInv
<1>2. QED  BY InitInv, NextInv, <1>1, PTL DEF Spec

(* No two writers and no writer with a reader, for any number of processes *)
(* and any order of queueing, hand-over and resumption.                    *)
THEOREM MutualExclusion == Spec => []Exclusion
<1>1. IInv => Exclusion  BY DEF IInv
<1>2. QED  BY InitInv, NextInv, <1>1, PTL DEF Spec

(* The counters the code decides on are the holders there are.             *)
THEOREM CountersExact == Spec => []Counters
<1>1. IInv => Counters  BY DEF IInv
<1>2. QED  BY InitInv, NextInv, <1>1, PTL DEF Spec

(* No unlock leaves the lock free with somebody waiting for it.            *)
THEOREM NobodyStranded == Spec => []NoStrandedWaiter
<1>1. IInv => NoStrandedWaiter  BY DEF IInv
<1>2. QED  BY InitInv, NextInv, <1>1, PTL DEF Spec

(* panic("runlock") and panic("wunlock") cannot happen.                    *)
THEOREM PanicFree == Spec => []NoPanic
<1>1. IInv => NoPanic  BY DEF IInv
<1>2. QED  BY InitInv, NextInv, <1>1, PTL DEF Spec

(* What NoBarging asks of a step: n processes, those at the front of the   *)
(* queue, become holders, nobody else does, and the others move up.        *)
FromHead(n) ==
  /\ (Readers \cup Writers)' \ (Readers \cup Writers) = {queue[i] : i \in 1..n}
  /\ \A i \in (n+1)..Len(queue) : queue'[i-n] = queue[i]

(* A step that takes nobody off the queue makes nobody a holder.           *)
LEMMA NobodyNew ==
  ASSUME TypeOK, (Readers \cup Writers)' \subseteq Readers \cup Writers,
         \A i \in 1..Len(queue) : queue'[i] = queue[i]
  PROVE  \E n \in 0..Len(queue) : FromHead(n)
<1>1. Len(queue) \in Nat  BY DEF TypeOK
<1>2. {queue[i] : i \in 1..0} = {}  OBVIOUS
<1>3. \A i \in 1..Len(queue) : queue'[i-0] = queue[i]  BY <1>1
<1>4. FromHead(0)  BY <1>2, <1>3 DEF FromHead
<1>5. QED  BY <1>1, <1>4

(* runlock() and wunlock() that hand the lock to the head of the queue.    *)
LEMMA HeadFirst ==
  ASSUME IInv, NEW p \in Proc, pc[p] \in {"reading", "writing"}, queue # <<>>,
         pc' = [pc EXCEPT ![p] = "out"], queue' = Tail(queue),
         state[Head(queue)] = "QueueingW",
         state' = [state EXCEPT ![Head(queue)] = "Ready"]
  PROVE  \E n \in 0..Len(queue) : FromHead(n)
<1> DEFINE h == Head(queue)
<1>1. /\ h \in Proc /\ h = queue[1] /\ Len(queue) \in Nat \ {0}
      /\ \A i \in 2..Len(queue) : queue'[i-1] = queue[i]
  BY HeadTailProperties, EmptySeq DEF IInv, TypeOK
<1>2. h # p /\ pc[h] = "wlock" /\ state[p] = "Running"
  <2>1. state[p] = "Running"  BY DEF IInv, CallInv, TypeOK, ProcState
  <2>2. state[h] = "QueueingW"  OBVIOUS
  <2>3. pc[h] = "wlock"  BY <1>1, <2>2 DEF IInv, CallInv
  <2>4. QED  BY <2>1, <2>2, <2>3
<1>3. h \notin Readers \cup Writers  BY <1>2 DEF Readers, Writers
<1>4. (Readers \cup Writers)' \ (Readers \cup Writers) = {h}
  BY <1>1, <1>2, <1>3 DEF Readers, Writers, IInv, TypeOK, PC, ProcState
<1>5. {queue[i] : i \in 1..1} = {h}  BY <1>1
<1>6. FromHead(1)  BY <1>1, <1>4, <1>5 DEF FromHead
<1>7. QED  BY <1>1, <1>6

(* wunlock() that wakes all the readers at the front of the queue.         *)
LEMMA ReadersFirst ==
  ASSUME IInv, NEW p \in Proc, wunlock(p), WakeReaders
  PROVE  \E n \in 0..Len(queue) : FromHead(n)
<1> USE DEF IInv, TypeOK, PC, ProcState
<1>1. pc[p] = "writing" /\ pc' = [pc EXCEPT ![p] = "out"]  BY DEF wunlock
<1>2. state[p] = "Running"  BY <1>1 DEF CallInv
<1>3. PICK n \in 1..Len(queue) :
     /\ FrontReaders(n)
     /\ queue' = SubSeq(queue, n+1, Len(queue))
     /\ state' = [q \in Proc |-> IF \E i \in 1..n : q = queue[i]
                                 THEN "Ready" ELSE state[q]]
  BY DEF WakeReaders
<1> DEFINE Woken == {queue[i] : i \in 1..n}
<1>4. n \in Nat /\ Len(queue) \in Nat /\ n <= Len(queue)  OBVIOUS
<1>5. \A i \in 1..Len(queue) : queue[i] \in Proc  BY ElementOfSeq
<1>6. \A i \in (n+1)..Len(queue) : queue'[i-n] = queue[i]
  <2>1. \A i \in (n+1)..Len(queue) : queue[i] \in Proc  BY <1>4, <1>5
  <2>2. \A i \in 1..(Len(queue)-(n+1)+1) :
          SubSeq(queue, n+1, Len(queue))[i] = queue[(n+1)+i-1]
    BY <2>1, <1>4, SubSeqProperties
  <2>3. QED  BY <2>2, <1>3, <1>4
<1>7. /\ \A q \in Woken : q \in Proc /\ state[q] = "QueueingR" /\ pc[q] = "rlock" /\ q # p
      /\ \A q \in Proc : state'[q] = IF q \in Woken THEN "Ready" ELSE state[q]
  BY <1>2, <1>3, <1>4, <1>5 DEF FrontReaders, CallInv
<1>8. (Readers \cup Writers)' \ (Readers \cup Writers) = Woken
  BY <1>1, <1>7 DEF Readers, Writers
<1>9. FromHead(n)  BY <1>6, <1>8 DEF FromHead
<1>10. QED  BY <1>4, <1>9

(* While somebody waits, every step takes the new holders from the head.   *)
LEMMA StepFromHead ==
  ASSUME IInv, Next, queue # <<>>
  PROVE  \E n \in 0..Len(queue) : FromHead(n)
<1>0. TypeOK  BY DEF IInv
<1>1. ASSUME NEW p \in Proc, NEW st, NEW call, call \in {"rlock", "wlock"}, pc[p] = "out",
             st \in {"QueueingR", "QueueingW"}, Enqueue(p, st, call)
      PROVE  \E n \in 0..Len(queue) : FromHead(n)
  <2>1. \A i \in 1..Len(queue) : queue'[i] = queue[i]
    BY <1>0, <1>1, AppendProperties DEF Enqueue, TypeOK
  <2>2. (Readers \cup Writers)' \subseteq Readers \cup Writers
    BY <1>0, <1>1 DEF Enqueue, Readers, Writers, TypeOK
  <2>3. QED  BY <1>0, <2>1, <2>2, NobodyNew
<1>2. ASSUME NEW p \in Proc, rlock(p) \/ canrlock(p)
      PROVE  \E n \in 0..Len(queue) : FromHead(n)
  BY <1>1, <1>2 DEF rlock, canrlock, TakeRead
<1>3. ASSUME NEW p \in Proc, runlock(p)
      PROVE  \E n \in 0..Len(queue) : FromHead(n)
  <2>1. CASE UNCHANGED <<queue, state>>
    <3>1. (Readers \cup Writers)' \subseteq Readers \cup Writers
      BY <1>0, <1>3, <2>1 DEF runlock, Readers, Writers, TypeOK
    <3>2. QED  BY <1>0, <2>1, <3>1, NobodyNew
  <2>2. CASE /\ state[Head(queue)] = "QueueingW" /\ queue' = Tail(queue)
             /\ state' = [state EXCEPT ![Head(queue)] = "Ready"]
    BY <1>3, <2>2, HeadFirst DEF runlock
  <2>3. QED  BY <1>3, <2>1, <2>2 DEF runlock
<1>4. ASSUME NEW p \in Proc, wlock(p)
      PROVE  \E n \in 0..Len(queue) : FromHead(n)
  <2>1. readers # 0 \/ writer  BY DEF IInv, NoStrandedWaiter
  <2>2. QED  BY <1>1, <1>4, <2>1 DEF wlock
<1>5. ASSUME NEW p \in Proc, wunlock(p)
      PROVE  \E n \in 0..Len(queue) : FromHead(n)
  <2>1. CASE WakeReaders  BY <1>5, <2>1, ReadersFirst
  <2>2. CASE ~WakeReaders  BY <1>5, <2>2, HeadFirst DEF wunlock
  <2>3. QED  BY <2>1, <2>2
<1>6. ASSUME NEW p \in Proc, sched(p) \/ resume(p)
      PROVE  \E n \in 0..Len(queue) : FromHead(n)
  <2>1. UNCHANGED queue  BY <1>6 DEF sched, resume
  <2>2. (Readers \cup Writers)' \subseteq Readers \cup Writers
    BY <1>0, <1>6 DEF sched, resume, Readers, Writers, TypeOK
  <2>3. QED  BY <1>0, <2>1, <2>2, NobodyNew
<1>7. QED  BY <1>2, <1>3, <1>4, <1>5, <1>6 DEF Next

(* Nobody overtakes the queue: rlock(), canrlock() and wlock() that find   *)
(* somebody waiting do not take the lock, and the unlocks hand it to those *)
(* at the head, in order, a writer alone and readers together.             *)
THEOREM QueueIsFair == Spec => NoBarging
<1>1. IInv /\ [Next]_vars =>
      [LET Holders == Readers \cup Writers
       IN  queue # <<>> =>
             \E n \in 0..Len(queue) :
                /\ Holders' \ Holders = {queue[i] : i \in 1..n}
                /\ \A i \in (n+1)..Len(queue) : queue'[i-n] = queue[i]]_vars
  BY StepFromHead DEF FromHead
<1>2. QED  BY InitInv, NextInv, <1>1, PTL DEF Spec, NoBarging
=============================================================================
