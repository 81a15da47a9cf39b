----------------------------- MODULE LockProofs -----------------------------
(***************************************************************************)
(* The spin locks and the queueing lock of Lock hold what they promise,    *)
(* for every set of processes and of processors.                           *)
(*                                                                         *)
(* LocksHold is not inductive: that a QLock has one owner depends on who   *)
(* is on the queue, on who was handed the lock but has not returned from   *)
(* qlock(), and on who is about to ready() whom; that a no-sched lock      *)
(* keeps its process on its processor depends on up->nlocks counting what  *)
(* is held while it lags behind in between.  PlaceOK says what a process   *)
(* holds and is about to do at every place, KeysOK what the keys and       *)
(* up->nlocks are, QueueOK who waits for the QLock and where, OnCpu and    *)
(* CpuOK which processes are on processors.                                *)
(***************************************************************************)
EXTENDS Lock, SequenceTheorems, TLAPS

Locks == {"l", "n", "i", "use"}

(* What a process may hold: at most one lock taken inside another, which   *)
(* was taken with lock().                                                  *)
Shapes == {<<>>, <<"l">>, <<"n">>, <<"i">>, <<"use">>, <<"l", "n">>, <<"l", "i">>}

Nothing == <<>>
JustL == <<"l">>
JustUse == <<"use">>

(* The locks of h that count in up->nlocks.                                *)
Counted(h) == IF h \in {<<>>, <<"i">>} THEN 0 ELSE IF h = <<"l", "n">> THEN 2 ELSE 1

Places == {"run", "tas", "spin", "use", "dec", "qsched", "qgot", "ready"}

(* p has queued for the QLock, and its qlock() has not returned.           *)
Waiting(p) == pc[p] \in {"qsched", "qgot"} \/ (pc[p] = "dec" /\ then[p] = "qsched")

Types ==
  /\ key \in [Locks -> Proc \cup {nil}] /\ have \in [Proc -> Shapes]
  /\ nlocks \in [Proc -> Nat] /\ hi \subseteq Proc
  /\ qlocked \in BOOLEAN /\ queue \in Seq(Proc) /\ holds \subseteq Proc
  /\ op \in [Proc -> {"lock", "qlock", "canqlock", "qunlock"}]
  /\ cur \in [Proc -> Locks \cup Proc \cup {nil}]
  /\ pc \in [Proc -> Places] /\ then \in [Proc -> {"run", "qsched", "ready"}]
  /\ state \in [Proc -> {"Ready", "Running", "Queueing"}]
  /\ cpu \in [Machs -> Proc \cup {nil, "offline"}]

(* Where a process is tells what it holds and what it is about.            *)
PlaceOK == \A p \in Proc :
  /\ pc[p] = "run" => have[p] # JustUse /\ cur[p] = nil
  /\ pc[p] \in {"tas", "spin"} =>
       \/ op[p] = "lock" /\ cur[p] \in {"l", "n", "i"} /\ have[p] = Nothing
       \/ op[p] = "lock" /\ cur[p] \in {"n", "i"} /\ have[p] = JustL
       \/ op[p] # "lock" /\ cur[p] = "use" /\ have[p] = Nothing
  /\ pc[p] = "use" => op[p] # "lock" /\ cur[p] = "use" /\ have[p] = JustUse
  /\ pc[p] = "dec" => /\ have[p] = Nothing \/ (have[p] = JustL /\ then[p] = "run")
                      /\ then[p] = "run" => cur[p] \in Locks
                      /\ then[p] = "qsched" => cur[p] = "use"
                      /\ then[p] = "ready" => cur[p] \in Proc
  /\ pc[p] \in {"qsched", "qgot"} => have[p] = Nothing /\ cur[p] = "use"
  /\ pc[p] = "ready" => have[p] = Nothing /\ cur[p] \in Proc
  /\ p \in holds => \/ pc[p] = "run"
                    \/ pc[p] \in {"tas", "spin", "use"} /\ op[p] = "qunlock"
                    \/ pc[p] = "dec" /\ then[p] = "run"
  /\ pc[p] \in {"tas", "spin", "use"} => then[p] = "run"
  /\ pc[p] \in {"tas", "spin", "use"} /\ op[p] = "qunlock" => p \in holds

(* The keys are those of the locks held, and up->nlocks counts them, and   *)
(* the one that is being taken or was just given up.                       *)
KeysOK ==
  /\ \A l \in Locks, p \in Proc : key[l] = p <=> l \in ToSet(have[p])
  /\ \A p \in Proc :
       nlocks[p] = Counted(have[p])
                   + (IF (pc[p] = "tas" /\ cur[p] # "i") \/ pc[p] = "dec" THEN 1 ELSE 0)

(* Who has the QLock, whether its qlock() returned or not.                 *)
Owners == holds \cup {p \in Proc : Waiting(p) /\ p \notin ToSet(queue)}

(* The QLock has one owner; who waits for it sleeps, or is on its way to,  *)
(* until it is handed over and the one who did that readies it.            *)
QueueOK ==
  /\ \A p, q \in Owners : p = q
  /\ Owners # {} => qlocked
  /\ IsInjective(queue)
  /\ \A p \in Proc :
       /\ state[p] = "Queueing" <=> (p \in ToSet(queue) \/ \E q \in Proc : cur[q] = p)
       /\ state[p] = "Queueing" => /\ Waiting(p)
                                   /\ pc[p] = "qgot" => \A m \in Machs : cpu[m] # p
       /\ cur[p] \notin ToSet(queue)
  /\ \A p, q \in Proc : cur[p] \in Proc /\ cur[p] = cur[q] => p = q

(* A process with a no-sched lock is on a processor.                       *)
OnCpu == \A p \in Proc : key["n"] = p => \E m \in Machs : cpu[m] = p

LockInv == Types /\ PlaceOK /\ KeysOK /\ QueueOK /\ OnCpu

(* A process is on one processor, and the clock interrupts a process.      *)
CpuOK ==
  /\ intr \in [Machs -> {"no", "in", "end"}]
  /\ \A m, n \in Machs : cpu[m] \in Proc /\ cpu[m] = cpu[n] => m = n
  /\ \A m \in Machs : intr[m] # "no" => cpu[m] \in Proc

IInv == LockInv /\ CpuOK
-----------------------------------------------------------------------------
(* The constants are different things.                                     *)
LEMMA Names ==
  /\ nil \notin Proc /\ "offline" \notin Proc
  /\ \A l \in Locks : l \notin Proc /\ l # nil
  /\ nil # "offline"
BY ConstantsOK DEF Locks

(* The locks in a shape, and what unlock() leaves of one.                  *)
LEMMA ShapeSets ==
  /\ ToSet(<<>>) = {} /\ ToSet(<<"use">>) = {"use"}
  /\ ToSet(<<"l">>) = {"l"} /\ ToSet(<<"n">>) = {"n"} /\ ToSet(<<"i">>) = {"i"}
  /\ ToSet(<<"l", "n">>) = {"l", "n"} /\ ToSet(<<"l", "i">>) = {"l", "i"}
BY DEF ToSet

(* Shapes with different locks differ.                                     *)
LEMMA ShapesDiffer ==
  /\ \A a \in Locks : <<a>> # <<>>
  /\ \A a, b \in Locks : <<a, b>> # <<>> /\ (<<a>> = <<b>> => a = b)
  /\ \A a, b, c \in Locks : <<a, b>> # <<c>>
  /\ \A a, b, c, d \in Locks : <<a, b>> = <<c, d>> => a = c /\ b = d
OBVIOUS

(* unlock() gives up the lock that was taken last.                         *)
LEMMA ShapeLast ==
  /\ \A a \in Locks : Last(<<a>>) = a /\ Front(<<a>>) = <<>>
  /\ \A a, b \in Locks : Last(<<a, b>>) = b /\ Front(<<a, b>>) = <<a>>
<1>1. ASSUME NEW a \in Locks PROVE Last(<<a>>) = a /\ Front(<<a>>) = <<>>
  <2>1. Len(<<a>>) = 1
    OBVIOUS
  <2> QED BY <2>1, SubSeqEmpty DEF Last, Front
<1>2. ASSUME NEW a \in Locks, NEW b \in Locks
      PROVE  Last(<<a, b>>) = b /\ Front(<<a, b>>) = <<a>>
  <2>1. Len(<<a, b>>) = 2 /\ <<a, b>> \in Seq(Locks)
    OBVIOUS
  <2> DEFINE s == SubSeq(<<a, b>>, 1, 1)
  <2>2. s \in Seq(Locks) /\ Len(s) = 1 /\ s[1] = a
    BY <2>1, SubSeqProperties
  <2>3. <<a>> \in Seq(Locks) /\ Len(<<a>>) = 1 /\ <<a>>[1] = a
    OBVIOUS
  <2> HIDE DEF s
  <2>4. s = <<a>>
    BY <2>2, <2>3, SeqEqual
  <2> QED BY <2>1, <2>4 DEF Last, Front, s
<1> QED BY <1>1, <1>2

(* lock() adds one at the end.                                             *)
LEMMA ShapeAppend ==
  \A a \in Locks : Append(<<>>, a) = <<a>> /\ Append(<<"l">>, a) = <<"l", a>>
<1> SUFFICES ASSUME NEW a \in Locks
             PROVE  Append(<<>>, a) = <<a>> /\ Append(<<"l">>, a) = <<"l", a>>
  OBVIOUS
<1>1. Append(<<>>, a) = <<a>>
  OBVIOUS
<1> DEFINE s == Append(<<"l">>, a)
<1>2. <<"l">> \in Seq(Locks) /\ Len(<<"l">>) = 1 /\ <<"l">>[1] = "l"
  BY DEF Locks
<1>3. s \in Seq(Locks) /\ Len(s) = 2 /\ s[1] = "l" /\ s[2] = a
  BY <1>2, AppendProperties
<1>4. <<"l", a>> \in Seq(Locks) /\ Len(<<"l", a>>) = 2 /\ <<"l", a>>[1] = "l" /\ <<"l", a>>[2] = a
  BY DEF Locks
<1> HIDE DEF s
<1>5. s = <<"l", a>>
  BY <1>3, <1>4, SeqEqual
<1> QED BY <1>1, <1>5 DEF s

(* A process that queues, and one that is taken off.                       *)
LEMMA QueueAppend ==
  ASSUME NEW s \in Seq(Proc), IsInjective(s), NEW p \in Proc, p \notin ToSet(s)
  PROVE  /\ Append(s, p) \in Seq(Proc) /\ IsInjective(Append(s, p))
         /\ ToSet(Append(s, p)) = ToSet(s) \cup {p}
<1> DEFINE t == Append(s, p)
<1>1. /\ t \in Seq(Proc) /\ Len(t) = Len(s) + 1 /\ Len(s) \in Nat
      /\ \A i \in 1..Len(s) : t[i] = s[i]
      /\ t[Len(s) + 1] = p
  BY AppendProperties
<1>2. DOMAIN t = 1..(Len(s) + 1) /\ DOMAIN s = 1..Len(s)
  BY <1>1
<1> HIDE DEF t
<1>3. \A i \in 1..(Len(s) + 1) : i \in 1..Len(s) \/ i = Len(s) + 1
  BY <1>1
<1>4. \A i \in 1..Len(s) : s[i] \in ToSet(s) /\ i \in 1..(Len(s) + 1)
  BY <1>1, <1>2 DEF ToSet
<1>5. IsInjective(t)
  BY <1>1, <1>2, <1>3, <1>4 DEF IsInjective
<1>6. ToSet(t) = ToSet(s) \cup {p}
  <2>1. Len(s) + 1 \in 1..(Len(s) + 1)
    BY <1>1
  <2> QED BY <1>1, <1>2, <1>3, <1>4, <2>1 DEF ToSet
<1> QED BY <1>1, <1>5, <1>6 DEF t

(* qunlock() takes the head of the queue.                                  *)
LEMMA QueueTail ==
  ASSUME NEW s \in Seq(Proc), IsInjective(s), s # <<>>
  PROVE  /\ Tail(s) \in Seq(Proc) /\ IsInjective(Tail(s)) /\ Head(s) \in Proc
         /\ Head(s) \in ToSet(s) /\ ToSet(Tail(s)) = ToSet(s) \ {Head(s)}
<1> DEFINE t == Tail(s)
<1>1. /\ t \in Seq(Proc) /\ Len(t) = Len(s) - 1 /\ Len(s) \in Nat /\ Len(t) \in Nat
      /\ \A i \in 1..Len(t) : t[i] = s[i + 1]
      /\ Head(s) \in Proc
  BY HeadTailProperties
<1>2. DOMAIN t = 1..Len(t) /\ DOMAIN s = 1..Len(s) /\ Head(s) = s[1] /\ 1 \in 1..Len(s)
  BY <1>1
<1> HIDE DEF t
<1>3. \A i \in 1..Len(t) : i + 1 \in 1..Len(s) /\ i + 1 # 1 /\ i \in Int
  BY <1>1
<1>4. \A j \in 1..Len(s) : j # 1 => j - 1 \in 1..Len(t) /\ j = (j - 1) + 1
  BY <1>1
<1>5. IsInjective(t)
  <2> SUFFICES ASSUME NEW i \in 1..Len(t), NEW j \in 1..Len(t), t[i] = t[j] PROVE i = j
    BY <1>2 DEF IsInjective
  <2>1. s[i + 1] = s[j + 1]
    BY <1>1
  <2>2. i + 1 = j + 1
    BY <2>1, <1>2, <1>3 DEF IsInjective
  <2> QED BY <2>2, <1>3
<1>6. Head(s) \in ToSet(s)
  BY <1>2 DEF ToSet
<1>7. ASSUME NEW x PROVE x \in ToSet(t) <=> x \in ToSet(s) /\ x # Head(s)
  <2>1. ASSUME x \in ToSet(t) PROVE x \in ToSet(s) /\ x # Head(s)
    <3>1. PICK i \in 1..Len(t) : x = t[i]
      BY <2>1, <1>2 DEF ToSet
    <3>2. x = s[i + 1] /\ i + 1 \in 1..Len(s) /\ i + 1 # 1
      BY <3>1, <1>1, <1>3
    <3>3. s[i + 1] # s[1]
      BY <3>2, <1>2 DEF IsInjective
    <3> QED BY <3>2, <3>3, <1>2 DEF ToSet
  <2>2. ASSUME x \in ToSet(s), x # Head(s) PROVE x \in ToSet(t)
    <3>1. PICK j \in 1..Len(s) : x = s[j]
      BY <2>2, <1>2 DEF ToSet
    <3>2. j # 1
      BY <3>1, <2>2, <1>2
    <3>3. j - 1 \in 1..Len(t) /\ t[j - 1] = s[j]
      BY <3>2, <1>1, <1>4
    <3> QED BY <3>1, <3>3, <1>2 DEF ToSet
  <2> QED BY <2>1, <2>2
<1>8. ToSet(t) = ToSet(s) \ {Head(s)}
  BY <1>7
<1> QED BY <1>1, <1>5, <1>6, <1>8 DEF t

(* unlock() of the lock taken last.                                        *)
LEMMA Released ==
  ASSUME NEW h \in Shapes, h # Nothing
  PROVE  /\ Front(h) \in {Nothing, JustL} /\ Front(h) \in Shapes /\ Last(h) \in Locks
         /\ Last(h) \in ToSet(h) /\ ToSet(Front(h)) = ToSet(h) \ {Last(h)}
         /\ Counted(h) = Counted(Front(h)) + (IF Last(h) = "i" THEN 0 ELSE 1)
         /\ Counted(Front(h)) \in Nat
         /\ h = JustUse => Front(h) = Nothing /\ Last(h) = "use"
         /\ h # JustUse => Last(h) # "use"
<1> USE ShapesDiffer, ShapeLast, ShapeSets DEF Locks, Counted, Nothing, JustL, JustUse
<1>1. CASE h = <<"l">>  BY <1>1 DEF Shapes
<1>2. CASE h = <<"n">>  BY <1>2 DEF Shapes
<1>3. CASE h = <<"i">>  BY <1>3 DEF Shapes
<1>4. CASE h = <<"use">>  BY <1>4 DEF Shapes
<1>5. CASE h = <<"l", "n">>  BY <1>5 DEF Shapes
<1>6. CASE h = <<"l", "i">>  BY <1>6 DEF Shapes
<1> QED BY <1>1, <1>2, <1>3, <1>4, <1>5, <1>6 DEF Shapes

(* A lock taken after those of h.                                          *)
LEMMA Taken ==
  ASSUME NEW h, NEW l \in Locks, h = Nothing \/ (h = JustL /\ l \in {"n", "i"})
  PROVE  /\ Append(h, l) \in Shapes /\ ToSet(Append(h, l)) = ToSet(h) \cup {l}
         /\ Counted(Append(h, l)) = Counted(h) + (IF l = "i" THEN 0 ELSE 1)
         /\ Counted(h) \in Nat
         /\ h = Nothing /\ l = "use" => Append(h, l) = JustUse
         /\ l # "use" => Append(h, l) # JustUse
<1> DEFINE t == <<l>>
           u == <<"l", l>>
<1>1. /\ t \in Shapes /\ ToSet(t) = ToSet(Nothing) \cup {l}
      /\ Counted(t) = Counted(Nothing) + (IF l = "i" THEN 0 ELSE 1)
      /\ Counted(Nothing) \in Nat /\ Append(Nothing, l) = t
      /\ l = "use" => t = JustUse
      /\ l # "use" => t # JustUse
  BY ShapesDiffer, ShapeSets, ShapeAppend DEF Shapes, Locks, Counted, Nothing, JustUse
<1>2. ASSUME l \in {"n", "i"}
      PROVE  /\ u \in Shapes /\ ToSet(u) = ToSet(JustL) \cup {l}
             /\ Counted(u) = Counted(JustL) + (IF l = "i" THEN 0 ELSE 1)
             /\ Counted(JustL) \in Nat /\ Append(JustL, l) = u
             /\ u # JustUse
  <2>1. u \in Shapes /\ ToSet(u) = {"l", l} /\ ToSet(JustL) = {"l"}
    BY <1>2, ShapeSets DEF Shapes, JustL
  <2>2. u # JustUse /\ Counted(JustL) = 1 /\ Append(JustL, l) = u
    BY <1>2, ShapesDiffer, ShapeAppend DEF JustUse, JustL, Counted, Locks
  <2>3. Counted(u) = 1 + (IF l = "i" THEN 0 ELSE 1)
    BY <1>2, ShapesDiffer DEF Counted, Locks
  <2> HIDE DEF u
  <2> QED BY <2>1, <2>2, <2>3
<1> HIDE DEF t, u
<1>3. CASE h = Nothing
  BY <1>1, <1>3, Zenon
<1>4. CASE h = JustL /\ l \in {"n", "i"}
  <2>1. JustL # Nothing
    BY ShapesDiffer DEF JustL, Nothing, Locks
  <2> QED BY <1>2, <1>4, <2>1, Zenon
<1> QED BY <1>3, <1>4

(* The shapes by name.                                                     *)
LEMMA SomeShapes ==
  /\ Nothing # JustL /\ Nothing # JustUse /\ JustL # JustUse
  /\ Counted(Nothing) = 0 /\ Counted(JustL) = 1 /\ Counted(JustUse) = 1
  /\ Nothing \in Shapes /\ JustL \in Shapes /\ JustUse \in Shapes
  /\ ToSet(Nothing) = {}
  /\ \A h \in Shapes : Counted(h) \in Nat
BY ShapesDiffer, ShapeSets DEF Counted, Shapes, Locks, Nothing, JustL, JustUse

(* What keeps QueueOK: the queue and its owners stay, and nobody who waits *)
(* runs on past its sched().                                               *)
LEMMA QueueFrame ==
  ASSUME QueueOK, Types, UNCHANGED <<qlocked, queue, holds>>,
         \A p \in Proc : Waiting(p)' <=> Waiting(p),
         \A p \in Proc : state'[p] = "Queueing" <=> state[p] = "Queueing",
         \A p \in Proc : cur'[p] = cur[p] \/ (cur[p] \notin Proc /\ cur'[p] \notin Proc),
         \A p \in Proc : state'[p] = "Queueing" /\ pc'[p] = "qgot" => \A m \in Machs : cpu'[m] # p
  PROVE  QueueOK'
<1>1. Owners' = Owners
  BY DEF Owners
<1>2. ToSet(queue) \subseteq Proc
  BY DEF ToSet, Types
<1>3. \A p, q \in Proc : cur'[q] = p <=> cur[q] = p
  OBVIOUS
<1>4. \A p \in Proc : cur'[p] \notin ToSet(queue)
  BY <1>2 DEF QueueOK
<1> QED BY <1>1, <1>3, <1>4 DEF QueueOK

(* ... in a step of p that is not about the queue.                         *)
LEMMA QueueSame ==
  ASSUME QueueOK, Types, UNCHANGED <<qlocked, queue, holds, state, cpu>>, NEW p \in Proc,
         ~Waiting(p), cur[p] \notin Proc, cur'[p] \notin Proc,
         pc'[p] \notin {"qsched", "qgot"}, pc'[p] = "dec" => then'[p] = "run",
         \A q \in Proc : q # p => pc'[q] = pc[q] /\ then'[q] = then[q] /\ cur'[q] = cur[q]
  PROVE  QueueOK'
<1>1. \A q \in Proc : Waiting(q)' <=> Waiting(q)
  BY DEF Waiting
<1>2. \A q \in Proc : cur'[q] = cur[q] \/ (cur[q] \notin Proc /\ cur'[q] \notin Proc)
  OBVIOUS
<1>3. \A q \in Proc : state'[q] = "Queueing" /\ pc'[q] = "qgot" => \A m \in Machs : cpu'[m] # q
  BY DEF QueueOK
<1>4. \A q \in Proc : state'[q] = "Queueing" <=> state[q] = "Queueing"
  OBVIOUS
<1> QED BY <1>1, <1>2, <1>3, <1>4, QueueFrame

(* lock(), qlock(), canqlock() and qunlock() up to the key.                *)
LEMMA BeginStep ==
  ASSUME LockInv, NEW p \in Proc, NEW o, NEW l \in Locks, pc[p] = "run", Begin(p, o, l),
         \/ o = "lock" /\ p \notin holds /\ l # "use"
            /\ (have[p] = Nothing \/ (have[p] = JustL /\ l # "l"))
         \/ o \in {"qlock", "canqlock"} /\ p \notin holds /\ l = "use" /\ have[p] = Nothing
         \/ o = "qunlock" /\ p \in holds /\ l = "use" /\ have[p] = Nothing
  PROVE  LockInv'
<1> USE Names, SomeShapes DEF LockInv
<1>1. /\ op' = [op EXCEPT ![p] = o] /\ cur' = [cur EXCEPT ![p] = l]
      /\ then' = [then EXCEPT ![p] = "run"] /\ pc' = [pc EXCEPT ![p] = "tas"]
      /\ nlocks' = [nlocks EXCEPT ![p] = nlocks[p] + (IF l = "i" THEN 0 ELSE 1)]
      /\ hi' = IF l = "i" THEN hi \cup {p} ELSE hi
      /\ UNCHANGED <<key, have, qlocked, queue, holds, state, cpu>>
  BY DEF Begin, Mask, Set, Go, qvars
<1>2. Types'
  BY <1>1 DEF Types, Places
<1>3. PlaceOK'
  BY <1>1 DEF PlaceOK, Types, Locks
<1>4. KeysOK'
  BY <1>1 DEF KeysOK, Types
<1>5. QueueOK'
  BY <1>1, QueueSame DEF Types, PlaceOK, Waiting
<1>6. OnCpu'
  BY <1>1 DEF OnCpu
<1> QED BY <1>2, <1>3, <1>4, <1>5, <1>6

(* TAS() that gets the key.                                                *)
LEMMA TasStep == ASSUME LockInv, NEW p \in Proc, tas(p) PROVE LockInv'
<1> USE Names, SomeShapes DEF LockInv
<1>1. PICK l \in Locks :
      /\ pc[p] = "tas" /\ key[l] = nil /\ key' = [key EXCEPT ![l] = p]
      /\ UNCHANGED <<nlocks, hi, qlocked, queue, holds, state, cpu>>
      /\ \E m \in Machs : cpu[m] = p
      /\ \/ /\ l = "use" /\ pc' = [pc EXCEPT ![p] = "use"] /\ UNCHANGED <<op, cur, then>>
         \/ /\ l # "use" /\ pc' = [pc EXCEPT ![p] = "run"] /\ op' = [op EXCEPT ![p] = "lock"]
            /\ cur' = [cur EXCEPT ![p] = nil] /\ then' = [then EXCEPT ![p] = "run"]
      /\ cur[p] = l
      /\ \/ op[p] = "lock" /\ l # "use" /\ have[p] = Nothing
         \/ op[p] = "lock" /\ l \in {"n", "i"} /\ have[p] = JustL
         \/ op[p] # "lock" /\ l = "use" /\ have[p] = Nothing
  BY DEF tas, Set, qvars, At, Running, Return, Go, PlaceOK, Locks
<1> DEFINE h == Append(have[p], l)
<1>2. /\ h \in Shapes /\ ToSet(h) = ToSet(have[p]) \cup {l}
      /\ Counted(h) = Counted(have[p]) + (IF l = "i" THEN 0 ELSE 1)
      /\ Counted(have[p]) \in Nat
      /\ l = "use" => h = JustUse
      /\ l # "use" => h # JustUse
  <2>1. have[p] = Nothing \/ (have[p] = JustL /\ l \in {"n", "i"})
    BY <1>1
  <2>2. have[p] = Nothing \/ l # "use"
    BY <1>1
  <2> QED BY <2>1, <2>2, Taken
<1>3. have' = [have EXCEPT ![p] = h]
  BY <1>1 DEF tas, Set
<1> HIDE DEF h
<1>6. Types'
  <2>1. key' \in [Locks -> Proc \cup {nil}] /\ have' \in [Proc -> Shapes]
    BY <1>1, <1>2, <1>3 DEF Types
  <2>2. /\ op' \in [Proc -> {"lock", "qlock", "canqlock", "qunlock"}]
        /\ cur' \in [Proc -> Locks \cup Proc \cup {nil}]
        /\ pc' \in [Proc -> Places] /\ then' \in [Proc -> {"run", "qsched", "ready"}]
    <3>1. CASE UNCHANGED <<op, cur, then>> /\ pc' = [pc EXCEPT ![p] = "use"]
      BY <3>1 DEF Types, Places
    <3>2. CASE /\ pc' = [pc EXCEPT ![p] = "run"] /\ op' = [op EXCEPT ![p] = "lock"]
               /\ cur' = [cur EXCEPT ![p] = nil] /\ then' = [then EXCEPT ![p] = "run"]
      BY <3>2 DEF Types, Places
    <3> QED BY <1>1, <3>1, <3>2
  <2> QED BY <1>1, <2>1, <2>2 DEF Types
<1>7. PlaceOK'
  BY <1>1, <1>2, <1>3 DEF PlaceOK, Types
<1>8. KeysOK'
  <2>1. ASSUME NEW k \in Locks, NEW q \in Proc PROVE key'[k] = q <=> k \in ToSet(have'[q])
    BY <1>1, <1>2, <1>3 DEF KeysOK, Types
  <2>2. ASSUME NEW q \in Proc
        PROVE  nlocks'[q] = Counted(have'[q])
                 + (IF (pc'[q] = "tas" /\ cur'[q] # "i") \/ pc'[q] = "dec" THEN 1 ELSE 0)
    BY <1>1, <1>2, <1>3 DEF KeysOK, Types
  <2> QED BY <2>1, <2>2 DEF KeysOK
<1>9. QueueOK'
  BY <1>1, QueueSame, ZenonT(60) DEF Types, Waiting
<1>10. OnCpu'
  BY <1>1 DEF OnCpu, Types
<1> QED BY <1>6, <1>7, <1>8, <1>9, <1>10

(* TAS() that fails.                                                       *)
LEMMA TasFailsStep == ASSUME LockInv, NEW p \in Proc, tasFails(p) PROVE LockInv'
<1> USE Names, SomeShapes DEF LockInv
<1>1. /\ pc[p] = "tas"
      /\ nlocks' = [nlocks EXCEPT ![p] = nlocks[p] - (IF cur[p] = "i" THEN 0 ELSE 1)]
      /\ UNCHANGED <<key, have, qlocked, queue, holds, state, cpu>>
      /\ hi' \subseteq hi
  BY DEF tasFails, Set, qvars, At
<1>2. \/ /\ op[p] = "canqlock" /\ pc' = [pc EXCEPT ![p] = "run"]
         /\ op' = [op EXCEPT ![p] = "lock"]
         /\ cur' = [cur EXCEPT ![p] = nil] /\ then' = [then EXCEPT ![p] = "run"]
      \/ pc' = [pc EXCEPT ![p] = "spin"] /\ UNCHANGED <<op, cur, then>>
  BY DEF tasFails, Return, Go
<1>3. nlocks[p] = Counted(have[p]) + (IF cur[p] # "i" THEN 1 ELSE 0) /\ Counted(have[p]) \in Nat
  BY <1>1 DEF KeysOK, Types
<1>4. nlocks' = [nlocks EXCEPT ![p] = Counted(have[p])]
  <2>1. nlocks[p] - (IF cur[p] = "i" THEN 0 ELSE 1) = Counted(have[p])
    BY <1>3
  <2> QED BY <1>1, <2>1, Zenon
<1>5. Types'
  <2>1. /\ op' \in [Proc -> {"lock", "qlock", "canqlock", "qunlock"}]
        /\ cur' \in [Proc -> Locks \cup Proc \cup {nil}]
        /\ pc' \in [Proc -> Places] /\ then' \in [Proc -> {"run", "qsched", "ready"}]
    BY <1>2, ZenonT(60) DEF Types, Places
  <2>2. nlocks' \in [Proc -> Nat]
    BY <1>3, <1>4 DEF Types
  <2> QED BY <1>1, <2>1, <2>2 DEF Types
<1>6. PlaceOK'
  BY <1>1, <1>2 DEF PlaceOK, Types
<1>7. KeysOK'
  BY <1>1, <1>2, <1>4 DEF KeysOK, Types
<1>8. QueueOK'
  <2>1. cur[p] \notin Proc /\ ~Waiting(p)
    BY <1>1 DEF PlaceOK, Locks, Waiting
  <2>2. /\ cur'[p] \notin Proc /\ pc'[p] \in {"run", "spin"}
        /\ \A q \in Proc : q # p => pc'[q] = pc[q] /\ then'[q] = then[q] /\ cur'[q] = cur[q]
    BY <1>2, <2>1 DEF Types
  <2> QED BY <1>1, <2>1, <2>2, QueueSame
<1>9. OnCpu'
  BY <1>1 DEF OnCpu
<1> QED BY <1>5, <1>6, <1>7, <1>8, <1>9

(* The loop of lock() and ilock() that saw the key free.                   *)
LEMMA SpinningStep == ASSUME LockInv, NEW p \in Proc, spinning(p) PROVE LockInv'
<1> USE Names, SomeShapes DEF LockInv
<1>1. /\ pc[p] = "spin" /\ pc' = [pc EXCEPT ![p] = "tas"]
      /\ nlocks' = [nlocks EXCEPT ![p] = nlocks[p] + (IF cur[p] = "i" THEN 0 ELSE 1)]
      /\ UNCHANGED <<key, have, qlocked, queue, holds, state, cpu, op, cur, then>>
      /\ hi' \subseteq hi \cup {p}
  BY DEF spinning, Mask, Go, Set, qvars, At
<1>2. Types'
  BY <1>1 DEF Types, Places
<1>3. PlaceOK'
  BY <1>1 DEF PlaceOK, Types
<1>4. KeysOK'
  BY <1>1 DEF KeysOK, Types
<1>5. QueueOK'
  <2>1. cur[p] \notin Proc /\ ~Waiting(p)
    BY <1>1 DEF PlaceOK, Locks, Waiting
  <2> QED BY <1>1, <2>1, QueueSame DEF Types
<1>6. OnCpu'
  BY <1>1 DEF OnCpu
<1> QED BY <1>2, <1>3, <1>4, <1>5, <1>6

(* unlock() and iunlock() of the lock taken last.                          *)
LEMMA XunlockStep == ASSUME LockInv, NEW p \in Proc, xunlock(p) PROVE LockInv'
<1> USE Names, SomeShapes DEF LockInv
<1> DEFINE h == Front(have[p])
           l == Last(have[p])
<1>1. /\ pc[p] = "run" /\ have[p] # Nothing
      /\ key' = [key EXCEPT ![l] = nil] /\ have' = [have EXCEPT ![p] = h]
      /\ UNCHANGED <<nlocks, qlocked, queue, holds, state, cpu, op>>
  BY DEF xunlock, Release, Set, qvars, At, own, Nothing
<1>2. \/ l = "i" /\ hi' = hi \ {p} /\ UNCHANGED <<cur, pc, then>>
      \/ /\ l # "i" /\ cur' = [cur EXCEPT ![p] = l] /\ then' = [then EXCEPT ![p] = "run"]
         /\ pc' = [pc EXCEPT ![p] = "dec"] /\ hi' = hi
  BY DEF xunlock, Set, Go, own
<1>3. /\ h \in {Nothing, JustL} /\ h \in Shapes /\ l \in Locks
      /\ l \in ToSet(have[p]) /\ ToSet(h) = ToSet(have[p]) \ {l}
      /\ Counted(have[p]) = Counted(h) + (IF l = "i" THEN 0 ELSE 1) /\ Counted(h) \in Nat
  BY <1>1, Released DEF Types
<1>4. nlocks[p] = Counted(h) + (IF l = "i" THEN 0 ELSE 1) /\ cur[p] = nil
  BY <1>1, <1>3 DEF KeysOK, Types, PlaceOK
<1> HIDE DEF h, l
<1>5. Types'
  <2>1. /\ cur' \in [Proc -> Locks \cup Proc \cup {nil}]
        /\ pc' \in [Proc -> Places] /\ then' \in [Proc -> {"run", "qsched", "ready"}]
    <3>1. CASE UNCHANGED <<cur, pc, then>>
      BY <3>1 DEF Types
    <3>2. CASE /\ cur' = [cur EXCEPT ![p] = l] /\ then' = [then EXCEPT ![p] = "run"]
               /\ pc' = [pc EXCEPT ![p] = "dec"]
      BY <3>2, <1>3 DEF Types, Places
    <3> QED BY <1>2, <3>1, <3>2
  <2>2. key' \in [Locks -> Proc \cup {nil}] /\ have' \in [Proc -> Shapes] /\ hi' \subseteq Proc
    BY <1>1, <1>2, <1>3 DEF Types
  <2> QED BY <1>1, <2>1, <2>2 DEF Types
<1>6. PlaceOK'
  BY <1>1, <1>2, <1>3, <1>4 DEF PlaceOK, Types
<1>7. KeysOK'
  <2>1. ASSUME NEW k \in Locks, NEW q \in Proc PROVE key'[k] = q <=> k \in ToSet(have'[q])
    <3>1. key[l] = p
      BY <1>3 DEF KeysOK
    <3> QED BY <1>1, <1>3, <3>1 DEF KeysOK, Types
  <2>2. ASSUME NEW q \in Proc
        PROVE  nlocks'[q] = Counted(have'[q])
                 + (IF (pc'[q] = "tas" /\ cur'[q] # "i") \/ pc'[q] = "dec" THEN 1 ELSE 0)
    BY <1>1, <1>2, <1>3, <1>4 DEF KeysOK, Types
  <2> QED BY <2>1, <2>2 DEF KeysOK
<1>8. QueueOK'
  <2>1. cur[p] \notin Proc /\ ~Waiting(p)
    BY <1>1, <1>4 DEF Waiting
  <2>2. /\ cur'[p] \notin Proc /\ (pc'[p] = "run" \/ (pc'[p] = "dec" /\ then'[p] = "run"))
        /\ \A q \in Proc : q # p => pc'[q] = pc[q] /\ then'[q] = then[q] /\ cur'[q] = cur[q]
    BY <1>1, <1>2, <1>3, <2>1 DEF Types
  <2> QED BY <1>1, <2>1, <2>2, QueueSame
<1>9. OnCpu'
  BY <1>1, <1>3 DEF OnCpu, Types
<1> QED BY <1>5, <1>6, <1>7, <1>8, <1>9
-----------------------------------------------------------------------------
(* A processor that gives up its process.                                  *)
LEMMA Switched ==
  ASSUME Types, NEW p \in Proc, Switch(p)
  PROVE  /\ state' \in [Proc -> {"Ready", "Running", "Queueing"}]
         /\ cpu' \in [Machs -> Proc \cup {nil, "offline"}]
         /\ \A q \in Proc : state'[q] = "Queueing" <=> state[q] = "Queueing"
         /\ \A m \in Machs : cpu'[m] # p
         /\ \A m \in Machs, q \in Proc : q # p => (cpu'[m] = q <=> cpu[m] = q)
BY Names DEF Types, Switch, Set

(* sched() takes no processor from who has a no-sched lock.                *)
LEMMA SchedStep ==
  ASSUME LockInv, NEW p \in Proc, sched(p)
  PROVE  /\ state' \in [Proc -> {"Ready", "Running", "Queueing"}]
         /\ cpu' \in [Machs -> Proc \cup {nil, "offline"}]
         /\ \A q \in Proc : state'[q] = "Queueing" <=> state[q] = "Queueing"
         /\ \A m \in Machs, q \in Proc : cpu'[m] = q => cpu[m] = q
         /\ nlocks[p] = 0 => \A m \in Machs : cpu'[m] # p
         /\ (key["n"])' = key["n"] => OnCpu'
<1> USE DEF LockInv
<1>1. CASE Delays(p) /\ UNCHANGED <<state, cpu>>
  BY <1>1 DEF Types, Delays, OnCpu
<1>2. CASE ~Delays(p) /\ Switch(p)
  <2>1. key["n"] # p
    <3>1. SUFFICES ASSUME key["n"] = p PROVE FALSE
      OBVIOUS
    <3>2. "n" \in ToSet(have[p]) /\ have[p] \in Shapes
      BY <3>1 DEF KeysOK, Locks, Types
    <3>3. Counted(have[p]) >= 1 /\ Counted(have[p]) \in Nat
      BY <3>2, ShapeSets, ShapesDiffer DEF Shapes, Counted, Locks
    <3>4. nlocks[p] > 0
      BY <3>3 DEF KeysOK
    <3> QED BY <1>2, <3>2, <3>4 DEF Delays, nosched
  <2> QED BY <1>2, <2>1, Switched DEF OnCpu
<1> QED BY <1>1, <1>2 DEF sched

(* unlock() that decrements up->nlocks, and the sched() that was put off.  *)
LEMMA DecStep == ASSUME LockInv, NEW p \in Proc, dec(p) PROVE LockInv'
<1> USE Names, SomeShapes DEF LockInv
<1>1. /\ pc[p] = "dec" /\ nlocks' = [nlocks EXCEPT ![p] = nlocks[p] - 1]
      /\ UNCHANGED <<key, have, hi, qlocked, queue, holds>>
      /\ Switch(p) \/ UNCHANGED <<state, cpu>>
  BY DEF dec, Set, qvars, At
<1>2. \/ /\ then[p] = "run" /\ pc' = [pc EXCEPT ![p] = "run"]
         /\ op' = [op EXCEPT ![p] = "lock"]
         /\ cur' = [cur EXCEPT ![p] = nil] /\ then' = [then EXCEPT ![p] = "run"]
      \/ then[p] # "run" /\ pc' = [pc EXCEPT ![p] = then[p]] /\ UNCHANGED <<op, cur, then>>
  BY DEF dec, Return, Go
<1>3. /\ nlocks[p] = Counted(have[p]) + 1 /\ Counted(have[p]) \in Nat
      /\ have[p] = Nothing \/ (have[p] = JustL /\ then[p] = "run")
      /\ then[p] \in {"run", "qsched", "ready"}
  BY <1>1 DEF KeysOK, Types, PlaceOK
<1>4. nlocks' = [nlocks EXCEPT ![p] = Counted(have[p])]
  <2>1. nlocks[p] - 1 = Counted(have[p])
    BY <1>3
  <2> QED BY <1>1, <2>1, Zenon
<1>5. /\ state' \in [Proc -> {"Ready", "Running", "Queueing"}]
      /\ cpu' \in [Machs -> Proc \cup {nil, "offline"}]
      /\ \A q \in Proc : state'[q] = "Queueing" <=> state[q] = "Queueing"
      /\ \A m \in Machs, q \in Proc : cpu'[m] = q => cpu[m] = q
      /\ \A m \in Machs, q \in Proc : q # p => (cpu'[m] = q <=> cpu[m] = q)
  <2>1. CASE Switch(p)
    BY <2>1, Switched
  <2>2. CASE UNCHANGED <<state, cpu>>
    BY <2>2 DEF Types
  <2> QED BY <1>1, <2>1, <2>2
<1>6. Types'
  <2>1. /\ op' \in [Proc -> {"lock", "qlock", "canqlock", "qunlock"}]
        /\ cur' \in [Proc -> Locks \cup Proc \cup {nil}]
        /\ pc' \in [Proc -> Places] /\ then' \in [Proc -> {"run", "qsched", "ready"}]
    <3>1. CASE /\ pc' = [pc EXCEPT ![p] = "run"] /\ op' = [op EXCEPT ![p] = "lock"]
               /\ cur' = [cur EXCEPT ![p] = nil] /\ then' = [then EXCEPT ![p] = "run"]
      BY <3>1 DEF Types, Places
    <3>2. CASE then[p] # "run" /\ pc' = [pc EXCEPT ![p] = then[p]] /\ UNCHANGED <<op, cur, then>>
      BY <3>2, <1>3 DEF Types, Places
    <3> QED BY <1>2, <3>1, <3>2
  <2>2. nlocks' \in [Proc -> Nat]
    BY <1>3, <1>4 DEF Types
  <2> QED BY <1>1, <1>5, <2>1, <2>2 DEF Types
<1>7. PlaceOK'
  <2>1. CASE then[p] = "run"
    <3>1. /\ pc' = [pc EXCEPT ![p] = "run"] /\ op' = [op EXCEPT ![p] = "lock"]
          /\ cur' = [cur EXCEPT ![p] = nil] /\ then' = [then EXCEPT ![p] = "run"]
      BY <1>2, <2>1
    <3> QED BY <1>1, <1>3, <3>1 DEF PlaceOK, Types
  <2>2. CASE then[p] = "qsched"
    <3>1. pc' = [pc EXCEPT ![p] = "qsched"] /\ UNCHANGED <<op, cur, then>>
      BY <1>2, <2>2
    <3>2. cur[p] = "use" /\ have[p] = Nothing /\ p \notin holds
      BY <1>1, <1>3, <2>2 DEF PlaceOK
    <3> QED BY <1>1, <3>1, <3>2 DEF PlaceOK, Types
  <2>3. CASE then[p] = "ready"
    <3>1. pc' = [pc EXCEPT ![p] = "ready"] /\ UNCHANGED <<op, cur, then>>
      BY <1>2, <2>3
    <3>2. cur[p] \in Proc /\ have[p] = Nothing /\ p \notin holds
      BY <1>1, <1>3, <2>3 DEF PlaceOK
    <3> QED BY <1>1, <3>1, <3>2 DEF PlaceOK, Types
  <2> QED BY <1>3, <2>1, <2>2, <2>3
<1>8. KeysOK'
  BY <1>1, <1>2, <1>3, <1>4 DEF KeysOK, Types
<1>9. QueueOK'
  <2>1. \A q \in Proc : Waiting(q)' <=> Waiting(q)
    BY <1>1, <1>2, <1>3 DEF Waiting, Types
  <2>2. \A q \in Proc : cur'[q] = cur[q] \/ (cur[q] \notin Proc /\ cur'[q] \notin Proc)
    BY <1>1, <1>2 DEF PlaceOK, Types
  <2>3. \A q \in Proc : state'[q] = "Queueing" /\ pc'[q] = "qgot" => \A m \in Machs : cpu'[m] # q
    <3>1. \A q \in Proc : pc'[q] = "qgot" => pc[q] = "qgot"
      BY <1>2, <1>3 DEF Types
    <3> QED BY <1>5, <3>1 DEF QueueOK
  <2> QED BY <1>1, <1>5, <2>1, <2>2, <2>3, QueueFrame
<1>10. OnCpu'
  <2>1. key["n"] # p
    BY <1>3, ShapeSets DEF KeysOK, Locks, Nothing, JustL
  <2> QED BY <1>1, <1>5, <2>1 DEF OnCpu
<1> QED BY <1>6, <1>7, <1>8, <1>9, <1>10

(* The sched() of qlock(): who was not handed the lock sleeps.             *)
LEMMA QschedStep == ASSUME LockInv, NEW p \in Proc, qsched(p) PROVE LockInv'
<1> USE Names, SomeShapes DEF LockInv
<1>1. /\ pc[p] = "qsched" /\ pc' = [pc EXCEPT ![p] = "qgot"] /\ sched(p)
      /\ UNCHANGED <<key, have, nlocks, hi, qlocked, queue, holds, op, cur, then>>
  BY DEF qsched, Go, At, spin, qvars
<1>2. nlocks[p] = 0
  BY <1>1 DEF KeysOK, PlaceOK
<1>3. /\ state' \in [Proc -> {"Ready", "Running", "Queueing"}]
      /\ cpu' \in [Machs -> Proc \cup {nil, "offline"}]
      /\ \A q \in Proc : state'[q] = "Queueing" <=> state[q] = "Queueing"
      /\ \A m \in Machs, q \in Proc : cpu'[m] = q => cpu[m] = q
      /\ \A m \in Machs : cpu'[m] # p
      /\ OnCpu'
  BY <1>1, <1>2, SchedStep
<1>4. Types'
  BY <1>1, <1>3 DEF Types, Places
<1>5. PlaceOK'
  BY <1>1 DEF PlaceOK, Types
<1>6. KeysOK'
  BY <1>1 DEF KeysOK, Types
<1>7. QueueOK'
  <2>1. \A q \in Proc : Waiting(q)' <=> Waiting(q)
    BY <1>1 DEF Waiting, Types
  <2>2. \A q \in Proc : state'[q] = "Queueing" /\ pc'[q] = "qgot" => \A m \in Machs : cpu'[m] # q
    BY <1>1, <1>3 DEF QueueOK, Types
  <2>3. \A q \in Proc : cur'[q] = cur[q] \/ (cur[q] \notin Proc /\ cur'[q] \notin Proc)
    BY <1>1
  <2> QED BY <1>1, <1>3, <2>1, <2>2, <2>3, QueueFrame
<1> QED BY <1>3, <1>4, <1>5, <1>6, <1>7

(* qlock() that returns after it slept: the lock was handed over, because  *)
(* who is still queued is on no processor.                                 *)
LEMMA QgotStep == ASSUME LockInv, NEW p \in Proc, qgot(p) PROVE LockInv'
<1> USE Names, SomeShapes DEF LockInv
<1>1. /\ pc[p] = "qgot" /\ pc' = [pc EXCEPT ![p] = "run"] /\ op' = [op EXCEPT ![p] = "lock"]
      /\ cur' = [cur EXCEPT ![p] = nil] /\ then' = [then EXCEPT ![p] = "run"]
      /\ holds' = holds \cup {p} /\ UNCHANGED <<key, have, nlocks, hi, qlocked, queue, state, cpu>>
      /\ \E m \in Machs : cpu[m] = p
  BY DEF qgot, At, Running, Return, Go, spin
<1>2. state[p] # "Queueing" /\ p \notin ToSet(queue) /\ cur[p] \notin Proc
  BY <1>1 DEF QueueOK, PlaceOK, Locks
<1>3. Types'
  BY <1>1 DEF Types, Places
<1>4. PlaceOK'
  BY <1>1 DEF PlaceOK, Types
<1>5. KeysOK'
  BY <1>1 DEF KeysOK, Types, PlaceOK
<1>6. QueueOK'
  <2>1. \A q \in Proc : q # p => (Waiting(q)' <=> Waiting(q))
    BY <1>1 DEF Waiting, Types
  <2>2. Waiting(p) /\ ~Waiting(p)'
    BY <1>1 DEF Waiting, Types
  <2>3. Owners' = Owners
    BY <1>1, <1>2, <2>1, <2>2 DEF Owners, Types
  <2>4. ToSet(queue) \subseteq Proc
    BY DEF ToSet, Types
  <2>5. \A q, r \in Proc : cur'[q] = r <=> cur[q] = r
    BY <1>1, <1>2 DEF Types
  <2>6. \A q \in Proc : cur'[q] \notin ToSet(queue')
    BY <1>1, <2>4 DEF QueueOK, Types
  <2>7. \A q \in Proc : state'[q] = "Queueing" =>
          /\ Waiting(q)'
          /\ pc'[q] = "qgot" => \A m \in Machs : cpu'[m] # q
    BY <1>1, <1>2, <2>1 DEF QueueOK, Types
  <2> QED BY <1>1, <2>3, <2>5, <2>6, <2>7 DEF QueueOK
<1>7. OnCpu'
  BY <1>1 DEF OnCpu
<1> QED BY <1>3, <1>4, <1>5, <1>6, <1>7

(* ready() of the process the lock was handed to.                          *)
LEMMA ReadyStep == ASSUME LockInv, NEW p \in Proc, ready(p) PROVE LockInv'
<1> USE Names, SomeShapes DEF LockInv
<1>1. PICK h \in Proc :
      /\ cur[p] = h /\ pc[p] = "ready" /\ pc' = [pc EXCEPT ![p] = "run"]
      /\ op' = [op EXCEPT ![p] = "lock"]
      /\ cur' = [cur EXCEPT ![p] = nil] /\ then' = [then EXCEPT ![p] = "run"]
      /\ state' = [state EXCEPT ![h] = "Ready"]
      /\ UNCHANGED <<key, have, nlocks, hi, qlocked, queue, holds, cpu>>
  BY DEF ready, At, Return, Go, Set, spin, qvars, PlaceOK
<1>2. Types'
  BY <1>1 DEF Types, Places
<1>3. PlaceOK'
  BY <1>1 DEF PlaceOK, Types
<1>4. KeysOK'
  BY <1>1 DEF KeysOK, Types, PlaceOK
<1>5. QueueOK'
  <2>1. \A q \in Proc : Waiting(q)' <=> Waiting(q)
    BY <1>1 DEF Waiting, Types
  <2>2. Owners' = Owners
    BY <1>1, <2>1 DEF Owners
  <2>3. h \notin ToSet(queue) /\ ToSet(queue) \subseteq Proc
    BY <1>1 DEF QueueOK, ToSet, Types
  <2>4. \A q \in Proc : cur[q] = h => q = p
    BY <1>1 DEF QueueOK
  <2>5. \A q \in Proc : state'[q] = "Queueing" <=> state[q] = "Queueing" /\ q # h
    BY <1>1 DEF Types
  <2>6. \A q, r \in Proc : cur'[q] = r <=> cur[q] = r /\ r # h
    BY <1>1, <2>4 DEF Types
  <2>7. \A q \in Proc : cur'[q] \notin ToSet(queue')
    BY <1>1, <2>3 DEF QueueOK, Types
  <2>8. \A q \in Proc :
          /\ state'[q] = "Queueing" <=> (q \in ToSet(queue') \/ \E r \in Proc : cur'[r] = q)
          /\ state'[q] = "Queueing" => /\ Waiting(q)'
                                       /\ pc'[q] = "qgot" => \A m \in Machs : cpu'[m] # q
    <3>1. \A q \in Proc : state[q] = "Queueing" <=> (q \in ToSet(queue) \/ \E r \in Proc : cur[r] = q)
      BY DEF QueueOK
    <3>2. \A q \in Proc : pc'[q] = "qgot" => pc[q] = "qgot"
      BY <1>1 DEF Types
    <3> QED BY <1>1, <2>1, <2>3, <2>5, <2>6, <3>1, <3>2 DEF QueueOK
  <2>9. \A q, r \in Proc : cur'[q] \in Proc /\ cur'[q] = cur'[r] => q = r
    BY <2>6 DEF QueueOK
  <2> QED BY <1>1, <2>2, <2>7, <2>8, <2>9 DEF QueueOK
<1>6. OnCpu'
  BY <1>1 DEF OnCpu
<1> QED BY <1>2, <1>3, <1>4, <1>5, <1>6

(* What is common to the steps with q->use: the spin lock is let go.       *)
LEMMA UseReleases ==
  ASSUME LockInv, NEW p \in Proc, use(p)
  PROVE  /\ pc[p] = "use" /\ op[p] # "lock" /\ cur[p] = "use" /\ have[p] = JustUse
         /\ then[p] = "run"
         /\ key' = [key EXCEPT !["use"] = nil] /\ have' = [have EXCEPT ![p] = Nothing]
         /\ pc' = [pc EXCEPT ![p] = "dec"] /\ UNCHANGED <<nlocks, hi, op, cpu>>
         /\ \A l \in Locks, q \in Proc : key'[l] = q <=> l \in ToSet(have'[q])
         /\ key' \in [Locks -> Proc \cup {nil}] /\ have' \in [Proc -> Shapes]
         /\ pc' \in [Proc -> Places] /\ key'["n"] = key["n"]
         /\ \A q \in Proc : nlocks[q] = Counted(have'[q])
              + (IF (pc'[q] = "tas" /\ cur[q] # "i") \/ pc'[q] = "dec" THEN 1 ELSE 0)
<1> USE Names, SomeShapes DEF LockInv
<1>1. /\ pc[p] = "use" /\ Release(p) /\ pc' = [pc EXCEPT ![p] = "dec"]
      /\ UNCHANGED <<nlocks, hi, op, cpu>>
  BY DEF use, At, Go
<1>2. op[p] # "lock" /\ cur[p] = "use" /\ have[p] = JustUse /\ then[p] = "run"
  BY <1>1 DEF PlaceOK
<1>3. /\ Front(have[p]) = Nothing /\ Last(have[p]) = "use"
      /\ ToSet(Nothing) = ToSet(have[p]) \ {"use"} /\ "use" \in ToSet(have[p])
  <2>1. have[p] \in Shapes /\ have[p] # Nothing
    BY <1>2
  <2> QED BY <1>2, <2>1, Released
<1>4. key' = [key EXCEPT !["use"] = nil] /\ have' = [have EXCEPT ![p] = Nothing]
  BY <1>1, <1>3 DEF Release, Set
<1>5. ASSUME NEW l \in Locks, NEW q \in Proc PROVE key'[l] = q <=> l \in ToSet(have'[q])
  <2>1. key["use"] = p
    BY <1>3 DEF KeysOK, Locks
  <2> QED BY <1>3, <1>4, <2>1 DEF KeysOK, Types, Locks
<1>6. ASSUME NEW q \in Proc
      PROVE  nlocks[q] = Counted(have'[q])
               + (IF (pc'[q] = "tas" /\ cur[q] # "i") \/ pc'[q] = "dec" THEN 1 ELSE 0)
  BY <1>1, <1>2, <1>4 DEF KeysOK, Types
<1>7. /\ key' \in [Locks -> Proc \cup {nil}] /\ have' \in [Proc -> Shapes]
      /\ pc' \in [Proc -> Places] /\ key'["n"] = key["n"]
  BY <1>1, <1>4 DEF Types, Places, Locks
<1> QED BY <1>1, <1>2, <1>4, <1>5, <1>6, <1>7

(* qlock() and canqlock() that find the lock free.                         *)
LEMMA UseTakes ==
  ASSUME LockInv, NEW p \in Proc, use(p), op[p] # "qunlock", ~qlocked, qlocked' = TRUE,
         holds' = holds \cup {p}, UNCHANGED <<queue, state, then, cur>>
  PROVE  LockInv'
<1> USE Names, SomeShapes, UseReleases DEF LockInv
<1>1. Types'
  BY DEF Types
<1>2. PlaceOK'
  BY DEF PlaceOK, Types, Locks
<1>3. KeysOK'
  BY DEF KeysOK
<1>4. QueueOK'
  <2>1. \A q \in Proc : Waiting(q)' <=> Waiting(q)
    BY DEF Waiting, Types
  <2>2. Owners = {}
    BY DEF QueueOK
  <2>3. Owners' = {p}
    BY <2>1, <2>2 DEF Owners
  <2>4. \A q \in Proc : pc'[q] = "qgot" => pc[q] = "qgot"
    BY DEF Types
  <2>5. \A q \in Proc : state'[q] = "Queueing" => /\ Waiting(q)'
                                                  /\ pc'[q] = "qgot" => \A m \in Machs : cpu'[m] # q
    BY <2>1, <2>4 DEF QueueOK
  <2>6. IsInjective(queue') /\ qlocked'
    BY DEF QueueOK
  <2>7. \A q \in Proc :
          /\ state'[q] = "Queueing" <=> (q \in ToSet(queue') \/ \E r \in Proc : cur'[r] = q)
          /\ cur'[q] \notin ToSet(queue')
    BY DEF QueueOK
  <2>8. \A q, r \in Proc : cur'[q] \in Proc /\ cur'[q] = cur'[r] => q = r
    BY DEF QueueOK
  <2>9. (\A q, r \in Owners : q = r)'
    BY <2>3
  <2>10. (Owners # {} => qlocked)'
    BY <2>6
  <2> QED BY <2>5, <2>6, <2>7, <2>8, <2>9, <2>10, ZenonT(60) DEF QueueOK
<1>5. OnCpu'
  BY DEF OnCpu
<1> QED BY <1>1, <1>2, <1>3, <1>4, <1>5

(* canqlock() that finds the lock taken.                                   *)
LEMMA UseGivesUp ==
  ASSUME LockInv, NEW p \in Proc, use(p), op[p] # "qunlock",
         UNCHANGED <<qlocked, queue, holds, state, then, cur>>
  PROVE  LockInv'
<1> USE Names, SomeShapes, UseReleases DEF LockInv
<1>1. Types'
  BY DEF Types
<1>2. PlaceOK'
  BY DEF PlaceOK, Types, Locks
<1>3. KeysOK'
  BY DEF KeysOK
<1>4. QueueOK'
  <2>1. ~Waiting(p) /\ cur[p] \notin Proc /\ cur'[p] \notin Proc
    BY DEF Waiting, Locks
  <2>2. pc'[p] = "dec" /\ then'[p] = "run"
    BY DEF Types
  <2>3. \A q \in Proc : q # p => pc'[q] = pc[q] /\ then'[q] = then[q] /\ cur'[q] = cur[q]
    BY DEF Types
  <2>4. UNCHANGED <<qlocked, queue, holds, state, cpu>>
    OBVIOUS
  <2> QED BY <2>1, <2>2, <2>3, <2>4, QueueSame
<1>5. OnCpu'
  BY DEF OnCpu
<1> QED BY <1>1, <1>2, <1>3, <1>4, <1>5

(* qlock() that queues.                                                    *)
LEMMA UseQueues ==
  ASSUME LockInv, NEW p \in Proc, use(p), op[p] = "qlock", qlocked,
         queue' = Append(queue, p), state' = [state EXCEPT ![p] = "Queueing"],
         then' = [then EXCEPT ![p] = "qsched"], UNCHANGED <<qlocked, holds, cur>>
  PROVE  LockInv'
<1> USE Names, SomeShapes, UseReleases DEF LockInv
<1>0. ~Waiting(p) /\ p \notin ToSet(queue) /\ p \notin holds
  BY DEF Waiting, QueueOK, PlaceOK
<1>a. /\ queue' \in Seq(Proc) /\ IsInjective(queue')
      /\ ToSet(queue') = ToSet(queue) \cup {p}
  BY <1>0, QueueAppend DEF Types, QueueOK
<1>b. state[p] # "Queueing" /\ \A q \in Proc : cur[q] # p
  BY <1>0 DEF QueueOK
<1>1. Types'
  BY <1>a DEF Types
<1>2. PlaceOK'
  BY <1>0, SMTT(30) DEF PlaceOK, Types, Locks
<1>3. KeysOK'
  BY DEF KeysOK
<1>4. QueueOK'
  <2>1. \A q \in Proc : q # p => (Waiting(q)' <=> Waiting(q))
    BY DEF Waiting, Types
  <2>2. Waiting(p)' /\ pc'[p] # "qgot"
    BY DEF Waiting, Types
  <2>3. Owners' = Owners
    BY <1>0, <1>a, <2>1, <2>2 DEF Owners
  <2>4. \A q \in Proc : pc'[q] = "qgot" => pc[q] = "qgot"
    BY DEF Types
  <2>5. \A q \in Proc : state'[q] = "Queueing" <=> (state[q] = "Queueing" \/ q = p)
    BY DEF Types
  <2>6. \A q \in Proc : state'[q] = "Queueing" =>
          Waiting(q)' /\ (pc'[q] = "qgot" => \A m \in Machs : cpu'[m] # q)
    BY <2>1, <2>2, <2>4, <2>5 DEF QueueOK
  <2>7. \A q \in Proc :
          /\ state'[q] = "Queueing" <=> (q \in ToSet(queue') \/ \E r \in Proc : cur'[r] = q)
          /\ cur'[q] \notin ToSet(queue')
    BY <1>a, <1>b, <2>5 DEF QueueOK
  <2>8. \A q, r \in Proc : cur'[q] \in Proc /\ cur'[q] = cur'[r] => q = r
    BY DEF QueueOK
  <2>9. (\A q, r \in Owners : q = r)'
    BY <2>3 DEF QueueOK
  <2>10. (Owners # {} => qlocked)'
    OBVIOUS
  <2> QED BY <1>a, <2>6, <2>7, <2>8, <2>9, <2>10, ZenonT(60) DEF QueueOK
<1>5. OnCpu'
  BY DEF OnCpu
<1> QED BY <1>1, <1>2, <1>3, <1>4, <1>5

(* qunlock() with nobody queued.                                           *)
LEMMA UseFrees ==
  ASSUME LockInv, NEW p \in Proc, use(p), op[p] = "qunlock", qlocked' = FALSE,
         holds' = holds \ {p}, UNCHANGED <<queue, state, then, cur>>
  PROVE  LockInv'
<1> USE Names, SomeShapes, UseReleases DEF LockInv
<1>0. p \in holds /\ ~Waiting(p)
  BY DEF PlaceOK, Waiting
<1>1. Types'
  BY ZenonT(60) DEF Types
<1>2. PlaceOK'
  BY DEF PlaceOK, Types, Locks
<1>3. KeysOK'
  BY DEF KeysOK
<1>4. QueueOK'
  <2>1. \A q \in Proc : Waiting(q)' <=> Waiting(q)
    BY DEF Waiting, Types
  <2>2. \A q \in Owners : q = p
    BY <1>0 DEF QueueOK, Owners
  <2>3. Owners' = {}
    BY <1>0, <2>1, <2>2 DEF Owners, Types
  <2>4. \A q \in Proc : pc'[q] = "qgot" => pc[q] = "qgot"
    BY DEF Types
  <2>5. \A q \in Proc : state'[q] = "Queueing" =>
          Waiting(q)' /\ (pc'[q] = "qgot" => \A m \in Machs : cpu'[m] # q)
    BY <2>1, <2>4 DEF QueueOK
  <2>6. IsInjective(queue')
    BY DEF QueueOK
  <2>7. \A q \in Proc :
          /\ state'[q] = "Queueing" <=> (q \in ToSet(queue') \/ \E r \in Proc : cur'[r] = q)
          /\ cur'[q] \notin ToSet(queue')
    BY DEF QueueOK
  <2>8. \A q, r \in Proc : cur'[q] \in Proc /\ cur'[q] = cur'[r] => q = r
    BY DEF QueueOK
  <2>9. (\A q, r \in Owners : q = r)' /\ (Owners # {} => qlocked)'
    BY <2>3
  <2> QED BY <2>5, <2>6, <2>7, <2>8, <2>9, ZenonT(60) DEF QueueOK
<1>5. OnCpu'
  BY DEF OnCpu
<1> QED BY <1>1, <1>2, <1>3, <1>4, <1>5

(* qunlock() that hands the lock to the first in the queue.                *)
LEMMA UseHandsOver ==
  ASSUME LockInv, NEW p \in Proc, use(p), op[p] = "qunlock", queue # <<>>,
         holds' = holds \ {p}, queue' = Tail(queue),
         cur' = [cur EXCEPT ![p] = Head(queue)], then' = [then EXCEPT ![p] = "ready"],
         UNCHANGED <<qlocked, state>>
  PROVE  LockInv'
<1> USE Names, SomeShapes, UseReleases DEF LockInv
<1>0. p \in holds /\ ~Waiting(p)
  BY DEF PlaceOK, Waiting
<1>a. PICK h \in Proc :
      /\ h = Head(queue) /\ h \in ToSet(queue) /\ queue' \in Seq(Proc) /\ IsInjective(queue')
      /\ ToSet(queue') = ToSet(queue) \ {h}
  BY QueueTail DEF Types, QueueOK
<1>b. cur' = [cur EXCEPT ![p] = h]
  BY <1>a
<1>1. Types'
  <2>1. then' \in [Proc -> {"run", "qsched", "ready"}]
    BY DEF Types
  <2>2. cur' \in [Proc -> Locks \cup Proc \cup {nil}] /\ holds' \subseteq Proc
    BY <1>b DEF Types
  <2>3. queue' \in Seq(Proc)
    BY <1>a
  <2> QED BY <2>1, <2>2, <2>3, SMTT(30) DEF Types
<1>2. PlaceOK'
  <2>1. /\ pc'[p] = "dec" /\ have'[p] = Nothing /\ then'[p] = "ready" /\ cur'[p] \in Proc
        /\ p \notin holds'
    BY <1>b DEF Types
  <2>2. \A q \in Proc : q # p =>
          /\ pc'[q] = pc[q] /\ have'[q] = have[q] /\ then'[q] = then[q] /\ cur'[q] = cur[q]
          /\ op'[q] = op[q] /\ (q \in holds' <=> q \in holds)
    BY <1>b, SMTT(30) DEF Types
  <2> QED BY <2>1, <2>2 DEF PlaceOK
<1>3. KeysOK'
  BY <1>b, SMTT(30) DEF KeysOK, Types
<1>4. QueueOK'
  <2>0. state[h] = "Queueing" /\ Waiting(h) /\ h # p
    BY <1>0, <1>a DEF QueueOK
  <2>1. \A q \in Proc : Waiting(q)' <=> Waiting(q)
    BY <1>0, SMTT(30) DEF Waiting, Types
  <2>2. \A q \in Owners : q = p
    BY <1>0 DEF QueueOK, Owners
  <2>3. Owners' = {h}
    BY <1>0, <1>a, <2>0, <2>1, <2>2 DEF Owners, Types
  <2>4. \A q \in Proc : pc'[q] = "qgot" => pc[q] = "qgot"
    BY DEF Types
  <2>5. \A q \in Proc : state'[q] = "Queueing" =>
          Waiting(q)' /\ (pc'[q] = "qgot" => \A m \in Machs : cpu'[m] # q)
    BY <2>1, <2>4 DEF QueueOK
  <2>6. /\ cur[p] \notin Proc /\ cur'[p] = h
        /\ \A q \in Proc : q # p => cur'[q] = cur[q]
        /\ \A q \in Proc : cur[q] # h
    <3>1. cur[p] \notin Proc
      BY DEF Locks
    <3>2. \A q \in Proc : cur[q] # h
      BY <1>a DEF QueueOK
    <3> QED BY <1>b, <3>1, <3>2 DEF Types
  <2>7. \A q \in Proc :
          /\ state'[q] = "Queueing" <=> (q \in ToSet(queue') \/ \E r \in Proc : cur'[r] = q)
          /\ cur'[q] \notin ToSet(queue')
    BY <1>a, <2>0, <2>6 DEF QueueOK
  <2>8. \A q, r \in Proc : cur'[q] \in Proc /\ cur'[q] = cur'[r] => q = r
    BY <2>6 DEF QueueOK
  <2>9. (\A q, r \in Owners : q = r)'
    BY <2>3
  <2>10. (Owners # {} => qlocked)'
    BY <1>0 DEF QueueOK, Owners
  <2> QED BY <1>a, <2>5, <2>7, <2>8, <2>9, <2>10, ZenonT(60) DEF QueueOK
<1>5. OnCpu'
  BY DEF OnCpu
<1> QED BY <1>1, <1>2, <1>3, <1>4, <1>5

(* What qlock(), canqlock() and qunlock() do under q->use keeps LockInv.   *)
LEMMA UseStep == ASSUME LockInv, NEW p \in Proc, use(p) PROVE LockInv'
<1>1. CASE op[p] = "qunlock" /\ qunlockUse(p)
  BY <1>1, UseFrees, UseHandsOver DEF qunlockUse, Set
<1>2. CASE op[p] # "qunlock" /\ qlockUse(p)
  BY <1>2, UseTakes, UseQueues, UseGivesUp DEF qlockUse, Set, qvars
<1> QED BY <1>1, <1>2 DEF use
-----------------------------------------------------------------------------
(* A processor that takes up a process, and the clock.                     *)
LEMMA DispatchStep ==
  ASSUME LockInv, NEW m \in Machs, NEW p \in Proc, dispatch(m, p) PROVE LockInv'
<1> USE Names DEF LockInv
<1>1. /\ cpu[m] = nil /\ state[p] = "Ready" /\ cpu' = [cpu EXCEPT ![m] = p]
      /\ state' = [state EXCEPT ![p] = "Running"]
      /\ UNCHANGED <<key, have, nlocks, hi, qlocked, queue, holds, op, cur, pc, then>>
  BY DEF dispatch, Set, spin, qvars, own
<1>2. Types'
  BY <1>1 DEF Types
<1>3. PlaceOK' /\ KeysOK'
  BY <1>1 DEF PlaceOK, KeysOK
<1>4. QueueOK'
  <2>1. \A q \in Proc : Waiting(q)' <=> Waiting(q)
    BY <1>1 DEF Waiting
  <2>2. \A q \in Proc : state'[q] = "Queueing" <=> state[q] = "Queueing"
    BY <1>1 DEF Types
  <2>3. \A q \in Proc : state'[q] = "Queueing" /\ pc'[q] = "qgot" => \A n \in Machs : cpu'[n] # q
    BY <1>1 DEF QueueOK, Types
  <2> QED BY <1>1, <2>1, <2>2, <2>3, QueueFrame
<1>5. OnCpu'
  BY <1>1 DEF OnCpu, Types
<1> QED BY <1>2, <1>3, <1>4, <1>5

(* The steps of the interrupt that leave the process alone, and those of   *)
(* nobody.                                                                 *)
LEMMA SameStep ==
  ASSUME LockInv,
         UNCHANGED <<key, have, nlocks, hi, qlocked, queue, holds, op, cur, pc, then, state, cpu>>
  PROVE  LockInv'
<1> USE DEF LockInv
<1>1. Types' /\ PlaceOK' /\ KeysOK' /\ OnCpu'
  BY DEF Types, PlaceOK, KeysOK, OnCpu
<1>2. QueueOK'
  <2>1. Owners' = Owners /\ \A q \in Proc : Waiting(q)' <=> Waiting(q)
    BY DEF Owners, Waiting
  <2> QED BY <2>1 DEF QueueOK
<1> QED BY <1>1, <1>2

(* The end of a clock interrupt, with or without a sched(), keeps LockInv. *)
LEMMA TrapendStep == ASSUME LockInv, CpuOK, NEW m \in Machs, trapend(m) PROVE LockInv'
<1> USE Names DEF LockInv
<1>1. /\ UNCHANGED <<key, have, nlocks, hi, qlocked, queue, holds, op, cur, pc, then>>
      /\ sched(cpu[m]) \/ UNCHANGED <<state, cpu>>
  BY DEF trapend, spin, qvars, own
<1>2. CASE UNCHANGED <<state, cpu>>
  BY <1>1, <1>2, SameStep
<1>3. CASE sched(cpu[m])
  <2>1. cpu[m] \in Proc
    BY DEF trapend, CpuOK
  <2>2. PICK p \in Proc : p = cpu[m]
    BY <2>1
  <2>3. /\ state' \in [Proc -> {"Ready", "Running", "Queueing"}]
        /\ cpu' \in [Machs -> Proc \cup {nil, "offline"}]
        /\ \A q \in Proc : state'[q] = "Queueing" <=> state[q] = "Queueing"
        /\ \A n \in Machs, q \in Proc : cpu'[n] = q => cpu[n] = q
        /\ OnCpu'
    BY <1>1, <1>3, <2>2, SchedStep
  <2>4. Types'
    BY <1>1, <2>3 DEF Types
  <2>5. PlaceOK' /\ KeysOK'
    BY <1>1 DEF PlaceOK, KeysOK
  <2>6. QueueOK'
    <3>1. \A q \in Proc : Waiting(q)' <=> Waiting(q)
      BY <1>1 DEF Waiting
    <3>2. \A q \in Proc : state'[q] = "Queueing" /\ pc'[q] = "qgot" => \A n \in Machs : cpu'[n] # q
      BY <1>1, <2>3 DEF QueueOK
    <3> QED BY <1>1, <2>3, <3>1, <3>2, QueueFrame
  <2> QED BY <2>3, <2>4, <2>5, <2>6
<1> QED BY <1>1, <1>2, <1>3

(* Every step keeps CpuOK.                                                 *)
LEMMA CpuStep == ASSUME Types, CpuOK, [Next]_lvars PROVE CpuOK'
<1> USE Names
<1>1. CASE UNCHANGED <<cpu, intr>>
  BY <1>1 DEF CpuOK
<1>2. ASSUME NEW p \in Proc, UNCHANGED intr, Switch(p), \E m \in Machs : cpu[m] = p /\ intr[m] = "no"
      PROVE  CpuOK'
  <2>1. /\ \A m \in Machs : cpu'[m] # p
        /\ \A m \in Machs, q \in Proc : q # p => (cpu'[m] = q <=> cpu[m] = q)
    BY <1>2, Switched
  <2>2. \A m \in Machs : cpu[m] = p => intr[m] = "no"
    BY <1>2 DEF CpuOK
  <2> QED BY <1>2, <2>1, <2>2 DEF CpuOK
<1>3. ASSUME NEW m \in Machs, NEW p \in Proc, dispatch(m, p) PROVE CpuOK'
  BY <1>3 DEF dispatch, Set, CpuOK, Types
<1>4. ASSUME NEW m \in Machs, clock(m) \/ hzsched(m) PROVE CpuOK'
  BY <1>4 DEF clock, hzsched, Set, CpuOK
<1>5. ASSUME NEW m \in Machs, trapend(m) PROVE CpuOK'
  <2>1. intr' = [intr EXCEPT ![m] = "no"] /\ cpu[m] \in Proc
    BY <1>5 DEF trapend, Set, CpuOK
  <2>2. CASE UNCHANGED cpu
    BY <2>1, <2>2 DEF CpuOK
  <2>3. CASE Switch(cpu[m])
    <3>1. PICK p \in Proc : p = cpu[m]
      BY <2>1
    <3>2. /\ \A n \in Machs : cpu'[n] # p
          /\ \A n \in Machs, q \in Proc : q # p => (cpu'[n] = q <=> cpu[n] = q)
      BY <2>3, <3>1, Switched
    <3>3. \A n \in Machs : cpu[n] = p => n = m
      BY <3>1 DEF CpuOK
    <3> QED BY <2>1, <3>2, <3>3 DEF CpuOK
  <2> QED BY <1>5, <2>2, <2>3 DEF trapend, sched
<1>6. ASSUME NEW p \in Proc, dec(p) PROVE CpuOK'
  <2>1. UNCHANGED intr /\ \E m \in Machs : cpu[m] = p /\ intr[m] = "no"
    BY <1>6 DEF dec, At, Running
  <2>2. Switch(p) \/ UNCHANGED cpu
    BY <1>6 DEF dec
  <2> QED BY <1>1, <1>2, <2>1, <2>2
<1>7. ASSUME NEW p \in Proc, qsched(p) PROVE CpuOK'
  <2>1. UNCHANGED intr /\ \E m \in Machs : cpu[m] = p /\ intr[m] = "no"
    BY <1>7 DEF qsched, At, Running
  <2>2. Switch(p) \/ UNCHANGED cpu
    BY <1>7 DEF qsched, sched
  <2> QED BY <1>1, <1>2, <2>1, <2>2
<1>8. ASSUME NEW p \in Proc,
             \/ tas(p) \/ tasFails(p) \/ spinning(p) \/ xunlock(p) \/ use(p) \/ qgot(p)
             \/ ready(p) \/ qunlock(p) \/ qlock(p) \/ canqlock(p)
             \/ \E l \in {"l", "n", "i"} : xlock(p, l)
      PROVE  UNCHANGED <<cpu, intr>>
  BY <1>8 DEF tas, tasFails, spinning, xunlock, use, qgot, ready, qunlock, qlock, canqlock, xlock, Begin
<1>9. CASE UNCHANGED lvars
  BY <1>1, <1>9 DEF lvars
<1> QED BY <1>1, <1>3, <1>4, <1>5, <1>6, <1>7, <1>8, <1>9 DEF Next, Goes

(* At the start nothing is held and nobody waits.                          *)
LEMMA InitInv == Init => IInv
<1> SUFFICES ASSUME Init PROVE IInv
  OBVIOUS
<1> USE Names, SomeShapes
<1>0. have = [p \in Proc |-> Nothing]
  BY DEF Init, Nothing
<1>1. Types
  <2>1. queue \in Seq(Proc)
    BY DEF Init
  <2>2. /\ key \in [Locks -> Proc \cup {nil}] /\ have \in [Proc -> Shapes]
        /\ cpu \in [Machs -> Proc \cup {nil, "offline"}]
    BY <1>0 DEF Init, Locks
  <2> QED BY <2>1, <2>2 DEF Init, Types, Places
<1>2. PlaceOK
  BY <1>0 DEF Init, PlaceOK
<1>3. KeysOK
  BY <1>0 DEF Init, KeysOK, Locks
<1>4. QueueOK
  <2>1. ToSet(queue) = {} /\ IsInjective(queue)
    BY DEF Init, ToSet, IsInjective
  <2>2. Owners = {}
    BY DEF Init, Owners, Waiting
  <2> QED BY <2>1, <2>2 DEF Init, QueueOK
<1>5. OnCpu
  BY DEF Init, OnCpu
<1>6. CpuOK
  BY DEF Init, CpuOK
<1> QED BY <1>1, <1>2, <1>3, <1>4, <1>5, <1>6 DEF IInv, LockInv

(* IInv is inductive.                                                      *)
LEMMA NextInv == IInv /\ [Next]_lvars => IInv'
<1> SUFFICES ASSUME LockInv, CpuOK, [Next]_lvars PROVE LockInv' /\ CpuOK'
  BY DEF IInv
<1>1. CpuOK'
  BY CpuStep DEF LockInv
<1>2. ASSUME NEW p \in Proc, Goes(p) PROVE LockInv'
  <2>1. ASSUME qunlock(p) PROVE LockInv'
    BY <2>1, BeginStep DEF qunlock, At, Nothing, Locks
  <2> QED BY <1>2, <2>1, TasStep, TasFailsStep, SpinningStep, XunlockStep, DecStep, UseStep,
             QschedStep, QgotStep, ReadyStep DEF Goes
<1>3. ASSUME NEW p \in Proc, qlock(p) \/ canqlock(p) PROVE LockInv'
  BY <1>3, BeginStep DEF qlock, canqlock, At, Nothing, Locks
<1>4. ASSUME NEW p \in Proc, NEW l \in {"l", "n", "i"}, xlock(p, l) PROVE LockInv'
  <2>1. l \in Locks /\ l # "use" /\ pc[p] = "run" /\ p \notin holds /\ Begin(p, "lock", l)
    BY <1>4 DEF xlock, At, Locks
  <2>2. have[p] = Nothing \/ (have[p] = JustL /\ l # "l")
    BY <1>4 DEF xlock, Nothing, JustL
  <2> QED BY <2>1, <2>2, BeginStep
<1>5. ASSUME NEW m \in Machs, clock(m) \/ hzsched(m) PROVE LockInv'
  <2>1. UNCHANGED <<key, have, nlocks, hi, qlocked, queue, holds, op, cur, pc, then, state, cpu>>
    BY <1>5 DEF clock, hzsched, spin, qvars, own
  <2> QED BY <2>1, SameStep
<1>6. ASSUME UNCHANGED lvars PROVE LockInv'
  <2>1. UNCHANGED <<key, have, nlocks, hi, qlocked, queue, holds, op, cur, pc, then, state, cpu>>
    BY <1>6 DEF lvars, spin, qvars, own
  <2> QED BY <2>1, SameStep
<1>7. LockInv'
  BY <1>2, <1>3, <1>4, <1>5, <1>6, DispatchStep, TrapendStep DEF Next
<1> QED BY <1>1, <1>7

(* Whoever returned from qlock() has the lock, alone; whoever waits for it *)
(* is on the queue, once, or is being readied; and whoever has a no-sched  *)
(* lock is on a processor, for any number of processes and processors:     *)
(* sched() put off by nlocks, and the clock, change nothing of that.       *)
THEOREM LocksAreHeld == Spec => []LocksHold
<1>1. IInv => LocksHold
  <2> SUFFICES ASSUME Types, PlaceOK, QueueOK, OnCpu PROVE LocksHold
    BY DEF IInv, LockInv
  <2>1. \A p, q \in holds : p = q
    BY DEF QueueOK, Owners
  <2>2. holds # {} => qlocked
    BY DEF QueueOK, Owners
  <2>3. \A p \in Proc : state[p] = "Queueing" =>
          \/ p \in ToSet(queue)
          \/ \E q \in Proc : cur[q] = p /\ pc[q] \in {"dec", "ready"}
    <3>1. ASSUME NEW q \in Proc, pc[q] \notin {"dec", "ready"} PROVE cur[q] \notin Proc
      <4>1. pc[q] \in {"run", "tas", "spin", "use", "qsched", "qgot"}
        BY <3>1 DEF Types, Places
      <4>2. cur[q] = nil \/ cur[q] \in {"l", "n", "i", "use"}
        BY <4>1 DEF PlaceOK
      <4> QED BY <4>2, Names DEF Locks
    <3> QED BY <3>1 DEF QueueOK
  <2> QED BY <2>1, <2>2, <2>3 DEF LocksHold, QueueOK, OnCpu
<1> QED BY <1>1, InitInv, NextInv, PTL DEF Spec

(* A spin lock is held by one process at a time, and TAS() of a lock that  *)
(* a process has, or of one that nobody has, tells the truth: the key is   *)
(* of whoever has the lock.                                                *)
SpinExclusion ==
  \A l \in Locks, p, q \in Proc : l \in ToSet(have[p]) /\ l \in ToSet(have[q]) => p = q

(* lock(), noschedlock(), ilock() and the spin lock inside a QLock exclude *)
(* each other, whatever the clock and the processors do.                   *)
THEOREM SpinLocksExclude == Spec => []SpinExclusion
<1>1. IInv => SpinExclusion
  BY DEF IInv, LockInv, KeysOK, SpinExclusion
<1> QED BY <1>1, InitInv, NextInv, PTL DEF Spec
=============================================================================
