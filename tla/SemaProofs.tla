----------------------------- MODULE SemaProofs -----------------------------
(***************************************************************************)
(* No acquirer of a semaphore is forgotten, for any number of processes    *)
(* and semaphores and any values released.                                 *)
(*                                                                         *)
(* The argument counts.  A release of n puts n units on their way; a unit  *)
(* is carried by the releaser, then by the acquirer whose flag semwakeup() *)
(* cleared, until that one tries again, or passes it on.  While somebody   *)
(* sleeps with its flag set the semaphore is worth no more than the units  *)
(* on their way to it (Covered), and if the sleeper was passed over by     *)
(* semwakeup(), no more than the units of the others (PassedOver).         *)
(***************************************************************************)
EXTENDS Sema, FiniteSetTheorems, SequenceTheorems, TLAPS

(* What the theorems suppose of the constants.                             *)
Sane ==
  /\ IsFiniteSet(Proc) /\ nil \notin Proc
  /\ Addr # {} /\ Initial \in Nat /\ Deltas \subseteq Nat
-----------------------------------------------------------------------------
(* Sums over the processes, as the size of a set of units.                 *)
Units(W) == UNION {{q} \X (1..W[q]) : q \in Proc}
Sum(W) == Cardinality(Units(W))

(* What is in it.                                                          *)
LEMMA InUnits ==
  ASSUME NEW W \in [Proc -> Nat]
  PROVE  \A u : u \in Units(W) <=> \E q \in Proc, k \in Nat : k \in 1..W[q] /\ u = <<q, k>>
<1>1. \A u : u \in Units(W) <=> \E q \in Proc : u \in {q} \X (1..W[q])
  BY Zenon DEF Units
<1>2. \A q \in Proc : W[q] \in Nat /\ 1..W[q] \subseteq Nat
  OBVIOUS
<1>3. \A q \in Proc : \A u : u \in {q} \X (1..W[q]) <=> \E k \in 1..W[q] : u = <<q, k>>
  OBVIOUS
<1>4. ASSUME NEW u, u \in Units(W) PROVE \E q \in Proc, k \in Nat : k \in 1..W[q] /\ u = <<q, k>>
  <2>1. PICK q \in Proc : u \in {q} \X (1..W[q])
    BY <1>1, <1>4
  <2>2. PICK k \in 1..W[q] : u = <<q, k>>
    BY <1>3, <2>1
  <2>3. k \in Nat
    BY <1>2
  <2> QED BY <2>2, <2>3
<1>5. ASSUME NEW u, NEW q \in Proc, NEW k \in Nat, k \in 1..W[q], u = <<q, k>> PROVE u \in Units(W)
  <2>1. u \in {q} \X (1..W[q])
    BY <1>3, <1>5
  <2> QED BY <1>1, <2>1
<1> QED BY <1>4, <1>5, Zenon

(* It is finite.                                                           *)
LEMMA UnitsFinite ==
  ASSUME IsFiniteSet(Proc), NEW W \in [Proc -> Nat]
  PROVE  IsFiniteSet(Units(W)) /\ Sum(W) \in Nat
<1> DEFINE f == [q \in Proc |-> {q} \X (1..W[q])]
           T == {{q} \X (1..W[q]) : q \in Proc}
<1>1. f \in Surjection(Proc, T)
  BY Zenon DEF Surjection
<1>2. IsFiniteSet(T)
  BY <1>1, FS_Surjection
<1>3. \A t \in T : IsFiniteSet(t)
  <2> TAKE t \in T
  <2>1. PICK q \in Proc : t = {q} \X (1..W[q])
    OBVIOUS
  <2>2. IsFiniteSet({q})
    BY FS_Singleton
  <2>3. IsFiniteSet(1..W[q])
    BY FS_Interval
  <2> QED BY <2>1, <2>2, <2>3, FS_Product
<1>4. IsFiniteSet(UNION T)
  BY <1>2, <1>3, FS_UNION
<1> QED BY <1>4, FS_CardinalityType DEF Units, Sum

(* One process apart from the others.                                      *)
LEMMA SumApart ==
  ASSUME IsFiniteSet(Proc), NEW W \in [Proc -> Nat], NEW p \in Proc
  PROVE  Sum(W) = Sum([W EXCEPT ![p] = 0]) + W[p]
<1> DEFINE V == [W EXCEPT ![p] = 0]
           Own == {p} \X (1..W[p])
<1>0. V \in [Proc -> Nat] /\ W[p] \in Nat /\ V[p] = 0 /\ \A q \in Proc : q # p => V[q] = W[q]
  OBVIOUS
<1> HIDE DEF V
<1>1. Units(W) = Units(V) \cup Own
  <2>1. \A u \in Own : \E k \in 1..W[p] : u = <<p, k>>
    OBVIOUS
  <2>2. \A k \in 1..W[p] : <<p, k>> \in Own
    BY Zenon
  <2>3. ASSUME NEW u \in Units(W) PROVE u \in Units(V) \cup Own
    <3>1. PICK q \in Proc, k \in Nat : k \in 1..W[q] /\ u = <<q, k>>
      BY InUnits
    <3>2. CASE q = p
      BY <3>1, <3>2, <2>2
    <3>3. CASE q # p
      BY <3>1, <3>3, <1>0, InUnits
    <3> QED BY <3>2, <3>3
  <2>4. ASSUME NEW u \in Units(V) PROVE u \in Units(W)
    <3>1. PICK q \in Proc, k \in Nat : k \in 1..V[q] /\ u = <<q, k>>
      BY <1>0, InUnits
    <3>2. q # p
      BY <3>1, <1>0
    <3> QED BY <3>1, <3>2, <1>0, InUnits
  <2>5. ASSUME NEW u \in Own PROVE u \in Units(W)
    BY <2>1, InUnits
  <2> QED BY <2>3, <2>4, <2>5, Zenon
<1>2. Units(V) \cap Own = {}
  <2> SUFFICES ASSUME NEW u \in Units(V), u \in Own PROVE FALSE
    BY Zenon
  <2>1. PICK q \in Proc, k \in Nat : k \in 1..V[q] /\ u = <<q, k>>
    BY <1>0, InUnits
  <2>2. q = p
    BY <2>1
  <2> QED BY <2>1, <2>2, <1>0
<1>3. IsFiniteSet(Own) /\ Cardinality(Own) = W[p]
  <2>1. IsFiniteSet({p}) /\ Cardinality({p}) = 1
    BY FS_Singleton
  <2>2. IsFiniteSet(1..W[p]) /\ Cardinality(1..W[p]) = W[p]
    BY <1>0, FS_Interval
  <2>3. IsFiniteSet(Own) /\ Cardinality(Own) = 1 * W[p]
    BY <2>1, <2>2, FS_Product, SMTT(30)
  <2> QED BY <2>3, <1>0
<1>4. IsFiniteSet(Units(V)) /\ Sum(V) \in Nat
  BY <1>0, UnitsFinite
<1>5. Cardinality(Units(V) \cup Own) = Cardinality(Units(V)) + Cardinality(Own) - Cardinality(Units(V) \cap Own)
  BY <1>3, <1>4, FS_Union
<1>6. Cardinality(Units(V) \cap Own) = 0
  BY <1>2, FS_EmptySet
<1>7. Sum(W) = Sum(V) + W[p]
  BY <1>1, <1>3, <1>4, <1>5, <1>6, <1>0 DEF Sum
<1> QED BY <1>7 DEF V

(* One term changes.                                                       *)
LEMMA SumStep ==
  ASSUME IsFiniteSet(Proc), NEW W \in [Proc -> Nat], NEW V \in [Proc -> Nat], NEW p \in Proc,
         \A q \in Proc : q # p => V[q] = W[q]
  PROVE  Sum(V) + W[p] = Sum(W) + V[p]
<1>1. [W EXCEPT ![p] = 0] = [V EXCEPT ![p] = 0] /\ [W EXCEPT ![p] = 0] \in [Proc -> Nat]
  OBVIOUS
<1>2. Sum([W EXCEPT ![p] = 0]) \in Nat
  BY <1>1, UnitsFinite
<1>3. Sum(W) = Sum([W EXCEPT ![p] = 0]) + W[p] /\ Sum(V) = Sum([V EXCEPT ![p] = 0]) + V[p]
  BY SumApart
<1> QED BY <1>1, <1>2, <1>3

(* A sum that is not 0 has a term that is not 0.                           *)
LEMMA SumPositive ==
  ASSUME IsFiniteSet(Proc), NEW W \in [Proc -> Nat], Sum(W) > 0
  PROVE  \E q \in Proc : W[q] > 0
<1>1. Units(W) # {}
  BY UnitsFinite, FS_EmptySet DEF Sum
<1>2. PICK u : u \in Units(W)
  BY <1>1
<1>3. PICK q \in Proc, k \in Nat : k \in 1..W[q] /\ u = <<q, k>>
  BY <1>2, InUnits
<1> QED BY <1>3
-----------------------------------------------------------------------------
(* Where a process can be.                                                 *)
Labels == {"idle", "queue", "announce", "try", "sleep", "asleep", "dequeue", "check",
           "lock", "scan", "wakeup"}

(* Types, and where the scan of the list is.                               *)
Types ==
  /\ TypeOK
  /\ pc \in [Proc -> Labels] /\ lock \in Proc \cup {nil}
  /\ \A q \in Proc : pc[q] = "scan" => cur[q] # 0
  /\ \A q \in Proc : pc[q] = "wakeup" => cur[q] \in 1..Len(list)

(* The units that q carries: n in semwakeup(), one if its flag was         *)
(* cleared, one if it has yet to try.                                      *)
Flag(q) == IF waiting[q] THEN 0 ELSE 1
Carries(q) ==
  IF pc[q] \in {"lock", "scan", "wakeup"} THEN n[q]
  ELSE IF pc[q] \in {"announce", "sleep", "asleep", "dequeue", "check"} THEN Flag(q)
  ELSE IF pc[q] = "try" THEN 1 + Flag(q) ELSE 0

(* ... to the semaphore at a, and all of them together.                    *)
Owed(a) == [q \in Proc |-> IF addr[q] = a THEN Carries(q) ELSE 0]
OnTheWay(a) == Sum(Owed(a))

Sleeper(p) == pc[p] \in {"sleep", "asleep"} /\ waiting[p]

(* Who sleeps does so before a semaphore that is worth no more than what   *)
(* is on the way to it.                                                    *)
Covered == \A a \in Addr, p \in Proc :
  Sleeper(p) /\ addr[p] = a => value[a] <= OnTheWay(a)

(* If semwakeup() is past it, without what semwakeup() has left.           *)
Past(q, i) == i < cur[q] \/ (i = cur[q] /\ pc[q] = "wakeup")
PassedOver == \A a \in Addr, q \in Proc, i \in 1..Len(list) :
  lock = q /\ addr[q] = a /\ Past(q, i) /\ Sleeper(list[i]) /\ addr[list[i]] = a =>
    value[a] + n[q] <= OnTheWay(a)

IInv == Types /\ ListExact /\ NoLostWakeup /\ Covered /\ PassedOver
-----------------------------------------------------------------------------
(* The terms are numbers.                                                  *)
LEMMA OwedType ==
  ASSUME Sane, Types, NEW a
  PROVE  Owed(a) \in [Proc -> Nat] /\ OnTheWay(a) \in Nat
<1>1. Owed(a) \in [Proc -> Nat]
  BY DEF Types, TypeOK, Owed, Carries, Flag
<1> QED BY <1>1, UnitsFinite DEF Sane, OnTheWay

(* Only p changes what it carries.                                         *)
LEMMA OneChanges ==
  ASSUME Sane, Types, Types', NEW p \in Proc, NEW a,
         \A q \in Proc : q # p => Owed(a)'[q] = Owed(a)[q]
  PROVE  OnTheWay(a)' + Owed(a)[p] = OnTheWay(a) + Owed(a)'[p]
<1>1. Owed(a) \in [Proc -> Nat]
  BY OwedType
<1>2. Owed(a)' \in [Proc -> Nat]
  <2>1. (Owed(a) \in [Proc -> Nat])'
    BY DEF Types, TypeOK, Owed, Carries, Flag
  <2> QED BY <2>1
<1>3. Sum(Owed(a)') + Owed(a)[p] = Sum(Owed(a)) + Owed(a)'[p]
  BY <1>1, <1>2, SumStep DEF Sane
<1> QED BY <1>3 DEF OnTheWay, Sum, Units

(* The next state's sums are numbers too.                                  *)
LEMMA OwedTypeNext ==
  ASSUME Sane, Types', NEW a
  PROVE  Owed(a)' \in [Proc -> Nat] /\ OnTheWay(a)' \in Nat
<1>1. Owed(a)' \in [Proc -> Nat]
  BY DEF Types, TypeOK, Owed, Carries, Flag
<1>2. Sum(Owed(a)') \in Nat
  BY <1>1, UnitsFinite DEF Sane
<1> QED BY <1>1, <1>2 DEF OnTheWay, Sum, Units

(* Nobody changes it.                                                      *)
LEMMA NoneChanges ==
  ASSUME Sane, Types, Types', NEW a,
         \A q \in Proc : Owed(a)'[q] = Owed(a)[q]
  PROVE  OnTheWay(a)' = OnTheWay(a)
<1>1. Owed(a) \in [Proc -> Nat] /\ Owed(a)' \in [Proc -> Nat]
  BY OwedType, OwedTypeNext
<1>2. Owed(a)' = Owed(a)
  BY <1>1
<1> QED BY <1>2 DEF OnTheWay, Sum, Units

(* Without p and without q: both change.                                   *)
LEMMA TwoChange ==
  ASSUME Sane, Types, Types', NEW p \in Proc, NEW x \in Proc, p # x, NEW a,
         \A q \in Proc : q \notin {p, x} => Owed(a)'[q] = Owed(a)[q]
  PROVE  OnTheWay(a)' + Owed(a)[p] + Owed(a)[x] = OnTheWay(a) + Owed(a)'[p] + Owed(a)'[x]
<1> DEFINE W == Owed(a)
           X == Owed(a)'
           V == [W EXCEPT ![p] = X[p]]
<1>1. W \in [Proc -> Nat] /\ X \in [Proc -> Nat] /\ OnTheWay(a)' \in Nat /\ OnTheWay(a) \in Nat
  BY OwedType, OwedTypeNext
<1>0. \A q \in Proc : q \notin {p, x} => X[q] = W[q]
  OBVIOUS
<1> HIDE DEF W, X
<1>2. V \in [Proc -> Nat] /\ V[p] = X[p] /\ (\A q \in Proc : q # p => V[q] = W[q])
      /\ \A q \in Proc : q # x => X[q] = V[q]
  BY <1>1, <1>0
<1> HIDE DEF V
<1>3. Sum(V) + W[p] = Sum(W) + V[p]
  BY <1>1, <1>2, SumStep DEF Sane
<1>4. Sum(X) + V[x] = Sum(V) + X[x]
  BY <1>1, <1>2, SumStep DEF Sane
<1>5. Sum(V) \in Nat /\ Sum(W) \in Nat /\ Sum(X) \in Nat
  BY <1>1, <1>2, UnitsFinite DEF Sane
<1>6. V[x] = W[x] /\ {V[x], W[x], X[x], V[p], W[p], X[p]} \subseteq Nat
  BY <1>1, <1>2
<1>7. Sum(X) + W[p] + W[x] = Sum(W) + X[p] + X[x]
  BY <1>2, <1>3, <1>4, <1>5, <1>6
<1> QED BY <1>7 DEF OnTheWay, Sum, Units, W, X

(* What one process carries is part of the sum.                            *)
LEMMA OwedPart ==
  ASSUME Sane, Types', NEW q \in Proc, NEW a, addr'[q] = a
  PROVE  Carries(q)' \in Nat /\ Carries(q)' <= OnTheWay(a)'
<1> DEFINE W == Owed(a)'
<1>1. W \in [Proc -> Nat]
  BY OwedTypeNext
<1>2. W[q] = Carries(q)'
  BY DEF Owed
<1>3. [W EXCEPT ![q] = 0] \in [Proc -> Nat]
  BY <1>1
<1>6. W = Owed(a)'
  OBVIOUS
<1> HIDE DEF W
<1>4. Sum(W) = Sum([W EXCEPT ![q] = 0]) + W[q] /\ Sum([W EXCEPT ![q] = 0]) \in Nat /\ W[q] \in Nat
  BY <1>1, <1>3, SumApart, UnitsFinite DEF Sane
<1>5. Sum(W) = OnTheWay(a)'
  BY <1>6 DEF OnTheWay, Sum, Units
<1> QED BY <1>2, <1>4, <1>5
-----------------------------------------------------------------------------
(* A step of p, that is not in semwakeup(), which leaves the value of a    *)
(* semaphore 0 or changes it by no more than what p carries; p begins to   *)
(* sleep only if it is 0.                                                  *)
LEMMA Balanced ==
  ASSUME Sane, IInv, Types', NEW p \in Proc, lock' = lock, lock # p,
         UNCHANGED list \/ lock = nil,
         \A q \in Proc : q # p =>
           /\ pc'[q] = pc[q] /\ waiting'[q] = waiting[q] /\ addr'[q] = addr[q]
           /\ n'[q] = n[q] /\ cur'[q] = cur[q],
         \A a \in Addr : value'[a] = 0 \/ value'[a] + Owed(a)[p] <= value[a] + Owed(a)'[p],
         Sleeper(p)' => value'[addr'[p]] = 0 \/ (Sleeper(p) /\ addr'[p] = addr[p])
  PROVE  Covered' /\ PassedOver'
<1>1. ASSUME NEW a PROVE OnTheWay(a)' + Owed(a)[p] = OnTheWay(a) + Owed(a)'[p]
  <2>1. \A q \in Proc : q # p => Owed(a)'[q] = Owed(a)[q]
    BY DEF Owed, Carries, Flag
  <2> QED BY <2>1, OneChanges DEF IInv
<1>2. ASSUME NEW a \in Addr
      PROVE  /\ {value[a], value'[a], OnTheWay(a), OnTheWay(a)', Owed(a)[p], Owed(a)'[p]} \subseteq Nat
  <2>1. value \in [Addr -> Nat] /\ value' \in [Addr -> Nat]
    BY DEF IInv, Types, TypeOK
  <2>2. Owed(a) \in [Proc -> Nat] /\ OnTheWay(a) \in Nat
    BY OwedType DEF IInv
  <2>3. Owed(a)' \in [Proc -> Nat] /\ OnTheWay(a)' \in Nat
    BY OwedTypeNext
  <2> QED BY <2>1, <2>2, <2>3
<1>3. \A q \in Proc : q # p => (Sleeper(q)' <=> Sleeper(q)) /\ addr'[q] = addr[q]
  BY DEF Sleeper
<1>4. \A q \in Proc : addr[q] \in Addr /\ addr'[q] \in Addr
  BY DEF IInv, Types, TypeOK
<1>5. Covered'
  <2> SUFFICES ASSUME NEW a \in Addr, NEW x \in Proc, Sleeper(x)', addr'[x] = a
               PROVE  value'[a] <= OnTheWay(a)'
    BY DEF Covered
  <2>1. CASE value'[a] = 0
    BY <2>1, <1>2
  <2>2. CASE value'[a] # 0
    <3>1. Sleeper(x) /\ addr[x] = a
      BY <2>2, <1>3
    <3>2. value[a] <= OnTheWay(a)
      BY <3>1 DEF IInv, Covered
    <3>4. value'[a] + Owed(a)[p] <= value[a] + Owed(a)'[p]
      BY <2>2
    <3> QED BY <3>2, <3>4, <1>1, <1>2
  <2> QED BY <2>1, <2>2
<1>6. PassedOver'
  <2> SUFFICES ASSUME NEW a \in Addr, NEW q \in Proc, NEW i \in 1..Len(list'), lock' = q, addr'[q] = a,
                      Past(q, i)', Sleeper(list[i])', addr'[list'[i]] = a
               PROVE  value'[a] + n'[q] <= OnTheWay(a)'
    BY DEF PassedOver
  <2>1. q # p /\ list' = list /\ lock = q
    BY DEF Sane
  <2>2. n'[q] = n[q] /\ addr[q] = a /\ Past(q, i) /\ n[q] \in Nat
    BY <2>1 DEF Past, IInv, Types, TypeOK
  <2>b. list \in Seq(Proc) /\ i \in 1..Len(list)
    BY <2>1 DEF IInv, Types, TypeOK
  <2>a. PICK x \in Proc : x = list[i]
    BY <2>b
  <2>3. Sleeper(x)' /\ addr'[x] = a
    BY <2>1, <2>a DEF Sleeper
  <2>4. CASE value'[a] = 0
    <3>1. pc'[q] \in {"scan", "wakeup"}
      BY DEF Types, TypeOK
    <3>2. Carries(q)' = n'[q]
      BY <3>1 DEF Carries
    <3>3. n'[q] <= OnTheWay(a)'
      BY <3>2, OwedPart
    <3> QED BY <3>3, <2>4, <2>2
  <2>5. CASE value'[a] # 0
    <3>1. Sleeper(x) /\ addr[x] = a
      BY <2>5, <2>3, <1>3
    <3>2. value[a] + n[q] <= OnTheWay(a)
      BY <3>1, <2>1, <2>2, <2>a DEF IInv, PassedOver
    <3>4. value'[a] + Owed(a)[p] <= value[a] + Owed(a)'[p]
      BY <2>5
    <3> QED BY <3>2, <3>4, <1>1, <1>2, <2>2, SMTT(30)
  <2> QED BY <2>4, <2>5
<1> QED BY <1>5, <1>6

(* The list does not change and neither does who scans it.                 *)
LEMMA ListKept ==
  ASSUME ListExact, UNCHANGED list, NEW p \in Proc, pc'[p] \in OnList <=> pc[p] \in OnList,
         \A q \in Proc : q # p => pc'[q] = pc[q]
  PROVE  ListExact'
BY DEF ListExact

(* Nobody falls asleep without its flag, and no wakeup is given up.        *)
LEMMA WakeupKept ==
  ASSUME Sane, NoLostWakeup, Types, NEW p \in Proc, pc[p] # "wakeup", pc'[p] = "asleep" => waiting'[p],
         UNCHANGED <<list>> \/ lock = nil,
         \A q \in Proc : q # p => pc'[q] = pc[q] /\ waiting'[q] = waiting[q] /\ cur'[q] = cur[q]
  PROVE  NoLostWakeup'
<1> SUFFICES ASSUME NEW x \in Proc, pc'[x] = "asleep", ~waiting'[x]
             PROVE  \E q \in Proc : pc'[q] = "wakeup" /\ Here(q)' = x
  BY DEF NoLostWakeup, At
<1>1. x # p /\ pc[x] = "asleep" /\ ~waiting[x]
  OBVIOUS
<1>2. PICK q \in Proc : pc[q] = "wakeup" /\ Here(q) = x
  BY <1>1 DEF NoLostWakeup, At
<1>3. q # p /\ lock = q /\ q # nil
  BY <1>2 DEF Sane, Types, TypeOK
<1> QED BY <1>2, <1>3 DEF Here
-----------------------------------------------------------------------------
(* The first try takes what no sleeper waits for alone.                   *)
LEMMA AcquireStep == ASSUME Sane, IInv, NEW p \in Proc, semacquire(p) PROVE IInv'
<1>1. /\ lock' = lock /\ lock # p /\ pc[p] \notin {"scan", "wakeup"} /\ (UNCHANGED list \/ lock = nil)
      /\ \A q \in Proc : q # p =>
           /\ pc'[q] = pc[q] /\ waiting'[q] = waiting[q] /\ addr'[q] = addr[q]
           /\ n'[q] = n[q] /\ cur'[q] = cur[q]
  BY DEF Sane, IInv, Types, TypeOK, semacquire, own, At, Go, Set, canacquire
<1>2. Types'
  <2>0. /\ value \in [Addr -> Nat] /\ addr \in [Proc -> Addr]
        /\ \A a \in Addr : value[a] > 0 => [value EXCEPT ![a] = @ - 1] \in [Addr -> Nat]
    BY DEF IInv, Types, TypeOK
  <2>1. value' \in [Addr -> Nat] /\ addr' \in [Proc -> Addr]
    BY <2>0 DEF semacquire, own, canacquire, Set
  <2>2. n' \in [Proc -> Nat] /\ cur' \in [Proc -> Nat] /\ waiting' \in [Proc -> BOOLEAN]
    BY DEF Sane, IInv, Types, TypeOK, semacquire, own, Set
  <2>3. list' \in Seq(Proc) /\ pc' \in [Proc -> Labels] /\ lock' \in Proc \cup {nil}
    BY DEF IInv, Types, TypeOK, Labels, semacquire, own, Go
  <2>4. pc'[p] \notin {"scan", "wakeup"}
    BY DEF IInv, Types, semacquire, Go, At
  <2>5. UNCHANGED list \/ \A q \in Proc : pc[q] # "wakeup"
    BY <1>1 DEF Sane, IInv, Types, TypeOK
  <2> QED BY <1>1, <2>1, <2>2, <2>3, <2>4, <2>5 DEF IInv, Types, TypeOK
<1>3. ListExact'
  <2>1. UNCHANGED list /\ (pc'[p] \in OnList <=> pc[p] \in OnList)
    BY DEF IInv, Types, Labels, OnList, semacquire, own, At, Go, Set, canacquire
  <2> QED BY <1>1, <2>1, ListKept DEF IInv
<1>4. NoLostWakeup'
  <2>1. pc'[p] = "asleep" => waiting'[p]
    BY DEF IInv, Types, TypeOK, semacquire, own, At, Go, Set, canacquire
  <2> QED BY <1>1, <2>1, WakeupKept DEF IInv
<1>5. \A a \in Addr : value'[a] = 0 \/ value'[a] + Owed(a)[p] <= value[a] + Owed(a)'[p]
  BY <1>2, SMTT(30) DEF IInv, Types, TypeOK, Labels, Owed, Carries, Flag, semacquire, own, At, Go, Set, canacquire
<1>6. Sleeper(p)' => value'[addr'[p]] = 0 \/ (Sleeper(p) /\ addr'[p] = addr[p])
  BY DEF IInv, Types, TypeOK, Sleeper, semacquire, own, At, Go, Set, canacquire
<1> QED BY <1>1, <1>2, <1>3, <1>4, <1>5, <1>6, Balanced DEF IInv

(* One that announces itself will try.                                    *)
LEMMA AnnounceStep == ASSUME Sane, IInv, NEW p \in Proc, announce(p) PROVE IInv'
<1>1. /\ lock' = lock /\ lock # p /\ pc[p] \notin {"scan", "wakeup"} /\ (UNCHANGED list \/ lock = nil)
      /\ \A q \in Proc : q # p =>
           /\ pc'[q] = pc[q] /\ waiting'[q] = waiting[q] /\ addr'[q] = addr[q]
           /\ n'[q] = n[q] /\ cur'[q] = cur[q]
  BY DEF Sane, IInv, Types, TypeOK, announce, own, At, Go, Set, canacquire
<1>2. Types'
  <2>1. value' \in [Addr -> Nat] /\ addr' \in [Proc -> Addr]
    BY DEF Sane, IInv, Types, TypeOK, announce, own, canacquire, Set
  <2>2. n' \in [Proc -> Nat] /\ cur' \in [Proc -> Nat] /\ waiting' \in [Proc -> BOOLEAN]
    BY DEF Sane, IInv, Types, TypeOK, announce, own, Set
  <2>3. list' \in Seq(Proc) /\ pc' \in [Proc -> Labels] /\ lock' \in Proc \cup {nil}
    BY DEF IInv, Types, TypeOK, Labels, announce, own, Go
  <2>4. pc'[p] \notin {"scan", "wakeup"}
    BY DEF IInv, Types, announce, Go, At
  <2>5. UNCHANGED list \/ \A q \in Proc : pc[q] # "wakeup"
    BY <1>1 DEF Sane, IInv, Types, TypeOK
  <2> QED BY <1>1, <2>1, <2>2, <2>3, <2>4, <2>5 DEF IInv, Types, TypeOK
<1>3. ListExact'
  <2>1. UNCHANGED list /\ (pc'[p] \in OnList <=> pc[p] \in OnList)
    BY DEF IInv, Types, Labels, OnList, announce, own, At, Go, Set, canacquire
  <2> QED BY <1>1, <2>1, ListKept DEF IInv
<1>4. NoLostWakeup'
  <2>1. pc'[p] = "asleep" => waiting'[p]
    BY DEF IInv, Types, TypeOK, announce, own, At, Go, Set, canacquire
  <2> QED BY <1>1, <2>1, WakeupKept DEF IInv
<1>5. \A a \in Addr : value'[a] = 0 \/ value'[a] + Owed(a)[p] <= value[a] + Owed(a)'[p]
  BY <1>2 DEF IInv, Types, TypeOK, Labels, Owed, Carries, Flag, announce, own, At, Go, Set, canacquire
<1>6. Sleeper(p)' => value'[addr'[p]] = 0 \/ (Sleeper(p) /\ addr'[p] = addr[p])
  BY DEF IInv, Types, TypeOK, Sleeper, announce, own, At, Go, Set, canacquire
<1> QED BY <1>1, <1>2, <1>3, <1>4, <1>5, <1>6, Balanced DEF IInv

(* A try that fails finds 0.                                              *)
LEMMA TryStep == ASSUME Sane, IInv, NEW p \in Proc, try(p) PROVE IInv'
<1>1. /\ lock' = lock /\ lock # p /\ pc[p] \notin {"scan", "wakeup"} /\ (UNCHANGED list \/ lock = nil)
      /\ \A q \in Proc : q # p =>
           /\ pc'[q] = pc[q] /\ waiting'[q] = waiting[q] /\ addr'[q] = addr[q]
           /\ n'[q] = n[q] /\ cur'[q] = cur[q]
  BY DEF Sane, IInv, Types, TypeOK, try, own, At, Go, Set, canacquire
<1>2. Types'
  <2>0. /\ value \in [Addr -> Nat] /\ addr \in [Proc -> Addr]
        /\ \A a \in Addr : value[a] > 0 => [value EXCEPT ![a] = @ - 1] \in [Addr -> Nat]
    BY DEF IInv, Types, TypeOK
  <2>1. value' \in [Addr -> Nat] /\ addr' \in [Proc -> Addr]
    BY <2>0 DEF try, own, canacquire, Set
  <2>2. n' \in [Proc -> Nat] /\ cur' \in [Proc -> Nat] /\ waiting' \in [Proc -> BOOLEAN]
    BY DEF Sane, IInv, Types, TypeOK, try, own, Set
  <2>3. list' \in Seq(Proc) /\ pc' \in [Proc -> Labels] /\ lock' \in Proc \cup {nil}
    BY DEF IInv, Types, TypeOK, Labels, try, own, Go
  <2>4. pc'[p] \notin {"scan", "wakeup"}
    BY DEF IInv, Types, try, Go, At
  <2>5. UNCHANGED list \/ \A q \in Proc : pc[q] # "wakeup"
    BY <1>1 DEF Sane, IInv, Types, TypeOK
  <2> QED BY <1>1, <2>1, <2>2, <2>3, <2>4, <2>5 DEF IInv, Types, TypeOK
<1>3. ListExact'
  <2>1. UNCHANGED list /\ (pc'[p] \in OnList <=> pc[p] \in OnList)
    BY DEF IInv, Types, Labels, OnList, try, own, At, Go, Set, canacquire
  <2> QED BY <1>1, <2>1, ListKept DEF IInv
<1>4. NoLostWakeup'
  <2>1. pc'[p] = "asleep" => waiting'[p]
    BY DEF IInv, Types, TypeOK, try, own, At, Go, Set, canacquire
  <2> QED BY <1>1, <2>1, WakeupKept DEF IInv
<1>5. \A a \in Addr : value'[a] = 0 \/ value'[a] + Owed(a)[p] <= value[a] + Owed(a)'[p]
  BY <1>2 DEF IInv, Types, TypeOK, Labels, Owed, Carries, Flag, try, own, At, Go, Set, canacquire
<1>6. Sleeper(p)' => value'[addr'[p]] = 0 \/ (Sleeper(p) /\ addr'[p] = addr[p])
  BY DEF IInv, Types, TypeOK, Sleeper, try, own, At, Go, Set, canacquire
<1> QED BY <1>1, <1>2, <1>3, <1>4, <1>5, <1>6, Balanced DEF IInv

(* One that sleeps, or finds its flag cleared.                            *)
LEMMA SleepStep == ASSUME Sane, IInv, NEW p \in Proc, sleep(p) PROVE IInv'
<1>1. /\ lock' = lock /\ lock # p /\ pc[p] \notin {"scan", "wakeup"} /\ (UNCHANGED list \/ lock = nil)
      /\ \A q \in Proc : q # p =>
           /\ pc'[q] = pc[q] /\ waiting'[q] = waiting[q] /\ addr'[q] = addr[q]
           /\ n'[q] = n[q] /\ cur'[q] = cur[q]
  BY DEF Sane, IInv, Types, TypeOK, sleep, own, At, Go, Set, canacquire
<1>2. Types'
  <2>1. value' \in [Addr -> Nat] /\ addr' \in [Proc -> Addr]
    BY DEF Sane, IInv, Types, TypeOK, sleep, own, canacquire, Set
  <2>2. n' \in [Proc -> Nat] /\ cur' \in [Proc -> Nat] /\ waiting' \in [Proc -> BOOLEAN]
    BY DEF Sane, IInv, Types, TypeOK, sleep, own, Set
  <2>3. list' \in Seq(Proc) /\ pc' \in [Proc -> Labels] /\ lock' \in Proc \cup {nil}
    BY DEF IInv, Types, TypeOK, Labels, sleep, own, Go
  <2>4. pc'[p] \notin {"scan", "wakeup"}
    BY DEF IInv, Types, sleep, Go, At
  <2>5. UNCHANGED list \/ \A q \in Proc : pc[q] # "wakeup"
    BY <1>1 DEF Sane, IInv, Types, TypeOK
  <2> QED BY <1>1, <2>1, <2>2, <2>3, <2>4, <2>5 DEF IInv, Types, TypeOK
<1>3. ListExact'
  <2>1. UNCHANGED list /\ (pc'[p] \in OnList <=> pc[p] \in OnList)
    BY DEF IInv, Types, Labels, OnList, sleep, own, At, Go, Set, canacquire
  <2> QED BY <1>1, <2>1, ListKept DEF IInv
<1>4. NoLostWakeup'
  <2>1. pc'[p] = "asleep" => waiting'[p]
    BY DEF IInv, Types, TypeOK, sleep, own, At, Go, Set, canacquire
  <2> QED BY <1>1, <2>1, WakeupKept DEF IInv
<1>5. \A a \in Addr : value'[a] = 0 \/ value'[a] + Owed(a)[p] <= value[a] + Owed(a)'[p]
  BY <1>2 DEF IInv, Types, TypeOK, Labels, Owed, Carries, Flag, sleep, own, At, Go, Set, canacquire
<1>6. Sleeper(p)' => value'[addr'[p]] = 0 \/ (Sleeper(p) /\ addr'[p] = addr[p])
  BY DEF IInv, Types, TypeOK, Sleeper, sleep, own, At, Go, Set, canacquire
<1> QED BY <1>1, <1>2, <1>3, <1>4, <1>5, <1>6, Balanced DEF IInv

(* A note.                                                                *)
LEMMA InterruptedStep == ASSUME Sane, IInv, NEW p \in Proc, interrupted(p) PROVE IInv'
<1>1. /\ lock' = lock /\ lock # p /\ pc[p] \notin {"scan", "wakeup"} /\ (UNCHANGED list \/ lock = nil)
      /\ \A q \in Proc : q # p =>
           /\ pc'[q] = pc[q] /\ waiting'[q] = waiting[q] /\ addr'[q] = addr[q]
           /\ n'[q] = n[q] /\ cur'[q] = cur[q]
  BY DEF Sane, IInv, Types, TypeOK, interrupted, own, At, Go, Set, canacquire
<1>2. Types'
  <2>1. value' \in [Addr -> Nat] /\ addr' \in [Proc -> Addr]
    BY DEF Sane, IInv, Types, TypeOK, interrupted, own, canacquire, Set
  <2>2. n' \in [Proc -> Nat] /\ cur' \in [Proc -> Nat] /\ waiting' \in [Proc -> BOOLEAN]
    BY DEF Sane, IInv, Types, TypeOK, interrupted, own, Set
  <2>3. list' \in Seq(Proc) /\ pc' \in [Proc -> Labels] /\ lock' \in Proc \cup {nil}
    BY DEF IInv, Types, TypeOK, Labels, interrupted, own, Go
  <2>4. pc'[p] \notin {"scan", "wakeup"}
    BY DEF IInv, Types, interrupted, Go, At
  <2>5. UNCHANGED list \/ \A q \in Proc : pc[q] # "wakeup"
    BY <1>1 DEF Sane, IInv, Types, TypeOK
  <2> QED BY <1>1, <2>1, <2>2, <2>3, <2>4, <2>5 DEF IInv, Types, TypeOK
<1>3. ListExact'
  <2>1. UNCHANGED list /\ (pc'[p] \in OnList <=> pc[p] \in OnList)
    BY DEF IInv, Types, Labels, OnList, interrupted, own, At, Go, Set, canacquire
  <2> QED BY <1>1, <2>1, ListKept DEF IInv
<1>4. NoLostWakeup'
  <2>1. pc'[p] = "asleep" => waiting'[p]
    BY DEF IInv, Types, TypeOK, interrupted, own, At, Go, Set, canacquire
  <2> QED BY <1>1, <2>1, WakeupKept DEF IInv
<1>5. \A a \in Addr : value'[a] = 0 \/ value'[a] + Owed(a)[p] <= value[a] + Owed(a)'[p]
  BY <1>2 DEF IInv, Types, TypeOK, Labels, Owed, Carries, Flag, interrupted, own, At, Go, Set, canacquire
<1>6. Sleeper(p)' => value'[addr'[p]] = 0 \/ (Sleeper(p) /\ addr'[p] = addr[p])
  BY DEF IInv, Types, TypeOK, Sleeper, interrupted, own, At, Go, Set, canacquire
<1> QED BY <1>1, <1>2, <1>3, <1>4, <1>5, <1>6, Balanced DEF IInv

(* What was meant for p is passed on.                                     *)
LEMMA PassOnStep == ASSUME Sane, IInv, NEW p \in Proc, passOn(p) PROVE IInv'
<1>1. /\ lock' = lock /\ lock # p /\ pc[p] \notin {"scan", "wakeup"} /\ (UNCHANGED list \/ lock = nil)
      /\ \A q \in Proc : q # p =>
           /\ pc'[q] = pc[q] /\ waiting'[q] = waiting[q] /\ addr'[q] = addr[q]
           /\ n'[q] = n[q] /\ cur'[q] = cur[q]
  BY DEF Sane, IInv, Types, TypeOK, passOn, own, At, Go, Set, canacquire
<1>2. Types'
  <2>1. value' \in [Addr -> Nat] /\ addr' \in [Proc -> Addr]
    BY DEF Sane, IInv, Types, TypeOK, passOn, own, canacquire, Set
  <2>2. n' \in [Proc -> Nat] /\ cur' \in [Proc -> Nat] /\ waiting' \in [Proc -> BOOLEAN]
    BY DEF Sane, IInv, Types, TypeOK, passOn, own, Set
  <2>3. list' \in Seq(Proc) /\ pc' \in [Proc -> Labels] /\ lock' \in Proc \cup {nil}
    BY DEF IInv, Types, TypeOK, Labels, passOn, own, Go
  <2>4. pc'[p] \notin {"scan", "wakeup"}
    BY DEF IInv, Types, passOn, Go, At
  <2>5. UNCHANGED list \/ \A q \in Proc : pc[q] # "wakeup"
    BY <1>1 DEF Sane, IInv, Types, TypeOK
  <2> QED BY <1>1, <2>1, <2>2, <2>3, <2>4, <2>5 DEF IInv, Types, TypeOK
<1>3. ListExact'
  <2>1. UNCHANGED list /\ (pc'[p] \in OnList <=> pc[p] \in OnList)
    BY DEF IInv, Types, Labels, OnList, passOn, own, At, Go, Set, canacquire
  <2> QED BY <1>1, <2>1, ListKept DEF IInv
<1>4. NoLostWakeup'
  <2>1. pc'[p] = "asleep" => waiting'[p]
    BY DEF IInv, Types, TypeOK, passOn, own, At, Go, Set, canacquire
  <2> QED BY <1>1, <2>1, WakeupKept DEF IInv
<1>5. \A a \in Addr : value'[a] = 0 \/ value'[a] + Owed(a)[p] <= value[a] + Owed(a)'[p]
  BY <1>2 DEF IInv, Types, TypeOK, Labels, Owed, Carries, Flag, passOn, own, At, Go, Set, canacquire
<1>6. Sleeper(p)' => value'[addr'[p]] = 0 \/ (Sleeper(p) /\ addr'[p] = addr[p])
  BY DEF IInv, Types, TypeOK, Sleeper, passOn, own, At, Go, Set, canacquire
<1> QED BY <1>1, <1>2, <1>3, <1>4, <1>5, <1>6, Balanced DEF IInv

(* A release carries what it adds.                                        *)
LEMMA ReleaseStep == ASSUME Sane, IInv, NEW p \in Proc, semrelease(p) PROVE IInv'
<1>1. /\ lock' = lock /\ lock # p /\ pc[p] \notin {"scan", "wakeup"} /\ (UNCHANGED list \/ lock = nil)
      /\ \A q \in Proc : q # p =>
           /\ pc'[q] = pc[q] /\ waiting'[q] = waiting[q] /\ addr'[q] = addr[q]
           /\ n'[q] = n[q] /\ cur'[q] = cur[q]
  BY DEF Sane, IInv, Types, TypeOK, semrelease, own, At, Go, Set, canacquire
<1>2. Types'
  <2>1. value' \in [Addr -> Nat] /\ addr' \in [Proc -> Addr]
    BY DEF Sane, IInv, Types, TypeOK, semrelease, own, canacquire, Set
  <2>2. n' \in [Proc -> Nat] /\ cur' \in [Proc -> Nat] /\ waiting' \in [Proc -> BOOLEAN]
    BY DEF Sane, IInv, Types, TypeOK, semrelease, own, Set
  <2>3. list' \in Seq(Proc) /\ pc' \in [Proc -> Labels] /\ lock' \in Proc \cup {nil}
    BY DEF IInv, Types, TypeOK, Labels, semrelease, own, Go
  <2>4. pc'[p] \notin {"scan", "wakeup"}
    BY DEF IInv, Types, semrelease, Go, At
  <2>5. UNCHANGED list \/ \A q \in Proc : pc[q] # "wakeup"
    BY <1>1 DEF Sane, IInv, Types, TypeOK
  <2> QED BY <1>1, <2>1, <2>2, <2>3, <2>4, <2>5 DEF IInv, Types, TypeOK
<1>3. ListExact'
  <2>1. UNCHANGED list /\ (pc'[p] \in OnList <=> pc[p] \in OnList)
    BY DEF IInv, Types, Labels, OnList, semrelease, own, At, Go, Set, canacquire
  <2> QED BY <1>1, <2>1, ListKept DEF IInv
<1>4. NoLostWakeup'
  <2>1. pc'[p] = "asleep" => waiting'[p]
    BY DEF IInv, Types, TypeOK, semrelease, own, At, Go, Set, canacquire
  <2> QED BY <1>1, <2>1, WakeupKept DEF IInv
<1>5. \A a \in Addr : value'[a] = 0 \/ value'[a] + Owed(a)[p] <= value[a] + Owed(a)'[p]
  BY <1>2 DEF IInv, Types, TypeOK, Labels, Owed, Carries, Flag, semrelease, own, At, Go, Set, canacquire, Sane
<1>6. Sleeper(p)' => value'[addr'[p]] = 0 \/ (Sleeper(p) /\ addr'[p] = addr[p])
  BY DEF IInv, Types, TypeOK, Sleeper, semrelease, own, At, Go, Set, canacquire
<1> QED BY <1>1, <1>2, <1>3, <1>4, <1>5, <1>6, Balanced DEF IInv

(* Unlinking an element.                                                   *)
LEMMA Unlinked ==
  ASSUME NEW S, NEW s \in Seq(S), IsInjective(s), NEW i \in 1..Len(s)
  PROVE  /\ RemoveAt(s, i) \in Seq(S) /\ IsInjective(RemoveAt(s, i))
         /\ ToSet(RemoveAt(s, i)) = ToSet(s) \ {s[i]}
<1> DEFINE a == SubSeq(s, 1, i - 1)
           b == SubSeq(s, i + 1, Len(s))
<1>1. /\ a \in Seq(S) /\ Len(a) = i - 1 /\ \A j \in 1..i - 1 : a[j] = s[j]
      /\ b \in Seq(S) /\ Len(b) = Len(s) - i /\ \A j \in 1..Len(s) - i : b[j] = s[j + i]
  OBVIOUS
<1> HIDE DEF a, b
<1> DEFINE t == a \o b
<1>2. /\ t \in Seq(S) /\ Len(t) = Len(s) - 1
      /\ \A j \in 1..Len(s) - 1 : t[j] = IF j < i THEN s[j] ELSE s[j + 1]
  <2>1. /\ t \in Seq(S) /\ Len(t) = Len(a) + Len(b)
        /\ \A j \in 1..Len(a) + Len(b) : t[j] = IF j <= Len(a) THEN a[j] ELSE b[j - Len(a)]
    BY <1>1, ConcatProperties
  <2>2. ASSUME NEW j \in 1..Len(s) - 1 PROVE t[j] = IF j < i THEN s[j] ELSE s[j + 1]
    <3>1. CASE j < i
      BY <1>1, <2>1, <3>1
    <3>2. CASE ~(j < i)
      <4>1. j - (i - 1) \in 1..Len(s) - i /\ (j - (i - 1)) + i = j + 1 /\ j \in 1..Len(a) + Len(b) /\ ~(j <= Len(a))
        BY <1>1, <3>2
      <4>2. t[j] = b[j - (i - 1)]
        BY <4>1, <1>1, <2>1
      <4>3. b[j - (i - 1)] = s[j + 1]
        BY <4>1, <1>1
      <4> QED BY <4>2, <4>3, <3>2
    <3> QED BY <3>1, <3>2
  <2> QED BY <1>1, <2>1, <2>2
<1>3. RemoveAt(s, i) = t
  BY DEF RemoveAt, t, a, b
<1> HIDE DEF t
<1>4. \A j, k \in 1..Len(s) : s[j] = s[k] => j = k
  BY DEF IsInjective
<1>5. IsInjective(t)
  <2>1. \A j, k \in 1..Len(t) : t[j] = t[k] => j = k
    BY <1>2, <1>4
  <2> QED BY <2>1, <1>2 DEF IsInjective
<1>6. ToSet(t) = ToSet(s) \ {s[i]}
  <2>1. \A j \in 1..Len(t) : \E k \in 1..Len(s) : k # i /\ t[j] = s[k]
    BY <1>2
  <2>2. ASSUME NEW k \in 1..Len(s), k # i PROVE \E j \in 1..Len(t) : t[j] = s[k]
    <3>1. CASE k < i
      BY <3>1, <1>2
    <3>2. CASE k > i
      <4>1. k - 1 \in 1..Len(s) - 1 /\ ~(k - 1 < i) /\ (k - 1) + 1 = k
        BY <3>2
      <4> QED BY <4>1, <1>2
    <3> QED BY <3>1, <3>2, <2>2
  <2> QED BY <2>1, <2>2, <1>4, SMTT(30) DEF ToSet
<1> QED BY <1>2, <1>3, <1>5, <1>6

(* Linking one.                                                            *)
LEMMA Linked ==
  ASSUME NEW S, NEW s \in Seq(S), IsInjective(s), NEW e \in S, e \notin ToSet(s)
  PROVE  IsInjective(Append(s, e)) /\ ToSet(Append(s, e)) = ToSet(s) \cup {e}
<1> DEFINE t == Append(s, e)
<1>1. /\ t \in Seq(S) /\ Len(t) = Len(s) + 1 /\ t[Len(s) + 1] = e
      /\ \A i \in 1..Len(s) : t[i] = s[i]
  OBVIOUS
<1> HIDE DEF t
<1>2. \A i \in 1..Len(s) : s[i] # e
  BY DEF ToSet
<1>3. \A j, k \in 1..Len(s) : s[j] = s[k] => j = k
  BY DEF IsInjective
<1>4. \A j \in 1..Len(t) : j \in 1..Len(s) \/ j = Len(s) + 1
  BY <1>1
<1>5. IsInjective(t)
  <2>1. \A j, k \in 1..Len(t) : t[j] = t[k] => j = k
    BY <1>1, <1>2, <1>3, <1>4
  <2> QED BY <2>1, <1>1 DEF IsInjective
<1>6. ToSet(t) = ToSet(s) \cup {e}
  BY <1>1, <1>4 DEF ToSet
<1> QED BY <1>5, <1>6 DEF t

(* A new Sema on the list; nobody scans.                                  *)
LEMMA QueueStep == ASSUME Sane, IInv, NEW p \in Proc, semqueue(p) PROVE IInv'
<1>1. /\ lock' = lock /\ lock # p /\ pc[p] \notin {"scan", "wakeup"} /\ (UNCHANGED list \/ lock = nil)
      /\ \A q \in Proc : q # p =>
           /\ pc'[q] = pc[q] /\ waiting'[q] = waiting[q] /\ addr'[q] = addr[q]
           /\ n'[q] = n[q] /\ cur'[q] = cur[q]
  BY DEF Sane, IInv, Types, TypeOK, semqueue, own, At, Go, Set, canacquire
<1>2. Types'
  <2>1. value' \in [Addr -> Nat] /\ addr' \in [Proc -> Addr]
    BY DEF Sane, IInv, Types, TypeOK, semqueue, own, canacquire, Set
  <2>2. n' \in [Proc -> Nat] /\ cur' \in [Proc -> Nat] /\ waiting' \in [Proc -> BOOLEAN]
    BY DEF Sane, IInv, Types, TypeOK, semqueue, own, Set
  <2>3. list' \in Seq(Proc) /\ pc' \in [Proc -> Labels] /\ lock' \in Proc \cup {nil}
    BY DEF IInv, Types, TypeOK, Labels, semqueue, own, Go
  <2>4. pc'[p] \notin {"scan", "wakeup"}
    BY DEF IInv, Types, semqueue, Go, At
  <2>5. UNCHANGED list \/ \A q \in Proc : pc[q] # "wakeup"
    BY <1>1 DEF Sane, IInv, Types, TypeOK
  <2> QED BY <1>1, <2>1, <2>2, <2>3, <2>4, <2>5 DEF IInv, Types, TypeOK
<1>3. ListExact'
  <2>1. list \in Seq(Proc) /\ IsInjective(list) /\ ToSet(list) = {x \in Proc : pc[x] \in OnList}
    BY DEF IInv, Types, TypeOK, ListExact
  <2>2. p \notin ToSet(list) /\ list' = Append(list, p) /\ pc'[p] \in OnList
    BY <2>1 DEF IInv, Types, semqueue, At, Go, OnList
  <2>3. IsInjective(list') /\ ToSet(list') = ToSet(list) \cup {p}
    BY <2>1, <2>2, Linked
  <2> QED BY <2>1, <2>2, <2>3, <1>1 DEF ListExact
<1>4. NoLostWakeup'
  <2>1. pc'[p] = "asleep" => waiting'[p]
    BY DEF IInv, Types, TypeOK, semqueue, own, At, Go, Set, canacquire
  <2> QED BY <1>1, <2>1, WakeupKept DEF IInv
<1>5. \A a \in Addr : value'[a] = 0 \/ value'[a] + Owed(a)[p] <= value[a] + Owed(a)'[p]
  BY <1>2 DEF IInv, Types, TypeOK, Labels, Owed, Carries, Flag, semqueue, own, At, Go, Set, canacquire
<1>6. Sleeper(p)' => value'[addr'[p]] = 0 \/ (Sleeper(p) /\ addr'[p] = addr[p])
  BY DEF IInv, Types, TypeOK, Sleeper, semqueue, own, At, Go, Set, canacquire
<1> QED BY <1>1, <1>2, <1>3, <1>4, <1>5, <1>6, Balanced DEF IInv

(* A Sema is taken off the list; nobody scans.                            *)
LEMMA DequeueStep == ASSUME Sane, IInv, NEW p \in Proc, semdequeue(p) PROVE IInv'
<1>1. /\ lock' = lock /\ lock # p /\ pc[p] \notin {"scan", "wakeup"} /\ (UNCHANGED list \/ lock = nil)
      /\ \A q \in Proc : q # p =>
           /\ pc'[q] = pc[q] /\ waiting'[q] = waiting[q] /\ addr'[q] = addr[q]
           /\ n'[q] = n[q] /\ cur'[q] = cur[q]
  BY DEF Sane, IInv, Types, TypeOK, semdequeue, own, At, Go, Set, canacquire
<1>2. Types'
  <2>1. value' \in [Addr -> Nat] /\ addr' \in [Proc -> Addr]
    BY DEF Sane, IInv, Types, TypeOK, semdequeue, own, canacquire, Set
  <2>2. n' \in [Proc -> Nat] /\ cur' \in [Proc -> Nat] /\ waiting' \in [Proc -> BOOLEAN]
    BY DEF Sane, IInv, Types, TypeOK, semdequeue, own, Set
  <2>3. list' \in Seq(Proc) /\ pc' \in [Proc -> Labels] /\ lock' \in Proc \cup {nil}
    <3>1. list \in Seq(Proc) /\ IsInjective(list)
      BY DEF IInv, Types, TypeOK, ListExact
    <3>2. PICK i \in 1..Len(list) : list' = RemoveAt(list, i)
      BY DEF semdequeue
    <3>3. list' \in Seq(Proc)
      BY <3>1, <3>2, Unlinked
    <3> QED BY <3>3 DEF IInv, Types, TypeOK, Labels, semdequeue, own, Go
  <2>4. pc'[p] \notin {"scan", "wakeup"}
    BY DEF IInv, Types, semdequeue, Go, At
  <2>5. UNCHANGED list \/ \A q \in Proc : pc[q] # "wakeup"
    BY <1>1 DEF Sane, IInv, Types, TypeOK
  <2> QED BY <1>1, <2>1, <2>2, <2>3, <2>4, <2>5 DEF IInv, Types, TypeOK
<1>3. ListExact'
  <2>1. list \in Seq(Proc) /\ IsInjective(list) /\ ToSet(list) = {x \in Proc : pc[x] \in OnList}
    BY DEF IInv, Types, TypeOK, ListExact
  <2>2. PICK i \in 1..Len(list) : list[i] = p /\ list' = RemoveAt(list, i)
    BY DEF semdequeue
  <2>3. IsInjective(list') /\ ToSet(list') = ToSet(list) \ {p}
    BY <2>1, <2>2, Unlinked
  <2>4. pc'[p] \notin OnList
    BY DEF IInv, Types, semdequeue, Go, OnList
  <2> QED BY <2>1, <2>3, <2>4, <1>1 DEF ListExact
<1>4. NoLostWakeup'
  <2>1. pc'[p] = "asleep" => waiting'[p]
    BY DEF IInv, Types, TypeOK, semdequeue, own, At, Go, Set, canacquire
  <2> QED BY <1>1, <2>1, WakeupKept DEF IInv
<1>5. \A a \in Addr : value'[a] = 0 \/ value'[a] + Owed(a)[p] <= value[a] + Owed(a)'[p]
  BY <1>2, SMTT(30) DEF IInv, Types, TypeOK, Labels, Owed, Carries, Flag, semdequeue, own, At, Go, Set, canacquire
<1>6. Sleeper(p)' => value'[addr'[p]] = 0 \/ (Sleeper(p) /\ addr'[p] = addr[p])
  BY DEF IInv, Types, TypeOK, Sleeper, semdequeue, own, At, Go, Set, canacquire
<1> QED BY <1>1, <1>2, <1>3, <1>4, <1>5, <1>6, Balanced DEF IInv

(* semwakeup() gets the lock and starts at the head of the list.           *)
LEMMA SemwakeupStep == ASSUME Sane, IInv, NEW p \in Proc, semwakeup(p) PROVE IInv'
<1>1. /\ lock = nil /\ lock' = p /\ pc[p] = "lock" /\ pc'[p] = "scan" /\ cur'[p] = 1
      /\ UNCHANGED <<value, list, waiting, addr, n>>
      /\ \A q \in Proc : q # p => pc'[q] = pc[q] /\ cur'[q] = cur[q]
  BY DEF IInv, Types, TypeOK, semwakeup, At, Go, Set
<1>2. pc' \in [Proc -> Labels] /\ cur' \in [Proc -> Nat]
  BY DEF IInv, Types, TypeOK, Labels, semwakeup, Go, Set
<1>3. \A q \in Proc : pc[q] \notin {"scan", "wakeup"}
  BY <1>1 DEF Sane, IInv, Types, TypeOK
<1>4. Types'
  BY <1>1, <1>2, <1>3 DEF IInv, Types, TypeOK
<1>5. ListExact'
  BY <1>1, ListKept DEF IInv, OnList
<1>6. NoLostWakeup'
  BY <1>1, WakeupKept DEF IInv
<1>7. ASSUME NEW a \in Addr PROVE OnTheWay(a)' = OnTheWay(a)
  <2>1. \A q \in Proc : Owed(a)'[q] = Owed(a)[q]
    BY <1>1 DEF Owed, Carries, Flag
  <2> QED BY <2>1, <1>4, NoneChanges DEF IInv
<1>8. Covered'
  BY <1>1, <1>7 DEF IInv, Covered, Sleeper
<1>9. PassedOver'
  BY <1>1 DEF PassedOver, Past
<1> QED BY <1>4, <1>5, <1>6, <1>8, <1>9 DEF IInv

(* The scan ends: nobody sleeps that it has not passed, or it has nothing  *)
(* left to give.                                                           *)
LEMMA ScanEnds ==
  ASSUME Sane, IInv, NEW p \in Proc, pc[p] = "scan", cur[p] > Len(list) \/ n[p] = 0,
         lock' = nil, Go(p, "idle"), n' = Set(n, p, 0), cur' = Set(cur, p, 0),
         UNCHANGED <<value, list, waiting, addr>>
  PROVE  IInv'
<1>1. /\ lock = p /\ pc'[p] = "idle" /\ n'[p] = 0 /\ cur'[p] = 0
      /\ \A q \in Proc : q # p => pc'[q] = pc[q] /\ cur'[q] = cur[q] /\ n'[q] = n[q]
  BY DEF IInv, Types, TypeOK, Go, Set
<1>2. pc' \in [Proc -> Labels] /\ cur' \in [Proc -> Nat] /\ n' \in [Proc -> Nat]
  BY DEF IInv, Types, TypeOK, Labels, Go, Set
<1>3. \A q \in Proc : q # p => pc[q] \notin {"scan", "wakeup"}
  BY <1>1 DEF IInv, Types, TypeOK
<1>4. Types'
  BY <1>1, <1>2, <1>3 DEF Sane, IInv, Types, TypeOK
<1>5. ListExact'
  BY <1>1, ListKept DEF IInv, OnList
<1>6. NoLostWakeup'
  BY <1>1, WakeupKept DEF IInv
<1>7. ASSUME NEW a \in Addr PROVE OnTheWay(a)' + Owed(a)[p] = OnTheWay(a) + Owed(a)'[p]
  <2>1. \A q \in Proc : q # p => Owed(a)'[q] = Owed(a)[q]
    BY <1>1 DEF Owed, Carries, Flag
  <2> QED BY <2>1, <1>4, OneChanges DEF IInv
<1>8. Covered'
  <2> SUFFICES ASSUME NEW a \in Addr, NEW x \in Proc, Sleeper(x)', addr'[x] = a
               PROVE  value'[a] <= OnTheWay(a)'
    BY DEF Covered
  <2>1. Sleeper(x) /\ addr[x] = a /\ value[a] \in Nat /\ n[p] \in Nat /\ OnTheWay(a) \in Nat /\ OnTheWay(a)' \in Nat
    BY <1>1, <1>4, OwedType, OwedTypeNext DEF Sleeper, IInv, Types, TypeOK
  <2>2. Owed(a)'[p] = 0 /\ Owed(a)[p] = IF addr[p] = a THEN n[p] ELSE 0
    BY <1>1 DEF Owed, Carries
  <2>3. value[a] <= OnTheWay(a)
    BY <2>1 DEF IInv, Covered
  <2>4. CASE addr[p] = a /\ n[p] # 0
    <3>1. x \in ToSet(list)
      BY <2>1 DEF IInv, ListExact, OnList, Sleeper
    <3>2. list \in Seq(Proc) /\ cur[p] \in Nat
      BY DEF IInv, Types, TypeOK
    <3>3. PICK i \in 1..Len(list) : list[i] = x
      BY <3>1, <3>2 DEF ToSet
    <3>4. Past(p, i)
      BY <2>4, <3>2 DEF Past
    <3>5. value[a] + n[p] <= OnTheWay(a)
      BY <3>3, <3>4, <2>1, <2>4, <1>1 DEF IInv, PassedOver
    <3> QED BY <3>5, <2>1, <2>2, <2>4, <1>7
  <2>5. CASE ~(addr[p] = a /\ n[p] # 0)
    BY <2>5, <2>1, <2>2, <2>3, <1>7
  <2> QED BY <2>4, <2>5
<1>9. PassedOver'
  BY DEF Sane, PassedOver
<1> QED BY <1>4, <1>5, <1>6, <1>8, <1>9 DEF IInv

(* It passes one that does not wait for it.                                *)
LEMMA ScanSkips ==
  ASSUME Sane, IInv, NEW p \in Proc, pc[p] = "scan", cur[p] <= Len(list),
         ~(addr[Here(p)] = addr[p] /\ waiting[Here(p)]), cur' = Set(cur, p, cur[p] + 1),
         UNCHANGED <<value, list, lock, waiting, addr, n, pc>>
  PROVE  IInv'
<1>1. /\ lock = p /\ cur'[p] = cur[p] + 1 /\ cur[p] \in Nat
      /\ \A q \in Proc : q # p => cur'[q] = cur[q]
  BY DEF IInv, Types, TypeOK, Set
<1>2. cur' \in [Proc -> Nat]
  BY DEF IInv, Types, TypeOK, Set
<1>3. Types'
  BY <1>1, <1>2 DEF IInv, Types, TypeOK
<1>4. ListExact'
  BY ListKept DEF IInv
<1>5. NoLostWakeup'
  BY <1>1, WakeupKept DEF IInv, NoLostWakeup, At, Here
<1>6. ASSUME NEW a \in Addr PROVE OnTheWay(a)' = OnTheWay(a)
  BY DEF OnTheWay, Sum, Units, Owed, Carries, Flag
<1>7. Covered'
  BY <1>6 DEF IInv, Covered, Sleeper
<1>8. PassedOver'
  <2> SUFFICES ASSUME NEW a \in Addr, NEW q \in Proc, NEW i \in 1..Len(list'), lock' = q, addr'[q] = a,
                      Past(q, i)', Sleeper(list[i])', addr'[list'[i]] = a
               PROVE  value'[a] + n'[q] <= OnTheWay(a)'
    BY DEF PassedOver
  <2>1. q = p /\ Sleeper(list[i]) /\ addr[list[i]] = a
    BY <1>1 DEF Sleeper
  <2>2. i # cur[p]
    BY <2>1 DEF Here, Sleeper
  <2>3. Past(p, i)
    BY <2>1, <2>2, <1>1 DEF Past
  <2>4. value[a] + n[p] <= OnTheWay(a)
    BY <2>1, <2>3, <1>1 DEF IInv, PassedOver
  <2> QED BY <2>1, <2>4, <1>6
<1> QED BY <1>3, <1>4, <1>5, <1>7, <1>8 DEF IInv

(* It clears the flag of one that waits: a unit changes hands.             *)
LEMMA ScanClears ==
  ASSUME Sane, IInv, NEW p \in Proc, pc[p] = "scan", cur[p] <= Len(list), n[p] > 0,
         addr[Here(p)] = addr[p], waiting[Here(p)], waiting' = Set(waiting, Here(p), FALSE),
         n' = Set(n, p, n[p] - 1), Go(p, "wakeup"),
         UNCHANGED <<value, list, lock, addr, cur>>
  PROVE  IInv'
<1>1. lock = p /\ list \in Seq(Proc) /\ cur[p] \in 1..Len(list)
  BY DEF IInv, Types, TypeOK
<1>2. PICK x \in Proc : x = list[cur[p]] /\ x = Here(p)
  BY <1>1 DEF Here
<1>3. pc[x] \in OnList
  <2>1. x \in ToSet(list)
    <3>1. DOMAIN list = 1..Len(list)
      BY <1>1
    <3> QED BY <3>1, <1>1, <1>2 DEF ToSet
  <2> QED BY <2>1 DEF IInv, ListExact
<1>4. /\ x # p /\ pc'[p] = "wakeup" /\ n[p] \in Nat /\ n'[p] = n[p] - 1
      /\ waiting[x] /\ ~waiting'[x] /\ n'[x] = n[x] /\ pc'[x] = pc[x] /\ waiting'[p] = waiting[p]
      /\ \A q \in Proc : q # p => pc'[q] = pc[q] /\ n'[q] = n[q]
      /\ \A q \in Proc : q # x => waiting'[q] = waiting[q]
  BY <1>2, <1>3 DEF IInv, Types, TypeOK, OnList, Go, Set
<1>5. Types'
  <2>1. pc' \in [Proc -> Labels] /\ n' \in [Proc -> Nat] /\ waiting' \in [Proc -> BOOLEAN]
    BY <1>2, <1>4 DEF IInv, Types, TypeOK, Labels, Go, Set
  <2> QED BY <1>1, <1>4, <2>1 DEF IInv, Types, TypeOK
<1>6. ListExact'
  BY <1>4, ListKept DEF IInv, OnList
<1>7. NoLostWakeup'
  <2> SUFFICES ASSUME NEW y \in Proc, pc'[y] = "asleep", ~waiting'[y]
               PROVE  \E q \in Proc : pc'[q] = "wakeup" /\ Here(q)' = y
    BY DEF NoLostWakeup, At
  <2>1. CASE y = x
    BY <2>1, <1>2, <1>4 DEF Here
  <2>2. CASE y # x
    <3>1. PICK q \in Proc : pc[q] = "wakeup" /\ Here(q) = y
      BY <2>2, <1>4 DEF IInv, NoLostWakeup, At
    <3>2. lock = q
      BY <3>1 DEF IInv, Types, TypeOK
    <3> QED BY <3>1, <3>2, <1>1
  <2> QED BY <2>1, <2>2
<1>8. ASSUME NEW a \in Addr PROVE OnTheWay(a)' = OnTheWay(a)
  <2>1. \A q \in Proc : q \notin {p, x} => Owed(a)'[q] = Owed(a)[q]
    BY <1>4 DEF Owed, Carries, Flag
  <2>2. OnTheWay(a)' + Owed(a)[p] + Owed(a)[x] = OnTheWay(a) + Owed(a)'[p] + Owed(a)'[x]
    BY <2>1, <1>4, <1>5, TwoChange DEF IInv
  <2>3. OnTheWay(a) \in Nat /\ OnTheWay(a)' \in Nat /\ Owed(a) \in [Proc -> Nat]
    BY <1>5, OwedType, OwedTypeNext DEF IInv
  <2>4. CASE addr[p] = a
    <3>1. Owed(a)[p] = n[p] /\ Owed(a)'[p] = n[p] - 1
      BY <2>4, <1>4 DEF Owed, Carries
    <3>2. Owed(a)'[x] = Owed(a)[x] + 1
      <4>1. Flag(x) = 0 /\ Flag(x)' = 1
        BY <1>4 DEF Flag
      <4>2. Carries(x)' = Carries(x) + 1
        BY <4>1, <1>3, <1>4 DEF Carries, OnList
      <4>3. addr[x] = a /\ addr'[x] = a
        BY <2>4, <1>2
      <4> QED BY <4>2, <4>3 DEF Owed
    <3>3. Owed(a)[x] \in Nat
      BY <2>3
    <3> QED BY <3>1, <3>2, <3>3, <2>2, <2>3, <1>4
  <2>5. CASE addr[p] # a
    <3>1. Owed(a)[p] = 0 /\ Owed(a)'[p] = 0 /\ Owed(a)[x] = 0 /\ Owed(a)'[x] = 0
      BY <2>5, <1>2 DEF Owed
    <3> QED BY <3>1, <2>2, <2>3
  <2> QED BY <2>4, <2>5
<1>9. \A y \in Proc : Sleeper(y)' => Sleeper(y) /\ y # x
  BY <1>3, <1>4 DEF Sleeper
<1>10. Covered'
  BY <1>8, <1>9 DEF IInv, Covered
<1>11. PassedOver'
  <2> SUFFICES ASSUME NEW a \in Addr, NEW q \in Proc, NEW i \in 1..Len(list'), lock' = q, addr'[q] = a,
                      Past(q, i)', Sleeper(list[i])', addr'[list'[i]] = a
               PROVE  value'[a] + n'[q] <= OnTheWay(a)'
    BY DEF PassedOver
  <2>1. PICK y \in Proc : y = list[i]
    BY <1>1
  <2>2. q = p /\ Sleeper(y)' /\ addr[y] = a
    BY <1>1, <2>1 DEF Sleeper
  <2>3. Sleeper(y) /\ i # cur[p]
    BY <2>1, <2>2, <1>2, <1>9
  <2>4. Past(p, i)
    BY <2>2, <2>3 DEF Past
  <2>5. value[a] + n[p] <= OnTheWay(a)
    BY <2>1, <2>2, <2>3, <2>4, <1>1 DEF IInv, PassedOver
  <2>6. value[a] \in Nat /\ OnTheWay(a) \in Nat
    BY OwedType DEF IInv, Types, TypeOK
  <2> QED BY <2>2, <2>5, <2>6, <1>4, <1>8
<1> QED BY <1>5, <1>6, <1>7, <1>10, <1>11 DEF IInv

(* One iteration of the loop, or its end.                                  *)
LEMMA ScanStep == ASSUME Sane, IInv, NEW p \in Proc, scan(p) PROVE IInv'
<1>1. CASE cur[p] > Len(list) \/ n[p] = 0
  <2>1. pc[p] = "scan" /\ lock' = nil /\ Go(p, "idle") /\ n' = Set(n, p, 0) /\ cur' = Set(cur, p, 0)
        /\ UNCHANGED <<value, list, waiting, addr>>
    <3>1. ~(cur[p] <= Len(list) /\ n[p] > 0)
      BY <1>1 DEF IInv, Types, TypeOK
    <3> QED BY <3>1, Zenon DEF scan, At
  <2> QED BY <1>1, <2>1, ScanEnds
<1>2. CASE cur[p] <= Len(list) /\ n[p] > 0 /\ addr[Here(p)] = addr[p] /\ waiting[Here(p)]
  <2>1. /\ pc[p] = "scan" /\ waiting' = Set(waiting, Here(p), FALSE) /\ n' = Set(n, p, n[p] - 1)
        /\ Go(p, "wakeup") /\ UNCHANGED <<value, list, lock, addr, cur>>
    <3>1. ~(cur[p] > Len(list) \/ n[p] = 0)
      BY <1>2 DEF IInv, Types, TypeOK
    <3> QED BY <1>2, <3>1, Zenon DEF scan, At
  <2> QED BY <1>2, <2>1, ScanClears
<1>3. CASE cur[p] <= Len(list) /\ n[p] > 0 /\ ~(addr[Here(p)] = addr[p] /\ waiting[Here(p)])
  <2>1. /\ pc[p] = "scan" /\ cur' = Set(cur, p, cur[p] + 1)
        /\ UNCHANGED <<value, list, lock, waiting, addr, n, pc>>
    <3>1. ~(cur[p] > Len(list) \/ n[p] = 0)
      BY <1>3 DEF IInv, Types, TypeOK
    <3> QED BY <1>3, <3>1, Zenon DEF scan, At
  <2> QED BY <1>3, <2>1, ScanSkips
<1> QED BY <1>1, <1>2, <1>3, SMTT(30) DEF IInv, Types, TypeOK

(* The process whose flag was cleared is woken up if it sleeps.            *)
LEMMA WakeupStep == ASSUME Sane, IInv, NEW p \in Proc, wakeup(p) PROVE IInv'
<1>1. /\ lock = p /\ pc[p] = "wakeup" /\ list \in Seq(Proc) /\ cur[p] \in 1..Len(list)
      /\ UNCHANGED <<value, list, lock, waiting, addr, n>>
  BY DEF IInv, Types, TypeOK, wakeup, At
<1>2. PICK x \in Proc : x = list[cur[p]] /\ x = Here(p)
  BY <1>1 DEF Here
<1>3. pc[x] \in OnList
  <2>1. x \in ToSet(list)
    <3>1. DOMAIN list = 1..Len(list)
      BY <1>1
    <3> QED BY <3>1, <1>1, <1>2 DEF ToSet
  <2> QED BY <2>1 DEF IInv, ListExact
<1>4. /\ x # p /\ pc'[p] = "scan" /\ cur'[p] = cur[p] + 1
      /\ pc'[x] = IF pc[x] = "asleep" THEN "announce" ELSE pc[x]
      /\ \A q \in Proc : q \notin {p, x} => pc'[q] = pc[q]
      /\ \A q \in Proc : q # p => cur'[q] = cur[q]
  BY <1>1, <1>2, <1>3 DEF IInv, Types, TypeOK, OnList, wakeup, At, Set
<1>5. Types'
  <2>1. pc' \in [Proc -> Labels] /\ cur' \in [Proc -> Nat]
    BY DEF IInv, Types, TypeOK, Labels, wakeup, Set
  <2>2. \A q \in Proc : pc'[q] \in {"scan", "wakeup"} <=> pc[q] \in {"scan", "wakeup"}
    BY <1>1, <1>3, <1>4 DEF OnList
  <2>3. \A q \in Proc : pc'[q] # "wakeup"
    BY <1>1, <1>3, <1>4 DEF OnList, IInv, Types, TypeOK
  <2>4. ASSUME NEW q \in Proc, pc'[q] = "scan" PROVE cur'[q] # 0
    <3>1. CASE q = p
      BY <3>1, <1>1, <1>4
    <3>2. CASE q # p
      <4>1. pc[q] = "scan"
        BY <3>2, <2>4, <1>3, <1>4 DEF OnList
      <4> QED BY <3>2, <4>1, <1>4 DEF IInv, Types
    <3> QED BY <3>1, <3>2
  <2> QED BY <1>1, <2>1, <2>2, <2>3, <2>4 DEF IInv, Types, TypeOK
<1>6. ListExact'
  <2>1. \A q \in Proc : pc'[q] \in OnList <=> pc[q] \in OnList
    BY <1>1, <1>3, <1>4 DEF OnList
  <2> QED BY <1>1, <2>1 DEF IInv, ListExact
<1>7. NoLostWakeup'
  <2> SUFFICES ASSUME NEW y \in Proc, pc'[y] = "asleep", ~waiting'[y] PROVE FALSE
    BY DEF NoLostWakeup, At
  <2>1. y # x /\ y # p /\ pc[y] = "asleep" /\ ~waiting[y]
    BY <1>1, <1>4
  <2>2. PICK q \in Proc : pc[q] = "wakeup" /\ Here(q) = y
    BY <2>1 DEF IInv, NoLostWakeup, At
  <2>3. q = p
    BY <2>2, <1>1 DEF IInv, Types, TypeOK
  <2> QED BY <2>1, <2>2, <2>3, <1>2
<1>8. ASSUME NEW a \in Addr PROVE OnTheWay(a)' = OnTheWay(a)
  <2>1. \A q \in Proc : Owed(a)'[q] = Owed(a)[q]
    BY <1>1, <1>3, <1>4 DEF Owed, Carries, Flag
  <2> QED BY <2>1, <1>5, NoneChanges DEF IInv
<1>9. \A y \in Proc : Sleeper(y)' => Sleeper(y)
  BY <1>1, <1>4 DEF Sleeper
<1>10. Covered'
  BY <1>1, <1>8, <1>9 DEF IInv, Covered
<1>11. PassedOver'
  <2> SUFFICES ASSUME NEW a \in Addr, NEW q \in Proc, NEW i \in 1..Len(list'), lock' = q, addr'[q] = a,
                      Past(q, i)', Sleeper(list[i])', addr'[list'[i]] = a
               PROVE  value'[a] + n'[q] <= OnTheWay(a)'
    BY DEF PassedOver
  <2>1. PICK y \in Proc : y = list[i]
    BY <1>1
  <2>2. q = p /\ Sleeper(y)' /\ addr[y] = a /\ i \in 1..Len(list)
    BY <1>1, <2>1 DEF Sleeper
  <2>3. Sleeper(y) /\ Past(p, i)
    BY <2>2, <1>1, <1>4, <1>9 DEF Past
  <2>4. value[a] + n[p] <= OnTheWay(a)
    BY <2>1, <2>2, <2>3, <1>1 DEF IInv, PassedOver
  <2> QED BY <2>2, <2>4, <1>1, <1>8
<1> QED BY <1>5, <1>6, <1>7, <1>10, <1>11 DEF IInv
-----------------------------------------------------------------------------
(* The invariant holds initially.                                          *)
LEMMA InitInv == ASSUME Sane, Init PROVE IInv
<1>1. (CHOOSE a \in Addr : TRUE) \in Addr
  BY DEF Sane
<1>2. Types
  BY <1>1 DEF Sane, Init, Types, TypeOK, Labels
<1>3. ListExact
  BY DEF Init, ListExact, OnList, IsInjective, ToSet
<1>4. NoLostWakeup /\ Covered /\ PassedOver
  BY DEF Init, NoLostWakeup, At, Covered, PassedOver, Sleeper
<1> QED BY <1>2, <1>3, <1>4 DEF IInv

(* Every step keeps it.                                                    *)
LEMMA NextInv == ASSUME Sane, IInv, [Next]_vars PROVE IInv'
<1>1. CASE UNCHANGED vars
  <2>1. \A a \in Addr : OnTheWay(a)' = OnTheWay(a)
    BY <1>1 DEF vars, own, OnTheWay, Sum, Units, Owed, Carries, Flag
  <2>2. Types' /\ ListExact' /\ NoLostWakeup'
    BY <1>1 DEF vars, own, IInv, Types, TypeOK, ListExact, NoLostWakeup, At, Here
  <2>3. Covered' /\ PassedOver'
    BY <1>1, <2>1 DEF vars, own, IInv, Covered, PassedOver, Past, Sleeper
  <2> QED BY <2>2, <2>3 DEF IInv
<1>2. ASSUME NEW p \in Proc, semacquire(p) \/ semrelease(p) \/ interrupted(p) PROVE IInv'
  BY <1>2, AcquireStep, ReleaseStep, InterruptedStep
<1>3. ASSUME NEW p \in Proc, Step(p) PROVE IInv'
  BY <1>3, QueueStep, AnnounceStep, TryStep, SleepStep, DequeueStep, PassOnStep, SemwakeupStep,
     ScanStep, WakeupStep DEF Step
<1> QED BY <1>1, <1>2, <1>3 DEF Next

(* So it always holds.                                                     *)
LEMMA Always == ASSUME Sane PROVE Spec => []IInv
BY InitInv, NextInv, PTL DEF Spec

(* A Sema, which is on the kernel stack of the acquirer, is on the list    *)
(* once from semqueue() to semdequeue(), and on no way out of semacquire() *)
(* is it left there.                                                       *)
THEOREM SemasListed == ASSUME Sane PROVE Spec => []ListExact
<1>1. IInv => ListExact
  BY DEF IInv
<1> QED BY <1>1, Always, PTL

(* The wakeup of an acquirer whose flag was cleared is on its way.         *)
THEOREM WakeupsKept == ASSUME Sane PROVE Spec => []NoLostWakeup
<1>1. IInv => NoLostWakeup
  BY DEF IInv
<1> QED BY <1>1, Always, PTL

(* Who sleeps in semacquire() before a semaphore that is worth something   *)
(* is not forgotten: some process is on its way through semacquire() or    *)
(* semwakeup().                                                            *)
THEOREM NobodyForgotten == ASSUME Sane PROVE Spec => []NoForgottenWaiter
<1>1. ASSUME Sane, IInv PROVE NoForgottenWaiter
  <2> SUFFICES ASSUME NEW p \in Proc, pc[p] = "asleep", value[addr[p]] > 0
               PROVE  \E q \in Proc : Busy(q)
    BY DEF NoForgottenWaiter, At
  <2>1. \A x \in Proc : pc[x] = "asleep" /\ ~waiting[x] => \E q \in Proc : Busy(q)
    BY <1>1 DEF IInv, NoLostWakeup, At, Busy
  <2>2. CASE ~waiting[p]
    BY <2>1, <2>2
  <2>3. CASE waiting[p]
    <3>1. PICK a \in Addr : a = addr[p]
      BY <1>1 DEF IInv, Types, TypeOK
    <3>2. value[a] <= OnTheWay(a) /\ value[a] \in Nat /\ OnTheWay(a) \in Nat /\ Owed(a) \in [Proc -> Nat]
      BY <1>1, <2>3, <3>1, OwedType DEF IInv, Covered, Sleeper, Types, TypeOK
    <3>3. Sum(Owed(a)) > 0
      BY <3>1, <3>2 DEF OnTheWay
    <3>4. PICK q \in Proc : Owed(a)[q] > 0
      BY <1>1, <3>2, <3>3, SumPositive DEF Sane
    <3>5. Carries(q) > 0
      BY <3>4 DEF Owed
    <3>6. pc[q] # "idle" /\ (pc[q] = "asleep" => ~waiting[q])
      BY <3>5 DEF Carries, Flag
    <3> QED BY <3>6, <2>1 DEF Busy
  <2> QED BY <2>2, <2>3
<1> QED BY <1>1, Always, PTL
=============================================================================
