----------------------------- MODULE QioProofs ------------------------------
(***************************************************************************)
(* The queues of Qio are exact, for every number of readers, writers and   *)
(* agents, every limit and every mix of operations: the counts are those   *)
(* of the blocks, the bytes are the stream of Fifo, no reader sleeps       *)
(* beside data, messages stay whole and, in the queues that are            *)
(* Restartable, no writer sleeps beside room.                              *)
(*                                                                         *)
(* CtlOK says where the processes are and who has the two locks of the     *)
(* queue, BufOK what the counts are, CopyOK that between taking blocks and *)
(* putting the rest back a reader is alone: together they are inductive,   *)
(* and the steps that keep them map to steps of Fifo.  AwakeOK, BlocksOK   *)
(* and FlowOK are what the three other properties need beside them.        *)
(***************************************************************************)
EXTENDS Qio, TLAPS, WellFoundedInduction, SequenceTheorems, FiniteSetTheorems

(* Induction over natural numbers and what it gives for sequences of       *)
(* sequences: how FlattenSeq, the bytes of a list of blocks, distributes   *)
(* over concatenation.                                                     *)

(* Every set of numbers that is not empty has a least element.             *)
LEMMA NatMin ==
  ASSUME NEW T, T \subseteq Nat, T # {}
  PROVE  \E x \in T : \A y \in T : x <= y
<1>1. IsWellFoundedOn(OpToRel(<, Nat), Nat)
  BY NatLessThanWellFounded
<1>2. PICK x \in T : \A y \in T : <<y, x>> \notin OpToRel(<, Nat)
  BY <1>1, WFMin
<1>3. \A y \in T : ~(y < x)
  BY <1>2 DEF OpToRel
<1> QED BY <1>3

(* Induction up to n, for a property given as the set of the numbers that  *)
(* have it.                                                                *)
LEMMA Upto ==
  ASSUME NEW n \in Nat, NEW T, 0 \in T, \A k \in 0..n - 1 : k \in T => k + 1 \in T
  PROVE  \A k \in 0..n : k \in T
<1> DEFINE B == {k \in 0..n : k \notin T}
<1>1. SUFFICES ASSUME B # {} PROVE FALSE
  OBVIOUS
<1>2. PICK x \in B : \A y \in B : x <= y
  <2>1. B \subseteq Nat
    OBVIOUS
  <2> QED BY <2>1, <1>1, NatMin
<1>3. x # 0
  BY <1>2
<1>4. x - 1 \in 0..n - 1 /\ x - 1 \notin B
  BY <1>2, <1>3
<1> QED BY <1>2, <1>4

(* f[i] is the concatenation of the first i sequences of s.                *)
Flattens(s, k, f) == f = [i \in 1..k |-> IF i = 1 THEN s[i] ELSE f[i - 1] \o s[i]]

(* One step of that recursion.                                             *)
LEMMA FlattenStep ==
  ASSUME NEW s, NEW k \in Nat, NEW f, Flattens(s, k, f), NEW i \in 1..k
  PROVE  f[i] = IF i = 1 THEN s[i] ELSE f[i - 1] \o s[i]
<1> DEFINE Val(j) == IF j = 1 THEN s[j] ELSE f[j - 1] \o s[j]
<1>1. f = [j \in 1..k |-> Val(j)]
  BY DEF Flattens
<1> HIDE DEF Val
<1>2. f[i] = Val(i)
  BY <1>1
<1> QED BY <1>2 DEF Val

(* There is such a function, so FlattenSeq is its last value.              *)
LEMMA FlattenExists ==
  ASSUME NEW S, NEW s \in Seq(Seq(S)), s # <<>>
  PROVE  \E f : FlattenSeq(s) = f[Len(s)] /\ Flattens(s, Len(s), f)
<1> DEFINE P(k) == \E f : Flattens(s, k, f)
<1>0. Len(s) \in Nat /\ Len(s) # 0
  OBVIOUS
<1>1. P(0)
  <2>1. Flattens(s, 0, [i \in 1..0 |-> s[i]])
    BY DEF Flattens
  <2> QED BY <2>1
<1>2. ASSUME NEW k \in 0..Len(s) - 1, P(k) PROVE P(k + 1)
  <2>1. PICK g : Flattens(s, k, g)
    BY <1>2
  <2> DEFINE h == [i \in 1..k + 1 |-> IF i = k + 1 THEN (IF i = 1 THEN s[i] ELSE g[i - 1] \o s[i])
                                      ELSE g[i]]
  <2>2. ASSUME NEW i \in 1..k + 1 PROVE h[i] = IF i = 1 THEN s[i] ELSE h[i - 1] \o s[i]
    <3>0. k \in Nat /\ i \in Nat
      BY <1>0
    <3>1. i # 1 => i - 1 \in 1..k + 1 /\ i - 1 # k + 1
      BY <3>0
    <3>2. i # 1 => h[i - 1] = g[i - 1]
      BY <3>1
    <3>3. CASE i = k + 1
      BY <3>2, <3>3
    <3>4. CASE i # k + 1
      <4>1. i \in 1..k
        BY <3>4, <3>0
      <4>2. g[i] = IF i = 1 THEN s[i] ELSE g[i - 1] \o s[i]
        BY <4>1, <2>1 DEF Flattens
      <4> QED BY <4>2, <3>2, <3>4
    <3> QED BY <3>3, <3>4
  <2>3. Flattens(s, k + 1, h)
    BY <2>2 DEF Flattens
  <2> QED BY <2>3
<1>3. P(Len(s))
  <2> DEFINE T == {k \in 0..Len(s) : P(k)}
  <2> HIDE DEF P
  <2>1. 0 \in T /\ \A k \in 0..Len(s) - 1 : k \in T => k + 1 \in T
    BY <1>0, <1>1, <1>2
  <2> HIDE DEF T
  <2>2. \A k \in 0..Len(s) : k \in T
    BY <1>0, <2>1, Upto
  <2> QED BY <2>2, <1>0 DEF T
<1>4. FlattenSeq(s) = (CHOOSE f : Flattens(s, Len(s), f))[Len(s)]
  BY <1>0 DEF FlattenSeq, Flattens
<1> QED BY <1>3, <1>4

(* Two lists that begin alike are flattened alike as far.                  *)
LEMMA FlattenPrefix ==
  ASSUME NEW s, NEW t, NEW m \in Nat, NEW n \in Nat, NEW f, NEW g,
         Flattens(s, m, f), Flattens(t, n, g),
         NEW k \in 1..m, k <= n, \A i \in 1..k : s[i] = t[i]
  PROVE  f[k] = g[k]
<1> DEFINE T == {i \in 0..k : i > 0 => f[i] = g[i]}
<1>1. ASSUME NEW i \in 0..k - 1, i \in T PROVE i + 1 \in T
  <2> DEFINE j == i + 1
  <2>1. j \in 1..m /\ j \in 1..n /\ j \in 1..k /\ (j = 1 <=> i = 0) /\ j - 1 = i
    OBVIOUS
  <2> HIDE DEF j
  <2>2. f[j] = IF j = 1 THEN s[j] ELSE f[j - 1] \o s[j]
    BY <2>1, FlattenStep
  <2>3. g[j] = IF j = 1 THEN t[j] ELSE g[j - 1] \o t[j]
    BY <2>1, FlattenStep
  <2>4. s[j] = t[j] /\ (j # 1 => f[j - 1] = g[j - 1])
    BY <2>1, <1>1
  <2>5. f[j] = g[j]
    BY <2>2, <2>3, <2>4
  <2> QED BY <2>1, <2>5 DEF j
<1>2. \A i \in 0..k : i \in T
  <2>1. k \in Nat /\ 0 \in T
    OBVIOUS
  <2>2. \A i \in 0..k - 1 : i \in T => i + 1 \in T
    BY <1>1
  <2> HIDE DEF T
  <2> QED BY <2>1, <2>2, Upto
<1> QED BY <1>2

(* The last sequence goes at the end.                                      *)
LEMMA FlattenAppend ==
  ASSUME NEW S, NEW s \in Seq(Seq(S)), NEW b \in Seq(S)
  PROVE  FlattenSeq(Append(s, b)) = FlattenSeq(s) \o b
<1> DEFINE t == Append(s, b)
<1>0. /\ t \in Seq(Seq(S)) /\ Len(t) = Len(s) + 1 /\ t # <<>> /\ Len(s) \in Nat
      /\ t[Len(t)] = b /\ \A i \in 1..Len(s) : s[i] = t[i]
  BY AppendProperties
<1> HIDE DEF t
<1>1. PICK g : FlattenSeq(t) = g[Len(t)] /\ Flattens(t, Len(t), g)
  BY <1>0, FlattenExists
<1>2. g[Len(t)] = IF Len(t) = 1 THEN b ELSE g[Len(s)] \o b
  <2>1. Len(t) \in 1..Len(t) /\ Len(t) \in Nat /\ Len(t) - 1 = Len(s)
    BY <1>0
  <2> QED BY <1>0, <1>1, <2>1, FlattenStep
<1>3. CASE s = <<>>
  <2>1. FlattenSeq(s) = <<>>
    BY <1>3 DEF FlattenSeq
  <2>2. <<>> \o b = b
    OBVIOUS
  <2> QED BY <2>1, <2>2, <1>0, <1>1, <1>2, <1>3 DEF t
<1>4. CASE s # <<>>
  <2>1. PICK f : FlattenSeq(s) = f[Len(s)] /\ Flattens(s, Len(s), f)
    BY <1>4, FlattenExists
  <2>2. Len(s) \in 1..Len(s)
    BY <1>4
  <2>3. f[Len(s)] = g[Len(s)]
    <3>1. Len(t) \in Nat /\ Len(s) <= Len(t)
      BY <1>0
    <3>2. \A i \in 1..Len(s) : s[i] = t[i]
      BY <1>0
    <3>3. Flattens(s, Len(s), f) /\ Flattens(t, Len(t), g)
      BY <1>1, <2>1
    <3>4. Len(s) \in Nat
      BY <1>0
    <3> HIDE <1>0, <1>1, <2>1
    <3> QED BY <2>2, <3>1, <3>2, <3>3, <3>4, FlattenPrefix, SMTT(30)
  <2> QED BY <2>1, <2>2, <2>3, <1>0, <1>1, <1>2, <1>4, SMTT(30) DEF t
<1> QED BY <1>3, <1>4

(* No sequences make the empty one.                                        *)
LEMMA FlattenEmpty == FlattenSeq(<<>>) = <<>>
BY DEF FlattenSeq

(* What is flattened is a sequence of the same elements.                   *)
LEMMA FlattenType ==
  ASSUME NEW S, NEW s \in Seq(Seq(S))
  PROVE  FlattenSeq(s) \in Seq(S)
<1>1. CASE s = <<>>
  <2>1. <<>> \in Seq(S)
    OBVIOUS
  <2> QED BY <1>1, <2>1, FlattenEmpty
<1>2. CASE s # <<>>
  <2>0. Len(s) \in Nat /\ Len(s) > 0 /\ \A i \in 1..Len(s) : s[i] \in Seq(S)
    BY <1>2
  <2>1. PICK f : FlattenSeq(s) = f[Len(s)] /\ Flattens(s, Len(s), f)
    BY <1>2, FlattenExists
  <2> DEFINE T == {i \in 0..Len(s) : i > 0 => f[i] \in Seq(S)}
  <2>2. ASSUME NEW i \in 0..Len(s) - 1, i \in T PROVE i + 1 \in T
    <3>1. i + 1 \in 1..Len(s) /\ s[i + 1] \in Seq(S)
      BY <2>0
    <3>2. f[i + 1] = IF i + 1 = 1 THEN s[i + 1] ELSE f[i] \o s[i + 1]
      <4>1. (i + 1) - 1 = i
        OBVIOUS
      <4>2. f[i + 1] = IF i + 1 = 1 THEN s[i + 1] ELSE f[(i + 1) - 1] \o s[i + 1]
        <5>1. Len(s) \in Nat
          BY <2>0
        <5>2. i + 1 \in 1..Len(s)
          BY <3>1
        <5>3. Flattens(s, Len(s), f)
          BY <2>1
        <5> HIDE <2>0, <2>1, <3>1
        <5> QED BY <5>1, <5>2, <5>3, FlattenStep, SMTT(30)
      <4> QED BY <4>1, <4>2
    <3>3. i > 0 => f[i] \o s[i + 1] \in Seq(S)
      BY <2>2, <3>1
    <3>4. f[i + 1] \in Seq(S)
      BY <2>0, <3>1, <3>2, <3>3
    <3> QED BY <3>1, <3>4
  <2>3. \A i \in 0..Len(s) : i \in T
    <3>1. 0 \in T /\ \A i \in 0..Len(s) - 1 : i \in T => i + 1 \in T
      BY <2>0, <2>2
    <3> HIDE DEF T
    <3> QED BY <2>0, <3>1, Upto
  <2> QED BY <2>0, <2>1, <2>3
<1> QED BY <1>1, <1>2

(* FlattenSeq distributes over concatenation.                              *)
LEMMA FlattenConcat ==
  ASSUME NEW S, NEW s \in Seq(Seq(S)), NEW t \in Seq(Seq(S))
  PROVE  FlattenSeq(s \o t) = FlattenSeq(s) \o FlattenSeq(t)
<1> DEFINE Pre(i) == SubSeq(t, 1, i)
<1> DEFINE P(i) == FlattenSeq(s \o Pre(i)) = FlattenSeq(s) \o FlattenSeq(Pre(i))
<1> DEFINE T == {i \in 0..Len(t) : P(i)}
<1>0. Len(t) \in Nat
  OBVIOUS
<1>1. P(0)
  <2>1. Pre(0) = <<>> /\ s \o <<>> = s
    OBVIOUS
  <2>2. FlattenSeq(s) \o <<>> = FlattenSeq(s)
    BY FlattenType
  <2> QED BY <2>1, <2>2, <1>0, FlattenEmpty
<1>2. ASSUME NEW i \in 0..Len(t) - 1, P(i) PROVE P(i + 1)
  <2>1. /\ i + 1 \in 1..Len(t) /\ t[i + 1] \in Seq(S) /\ Pre(i) \in Seq(Seq(S))
        /\ Pre(i + 1) = Append(Pre(i), t[i + 1])
    BY <1>0
  <2>2. s \o Append(Pre(i), t[i + 1]) = Append(s \o Pre(i), t[i + 1]) /\ s \o Pre(i) \in Seq(Seq(S))
    BY <2>1, SMTT(30)
  <2>3. FlattenSeq(s \o Pre(i + 1)) = FlattenSeq(s \o Pre(i)) \o t[i + 1]
    BY <2>1, <2>2, FlattenAppend
  <2>4. FlattenSeq(Pre(i + 1)) = FlattenSeq(Pre(i)) \o t[i + 1]
    BY <2>1, FlattenAppend
  <2>5. FlattenSeq(s) \in Seq(S) /\ FlattenSeq(Pre(i)) \in Seq(S)
    BY <2>1, FlattenType
  <2>6. (FlattenSeq(s) \o FlattenSeq(Pre(i))) \o t[i + 1] = FlattenSeq(s) \o (FlattenSeq(Pre(i)) \o t[i + 1])
    <3> DEFINE a == FlattenSeq(s)
    <3> DEFINE b == FlattenSeq(Pre(i))
    <3> DEFINE c == t[i + 1]
    <3>1. a \in Seq(S)
      BY <2>5
    <3>2. b \in Seq(S)
      BY <2>5
    <3>3. c \in Seq(S)
      BY <2>1
    <3> HIDE DEF a, b, c
    <3>4. (a \o b) \o c = a \o (b \o c)
      BY <3>1, <3>2, <3>3, SMTT(60)
    <3> QED BY <3>4 DEF a, b, c
  <2>7. FlattenSeq(s \o Pre(i)) = FlattenSeq(s) \o FlattenSeq(Pre(i))
    BY <1>2
  <2> QED BY <2>1, <2>3, <2>4, <2>6, <2>7
<1>3. P(Len(t))
  <2> HIDE DEF P
  <2>1. 0 \in T /\ \A i \in 0..Len(t) - 1 : i \in T => i + 1 \in T
    BY <1>0, <1>1, <1>2
  <2> HIDE DEF T
  <2>2. \A i \in 0..Len(t) : i \in T
    BY <1>0, <2>1, Upto
  <2> QED BY <2>2, <1>0 DEF T
<1>4. Pre(Len(t)) = t
  OBVIOUS
<1> QED BY <1>3, <1>4

(* One sequence is itself.                                                 *)
LEMMA FlattenOne ==
  ASSUME NEW S, NEW b \in Seq(S)
  PROVE  FlattenSeq(<<b>>) = b
<1>1. <<b>> = Append(<<>>, b) /\ <<>> \in Seq(Seq(S))
  OBVIOUS
<1>2. FlattenSeq(<<b>>) = <<>> \o b
  BY <1>1, FlattenAppend, FlattenEmpty
<1> QED BY <1>2

(* The first k elements and the rest.                                      *)
LEMMA CutSeq ==
  ASSUME NEW S, NEW s \in Seq(S), NEW k \in 0..Len(s)
  PROVE  /\ SubSeq(s, 1, k) \in Seq(S) /\ Len(SubSeq(s, 1, k)) = k
         /\ SubSeq(s, k + 1, Len(s)) \in Seq(S) /\ Len(SubSeq(s, k + 1, Len(s))) = Len(s) - k
         /\ s = SubSeq(s, 1, k) \o SubSeq(s, k + 1, Len(s))
<1>0. Len(s) \in Nat /\ \A i \in 1..Len(s) : s[i] \in S
  OBVIOUS
<1>1. SubSeq(s, 1, k) \in Seq(S) /\ Len(SubSeq(s, 1, k)) = k
  OBVIOUS
<1>2. SubSeq(s, k + 1, Len(s)) \in Seq(S) /\ Len(SubSeq(s, k + 1, Len(s))) = Len(s) - k
  OBVIOUS
<1>3. SubSeq(s, 1, k) \o SubSeq(s, k + 1, Len(s)) = SubSeq(s, 1, Len(s))
  <2>1. 1 \in 1..Len(s) + 1 /\ k \in (1 - 1)..Len(s) /\ Len(s) \in k..Len(s)
    BY <1>0
  <2> QED BY <2>1, ConcatAdjacentSubSeq
<1>4. SubSeq(s, 1, Len(s)) = s
  BY SubSeqFull
<1> QED BY <1>1, <1>2, <1>3, <1>4

(* ... and back.                                                           *)
LEMMA CutConcat ==
  ASSUME NEW S, NEW a \in Seq(S), NEW b \in Seq(S)
  PROVE  /\ a \o b \in Seq(S) /\ Len(a \o b) = Len(a) + Len(b)
         /\ SubSeq(a \o b, 1, Len(a)) = a
         /\ SubSeq(a \o b, Len(a) + 1, Len(a \o b)) = b
<1>1. /\ a \o b \in Seq(S) /\ Len(a \o b) = Len(a) + Len(b)
      /\ \A i \in 1..Len(a) + Len(b) : (a \o b)[i] = IF i <= Len(a) THEN a[i] ELSE b[i - Len(a)]
  BY ConcatProperties
<1>0. Len(a) \in Nat /\ Len(b) \in Nat
  OBVIOUS
<1> DEFINE c == a \o b
<1>a. /\ c \in Seq(S) /\ Len(c) = Len(a) + Len(b)
      /\ \A i \in 1..Len(a) + Len(b) : c[i] = IF i <= Len(a) THEN a[i] ELSE b[i - Len(a)]
  BY <1>1
<1> HIDE DEF c
<1>2. SubSeq(c, 1, Len(a)) = a
  <2>1. Len(a) \in 0..Len(c)
    BY <1>0, <1>a
  <2>2. SubSeq(c, 1, Len(a)) \in Seq(S) /\ Len(SubSeq(c, 1, Len(a))) = Len(a)
    BY <2>1, <1>a, CutSeq
  <2>3. \A i \in 1..Len(a) : SubSeq(c, 1, Len(a))[i] = a[i]
    BY <1>a, <1>0
  <2> QED BY <2>2, <2>3, SeqEqual
<1>3. SubSeq(c, Len(a) + 1, Len(c)) = b
  <2>1. Len(a) \in 0..Len(c)
    BY <1>0, <1>a
  <2>2. /\ SubSeq(c, Len(a) + 1, Len(c)) \in Seq(S)
        /\ Len(SubSeq(c, Len(a) + 1, Len(c))) = Len(b)
    BY <2>1, <1>a, <1>0, CutSeq
  <2>3. \A i \in 1..Len(b) : SubSeq(c, Len(a) + 1, Len(c))[i] = b[i]
    <3> TAKE i \in 1..Len(b)
    <3>1. i \in 1..Len(c) - (Len(a) + 1) + 1 /\ (Len(a) + 1) + i - 1 = Len(a) + i
      BY <1>a, <1>0
    <3>2. SubSeq(c, Len(a) + 1, Len(c))[i] = c[(Len(a) + 1) + i - 1]
      BY <3>1, <1>a, <1>0
    <3>3. Len(a) + i \in 1..Len(a) + Len(b) /\ ~(Len(a) + i <= Len(a)) /\ (Len(a) + i) - Len(a) = i
      BY <1>0
    <3>4. c[Len(a) + i] = b[(Len(a) + i) - Len(a)]
      BY <3>3, <1>a
    <3> QED BY <3>1, <3>2, <3>3, <3>4
  <2> QED BY <2>2, <2>3, SeqEqual
<1> QED BY <1>1, <1>2, <1>3 DEF c
-----------------------------------------------------------------------------

(* The bytes of a list of blocks.                                          *)
LEMMA BytesType ==
  ASSUME NEW s \in Seq(Seq(Nat))
  PROVE  Bytes(s) \in Seq(Nat)
BY FlattenType DEF Bytes

(* The parts of a sequence.                                                *)
LEMMA TwoParts ==
  ASSUME NEW a \in Seq(Nat), NEW b \in Seq(Nat)
  PROVE  /\ a \o b \in Seq(Nat) /\ Len(a \o b) = Len(a) + Len(b)
         /\ Len(a) \in Nat /\ Len(b) \in Nat
         /\ <<>> \o (a \o b) = a \o b
<1>1. a \o b \in Seq(Nat) /\ Len(a \o b) = Len(a) + Len(b)
  BY ConcatProperties
<1>2. Len(a) \in Nat /\ Len(b) \in Nat
  OBVIOUS
<1>3. <<>> \o (a \o b) = a \o b
  BY <1>1, ConcatEmptySeq
<1> QED BY <1>1, <1>2, <1>3

(* The parts of a sequence of three.                                       *)
LEMMA Parts ==
  ASSUME NEW a \in Seq(Nat), NEW b \in Seq(Nat), NEW c \in Seq(Nat)
  PROVE  /\ (a \o b) \o c = a \o (b \o c) /\ a \o (b \o c) \in Seq(Nat)
         /\ Len(a \o (b \o c)) = Len(a) + Len(b) + Len(c)
         /\ Len(a) \in Nat /\ Len(b) \in Nat /\ Len(c) \in Nat
<1>1. (a \o b) \o c = a \o (b \o c)
  BY ConcatAssociative, SMTT(30)
<1>2. b \o c \in Seq(Nat) /\ Len(b \o c) = Len(b) + Len(c)
  BY TwoParts
<1>3. a \o (b \o c) \in Seq(Nat) /\ Len(a \o (b \o c)) = Len(a) + Len(b \o c)
  BY <1>2, TwoParts
<1>4. Len(a) \in Nat /\ Len(b) \in Nat /\ Len(c) \in Nat
  OBVIOUS
<1> QED BY <1>1, <1>2, <1>3, <1>4

(* The first k of a list and the rest, and their bytes.                    *)
LEMMA Cut ==
  ASSUME NEW s \in Seq(Seq(Nat)), NEW k \in 0..Len(s)
  PROVE  /\ First(s, k) \in Seq(Seq(Nat)) /\ Len(First(s, k)) = k
         /\ After(s, k) \in Seq(Seq(Nat)) /\ Len(After(s, k)) = Len(s) - k
         /\ Bytes(s) = Bytes(First(s, k)) \o Bytes(After(s, k))
<1>1. First(s, k) \in Seq(Seq(Nat)) /\ Len(First(s, k)) = k
  BY CutSeq DEF First
<1>2. After(s, k) \in Seq(Seq(Nat)) /\ Len(After(s, k)) = Len(s) - k
  BY CutSeq DEF After
<1>3. s = First(s, k) \o After(s, k)
  BY CutSeq DEF First, After
<1>4. Bytes(First(s, k) \o After(s, k)) = Bytes(First(s, k)) \o Bytes(After(s, k))
  BY <1>1, <1>2, FlattenConcat DEF Bytes
<1> QED BY <1>1, <1>2, <1>3, <1>4

(* The same for bytes.                                                     *)
LEMMA CutBytes ==
  ASSUME NEW b \in Seq(Nat), NEW k \in Nat
  PROVE  /\ After(b, k) \in Seq(Nat)
         /\ k <= Len(b) => /\ First(b, k) \in Seq(Nat) /\ Len(First(b, k)) = k
                           /\ Len(After(b, k)) = Len(b) - k /\ b = First(b, k) \o After(b, k)
         /\ k >= Len(b) => After(b, k) = <<>>
         /\ First(b, Len(b)) = b
<1>0. Len(b) \in Nat
  OBVIOUS
<1>1. ASSUME k <= Len(b)
      PROVE  /\ First(b, k) \in Seq(Nat) /\ Len(First(b, k)) = k
             /\ After(b, k) \in Seq(Nat)
             /\ Len(After(b, k)) = Len(b) - k /\ b = First(b, k) \o After(b, k)
  <2>1. k \in 0..Len(b)
    BY <1>0, <1>1
  <2>2. /\ SubSeq(b, 1, k) \in Seq(Nat) /\ Len(SubSeq(b, 1, k)) = k
        /\ SubSeq(b, k + 1, Len(b)) \in Seq(Nat) /\ Len(SubSeq(b, k + 1, Len(b))) = Len(b) - k
        /\ b = SubSeq(b, 1, k) \o SubSeq(b, k + 1, Len(b))
    BY <2>1, CutSeq, Zenon
  <2> QED BY <2>2, Zenon DEF First, After
<1>2. ASSUME k >= Len(b) PROVE After(b, k) = <<>>
  BY <1>0, <1>2, SubSeqEmpty DEF After
<1>3. First(b, Len(b)) = b
  BY SubSeqFull DEF First
<1>4. k <= Len(b) \/ k >= Len(b)
  BY <1>0
<1>5. <<>> \in Seq(Nat)
  OBVIOUS
<1> QED BY <1>1, <1>2, <1>3, <1>4, <1>5

(* The first block and the rest.                                           *)
LEMMA CutHead ==
  ASSUME NEW s \in Seq(Seq(Nat)), s # <<>>
  PROVE  /\ Head(s) \in Seq(Nat) /\ Tail(s) \in Seq(Seq(Nat)) /\ Len(Tail(s)) = Len(s) - 1
         /\ Bytes(s) = Head(s) \o Bytes(Tail(s))
<1>1. Head(s) \in Seq(Nat) /\ Tail(s) \in Seq(Seq(Nat)) /\ Len(Tail(s)) = Len(s) - 1
  OBVIOUS
<1>2. s = <<Head(s)>> \o Tail(s) /\ <<Head(s)>> \in Seq(Seq(Nat))
  BY <1>1
<1>3. Bytes(<<Head(s)>> \o Tail(s)) = Bytes(<<Head(s)>>) \o Bytes(Tail(s))
  BY <1>1, <1>2, FlattenConcat DEF Bytes
<1>4. Bytes(<<Head(s)>>) = Head(s)
  BY <1>1, FlattenOne DEF Bytes
<1> QED BY <1>1, <1>2, <1>3, <1>4

(* A block put in front.                                                   *)
LEMMA PutFront ==
  ASSUME NEW s \in Seq(Seq(Nat)), NEW b \in Seq(Nat)
  PROVE  /\ <<b>> \o s \in Seq(Seq(Nat)) /\ Len(<<b>> \o s) = Len(s) + 1
         /\ Bytes(<<b>> \o s) = b \o Bytes(s)
<1>1. <<b>> \in Seq(Seq(Nat))
  OBVIOUS
<1>2. <<b>> \o s \in Seq(Seq(Nat)) /\ Len(<<b>> \o s) = Len(s) + 1
  BY <1>1
<1>3. Bytes(<<b>> \o s) = Bytes(<<b>>) \o Bytes(s)
  BY <1>1, FlattenConcat DEF Bytes
<1>4. Bytes(<<b>>) = b
  BY FlattenOne DEF Bytes
<1> QED BY <1>2, <1>3, <1>4

(* What is left after the first k blocks.                                  *)
LEMMA ElemAfter ==
  ASSUME NEW s \in Seq(Seq(Nat)), NEW k \in 0..Len(s)
  PROVE  \A i \in 1..Len(After(s, k)) : After(s, k)[i] = s[k + i] /\ k + i \in 1..Len(s)
<1>1. Len(After(s, k)) = Len(s) - k /\ Len(s) \in Nat
  BY Cut
<1> TAKE i \in 1..Len(After(s, k))
<1>2. i \in 1..Len(s) - k /\ k + i \in 1..Len(s)
  BY <1>1
<1>3. SubSeq(s, k + 1, Len(s))[i] = s[k + i]
  <2>1. i \in 1..Len(s) - (k + 1) + 1 /\ (k + 1) + i - 1 = k + i
    BY <1>1, <1>2
  <2>2. SubSeq(s, k + 1, Len(s))[i] = s[(k + 1) + i - 1]
    BY <1>1, <1>2, <2>1
  <2> QED BY <2>1, <2>2
<1> QED BY <1>2, <1>3 DEF After

(* What is left after the first block.                                     *)
LEMMA ElemTail ==
  ASSUME NEW s \in Seq(Seq(Nat)), s # <<>>
  PROVE  \A i \in 1..Len(Tail(s)) : Tail(s)[i] = s[i + 1] /\ i + 1 \in 1..Len(s)
<1>1. Len(Tail(s)) = Len(s) - 1 /\ Len(s) \in Nat
  OBVIOUS
<1>2. \A i \in 1..Len(Tail(s)) : Tail(s)[i] = s[i + 1]
  BY HeadTailProperties
<1> QED BY <1>1, <1>2

(* A block put back before the others.                                     *)
LEMMA ElemFront ==
  ASSUME NEW s \in Seq(Seq(Nat)), NEW b \in Seq(Nat)
  PROVE  \A i \in 1..Len(<<b>> \o s) : \/ (<<b>> \o s)[i] = b
                                       \/ i - 1 \in 1..Len(s) /\ (<<b>> \o s)[i] = s[i - 1]
<1>1. <<b>> \in Seq(Seq(Nat)) /\ Len(<<b>>) = 1 /\ <<b>>[1] = b /\ Len(s) \in Nat
  OBVIOUS
<1> DEFINE t == <<b>>
<1>2. t \in Seq(Seq(Nat)) /\ Len(t) = 1 /\ t[1] = b
  BY <1>1
<1> HIDE DEF t
<1>3. /\ Len(t \o s) = 1 + Len(s)
      /\ \A i \in 1..1 + Len(s) : (t \o s)[i] = IF i <= 1 THEN t[i] ELSE s[i - 1]
  <2>1. /\ Len(t \o s) = Len(t) + Len(s)
        /\ \A i \in 1..Len(t) + Len(s) : (t \o s)[i] = IF i <= Len(t) THEN t[i] ELSE s[i - Len(t)]
    BY <1>2, ConcatProperties
  <2> QED BY <1>2, <2>1
<1>4. \A i \in 1..Len(t \o s) : \/ (t \o s)[i] = b
                                \/ i - 1 \in 1..Len(s) /\ (t \o s)[i] = s[i - 1]
  <2> TAKE i \in 1..Len(t \o s)
  <2>1. i \in 1..1 + Len(s) /\ i \in Nat
    BY <1>1, <1>3
  <2>2. CASE i <= 1
    <3>1. i = 1
      BY <2>1, <2>2
    <3> QED BY <1>2, <1>3, <2>1, <3>1
  <2>3. CASE ~(i <= 1)
    <3>1. i - 1 \in 1..Len(s)
      BY <1>1, <2>1, <2>3
    <3> QED BY <1>3, <2>1, <2>3, <3>1
  <2> QED BY <2>2, <2>3
<1> QED BY <1>4 DEF t

(* Blocks of length 0 have no bytes.                                       *)
LEMMA NoBytes ==
  ASSUME NEW s \in Seq(Seq(Nat)), \A i \in 1..Len(s) : s[i] = <<>>
  PROVE  Bytes(s) = <<>>
<1> DEFINE P(i) == Bytes(First(s, i)) = <<>>
<1>0. Len(s) \in Nat
  OBVIOUS
<1>1. P(0)
  <2>1. First(s, 0) = <<>>
    BY SubSeqEmpty DEF First
  <2> QED BY <2>1, FlattenEmpty DEF Bytes
<1>2. ASSUME NEW i \in 0..Len(s) - 1, P(i) PROVE P(i + 1)
  <2>1. First(s, i + 1) = Append(First(s, i), s[i + 1]) /\ First(s, i) \in Seq(Seq(Nat))
    BY DEF First
  <2>2. s[i + 1] = <<>> /\ <<>> \in Seq(Nat)
    OBVIOUS
  <2>3. Bytes(First(s, i + 1)) = Bytes(First(s, i)) \o <<>>
    BY <2>1, <2>2, FlattenAppend DEF Bytes
  <2> QED BY <2>3, <1>2
<1>3. P(Len(s))
  <2> DEFINE T == {i \in 0..Len(s) : P(i)}
  <2> HIDE DEF P
  <2>1. 0 \in T /\ \A i \in 0..Len(s) - 1 : i \in T => i + 1 \in T
    BY <1>0, <1>1, <1>2
  <2> HIDE DEF T
  <2>2. \A i \in 0..Len(s) : i \in T
    BY <1>0, <2>1, Upto
  <2> QED BY <2>2, <1>0 DEF T
<1>4. First(s, Len(s)) = s
  BY DEF First
<1> QED BY <1>3, <1>4

(* Min of FiniteSetsExt is a least element.                                *)
LEMMA MinIn ==
  ASSUME NEW T, T \subseteq Nat, T # {}
  PROVE  Min(T) \in T /\ \A y \in T : Min(T) <= y
BY NatMin DEF Min

(* ... and so has a set with a bound a greatest.                           *)
LEMMA MaxIn ==
  ASSUME NEW n \in Nat, NEW T, T \subseteq 0..n, T # {}
  PROVE  Max(T) \in T /\ \A y \in T : y <= Max(T)
<1> DEFINE U == {n - y : y \in T}
<1>1. U \subseteq Nat /\ U # {}
  <2>1. \A y \in T : n - y \in Nat
    OBVIOUS
  <2> QED BY <2>1
<1>2. PICK u \in U : \A v \in U : u <= v
  BY <1>1, NatMin
<1>3. PICK x \in T : u = n - x
  OBVIOUS
<1>4. \A y \in T : x >= y
  <2> TAKE y \in T
  <2>1. n - y \in U
    OBVIOUS
  <2>2. n - x <= n - y /\ x \in 0..n /\ y \in 0..n
    BY <1>2, <1>3, <2>1
  <2> QED BY <2>2
<1>5. \E z \in T : \A y \in T : z >= y
  BY <1>4
<1>6. Max(T) \in T /\ \A y \in T : Max(T) >= y
  BY <1>5 DEF Max
<1> QED BY <1>6

(* The smaller of two numbers.                                             *)
LEMMA MinTwo ==
  ASSUME NEW m \in Nat, NEW n \in Nat
  PROVE  Min({m, n}) = IF m <= n THEN m ELSE n
<1>1. {m, n} \subseteq Nat /\ {m, n} # {}
  OBVIOUS
<1>2. Min({m, n}) \in {m, n} /\ \A y \in {m, n} : Min({m, n}) <= y
  BY <1>1, MinIn
<1> QED BY <1>2

(* Blocks that hold no byte can go without the bytes changing.             *)
LEMMA ZerosAre ==
  ASSUME q \in Seq(Seq(Nat))
  PROVE  /\ Zeros \in 0..Len(q)
         /\ Bytes(After(q, Zeros)) = Bytes(q)
         /\ After(q, Zeros) \in Seq(Seq(Nat)) /\ Len(After(q, Zeros)) = Len(q) - Zeros
<1> DEFINE T == {i \in 1..(Len(q) + 1) : i <= Len(q) => q[i] # <<>>}
<1>1. T \subseteq Nat /\ T # {}
  <2>1. Len(q) \in Nat
    OBVIOUS
  <2>2. Len(q) + 1 \in T /\ T \subseteq 1..(Len(q) + 1)
    BY <2>1
  <2>3. 1..(Len(q) + 1) \subseteq Nat
    BY <2>1
  <2> QED BY <2>2, <2>3
<1>2. Min(T) \in T /\ \A y \in T : Min(T) <= y
  BY <1>1, MinIn
<1>3. Zeros \in 0..Len(q) /\ Min(T) = Zeros + 1
  BY <1>2 DEF Zeros
<1>4. \A i \in 1..Zeros : q[i] = <<>>
  <2> TAKE i \in 1..Zeros
  <2>1. i \in 1..Len(q) /\ i \notin T
    BY <1>2, <1>3
  <2> QED BY <2>1
<1>5. /\ First(q, Zeros) \in Seq(Seq(Nat)) /\ Len(First(q, Zeros)) = Zeros
      /\ After(q, Zeros) \in Seq(Seq(Nat)) /\ Len(After(q, Zeros)) = Len(q) - Zeros
      /\ Bytes(q) = Bytes(First(q, Zeros)) \o Bytes(After(q, Zeros))
  BY <1>3, Cut
<1>6. Bytes(First(q, Zeros)) = <<>>
  <2>1. \A i \in 1..Len(First(q, Zeros)) : First(q, Zeros)[i] = <<>>
    BY <1>3, <1>4 DEF First
  <2> QED BY <2>1, <1>5, NoBytes
<1>7. Bytes(After(q, Zeros)) \in Seq(Nat)
  BY <1>5, BytesType
<1> QED BY <1>3, <1>5, <1>6, <1>7

(* qread() takes a block at least, and none that is not there.             *)
LEMMA TakenIn ==
  ASSUME NEW s \in Seq(Seq(Nat)), s # <<>>, NEW n
  PROVE  Taken(s, n) \in 1..Len(s)
<1> DEFINE T == {1} \cup {k \in 1..Len(s) : Len(Bytes(First(s, k))) <= n}
<1>1. Len(s) \in Nat /\ Len(s) >= 1
  OBVIOUS
<1>2. T \subseteq 0..Len(s) /\ T # {} /\ T \subseteq 1..Len(s)
  BY <1>1
<1>3. Max(T) \in T
  BY <1>1, <1>2, MaxIn
<1> QED BY <1>1, <1>2, <1>3 DEF Taken
-----------------------------------------------------------------------------
(* Where an actor of each kind may be.                                     *)
ReaderAt == {"idle", "qwait", "sleep", "asleep", "copied", "wakeW"}
WriterAt == {"idle", "write", "wakeR", "flow", "setflow", "sleep", "asleep"}
AgentAt == {"idle", "wakeR", "wakeRW", "wakeW"}

(* The control part of the inductive invariant.                            *)
CtlOK ==
  /\ pc \in [Actor -> ReaderAt \cup WriterAt \cup AgentAt]
  /\ \A r \in Reader : pc[r] \in ReaderAt
  /\ \A w \in Writer : pc[w] \in WriterAt
  /\ \A a \in Agent : pc[a] \in AgentAt
  /\ rlock \in Reader \cup {nil} /\ rr \in Reader \cup {nil}
  /\ wlock \in Writer \cup {nil} /\ wr \in Writer \cup {nil}
  /\ \A r \in Reader : (rlock = r <=> pc[r] # "idle") /\ (rr = r <=> pc[r] = "asleep")
  /\ \A w \in Writer : (wlock = w <=> pc[w] # "idle") /\ (wr = w <=> pc[w] = "asleep")
  /\ qstate \subseteq {"Qstarve", "Qflow", "Qclosed"}
  /\ rlock # nil => "qread" \in use.ops

USE DEF At, Go, Calls, buf, conf, locks, sleepers, copy, written, Actor

(* Every step keeps the places of the processes and the two locks.         *)
LEMMA CtlStep ==
  ASSUME CtlOK, [Next]_vars
  PROVE  CtlOK'
<1> USE ConstantsOK DEF CtlOK, ReaderAt, WriterAt, AgentAt
<1>1. ASSUME NEW w \in Writer, qbwrite(w) PROVE CtlOK'
  BY <1>1 DEF qbwrite
<1>2. ASSUME NEW w \in Writer, qbwriteBlock(w) PROVE CtlOK'
  <2>1. CASE Go(w, "idle") /\ wlock' = nil /\ UNCHANGED qstate
    BY <1>2, <2>1 DEF qbwriteBlock
  <2>2. CASE /\ Go(w, IF "Qstarve" \in qstate THEN "wakeR" ELSE "flow")
             /\ qstate' = qstate \ {"Qstarve"} /\ UNCHANGED wlock
    <3>1. pc[w] = "write" /\ UNCHANGED <<use, rlock, rr, wr, wlock>>
      BY <1>2, <2>2 DEF qbwriteBlock
    <3> QED BY <3>1, <2>2
  <2> QED BY <1>2, <2>1, <2>2 DEF qbwriteBlock
<1>3. ASSUME NEW w \in Writer, qbwriteTest(w) PROVE CtlOK'
  BY <1>3 DEF qbwriteTest
<1>4. ASSUME NEW w \in Writer, qbwriteFlow(w) PROVE CtlOK'
  BY <1>4 DEF qbwriteFlow
<1>5. ASSUME NEW w \in Writer, qbwriteSleep(w) PROVE CtlOK'
  BY <1>5 DEF qbwriteSleep
<1>6. ASSUME NEW r \in Reader, qread(r) PROVE CtlOK'
  BY <1>6 DEF qread
<1>7. ASSUME NEW r \in Reader, qwait(r) PROVE CtlOK'
  <2>1. CASE Go(r, "idle") /\ rlock' = nil /\ UNCHANGED qstate
    BY <1>7, <2>1 DEF qwait
  <2>2. CASE Go(r, "sleep") /\ qstate' = qstate \cup {"Qstarve"} /\ UNCHANGED rlock
    <3>1. pc[r] = "qwait" /\ UNCHANGED <<use, rlock, rr, wr, wlock>>
      BY <1>7, <2>2 DEF qwait
    <3> QED BY <3>1, <2>2
  <2> QED BY <1>7, <2>1, <2>2 DEF qwait
<1>8. ASSUME NEW r \in Reader, qwaitSleep(r) PROVE CtlOK'
  BY <1>8 DEF qwaitSleep
<1>9. ASSUME NEW r \in Reader, qreadRemove(r) PROVE CtlOK'
  BY <1>9 DEF qreadRemove
<1>10. ASSUME NEW r \in Reader, qreadDone(r) PROVE CtlOK'
  BY <1>10 DEF qreadDone
<1>11. ASSUME NEW r \in Reader, qbread(r) PROVE CtlOK'
  BY <1>11 DEF qbread, Dequeue
<1>12. ASSUME NEW a \in Agent, qproduce(a) PROVE CtlOK'
  BY <1>12 DEF qproduce, Produce
<1>13. ASSUME NEW a \in Agent, qproduceFull(a) PROVE CtlOK'
  BY <1>13 DEF qproduceFull
<1>14. ASSUME NEW a \in Agent, qpass(a) PROVE CtlOK'
  BY <1>14 DEF qpass, Produce
<1>15. ASSUME NEW a \in Agent, qpassnolim(a) PROVE CtlOK'
  BY <1>15 DEF qpassnolim, Produce
<1>16. ASSUME NEW a \in Agent, qiwrite(a) PROVE CtlOK'
  BY <1>16 DEF qiwrite
<1>17. ASSUME NEW a \in Agent, qget(a) PROVE CtlOK'
  <2>0. pc[a] = "idle" /\ UNCHANGED <<use, rlock, rr, wr, wlock>>
    BY <1>17 DEF qget, Starve
  <2>1. CASE Starve(a)
    BY <2>0, <2>1 DEF Starve
  <2>2. CASE \E s, k, n : Dequeue(a, s, k, n, "idle")
    BY <2>0, <2>2 DEF Dequeue
  <2> QED BY <1>17, <2>1, <2>2 DEF qget
<1>18. ASSUME NEW a \in Agent, qconsume(a) PROVE CtlOK'
  <2>0. pc[a] = "idle" /\ UNCHANGED <<use, rlock, rr, wr, wlock>>
    BY <1>18 DEF qconsume, Starve
  <2>1. CASE Starve(a)
    BY <2>0, <2>1 DEF Starve
  <2>2. CASE \E s, k, n : Dequeue(a, s, k, n, "idle")
    BY <2>0, <2>2 DEF Dequeue
  <2>3. ASSUME ~Starve(a)
        PROVE  \E n \in use.reads : \E s, k, m : Dequeue(a, s, k, m, "idle")
    <3>1. PICK n \in use.reads :
            LET s == After(q, Zeros)
                b == Head(s)
                whole == n >= Len(b) \/ "Qmsg" \in mode
            IN  Dequeue(a, IF whole THEN Tail(s) ELSE <<After(b, n)>> \o Tail(s),
                        IF whole THEN Zeros + 1 ELSE Zeros, IF whole THEN Len(b) ELSE n, "idle")
      <4> HIDE DEF Go, Calls, buf, conf, locks, sleepers, copy, written, Actor
      <4> QED BY <1>18, <2>3, Zenon DEF qconsume
    <3> QED BY <3>1, Zenon
  <2> QED BY <1>18, <2>1, <2>2, <2>3 DEF qconsume
<1>19. ASSUME NEW a \in Agent, qdiscard(a) PROVE CtlOK'
  BY <1>19 DEF qdiscard, Dequeue
<1>20. ASSUME NEW a \in Agent, qclose(a) PROVE CtlOK'
  BY <1>20 DEF qclose, Empty
<1>21. ASSUME NEW a \in Agent, qhangup(a) PROVE CtlOK'
  BY <1>21 DEF qhangup
<1>22. ASSUME NEW a \in Agent, qreopen(a) PROVE CtlOK'
  BY <1>22 DEF qreopen
<1>23. ASSUME NEW a \in Agent, qflush(a) PROVE CtlOK'
  BY <1>23 DEF qflush, Empty
<1>24. ASSUME NEW a \in Agent, qsetlimit(a) PROVE CtlOK'
  BY <1>24 DEF qsetlimit
<1>25. ASSUME NEW a \in Agent, qnoblock(a) PROVE CtlOK'
  BY <1>25 DEF qnoblock
<1>26. ASSUME NEW w \in Writer, qbwriteIntr(w) PROVE CtlOK'
  BY <1>26 DEF qbwriteIntr
<1>27. ASSUME NEW r \in Reader, qwaitIntr(r) PROVE CtlOK'
  BY <1>27 DEF qwaitIntr
<1>28. ASSUME NEW a \in Actor, wakeupR(a) PROVE CtlOK'
  BY <1>28 DEF wakeupR, AfterWakeR
<1>29. ASSUME NEW a \in Actor, wakeupW(a) PROVE CtlOK'
  BY <1>29 DEF wakeupW, AfterWakeR
<1>30. ASSUME UNCHANGED vars PROVE CtlOK'
  BY <1>30 DEF vars
<1> QED
  BY <1>1, <1>2, <1>3, <1>4, <1>5, <1>6, <1>7, <1>8, <1>9, <1>10, <1>11, <1>12, <1>13, <1>14, <1>15, <1>16, <1>17, <1>18, <1>19, <1>20, <1>21, <1>22, <1>23, <1>24, <1>25, <1>26, <1>27, <1>28, <1>29, <1>30
  DEF Next, WriterStep, ReaderStep, Interrupted, AgentStep
-----------------------------------------------------------------------------
(* The part about the data: types, and Accounting.                         *)
BufOK ==
  /\ use \in Uses /\ mode \in use.modes /\ limit \in Nat
  /\ q \in Seq(Seq(Nat)) /\ msgs \in Seq(Seq(Nat))
  /\ hand \in Seq(Nat) /\ left \in Seq(Nat) /\ recv \in Seq(Nat)
  /\ sent \in Nat
  /\ Accounting

(* The bytes b leave the queue for the reader; l are lost.                 *)
Hands(b, l) ==
  /\ b \in Seq(Nat) /\ l \in Seq(Nat)
  /\ q' \in Seq(Seq(Nat))
  /\ Bytes(q) = b \o (l \o Bytes(q'))
  /\ l # <<>> => "Qmsg" \in mode

(* A block left on the queue was there before or, in a queue that is not   *)
(* one of messages, is what remains of one.                                *)
From(s) == \A i \in 1..Len(s) : \E j \in 1..Len(q) : s[i] = q[j]
Inherits ==
  \A i \in 1..Len(q') : \/ \E j \in 1..Len(q) : q'[i] = q[j]
                        \/ q'[i] # <<>> /\ "Qmsg" \notin mode

(* Nobody reads nothing.                                                   *)
LEMMA ReadsPositive == ASSUME BufOK, NEW n \in use.reads PROVE n \in Nat /\ n > 0
BY ConstantsOK DEF BufOK

(* A block with the next n bytes is put at the end.                        *)
LEMMA Enqueued ==
  ASSUME BufOK, NEW n \in use.writes, Enqueue(n), UNCHANGED <<use, mode, limit, hand, left, recv>>
  PROVE  /\ BufOK'
         /\ sent' = sent + n
         /\ Bytes(q') = Bytes(q) \o [i \in 1..n |-> sent + i]
<1> DEFINE b == [i \in 1..n |-> sent + i]
<1>1. n \in Nat /\ sent \in Nat /\ sent + n \in Nat
  BY ConstantsOK DEF BufOK
<1>2. b \in Seq(Nat) /\ Len(b) = n
  BY <1>1
<1>3. /\ q' = Append(q, b) /\ len' = len + 1 /\ dlen' = dlen + n
      /\ sent' = sent + n /\ msgs' = Append(msgs, b)
  BY DEF Enqueue
<1> HIDE DEF b
<1>4. /\ q' \in Seq(Seq(Nat)) /\ Len(q') = Len(q) + 1
      /\ msgs' \in Seq(Seq(Nat))
  BY <1>2, <1>3 DEF BufOK
<1>5. Bytes(q') = Bytes(q) \o b /\ Bytes(q) \in Seq(Nat)
  BY <1>2, <1>3, FlattenAppend, FlattenType DEF Bytes, BufOK
<1>6. Len(Bytes(q')) = Len(Bytes(q)) + n
  BY <1>2, <1>5, TwoParts
<1>7. Accounting'
  BY <1>3, <1>4, <1>6 DEF BufOK, Accounting
<1> QED BY <1>1, <1>3, <1>4, <1>5, <1>7 DEF BufOK, b

(* ... and so after the actions that add no block.                         *)
LEMMA Counted ==
  ASSUME BufOK, UNCHANGED <<use, mode, limit, sent, msgs>>,
         q' \in Seq(Seq(Nat)), hand' \in Seq(Nat), left' \in Seq(Nat), recv' \in Seq(Nat),
         len' = Len(q'), dlen' = Len(Bytes(q'))
  PROVE  BufOK'
BY DEF BufOK, Accounting

(* n bytes are taken from the first block of s, and the block goes if they *)
(* are all or, in a message queue, even if not: what is left on the queue  *)
(* and what the reader gets.                                               *)
LeftOf(s, n, whole) == IF whole THEN Tail(s) ELSE <<After(Head(s), n)>> \o Tail(s)
GotOf(s, n) == First(Head(s), Min({n, Len(Head(s))}))

(* What a reader takes from the first block, what becomes of the rest of   *)
(* it, and that together they are the bytes that were there.               *)
LEMMA HeadCut ==
  ASSUME NEW s \in Seq(Seq(Nat)), s # <<>>, NEW n \in Nat, NEW whole \in BOOLEAN,
         ~whole => Len(Head(s)) > n
  PROVE  /\ LeftOf(s, n, whole) \in Seq(Seq(Nat))
         /\ Len(LeftOf(s, n, whole)) = Len(s) - (IF whole THEN 1 ELSE 0)
         /\ Len(Bytes(LeftOf(s, n, whole))) = Len(Bytes(s)) - (IF whole THEN Len(Head(s)) ELSE n)
         /\ GotOf(s, n) \in Seq(Nat)
         /\ \E l \in Seq(Nat) : /\ Bytes(s) = GotOf(s, n) \o (l \o Bytes(LeftOf(s, n, whole)))
                                /\ l # <<>> => whole /\ Len(Head(s)) > n
<1> DEFINE h == Head(s)
<1> DEFINE m == Min({n, Len(h)})
<1> DEFINE b == First(h, m)
<1> DEFINE y == After(h, m)
<1> DEFINE z == Bytes(Tail(s))
<1> DEFINE t == LeftOf(s, n, whole)
<1>1. /\ h \in Seq(Nat) /\ Tail(s) \in Seq(Seq(Nat)) /\ Len(Tail(s)) = Len(s) - 1
      /\ Bytes(s) = h \o z
  BY CutHead
<1>a. ~whole => Len(h) > n
  OBVIOUS
<1>b. GotOf(s, n) = b
  BY DEF GotOf
<1> HIDE DEF h
<1>2. Len(h) \in Nat /\ Len(s) \in Nat
  BY <1>1
<1>3. z \in Seq(Nat)
  BY <1>1, BytesType
<1>4. m = IF n <= Len(h) THEN n ELSE Len(h)
  BY <1>2, MinTwo
<1> HIDE DEF m
<1>5. m \in Nat /\ m <= Len(h)
  BY <1>2, <1>4
<1>6. /\ b \in Seq(Nat) /\ Len(b) = m /\ y \in Seq(Nat) /\ Len(y) = Len(h) - m /\ h = b \o y
  BY <1>1, <1>5, CutBytes
<1> HIDE DEF y, z, b
<1>7. Bytes(s) = b \o (y \o z) /\ Len(Bytes(s)) = Len(b) + Len(y) + Len(z) /\ Len(z) \in Nat
  <2>1. Bytes(s) = (b \o y) \o z
    BY <1>1, <1>6
  <2>2. /\ (b \o y) \o z = b \o (y \o z) /\ Len(z) \in Nat
        /\ Len(b \o (y \o z)) = Len(b) + Len(y) + Len(z)
    BY <1>3, <1>6, Parts
  <2> QED BY <2>1, <2>2
<1>8. CASE whole
  <2>1. t = Tail(s)
    BY <1>8 DEF LeftOf
  <2>2. Bytes(t) = z
    BY <2>1 DEF z
  <2>3. y # <<>> => Len(h) > n
    <3>1. Len(y) = 0 => y = <<>>
      BY <1>6
    <3> QED BY <1>2, <1>4, <1>5, <1>6, <3>1
  <2> HIDE DEF t
  <2>4. Len(Bytes(t)) = Len(Bytes(s)) - Len(h)
    <3>1. Len(Bytes(s)) = m + (Len(h) - m) + Len(z)
      BY <1>6, <1>7
    <3> QED BY <2>2, <1>2, <1>5, <1>7, <3>1
  <2>5. t \in Seq(Seq(Nat)) /\ Len(t) = Len(s) - 1
    BY <1>1, <2>1
  <2>6. \E l \in Seq(Nat) : Bytes(s) = b \o (l \o Bytes(t)) /\ (l # <<>> => whole /\ Len(h) > n)
    BY <1>6, <1>7, <1>8, <2>2, <2>3
  <2> QED BY <1>b, <1>6, <1>8, <2>4, <2>5, <2>6 DEF t, h
<1>9. CASE ~whole
  <2>1. m = n /\ t = <<y>> \o Tail(s)
    BY <1>2, <1>4, <1>9, <1>a DEF y, LeftOf, h
  <2> HIDE DEF t
  <2>2. t \in Seq(Seq(Nat)) /\ Len(t) = Len(Tail(s)) + 1 /\ Bytes(t) = y \o z
    BY <1>1, <1>6, <2>1, PutFront DEF z
  <2>3. <<>> \o (y \o z) = y \o z /\ Len(y \o z) = Len(y) + Len(z)
    BY <1>3, <1>6, TwoParts
  <2>4. Bytes(s) = b \o (<<>> \o Bytes(t))
    BY <1>7, <2>2, <2>3
  <2>5. Len(Bytes(t)) = Len(Bytes(s)) - n
    <3>1. Len(Bytes(t)) = (Len(h) - n) + Len(z) /\ Len(Bytes(s)) = n + (Len(h) - n) + Len(z)
      BY <2>1, <2>2, <2>3, <1>6, <1>7
    <3> QED BY <3>1, <1>2, <1>7
  <2>6. <<>> \in Seq(Nat)
    OBVIOUS
  <2>7. Len(t) = Len(s) - 0
    BY <1>1, <1>2, <2>2
  <2>8. \E l \in Seq(Nat) : Bytes(s) = b \o (l \o Bytes(t)) /\ (l # <<>> => whole /\ Len(h) > n)
    BY <2>4, <2>6
  <2> QED BY <1>b, <1>6, <1>9, <2>2, <2>5, <2>7, <2>8 DEF t, h
<1> QED BY <1>8, <1>9

(* Taking from the first block makes no new block but its rest.            *)
LEMMA LeftInherits ==
  ASSUME NEW s \in Seq(Seq(Nat)), s # <<>>, From(s), NEW n \in Nat, NEW whole \in BOOLEAN,
         ~whole => Len(Head(s)) > n /\ "Qmsg" \notin mode, q' = LeftOf(s, n, whole)
  PROVE  Inherits
<1> DEFINE h == Head(s)
<1>1. h \in Seq(Nat) /\ Tail(s) \in Seq(Seq(Nat))
  BY CutHead
<1>2. From(Tail(s))
  BY ElemTail DEF From
<1>3. CASE whole
  BY <1>2, <1>3 DEF From, Inherits, LeftOf
<1>4. CASE ~whole
  <2>0. Len(h) > n /\ "Qmsg" \notin mode
    BY <1>4
  <2>1. q' = <<After(h, n)>> \o Tail(s)
    BY <1>4 DEF LeftOf
  <2> HIDE DEF h
  <2>2. After(h, n) \in Seq(Nat) /\ After(h, n) # <<>>
    <3>1. Len(h) \in Nat
      BY <1>1
    <3>a. n <= Len(h)
      BY <2>0, <3>1
    <3>2. After(h, n) \in Seq(Nat) /\ Len(After(h, n)) = Len(h) - n
      BY <1>1, <3>a, CutBytes
    <3>3. Len(After(h, n)) > 0
      BY <2>0, <3>1, <3>2
    <3> QED BY <3>2, <3>3
  <2> DEFINE y == After(h, n)
  <2> DEFINE t == Tail(s)
  <2>3. \A i \in 1..Len(q') : q'[i] = y \/ (i - 1 \in 1..Len(t) /\ q'[i] = t[i - 1])
    BY <1>1, <2>1, <2>2, ElemFront
  <2>4. y # <<>> /\ From(t)
    BY <1>2, <2>2
  <2> HIDE DEF y, t
  <2>5. \A i \in 1..Len(t) : \E j \in 1..Len(q) : t[i] = q[j]
    BY <2>4 DEF From
  <2>6. \A i \in 1..Len(q') : q'[i] = y \/ \E j \in 1..Len(q) : q'[i] = q[j]
    <3> SUFFICES ASSUME NEW i \in 1..Len(q'), q'[i] # y PROVE \E j \in 1..Len(q) : q'[i] = q[j]
      OBVIOUS
    <3>1. i - 1 \in 1..Len(t) /\ q'[i] = t[i - 1]
      BY <2>3
    <3> QED BY <3>1, <2>5
  <2> QED BY <2>0, <2>4, <2>6 DEF Inherits
<1> QED BY <1>3, <1>4

(* The blocks of the queue are blocks of the queue.                        *)
LEMMA FromSelf == ASSUME q \in Seq(Seq(Nat)) PROVE From(q)
BY DEF From

(* ... and so are those after the first k.                                 *)
LEMMA FromAfter ==
  ASSUME q \in Seq(Seq(Nat)), NEW k \in 0..Len(q)
  PROVE  From(After(q, k))
BY ElemAfter DEF From

(* So the actions that take from the first block that has bytes.           *)
LEMMA HeadTaken ==
  ASSUME BufOK, NEW s \in Seq(Seq(Nat)), s # <<>>, Bytes(s) = Bytes(q), From(s),
         NEW k \in Nat, Len(s) = Len(q) - k, NEW n \in Nat, NEW whole \in BOOLEAN,
         whole <=> (n >= Len(Head(s)) \/ "Qmsg" \in mode),
         q' = LeftOf(s, n, whole), recv' = recv \o GotOf(s, n),
         len' = len - (IF whole THEN k + 1 ELSE k),
         dlen' = dlen - (IF whole THEN Len(Head(s)) ELSE n),
         UNCHANGED <<use, mode, limit, sent, msgs, hand, left>>
  PROVE  /\ BufOK' /\ Inherits
         /\ \E b, l : Hands(b, l) /\ recv' = recv \o b
<1> DEFINE h == Head(s)
<1> DEFINE b == GotOf(s, n)
<1>0. h \in Seq(Nat)
  BY CutHead
<1>1. Len(h) \in Nat /\ Len(q) \in Nat
  <2> HIDE DEF h
  <2> QED BY <1>0, TwoParts, LenProperties DEF BufOK
<1>2. (~whole => Len(h) > n) /\ (whole /\ Len(h) > n => "Qmsg" \in mode)
  BY <1>1
<1>3. /\ q' \in Seq(Seq(Nat)) /\ Len(q') = Len(s) - (IF whole THEN 1 ELSE 0)
      /\ Len(Bytes(q')) = Len(Bytes(s)) - (IF whole THEN Len(h) ELSE n)
      /\ b \in Seq(Nat)
      /\ \E l \in Seq(Nat) : Bytes(s) = b \o (l \o Bytes(q')) /\ (l # <<>> => whole /\ Len(h) > n)
  BY <1>2, HeadCut
<1>4. recv' = recv \o b
  OBVIOUS
<1> HIDE DEF h, b
<1>5. PICK l \in Seq(Nat) : Bytes(s) = b \o (l \o Bytes(q')) /\ (l # <<>> => whole /\ Len(h) > n)
  BY <1>3
<1>6. Hands(b, l)
  BY <1>2, <1>3, <1>5 DEF Hands
<1>7. len' = Len(q')
  BY <1>1, <1>3 DEF BufOK, Accounting
<1>8. dlen' = Len(Bytes(q'))
  BY <1>3 DEF BufOK, Accounting, h
<1>9. recv' \in Seq(Nat)
  BY <1>3, <1>4, ConcatProperties DEF BufOK
<1>10. BufOK'
  BY <1>3, <1>7, <1>8, <1>9, Counted DEF BufOK
<1>11. Inherits
  <2>1. ~whole => Len(Head(s)) > n /\ "Qmsg" \notin mode
    BY <1>2 DEF h
  <2> QED BY <2>1, LeftInherits
<1> QED BY <1>4, <1>6, <1>10, <1>11

(* qbread() hands over the front of the stream.                            *)
LEMMA qbreadHands ==
  ASSUME BufOK, NEW r, qbread(r)
  PROVE  /\ BufOK' /\ Inherits
         /\ \E b, l : Hands(b, l) /\ recv' = recv \o b
<1>1. PICK n \in use.reads :
        LET b == Head(q)
            split == Len(b) > n /\ "Qmsg" \notin mode
            k == IF split THEN 0 ELSE 1
        IN  /\ Dequeue(r, IF split THEN <<After(b, n)>> \o Tail(q) ELSE Tail(q),
                       k, IF split THEN n ELSE Len(b), "idle")
            /\ recv' = recv \o First(b, Min({n, Len(b)}))
  BY Zenon DEF qbread
<1> DEFINE whole == n >= Len(Head(q)) \/ "Qmsg" \in mode
<1>2. q # <<>> /\ q \in Seq(Seq(Nat))
  BY DEF qbread, BufOK
<1>3. UNCHANGED <<use, mode, limit, sent, msgs, hand, left>>
  BY DEF qbread
<1>4. n \in Nat
  BY ReadsPositive
<1>5. Head(q) \in Seq(Nat)
  BY <1>2, CutHead
<1>6. Len(q) \in Nat /\ Len(Head(q)) \in Nat
  BY <1>2, <1>5
<1>7. whole <=> ~(Len(Head(q)) > n /\ "Qmsg" \notin mode)
  BY <1>4, <1>6
<1>8. /\ q' = LeftOf(q, n, whole)
      /\ recv' = recv \o GotOf(q, n)
      /\ len' = len - (IF whole THEN 0 + 1 ELSE 0)
      /\ dlen' = dlen - (IF whole THEN Len(Head(q)) ELSE n)
  BY <1>1, <1>7 DEF Dequeue, LeftOf, GotOf
<1>9. whole \in BOOLEAN /\ (whole <=> (n >= Len(Head(q)) \/ "Qmsg" \in mode))
  OBVIOUS
<1>10. 0 \in Nat /\ Len(q) = Len(q) - 0
  BY <1>6
<1>11. From(q)
  BY <1>2, FromSelf
<1> HIDE DEF whole
<1> QED BY <1>2, <1>3, <1>4, <1>8, <1>9, <1>10, <1>11, HeadTaken

(* qget() hands over the front of the stream.                              *)
LEMMA qgetHands ==
  ASSUME BufOK, NEW a, qget(a), q # <<>>
  PROVE  /\ BufOK' /\ Inherits
         /\ \E b, l : Hands(b, l) /\ recv' = recv \o b
<1> DEFINE h == Head(q)
<1>1. /\ q' = Tail(q) /\ len' = len - 1 /\ dlen' = dlen - Len(h) /\ recv' = recv \o h
      /\ UNCHANGED <<use, mode, limit, sent, msgs, hand, left>>
  BY DEF qget, Dequeue
<1>2. q \in Seq(Seq(Nat))
  BY DEF BufOK
<1>3. h \in Seq(Nat)
  BY <1>2, CutHead
<1> HIDE DEF h
<1>4. Len(q) \in Nat /\ Len(h) \in Nat
  BY <1>2, <1>3, LenProperties
<1>5. Min({Len(h), Len(h)}) = Len(h) /\ First(h, Len(h)) = h
  BY <1>3, <1>4, MinTwo, CutBytes
<1>6. q' = LeftOf(q, Len(h), TRUE) /\ recv' = recv \o GotOf(q, Len(h))
  BY <1>1, <1>5 DEF LeftOf, GotOf, h
<1>7. /\ len' = len - (IF TRUE THEN 0 + 1 ELSE 0)
      /\ dlen' = dlen - (IF TRUE THEN Len(Head(q)) ELSE Len(h))
  BY <1>1 DEF h
<1>8. 0 \in Nat /\ Len(q) = Len(q) - 0 /\ (TRUE <=> (Len(h) >= Len(Head(q)) \/ "Qmsg" \in mode))
  BY <1>4 DEF h
<1>9. From(q)
  BY <1>2, FromSelf
<1> QED BY <1>1, <1>2, <1>4, <1>6, <1>7, <1>8, <1>9, HeadTaken

(* qconsume() hands over the front of the stream.                          *)
LEMMA qconsumeHands ==
  ASSUME BufOK, NEW a, qconsume(a), Len(q) > Zeros
  PROVE  /\ BufOK' /\ Inherits
         /\ \E b, l : Hands(b, l) /\ recv' = recv \o b
<1> DEFINE s == After(q, Zeros)
<1>0. q \in Seq(Seq(Nat))
  BY DEF BufOK
<1>1. Zeros \in 0..Len(q) /\ Bytes(s) = Bytes(q) /\ s \in Seq(Seq(Nat)) /\ Len(s) = Len(q) - Zeros
  BY <1>0, ZerosAre
<1>2. Len(q) \in Nat /\ Zeros \in Nat /\ ~(Len(q) = Zeros)
  <2>1. Len(q) \in Nat
    BY <1>0
  <2> QED BY <1>1, <2>1
<1>3. PICK n \in use.reads :
        LET b == Head(s)
            whole == n >= Len(b) \/ "Qmsg" \in mode
        IN  /\ Dequeue(a, IF whole THEN Tail(s) ELSE <<After(b, n)>> \o Tail(s),
                       IF whole THEN Zeros + 1 ELSE Zeros,
                       IF whole THEN Len(b) ELSE n, "idle")
            /\ recv' = recv \o First(b, Min({n, Len(b)}))
  BY <1>2, Zenon DEF qconsume
<1>4. UNCHANGED <<use, mode, limit, sent, msgs, hand, left>>
  BY <1>2 DEF qconsume
<1>5. n \in Nat
  BY ReadsPositive
<1> DEFINE whole == n >= Len(Head(s)) \/ "Qmsg" \in mode
<1>6. /\ q' = LeftOf(s, n, whole)
      /\ recv' = recv \o GotOf(s, n)
      /\ len' = len - (IF whole THEN Zeros + 1 ELSE Zeros)
      /\ dlen' = dlen - (IF whole THEN Len(Head(s)) ELSE n)
  BY <1>3 DEF Dequeue, LeftOf, GotOf
<1>7. whole \in BOOLEAN /\ (whole <=> (n >= Len(Head(s)) \/ "Qmsg" \in mode))
  OBVIOUS
<1>8. s # <<>>
  <2> HIDE DEF s
  <2>1. Len(s) > 0
    BY <1>1, <1>2
  <2> QED BY <2>1
<1>9. From(s)
  BY <1>0, <1>1, FromAfter
<1> HIDE DEF whole, s
<1> QED BY <1>1, <1>2, <1>4, <1>5, <1>6, <1>7, <1>8, <1>9, HeadTaken

(* Empty blocks that qwait() skips hold no byte.                           *)
LEMMA SkippedAre ==
  ASSUME q \in Seq(Seq(Nat))
  PROVE  /\ Skipped \in 0..Len(q)
         /\ Bytes(After(q, Skipped)) = Bytes(q)
         /\ After(q, Skipped) \in Seq(Seq(Nat)) /\ Len(After(q, Skipped)) = Len(q) - Skipped
<1>1. CASE "Qcoalesce" \in mode
  BY <1>1, ZerosAre DEF Skipped
<1>2. CASE "Qcoalesce" \notin mode
  <2>1. Skipped = 0 /\ 0 \in 0..Len(q)
    BY <1>2 DEF Skipped
  <2>2. /\ First(q, 0) \in Seq(Seq(Nat)) /\ Len(First(q, 0)) = 0
        /\ After(q, 0) \in Seq(Seq(Nat)) /\ Len(After(q, 0)) = Len(q) - 0
        /\ Bytes(q) = Bytes(First(q, 0)) \o Bytes(After(q, 0))
    BY <2>1, Cut
  <2>3. First(q, 0) = <<>>
    BY SubSeqEmpty DEF First
  <2>4. Bytes(First(q, 0)) = <<>>
    BY <2>3, FlattenEmpty DEF Bytes
  <2>5. Bytes(After(q, 0)) \in Seq(Nat)
    BY <2>2, BytesType
  <2>6. Bytes(q) = Bytes(After(q, 0))
    BY <2>2, <2>4, <2>5, ConcatEmptySeq
  <2> QED BY <2>1, <2>2, <2>6
<1> QED BY <1>1, <1>2

(* Only blocks of length 0 are there, and they go.                         *)
LEMMA Drained ==
  ASSUME BufOK, Bytes(q) = <<>>, q' = <<>>, len' = 0, dlen' = dlen,
         UNCHANGED <<use, mode, limit, sent, msgs, hand, left, recv>>
  PROVE  BufOK' /\ Bytes(q') = Bytes(q)
<1>1. Bytes(q') = <<>>
  BY FlattenEmpty DEF Bytes
<1>2. q' \in Seq(Seq(Nat)) /\ len' = Len(q')
  OBVIOUS
<1>3. dlen' = Len(Bytes(q'))
  BY <1>1 DEF BufOK, Accounting
<1> QED BY <1>1, <1>2, <1>3, Counted DEF BufOK

(* A list of no blocks has no bytes.                                       *)
LEMMA NothingLeft ==
  ASSUME NEW s \in Seq(Seq(Nat)), Len(s) = 0
  PROVE  s = <<>> /\ Bytes(s) = <<>>
<1>1. s = <<>>
  OBVIOUS
<1> QED BY <1>1, FlattenEmpty DEF Bytes

(* qwait() that drops empty blocks keeps the bytes.                        *)
LEMMA qwaitDrains ==
  ASSUME BufOK, NEW r, qwait(r)
  PROVE  BufOK' /\ Bytes(q') = Bytes(q)
<1>0. q \in Seq(Seq(Nat))
  BY DEF BufOK
<1>1. Skipped \in 0..Len(q) /\ Len(q) \in Nat
  BY <1>0, SkippedAre, LenProperties
<1>2. /\ Bytes(After(q, Skipped)) = Bytes(q)
      /\ After(q, Skipped) \in Seq(Seq(Nat)) /\ Len(After(q, Skipped)) = Len(q) - Skipped
  BY <1>0, SkippedAre
<1>3. Len(q) = Skipped /\ q' = <<>> /\ len' = len - Skipped /\ dlen' = dlen
  BY DEF qwait
<1>4. Len(After(q, Skipped)) = 0
  BY <1>1, <1>2, <1>3
<1>5. Bytes(q) = <<>>
  BY <1>2, <1>4, NothingLeft
<1>6. len' = 0
  BY <1>1, <1>3 DEF BufOK, Accounting
<1>7. UNCHANGED <<use, mode, limit, sent, msgs, hand, left, recv>>
  BY DEF qwait
<1> QED BY <1>3, <1>5, <1>6, <1>7, Drained

(* qget() and qconsume() that find nothing keep the bytes.                 *)
LEMMA StarveDrains ==
  ASSUME BufOK, NEW a, Starve(a), q = <<>> \/ Len(q) = Zeros
  PROVE  BufOK' /\ Bytes(q') = Bytes(q)
<1>0. q \in Seq(Seq(Nat))
  BY DEF BufOK
<1>1. Len(q) \in Nat
  BY <1>0
<1>2. q' = <<>> /\ len' = len - Len(q) /\ dlen' = dlen
  BY DEF Starve
<1>3. Bytes(q) = <<>>
  <2>1. CASE q = <<>>
    BY <2>1, FlattenEmpty DEF Bytes
  <2>2. CASE Len(q) = Zeros
    <3>1. /\ Bytes(After(q, Zeros)) = Bytes(q) /\ Zeros \in 0..Len(q)
          /\ After(q, Zeros) \in Seq(Seq(Nat)) /\ Len(After(q, Zeros)) = Len(q) - Zeros
      BY <1>0, ZerosAre
    <3>2. Len(After(q, Zeros)) = 0
      BY <1>1, <2>2, <3>1
    <3> QED BY <3>1, <3>2, NothingLeft
  <2> QED BY <2>1, <2>2
<1>4. len' = 0
  BY <1>1, <1>2 DEF BufOK, Accounting
<1>5. UNCHANGED <<use, mode, limit, sent, msgs, hand, left, recv>>
  BY DEF Starve
<1> QED BY <1>2, <1>3, <1>4, <1>5, Drained

(* qread() takes blocks off: what it copies and what does not fit is what  *)
(* they held.                                                              *)
LEMMA qreadTakes ==
  ASSUME BufOK, NEW r, qreadRemove(r)
  PROVE  BufOK' /\ Inherits /\ Bytes(q) = hand' \o (left' \o Bytes(q'))
<1> DEFINE s == After(q, Skipped)
<1>0. q \in Seq(Seq(Nat))
  BY DEF BufOK
<1>1. Skipped \in 0..Len(q) /\ Bytes(s) = Bytes(q) /\ s \in Seq(Seq(Nat)) /\ Len(s) = Len(q) - Skipped
  BY <1>0, SkippedAre
<1>2. Len(q) \in Nat /\ Len(q) > Skipped
  BY <1>0 DEF qreadRemove
<1>3. PICK n \in use.reads :
        LET k == Taken(s, n)
            b == Bytes(First(s, k))
        IN  /\ hand' = First(b, Min({n, Len(b)}))
            /\ left' = After(b, n)
            /\ q' = After(s, k)
            /\ len' = len - Skipped - k
            /\ dlen' = dlen - Len(b)
  BY Zenon DEF qreadRemove
<1> DEFINE k == Taken(s, n)
<1> DEFINE b == Bytes(First(s, k))
<1>4. /\ hand' = First(b, Min({n, Len(b)})) /\ left' = After(b, n) /\ q' = After(s, k)
      /\ len' = len - Skipped - k /\ dlen' = dlen - Len(b)
  BY <1>3
<1>5. UNCHANGED <<use, mode, limit, sent, msgs, recv>>
  BY DEF qreadRemove
<1>6. n \in Nat
  BY ReadsPositive
<1> HIDE DEF s
<1>7. s # <<>>
  <2>1. Len(s) > 0
    BY <1>1, <1>2
  <2> QED BY <2>1
<1>8. k \in 1..Len(s)
  BY <1>1, <1>7, TakenIn
<1> HIDE DEF k
<1>9. k \in 0..Len(s) /\ k \in Nat /\ Len(s) \in Nat
  <2>1. Len(s) \in Nat
    BY <1>1
  <2> QED BY <1>8, <2>1
<1>10. /\ First(s, k) \in Seq(Seq(Nat)) /\ Len(First(s, k)) = k
       /\ After(s, k) \in Seq(Seq(Nat)) /\ Len(After(s, k)) = Len(s) - k
       /\ Bytes(s) = b \o Bytes(After(s, k))
  BY <1>1, <1>9, Cut
<1>11. b \in Seq(Nat)
  BY <1>10, BytesType
<1> HIDE DEF b
<1>12. Len(b) \in Nat
  BY <1>11
<1> DEFINE z == Bytes(q')
<1>13. Bytes(q) = b \o z /\ q' \in Seq(Seq(Nat)) /\ Len(q') = Len(s) - k
  BY <1>1, <1>4, <1>10
<1>14. z \in Seq(Nat)
  BY <1>13, BytesType
<1>15. hand' \in Seq(Nat) /\ left' \in Seq(Nat) /\ b = hand' \o left'
  <2>1. CASE n <= Len(b)
    <3>1. Min({n, Len(b)}) = n
      BY <1>6, <1>12, <2>1, MinTwo
    <3>2. First(b, n) \in Seq(Nat) /\ After(b, n) \in Seq(Nat) /\ b = First(b, n) \o After(b, n)
      BY <1>6, <1>11, <2>1, CutBytes
    <3> QED BY <1>4, <3>1, <3>2
  <2>2. CASE ~(n <= Len(b))
    <3>1. Min({n, Len(b)}) = Len(b) /\ n >= Len(b)
      BY <1>6, <1>12, <2>2, MinTwo
    <3>2. First(b, Len(b)) = b /\ After(b, n) = <<>>
      BY <1>6, <1>11, <3>1, CutBytes
    <3>3. b \o <<>> = b /\ <<>> \in Seq(Nat)
      BY <1>11, ConcatEmptySeq
    <3> QED BY <1>4, <1>11, <3>1, <3>2, <3>3
  <2> QED BY <2>1, <2>2
<1>16. len' = Len(q')
  <2>1. len = Len(q)
    BY DEF BufOK, Accounting
  <2> QED BY <2>1, <1>1, <1>2, <1>4, <1>9, <1>13
<1>17. dlen' = Len(z)
  <2> HIDE DEF z
  <2>1. dlen = Len(b \o z)
    BY <1>13 DEF BufOK, Accounting
  <2>2. Len(b \o z) = Len(b) + Len(z) /\ Len(z) \in Nat
    BY <1>11, <1>14, TwoParts
  <2> QED BY <2>1, <2>2, <1>4, <1>12
<1>18. BufOK'
  <2>1. recv' \in Seq(Nat)
    BY <1>5 DEF BufOK
  <2> QED BY <2>1, <1>5, <1>13, <1>15, <1>16, <1>17, Counted
<1>19. (hand' \o left') \o z = hand' \o (left' \o z)
  BY <1>14, <1>15, Parts
<1>20. Bytes(q) = hand' \o (left' \o z)
  BY <1>13, <1>15, <1>19
<1>21. Inherits
  <2>1. From(s)
    BY <1>0, <1>1, FromAfter DEF s
  <2>2. \A i \in 1..Len(q') : q'[i] = s[k + i] /\ k + i \in 1..Len(s)
    BY <1>1, <1>4, <1>9, ElemAfter
  <2> QED BY <2>1, <2>2 DEF From, Inherits
<1> QED BY <1>18, <1>20, <1>21

(* ... and puts back what did not fit, unless it is the end of a message.  *)
LEMMA qreadPuts ==
  ASSUME BufOK, NEW r, qreadDone(r)
  PROVE  /\ BufOK' /\ Inherits /\ hand' = <<>> /\ left' = <<>> /\ recv' = recv \o hand
         /\ \/ Bytes(q') = left \o Bytes(q)
            \/ "Qmsg" \in mode /\ Bytes(q') = Bytes(q)
<1> DEFINE back == left # <<>> /\ "Qmsg" \notin mode
<1>1. /\ q' = IF back THEN <<left>> \o q ELSE q
      /\ len' = IF back THEN len + 1 ELSE len
      /\ dlen' = IF back THEN dlen + Len(left) ELSE dlen
      /\ recv' = recv \o hand /\ hand' = <<>> /\ left' = <<>>
  BY DEF qreadDone
<1>2. UNCHANGED <<use, mode, limit, sent, msgs>>
  BY DEF qreadDone
<1>3. q \in Seq(Seq(Nat)) /\ left \in Seq(Nat) /\ len = Len(q) /\ dlen = Len(Bytes(q))
  BY DEF BufOK, Accounting
<1>4. Bytes(q) \in Seq(Nat)
  BY <1>3, BytesType
<1>5. recv' \in Seq(Nat) /\ hand' \in Seq(Nat) /\ left' \in Seq(Nat)
  <2>1. recv \in Seq(Nat) /\ hand \in Seq(Nat) /\ <<>> \in Seq(Nat)
    BY DEF BufOK
  <2> QED BY <1>1, <2>1, ConcatProperties
<1>6. CASE back
  <2>1. q' \in Seq(Seq(Nat)) /\ Len(q') = Len(q) + 1 /\ Bytes(q') = left \o Bytes(q)
    BY <1>1, <1>3, <1>6, PutFront
  <2>2. Len(left \o Bytes(q)) = Len(left) + Len(Bytes(q)) /\ Len(left) \in Nat /\ Len(Bytes(q)) \in Nat
    BY <1>3, <1>4, TwoParts
  <2>3. len' = Len(q') /\ dlen' = Len(Bytes(q'))
    BY <1>1, <1>3, <1>6, <2>1, <2>2
  <2>4. BufOK'
    BY <1>2, <1>5, <2>1, <2>3, Counted
  <2>5. \A i \in 1..Len(q') : q'[i] = left \/ (i - 1 \in 1..Len(q) /\ q'[i] = q[i - 1])
    BY <1>1, <1>3, <1>6, ElemFront
  <2>6. Inherits
    BY <1>6, <2>5 DEF Inherits
  <2> QED BY <1>1, <2>1, <2>4, <2>6
<1>7. CASE ~back
  <2>1. q' = q /\ len' = len /\ dlen' = dlen
    BY <1>1, <1>7
  <2>2. Bytes(q') = Bytes(q)
    BY <2>1
  <2>3. BufOK'
    BY <1>2, <1>3, <1>5, <2>1, <2>2, Counted
  <2>4. left = <<>> => Bytes(q) = left \o Bytes(q)
    BY <1>4, ConcatEmptySeq
  <2>5. Inherits
    BY <2>1 DEF Inherits
  <2> QED BY <1>1, <1>7, <2>2, <2>3, <2>4, <2>5
<1> QED BY <1>6, <1>7

(* How many bytes the first i blocks have.                                 *)
Until(i) == Len(Bytes(First(q, i)))

(* How many bytes the first i + 1 blocks hold.                             *)
LEMMA UntilStep ==
  ASSUME q \in Seq(Seq(Nat)), NEW i \in 0..Len(q) - 1
  PROVE  Until(i) \in Nat /\ Len(q[i + 1]) \in Nat /\ Until(i + 1) = Until(i) + Len(q[i + 1])
<1>0. Len(q) \in Nat
  OBVIOUS
<1>1. First(q, i + 1) = Append(First(q, i), q[i + 1]) /\ First(q, i) \in Seq(Seq(Nat))
  BY DEF First
<1>2. q[i + 1] \in Seq(Nat)
  BY <1>0
<1> DEFINE x == Bytes(First(q, i))
<1> DEFINE y == q[i + 1]
<1>3. Bytes(First(q, i + 1)) = x \o y
  BY <1>1, <1>2, FlattenAppend DEF Bytes
<1>4. x \in Seq(Nat)
  BY <1>1, BytesType
<1> HIDE DEF x, y
<1>5. Len(x \o y) = Len(x) + Len(y) /\ Len(x) \in Nat /\ Len(y) \in Nat
  BY <1>2, <1>4, TwoParts DEF y
<1> QED BY <1>3, <1>5 DEF Until, x, y

(* More blocks hold no fewer bytes.                                        *)
LEMMA UntilGrows ==
  ASSUME q \in Seq(Seq(Nat)), NEW j \in 0..Len(q)
  PROVE  \A i \in 0..j : Until(i) \in Nat /\ Until(j) \in Nat /\ Until(i) <= Until(j)
<1> DEFINE P(k) == Until(k) \in Nat /\ \A i \in 0..k : Until(i) \in Nat /\ Until(i) <= Until(k)
<1>0. Len(q) \in Nat
  OBVIOUS
<1>1. P(0)
  <2>1. First(q, 0) = <<>>
    BY SubSeqEmpty DEF First
  <2>2. Bytes(First(q, 0)) = <<>>
    BY <2>1, FlattenEmpty DEF Bytes
  <2>3. Until(0) = 0
    BY <2>2 DEF Until
  <2> QED BY <2>3
<1>2. ASSUME NEW k \in 0..j - 1, P(k) PROVE P(k + 1)
  <2>1. k \in 0..Len(q) - 1
    BY <1>0
  <2>2. Until(k) \in Nat /\ Len(q[k + 1]) \in Nat /\ Until(k + 1) = Until(k) + Len(q[k + 1])
    BY <2>1, UntilStep
  <2>3. \A i \in 0..k + 1 : i \in 0..k \/ i = k + 1
    BY <2>1
  <2> QED BY <1>2, <2>2, <2>3
<1>3. P(j)
  <2> DEFINE T == {i \in 0..j : P(i)}
  <2> HIDE DEF P
  <2>1. 0 \in T /\ \A i \in 0..j - 1 : i \in T => i + 1 \in T
    BY <1>0, <1>1, <1>2
  <2> HIDE DEF T
  <2>2. \A i \in 0..j : i \in T
    <3>1. j \in Nat
      BY <1>0
    <3> QED BY <2>1, <3>1, Upto
  <2> QED BY <2>2, <1>0 DEF T
<1> QED BY <1>3

(* A set of numbers that holds every number below one of its elements.     *)
LEMMA Initial ==
  ASSUME NEW N \in Nat, NEW T, T \subseteq 1..N, \A i \in T : \A j \in 1..i : j \in T
  PROVE  Cardinality(T) \in 0..N /\ T = 1..Cardinality(T)
<1> DEFINE U == {0} \cup T
<1>1. U \subseteq 0..N /\ U # {}
  OBVIOUS
<1>2. Max(U) \in U /\ \A y \in U : y <= Max(U)
  BY <1>1, MaxIn
<1> DEFINE m == Max(U)
<1> HIDE DEF m
<1>3. m \in 0..N /\ (m # 0 => m \in T) /\ \A y \in T : y <= m
  BY <1>1, <1>2 DEF m
<1>4. T = 1..m
  <2>1. ASSUME NEW y \in T PROVE y \in 1..m
    BY <1>3, <2>1
  <2>2. ASSUME NEW y \in 1..m PROVE y \in T
    BY <1>3, <2>2
  <2> QED BY <2>1, <2>2
<1>5. Cardinality(1..m) = m
  <2>1. 1 \in Int /\ m \in Int
    BY <1>3
  <2>2. Cardinality(1..m) = IF 1 > m THEN 0 ELSE m - 1 + 1
    BY <2>1, FS_Interval
  <2> QED BY <2>2, <1>3
<1> QED BY <1>3, <1>4, <1>5

(* The blocks qdiscard() takes whole are the first k, and if there is more *)
(* to discard the next one has more than that.                             *)
LEMMA Discarded ==
  ASSUME q \in Seq(Seq(Nat)), NEW n \in Nat, n > 0, NEW k,
         k = Cardinality({i \in 1..Len(q) : Until(i - 1) < n /\ Until(i) <= n})
  PROVE  /\ k \in 0..Len(q) /\ Until(k) \in Nat /\ Until(k) <= n
         /\ k < Len(q) /\ Until(k) < n => Until(k) + Len(q[k + 1]) > n
<1> DEFINE T == {i \in 1..Len(q) : Until(i - 1) < n /\ Until(i) <= n}
<1>0. Len(q) \in Nat
  OBVIOUS
<1>1. ASSUME NEW i \in T, NEW j \in 1..i PROVE j \in T
  <2>1. i \in 1..Len(q) /\ j \in 1..Len(q) /\ i - 1 \in 0..Len(q) /\ j - 1 \in 0..i - 1 /\ i \in 0..Len(q)
    BY <1>0
  <2>2. CASE j = i
    BY <2>2
  <2>3. CASE j # i
    <3>1. j \in 0..i - 1
      BY <2>1, <2>3
    <3>2. \A x \in 0..i - 1 : Until(x) \in Nat /\ Until(i - 1) \in Nat /\ Until(x) <= Until(i - 1)
      BY <2>1, UntilGrows
    <3>3. Until(i - 1) < n
      BY <1>1
    <3>4. Until(j) < n /\ Until(j - 1) < n /\ Until(j) \in Nat
      BY <2>1, <3>1, <3>2, <3>3
    <3> QED BY <2>1, <3>4
  <2> QED BY <2>2, <2>3
<1>2. k \in 0..Len(q) /\ T = 1..k
  <2>1. T \subseteq 1..Len(q)
    OBVIOUS
  <2>2. k = Cardinality(T)
    OBVIOUS
  <2>3. \A i \in T : \A j \in 1..i : j \in T
    BY <1>1
  <2> HIDE DEF T
  <2>4. Cardinality(T) \in 0..Len(q) /\ T = 1..Cardinality(T)
    BY <1>0, <2>1, <2>3, Initial
  <2> QED BY <2>2, <2>4
<1>3. Until(k) \in Nat
  <2>1. k \in 0..k
    BY <1>0, <1>2
  <2> QED BY <1>2, <2>1, UntilGrows
<1>4. Until(k) <= n
  <2>1. CASE k = 0
    <3>1. First(q, 0) = <<>>
      BY SubSeqEmpty DEF First
    <3>2. Until(0) = 0
      BY <3>1, FlattenEmpty DEF Bytes, Until
    <3> QED BY <2>1, <3>2
  <2>2. CASE k # 0
    <3>1. k \in T
      <4>1. k \in 1..k
        BY <1>0, <1>2, <2>2
      <4> HIDE DEF T
      <4> QED BY <1>2, <4>1
    <3> QED BY <3>1
  <2> QED BY <2>1, <2>2
<1>5. ASSUME k < Len(q), Until(k) < n PROVE Until(k) + Len(q[k + 1]) > n
  <2>1. k \in 0..Len(q) - 1 /\ k + 1 \in 1..Len(q) /\ (k + 1) - 1 = k /\ k + 1 \notin 1..k
    BY <1>0, <1>2, <1>5
  <2>2. Until(k) \in Nat /\ Len(q[k + 1]) \in Nat /\ Until(k + 1) = Until(k) + Len(q[k + 1])
    BY <2>1, UntilStep
  <2>3. k + 1 \notin T
    <3> HIDE DEF T
    <3> QED BY <1>2, <2>1
  <2>4. ~(Until(k + 1) <= n)
    BY <2>1, <2>3, <1>5
  <2> QED BY <2>2, <2>4
<1> QED BY <1>2, <1>3, <1>4, <1>5

(* qdiscard() takes the front of the stream, whole blocks and the start of *)
(* another.                                                                *)
LEMMA qdiscardHands ==
  ASSUME BufOK, NEW a, qdiscard(a)
  PROVE  /\ BufOK' /\ Inherits
         /\ \E b, l : Hands(b, l) /\ recv' = recv \o b
<1>0. q \in Seq(Seq(Nat)) /\ len = Len(q) /\ dlen = Len(Bytes(q)) /\ recv \in Seq(Nat)
  BY DEF BufOK, Accounting
<1>1. PICK n \in use.reads :
        LET k == Cardinality({i \in 1..Len(q) : Until(i - 1) < n /\ Until(i) <= n})
            s == After(q, k)
            m == Min({n, dlen})
        IN  /\ Dequeue(a, IF s # <<>> /\ Until(k) < m THEN <<After(Head(s), m - Until(k))>> \o Tail(s)
                          ELSE s, k, m, "idle")
            /\ recv' = recv \o First(Bytes(q), m)
  BY Zenon DEF qdiscard, Until
<1>2. UNCHANGED <<use, mode, limit, sent, msgs, hand, left>>
  BY DEF qdiscard
<1>3. n \in Nat /\ n > 0
  BY ReadsPositive
<1> DEFINE k == Cardinality({i \in 1..Len(q) : Until(i - 1) < n /\ Until(i) <= n})
<1> DEFINE s == After(q, k)
<1> DEFINE m == Min({n, dlen})
<1> DEFINE d == m - Until(k)
<1> DEFINE X == Bytes(First(q, k))
<1> DEFINE B == Bytes(q)
<1>4. /\ q' = IF s # <<>> /\ Until(k) < m THEN <<After(Head(s), d)>> \o Tail(s) ELSE s
      /\ len' = len - k /\ dlen' = dlen - m
      /\ recv' = recv \o First(B, m)
  BY <1>1 DEF Dequeue
<1>5. /\ k \in 0..Len(q) /\ Until(k) \in Nat /\ Until(k) <= n
      /\ k < Len(q) /\ Until(k) < n => Until(k) + Len(q[k + 1]) > n
  BY <1>0, <1>3, Discarded
<1> HIDE DEF k
<1>6. /\ First(q, k) \in Seq(Seq(Nat))
      /\ s \in Seq(Seq(Nat)) /\ Len(s) = Len(q) - k /\ B = X \o Bytes(s)
  BY <1>0, <1>5, Cut
<1>7. X \in Seq(Nat) /\ Bytes(s) \in Seq(Nat) /\ B \in Seq(Nat)
  BY <1>0, <1>6, BytesType
<1>8. Len(q) \in Nat /\ k \in Nat /\ Len(X) = Until(k)
  <2>1. Len(q) \in Nat
    BY <1>0
  <2> QED BY <2>1, <1>5 DEF Until
<1> HIDE DEF s, X, B
<1>9. dlen = Until(k) + Len(Bytes(s)) /\ Len(Bytes(s)) \in Nat
  <2>1. Len(X \o Bytes(s)) = Len(X) + Len(Bytes(s)) /\ Len(Bytes(s)) \in Nat
    BY <1>7, TwoParts
  <2>2. dlen = Len(B)
    BY <1>0 DEF B
  <2> QED BY <1>6, <1>8, <2>1, <2>2
<1>10. m = (IF n <= dlen THEN n ELSE dlen) /\ m \in Nat /\ Until(k) <= m /\ m <= n /\ m <= dlen
  <2>1. dlen \in Nat
    BY <1>5, <1>9
  <2>2. m = IF n <= dlen THEN n ELSE dlen
    BY <1>3, <2>1, MinTwo
  <2> HIDE DEF m
  <2> QED BY <1>3, <1>5, <1>9, <2>1, <2>2
<1> HIDE DEF m
(* It is enough to find the bytes discarded.                               *)
<1>11. ASSUME NEW b \in Seq(Nat), Len(b) = m, q' \in Seq(Seq(Nat)), B = b \o Bytes(q'),
              Len(q') = Len(q) - k, Inherits
       PROVE  BufOK' /\ Inherits /\ \E c, l : Hands(c, l) /\ recv' = recv \o c
  <2> DEFINE z == Bytes(q')
  <2>0. z \in Seq(Nat)
    BY <1>11, BytesType
  <2>a. B = b \o z
    BY <1>11
  <2> HIDE DEF z
  <2>1. First(B, m) = b
    BY <1>11, <2>0, <2>a, CutConcat DEF First
  <2>2. <<>> \o z = z /\ <<>> \in Seq(Nat)
    BY <2>0, ConcatEmptySeq
  <2>3. Hands(b, <<>>)
    BY <1>11, <2>a, <2>2 DEF Hands, B, z
  <2>4. Len(B) = m + Len(z) /\ Len(z) \in Nat
    BY <1>11, <2>0, <2>a, TwoParts
  <2>5. dlen' = Len(Bytes(q'))
    <3>1. dlen = m + Len(z)
      BY <1>0, <2>4 DEF B
    <3>2. dlen' = Len(z)
      BY <1>4, <1>10, <2>4, <3>1
    <3> QED BY <3>2 DEF z
  <2>6. len' = Len(q')
    BY <1>0, <1>4, <1>11
  <2>7. recv' = recv \o b /\ recv' \in Seq(Nat)
    BY <1>0, <1>4, <1>11, <2>1, ConcatProperties
  <2>8. BufOK'
    BY <1>2, <1>11, <2>5, <2>6, <2>7, Counted DEF BufOK
  <2> QED BY <1>11, <2>3, <2>7, <2>8
<1>12. CASE s # <<>> /\ Until(k) < m
  <2> DEFINE h == Head(s)
  <2> DEFINE x == First(h, d)
  <2> DEFINE y == After(h, d)
  <2> DEFINE z == Bytes(Tail(s))
  <2>1. /\ h \in Seq(Nat) /\ Tail(s) \in Seq(Seq(Nat)) /\ Len(Tail(s)) = Len(s) - 1
        /\ Bytes(s) = h \o z
    BY <1>6, <1>12, CutHead
  <2>2. k < Len(q) /\ Len(s) \in Nat /\ Len(s) > 0
    <3>1. Len(s) \in Nat /\ Len(s) > 0
      BY <1>6, <1>12
    <3> QED BY <3>1, <1>6, <1>8
  <2>3. h = q[k + 1]
    BY <1>0, <1>5, <1>8, <2>2 DEF s, After
  <2>4. Len(h) > d /\ d \in Nat
    <3>1. Until(k) + Len(q[k + 1]) > n
      BY <1>3, <1>5, <1>10, <1>12, <2>2
    <3>2. Len(h) \in Nat
      BY <2>1, LenProperties
    <3> HIDE DEF h
    <3> QED BY <2>3, <3>1, <3>2, <1>3, <1>5, <1>10, <1>12
  <2> HIDE DEF d, h
  <2>5. /\ x \in Seq(Nat) /\ Len(x) = d /\ y \in Seq(Nat) /\ h = x \o y
    <3>1. Len(h) \in Nat
      BY <2>1
    <3>2. d <= Len(h)
      BY <2>4, <3>1
    <3> QED BY <2>1, <2>4, <3>2, CutBytes
  <2>6. z \in Seq(Nat)
    BY <2>1, BytesType
  <2>7. q' = <<y>> \o Tail(s)
    BY <1>4, <1>12 DEF h, d
  <2>8. q' \in Seq(Seq(Nat)) /\ Len(q') = Len(Tail(s)) + 1 /\ Bytes(q') = y \o z
    BY <2>1, <2>5, <2>7, PutFront
  <2> HIDE DEF x, y, z
  <2>9. B = (X \o x) \o Bytes(q')
    <3>1. Bytes(s) = x \o (y \o z)
      <4>1. (x \o y) \o z = x \o (y \o z)
        BY <2>5, <2>6, Parts
      <4> QED BY <4>1, <2>1, <2>5
    <3>2. y \o z \in Seq(Nat)
      BY <2>5, <2>6, TwoParts
    <3>3. (X \o x) \o (y \o z) = X \o (x \o (y \o z))
      <4>1. X \in Seq(Nat) /\ x \in Seq(Nat)
        BY <1>7, <2>5
      <4> QED BY <4>1, <3>2, Parts, Zenon
    <3> QED BY <1>6, <2>8, <3>1, <3>3
  <2>10. X \o x \in Seq(Nat) /\ Len(X \o x) = m
    <3>1. X \o x \in Seq(Nat) /\ Len(X \o x) = Until(k) + d
      BY <1>7, <1>8, <2>5, TwoParts
    <3> QED BY <3>1, <1>5, <1>10 DEF d
  <2>11. Len(q') = Len(q) - k
    BY <1>6, <1>8, <2>1, <2>2, <2>8
  <2>12. Inherits
    <3>1. Len(h) > d /\ "Qmsg" \notin mode
      BY <2>4 DEF qdiscard
    <3>2. q' = LeftOf(s, d, FALSE)
      BY <2>7 DEF LeftOf, y, h
    <3>3. From(s)
      BY <1>0, <1>5, FromAfter DEF s
    <3> QED BY <1>6, <1>12, <2>4, <3>1, <3>2, <3>3, LeftInherits DEF h
  <2> QED BY <1>11, <2>8, <2>9, <2>10, <2>11, <2>12
<1>13. CASE ~(s # <<>> /\ Until(k) < m)
  <2>1. q' = s
    BY <1>4, <1>13
  <2>2. Until(k) = m
    <3>1. CASE ~(Until(k) < m)
      BY <3>1, <1>5, <1>10
    <3>2. CASE s = <<>>
      <4>1. Bytes(s) = <<>>
        BY <3>2, FlattenEmpty DEF Bytes
      <4>2. Len(Bytes(s)) = 0
        BY <4>1
      <4> QED BY <4>2, <1>5, <1>9, <1>10
    <3> QED BY <1>13, <3>1, <3>2
  <2>3. Len(X) = m
    BY <1>8, <2>2
  <2>4. From(s)
    BY <1>0, <1>5, FromAfter DEF s
  <2>5. Inherits
    BY <2>1, <2>4 DEF From, Inherits
  <2> QED BY <1>6, <1>7, <1>11, <2>1, <2>3, <2>5
<1> QED BY <1>12, <1>13
-----------------------------------------------------------------------------
(* Somebody is copying while there are bytes in the hands of a reader.     *)
CopyOK == (hand = <<>> /\ left = <<>>) \/ \E r \in Reader : pc[r] = "copied"

IInv == CtlOK /\ BufOK /\ CopyOK

(* Between qread() taking blocks and putting the rest back nobody else     *)
(* reads.                                                                  *)
LEMMA NobodyCopies ==
  ASSUME CtlOK, CopyOK,
         \/ \E r \in Reader : pc[r] \notin {"idle", "copied"}
         \/ "qread" \notin use.ops
  PROVE  hand = <<>> /\ left = <<>>
BY ConstantsOK DEF CtlOK, CopyOK

(* What the steps of the queue are in the abstract channel.                *)
AbsVars == <<chan, sent, recv, "Qmsg" \in mode, use.ops \cap {"qclose", "qflush"} # {}>>
AbsStep == Abs!Next \/ UNCHANGED AbsVars

(* A step that touches no byte is a stutter of Fifo.                       *)
LEMMA AbsIdle ==
  ASSUME UNCHANGED <<hand, left, q, sent, recv, mode, use>>
  PROVE  AbsStep
BY DEF AbsStep, AbsVars, chan, Bytes

(* Bytes put at the end are a Put of Fifo.                                 *)
LEMMA AbsPut ==
  ASSUME BufOK, NEW n \in Nat, sent' = sent + n, chan' = chan \o [i \in 1..n |-> sent + i],
         UNCHANGED <<recv, mode, use>>
  PROVE  AbsStep
<1>1. sent \in Nat /\ sent' \in Nat /\ sent' >= sent /\ sent' - sent = n
  BY DEF BufOK
<1>2. Abs!Put
  BY <1>1 DEF Abs!Put
<1> QED BY <1>2 DEF AbsStep, Abs!Next

(* Bytes taken from the front are a Take of Fifo, that loses the rest of a *)
(* message only.                                                           *)
LEMMA AbsTake ==
  ASSUME NEW b \in Seq(Nat), NEW l \in Seq(Nat), NEW c \in Seq(Nat),
         chan = b \o (l \o c), chan' = c, recv' = recv \o b, l # <<>> => "Qmsg" \in mode,
         UNCHANGED <<sent, mode, use>>
  PROVE  AbsStep
<1> DEFINE w == b \o (l \o c)
<1>1. w = (b \o l) \o c /\ Len(w) = Len(b) + Len(l) + Len(c) /\ Len(b) \in Nat /\ Len(l) \in Nat /\ Len(c) \in Nat
  BY Parts
<1>2. l \o c \in Seq(Nat) /\ b \o l \in Seq(Nat) /\ Len(b \o l) = Len(b) + Len(l)
  BY TwoParts
<1>3. SubSeq(w, 1, Len(b)) = b
  BY <1>2, CutConcat
<1>4. SubSeq((b \o l) \o c, Len(b \o l) + 1, Len((b \o l) \o c)) = c
  BY <1>2, CutConcat
<1>5. SubSeq(w, Len(b) + Len(l) + 1, Len(w)) = c
  BY <1>1, <1>2, <1>4
<1>6. chan = w
  OBVIOUS
<1> HIDE DEF w
<1>7. Len(b) \in 0..Len(chan) /\ Len(l) \in 0..(Len(chan) - Len(b))
  BY <1>1, <1>6
<1>8. Len(l) > 0 => "Qmsg" \in mode
  OBVIOUS
<1>9. recv' = recv \o SubSeq(chan, 1, Len(b))
  BY <1>3, <1>6
<1>10. chan' = SubSeq(chan, Len(b) + Len(l) + 1, Len(chan))
  BY <1>5, <1>6
<1>11. Abs!Take
  BY <1>7, <1>8, <1>9, <1>10 DEF Abs!Take
<1> QED BY <1>11 DEF AbsStep, Abs!Next

(* Bytes that qclose() or qflush() drop are a Drop of Fifo.                *)
LEMMA AbsDrop ==
  ASSUME NEW b \in Seq(Nat), NEW c \in Seq(Nat), chan = b \o c, chan' = b,
         use.ops \cap {"qclose", "qflush"} # {}, UNCHANGED <<sent, recv, mode, use>>
  PROVE  AbsStep
<1> DEFINE w == b \o c
<1>1. SubSeq(w, 1, Len(b)) = b /\ Len(w) = Len(b) + Len(c)
  BY CutConcat
<1>2. Len(b) \in Nat /\ Len(c) \in Nat /\ chan = w
  OBVIOUS
<1> HIDE DEF w
<1>3. Len(b) \in 0..Len(chan) /\ chan' = SubSeq(chan, 1, Len(b))
  BY <1>1, <1>2
<1>4. Abs!Drop
  BY <1>3 DEF Abs!Drop
<1> QED BY <1>4 DEF AbsStep, Abs!Next

(* With no reader copying, the stream is what the queue holds.             *)
LEMMA ChanPlain ==
  ASSUME q \in Seq(Seq(Nat)), hand = <<>>, left = <<>>
  PROVE  chan = Bytes(q)
<1>1. Bytes(q) \in Seq(Nat) /\ <<>> \o <<>> = <<>>
  BY BytesType
<1>2. <<>> \o Bytes(q) = Bytes(q)
  BY <1>1, ConcatEmptySeq
<1> QED BY <1>1, <1>2 DEF chan

(* A reader that copies under the lock makes a Take of Fifo.               *)
LEMMA TakePlain ==
  ASSUME BufOK, hand = <<>>, left = <<>>, NEW b, NEW l, Hands(b, l), recv' = recv \o b,
         UNCHANGED <<hand, left, sent, mode, use>>
  PROVE  AbsStep
<1>1. chan = Bytes(q)
  BY ChanPlain DEF BufOK
<1>2. chan' = Bytes(q')
  <2>1. q' \in Seq(Seq(Nat)) /\ hand' = <<>> /\ left' = <<>>
    BY DEF Hands
  <2>2. Bytes(q') \in Seq(Nat) /\ <<>> \o <<>> = <<>>
    BY <2>1, BytesType
  <2>3. <<>> \o Bytes(q') = Bytes(q')
    BY <2>2, ConcatEmptySeq
  <2> QED BY <2>1, <2>2, <2>3 DEF chan, Bytes
<1>3. Bytes(q') \in Seq(Nat)
  BY BytesType DEF Hands
<1> DEFINE c == Bytes(q')
<1>4. b \in Seq(Nat) /\ l \in Seq(Nat) /\ chan = b \o (l \o c) /\ chan' = c /\ (l # <<>> => "Qmsg" \in mode)
  BY <1>1, <1>2 DEF Hands
<1>5. c \in Seq(Nat)
  BY <1>3
<1> HIDE DEF c
<1> QED BY <1>4, <1>5, AbsTake

(* Every step keeps CopyOK: only the reader that took blocks puts the rest *)
(* back.                                                                   *)
LEMMA CopyStep ==
  ASSUME IInv, [Next]_vars
  PROVE  CopyOK'
<1> USE ConstantsOK DEF IInv
<1>1. ASSUME NEW w \in Writer, qbwrite(w) PROVE CopyOK'
  BY <1>1 DEF qbwrite, CopyOK, CtlOK, ReaderAt, WriterAt, AgentAt
<1>2. ASSUME NEW w \in Writer, qbwriteBlock(w) PROVE CopyOK'
  BY <1>2 DEF qbwriteBlock, CopyOK, CtlOK, ReaderAt, WriterAt, AgentAt
<1>3. ASSUME NEW w \in Writer, qbwriteTest(w) PROVE CopyOK'
  BY <1>3 DEF qbwriteTest, CopyOK, CtlOK, ReaderAt, WriterAt, AgentAt
<1>4. ASSUME NEW w \in Writer, qbwriteFlow(w) PROVE CopyOK'
  BY <1>4 DEF qbwriteFlow, CopyOK, CtlOK, ReaderAt, WriterAt, AgentAt
<1>5. ASSUME NEW w \in Writer, qbwriteSleep(w) PROVE CopyOK'
  BY <1>5 DEF qbwriteSleep, CopyOK, CtlOK, ReaderAt, WriterAt, AgentAt
<1>6. ASSUME NEW r \in Reader, qread(r) PROVE CopyOK'
  BY <1>6 DEF qread, CopyOK, CtlOK, ReaderAt, WriterAt, AgentAt
<1>7. ASSUME NEW r \in Reader, qwait(r) PROVE CopyOK'
  <2>1. pc[r] = "qwait" /\ UNCHANGED <<hand, left>>
    BY <1>7 DEF qwait
  <2> QED BY <2>1, NobodyCopies DEF CopyOK
<1>8. ASSUME NEW r \in Reader, qwaitSleep(r) PROVE CopyOK'
  BY <1>8 DEF qwaitSleep, CopyOK, CtlOK, ReaderAt, WriterAt, AgentAt
<1>9. ASSUME NEW r \in Reader, qreadRemove(r) PROVE CopyOK'
  BY <1>9 DEF qreadRemove, CopyOK, CtlOK
<1>10. ASSUME NEW r \in Reader, qreadDone(r) PROVE CopyOK'
  <2>1. hand' = <<>> /\ left' = <<>>
    BY <1>10 DEF qreadDone
  <2> QED BY <2>1 DEF CopyOK
<1>11. ASSUME NEW r \in Reader, qbread(r) PROVE CopyOK'
  <2>1. pc[r] = "qwait" /\ UNCHANGED <<hand, left>>
    BY <1>11 DEF qbread
  <2> QED BY <2>1, NobodyCopies DEF CopyOK
<1>12. ASSUME NEW a \in Agent, qproduce(a) PROVE CopyOK'
  BY <1>12 DEF qproduce, Produce, CopyOK, CtlOK, ReaderAt, WriterAt, AgentAt
<1>13. ASSUME NEW a \in Agent, qproduceFull(a) PROVE CopyOK'
  BY <1>13 DEF qproduceFull, CopyOK, CtlOK, ReaderAt, WriterAt, AgentAt
<1>14. ASSUME NEW a \in Agent, qpass(a) PROVE CopyOK'
  BY <1>14 DEF qpass, Produce, CopyOK, CtlOK, ReaderAt, WriterAt, AgentAt
<1>15. ASSUME NEW a \in Agent, qpassnolim(a) PROVE CopyOK'
  BY <1>15 DEF qpassnolim, Produce, CopyOK, CtlOK, ReaderAt, WriterAt, AgentAt
<1>16. ASSUME NEW a \in Agent, qiwrite(a) PROVE CopyOK'
  BY <1>16 DEF qiwrite, CopyOK, CtlOK, ReaderAt, WriterAt, AgentAt
<1>17. ASSUME NEW a \in Agent, qget(a) PROVE CopyOK'
  <2>1. "qread" \notin use.ops /\ UNCHANGED <<hand, left>>
    BY <1>17, ReadOneWay DEF BufOK, qget, Starve
  <2> QED BY <2>1, NobodyCopies DEF IInv, CopyOK
<1>18. ASSUME NEW a \in Agent, qconsume(a) PROVE CopyOK'
  <2>1. "qread" \notin use.ops /\ UNCHANGED <<hand, left>>
    BY <1>18, ReadOneWay DEF BufOK, qconsume, Starve
  <2> QED BY <2>1, NobodyCopies DEF IInv, CopyOK
<1>19. ASSUME NEW a \in Agent, qdiscard(a) PROVE CopyOK'
  <2>1. "qread" \notin use.ops /\ UNCHANGED <<hand, left>>
    BY <1>19, ReadOneWay DEF BufOK, qdiscard, Starve
  <2> QED BY <2>1, NobodyCopies DEF IInv, CopyOK
<1>20. ASSUME NEW a \in Agent, qclose(a) PROVE CopyOK'
  BY <1>20 DEF qclose, Empty, CopyOK, CtlOK, ReaderAt, WriterAt, AgentAt
<1>21. ASSUME NEW a \in Agent, qhangup(a) PROVE CopyOK'
  BY <1>21 DEF qhangup, CopyOK, CtlOK, ReaderAt, WriterAt, AgentAt
<1>22. ASSUME NEW a \in Agent, qreopen(a) PROVE CopyOK'
  BY <1>22 DEF qreopen, CopyOK, CtlOK, ReaderAt, WriterAt, AgentAt
<1>23. ASSUME NEW a \in Agent, qflush(a) PROVE CopyOK'
  BY <1>23 DEF qflush, Empty, CopyOK, CtlOK, ReaderAt, WriterAt, AgentAt
<1>24. ASSUME NEW a \in Agent, qsetlimit(a) PROVE CopyOK'
  BY <1>24 DEF qsetlimit, CopyOK, CtlOK, ReaderAt, WriterAt, AgentAt
<1>25. ASSUME NEW a \in Agent, qnoblock(a) PROVE CopyOK'
  BY <1>25 DEF qnoblock, CopyOK, CtlOK, ReaderAt, WriterAt, AgentAt
<1>26. ASSUME NEW w \in Writer, qbwriteIntr(w) PROVE CopyOK'
  BY <1>26 DEF qbwriteIntr, CopyOK, CtlOK, ReaderAt, WriterAt, AgentAt
<1>27. ASSUME NEW r \in Reader, qwaitIntr(r) PROVE CopyOK'
  BY <1>27 DEF qwaitIntr, CopyOK, CtlOK, ReaderAt, WriterAt, AgentAt
<1>28. ASSUME NEW a \in Actor, wakeupR(a) PROVE CopyOK'
  BY <1>28 DEF wakeupR, AfterWakeR, CopyOK, CtlOK, ReaderAt, WriterAt, AgentAt
<1>29. ASSUME NEW a \in Actor, wakeupW(a) PROVE CopyOK'
  BY <1>29 DEF wakeupW, CopyOK, CtlOK, ReaderAt, WriterAt, AgentAt
<1>30. ASSUME UNCHANGED vars PROVE CopyOK'
  <2>1. UNCHANGED <<pc, hand, left>>
    BY <1>30 DEF vars
  <2> QED BY <2>1 DEF CopyOK
<1> QED
  BY <1>1, <1>2, <1>3, <1>4, <1>5, <1>6, <1>7, <1>8, <1>9, <1>10, <1>11, <1>12, <1>13, <1>14, <1>15, <1>16, <1>17, <1>18, <1>19, <1>20, <1>21, <1>22, <1>23, <1>24, <1>25, <1>26, <1>27, <1>28, <1>29, <1>30
  DEF Next, WriterStep, ReaderStep, Interrupted, AgentStep

(* A step that leaves the queue alone.                                     *)
LEMMA Kept ==
  ASSUME BufOK, UNCHANGED <<q, len, dlen, use, mode, hand, left, sent, msgs, recv>>,
         limit' = limit \/ limit' \in Nat
  PROVE  BufOK' /\ AbsStep
<1>1. BufOK'
  BY DEF BufOK, Accounting, Bytes
<1>2. AbsStep
  BY AbsIdle
<1> QED BY <1>1, <1>2

(* A step that keeps the bytes is a stutter of Fifo.                       *)
LEMMA SameBytes ==
  ASSUME BufOK', Bytes(q') = Bytes(q), UNCHANGED <<hand, left, sent, recv, mode, use>>
  PROVE  BufOK' /\ AbsStep
<1>1. chan' = chan
  BY DEF chan, Bytes
<1> QED BY <1>1 DEF AbsStep, AbsVars

(* An operation that queues a block is a Put of Fifo.                      *)
LEMMA Put ==
  ASSUME BufOK, \E n \in use.writes : Enqueue(n), UNCHANGED <<use, mode, limit, hand, left, recv>>
  PROVE  BufOK' /\ AbsStep
<1>1. PICK n \in use.writes : Enqueue(n)
  OBVIOUS
<1> DEFINE b == [i \in 1..n |-> sent + i]
<1>2. BufOK' /\ sent' = sent + n /\ Bytes(q') = Bytes(q) \o b
  BY <1>1, Enqueued
<1>3. n \in Nat /\ sent \in Nat
  BY ConstantsOK DEF BufOK
<1>4. b \in Seq(Nat)
  BY <1>3
<1> DEFINE x == hand \o left
<1> DEFINE y == Bytes(q)
<1>5. x \in Seq(Nat) /\ y \in Seq(Nat)
  BY BytesType, ConcatProperties DEF BufOK
<1>6. chan = x \o y /\ chan' = x \o (y \o b)
  BY <1>2 DEF chan, Bytes
<1> HIDE DEF b, x, y
<1>7. chan' = chan \o b
  BY <1>4, <1>5, <1>6, Parts
<1>8. AbsStep
  BY <1>2, <1>3, <1>7, AbsPut DEF b
<1> QED BY <1>2, <1>8

(* qclose() and qflush() empty the queue: a Drop of Fifo.                  *)
LEMMA Emptied ==
  ASSUME BufOK, Empty, use.ops \cap {"qclose", "qflush"} # {},
         UNCHANGED <<use, mode, limit, sent, msgs, hand, left, recv>>
  PROVE  BufOK' /\ AbsStep
<1>1. q' = <<>> /\ len' = 0 /\ dlen' = 0
  BY DEF Empty
<1>2. Bytes(q') = <<>>
  BY <1>1, FlattenEmpty DEF Bytes
<1>3. q' \in Seq(Seq(Nat)) /\ len' = Len(q') /\ dlen' = Len(Bytes(q'))
  BY <1>1, <1>2
<1>4. BufOK'
  BY <1>3, Counted DEF BufOK
<1> DEFINE x == hand \o left
<1> DEFINE y == Bytes(q)
<1>5. x \in Seq(Nat) /\ y \in Seq(Nat)
  BY BytesType, ConcatProperties DEF BufOK
<1>6. chan = x \o y /\ chan' = x \o <<>>
  BY <1>2 DEF chan, Bytes
<1> HIDE DEF x, y
<1>7. chan' = x
  BY <1>5, <1>6, ConcatEmptySeq
<1>8. AbsStep
  BY <1>5, <1>6, <1>7, AbsDrop
<1> QED BY <1>4, <1>8

(* Every step keeps the counts, and is a step of Fifo or a stutter.        *)
LEMMA BufStep ==
  ASSUME IInv, [Next]_vars
  PROVE  BufOK' /\ AbsStep
<1> USE DEF IInv
<1>1. ASSUME NEW w \in Writer, qbwrite(w) PROVE BufOK' /\ AbsStep
  <2>1. UNCHANGED <<q, len, dlen, use, limit, mode, hand, left, sent, msgs, recv>>
    BY <1>1 DEF qbwrite
  <2> QED BY <2>1, Kept
<1>2. ASSUME NEW w \in Writer, qbwriteBlock(w) PROVE BufOK' /\ AbsStep
  <2>1. CASE UNCHANGED <<q, len, dlen, sent, msgs>>
    BY <1>2, <2>1, Kept DEF qbwriteBlock
  <2>2. CASE \E n \in use.writes : Enqueue(n)
    BY <1>2, <2>2, Put DEF qbwriteBlock
  <2> QED BY <1>2, <2>1, <2>2 DEF qbwriteBlock
<1>3. ASSUME NEW w \in Writer, qbwriteTest(w) PROVE BufOK' /\ AbsStep
  <2>1. UNCHANGED <<q, len, dlen, use, limit, mode, hand, left, sent, msgs, recv>>
    BY <1>3 DEF qbwriteTest
  <2> QED BY <2>1, Kept
<1>4. ASSUME NEW w \in Writer, qbwriteFlow(w) PROVE BufOK' /\ AbsStep
  <2>1. UNCHANGED <<q, len, dlen, use, limit, mode, hand, left, sent, msgs, recv>>
    BY <1>4 DEF qbwriteFlow
  <2> QED BY <2>1, Kept
<1>5. ASSUME NEW w \in Writer, qbwriteSleep(w) PROVE BufOK' /\ AbsStep
  <2>1. UNCHANGED <<q, len, dlen, use, limit, mode, hand, left, sent, msgs, recv>>
    BY <1>5 DEF qbwriteSleep
  <2> QED BY <2>1, Kept
<1>6. ASSUME NEW r \in Reader, qread(r) PROVE BufOK' /\ AbsStep
  <2>1. UNCHANGED <<q, len, dlen, use, limit, mode, hand, left, sent, msgs, recv>>
    BY <1>6 DEF qread
  <2> QED BY <2>1, Kept
<1>7. ASSUME NEW r \in Reader, qwait(r) PROVE BufOK' /\ AbsStep
  <2>1. pc[r] = "qwait" /\ UNCHANGED <<hand, left, sent, recv, mode, use>>
    BY <1>7 DEF qwait
  <2>2. hand = <<>> /\ left = <<>>
    BY <2>1, NobodyCopies
  <2>3. BufOK' /\ Bytes(q') = Bytes(q)
    BY <1>7, qwaitDrains
  <2> QED BY <2>1, <2>3, SameBytes
<1>8. ASSUME NEW r \in Reader, qwaitSleep(r) PROVE BufOK' /\ AbsStep
  <2>1. UNCHANGED <<q, len, dlen, use, limit, mode, hand, left, sent, msgs, recv>>
    BY <1>8 DEF qwaitSleep
  <2> QED BY <2>1, Kept
<1>9. ASSUME NEW r \in Reader, qreadRemove(r) PROVE BufOK' /\ AbsStep
  <2>1. pc[r] = "qwait" /\ UNCHANGED <<sent, recv, mode, use>>
    BY <1>9 DEF qreadRemove
  <2>2. hand = <<>> /\ left = <<>>
    BY <2>1, NobodyCopies
  <2>3. BufOK' /\ Bytes(q) = hand' \o (left' \o Bytes(q'))
    BY <1>9, qreadTakes
  <2>4. chan = Bytes(q)
    BY <2>2, ChanPlain DEF BufOK
  <2>5. hand' \in Seq(Nat) /\ left' \in Seq(Nat) /\ q' \in Seq(Seq(Nat))
    BY <2>3 DEF BufOK
  <2>6. Bytes(q') \in Seq(Nat)
    BY <2>5, BytesType
  <2>7. (hand' \o left') \o Bytes(q') = hand' \o (left' \o Bytes(q'))
    BY <2>5, <2>6, Parts
  <2>8. chan' = (hand' \o left') \o Bytes(q')
    BY DEF chan, Bytes
  <2> QED BY <2>1, <2>3, <2>4, <2>7, <2>8 DEF AbsStep, AbsVars
<1>10. ASSUME NEW r \in Reader, qreadDone(r) PROVE BufOK' /\ AbsStep
  <2>1. /\ BufOK' /\ hand' = <<>> /\ left' = <<>> /\ recv' = recv \o hand
        /\ \/ Bytes(q') = left \o Bytes(q)
           \/ "Qmsg" \in mode /\ Bytes(q') = Bytes(q)
    BY <1>10, qreadPuts
  <2>2. UNCHANGED <<sent, mode, use>>
    BY <1>10 DEF qreadDone
  <2>3. hand \in Seq(Nat) /\ left \in Seq(Nat) /\ q \in Seq(Seq(Nat)) /\ q' \in Seq(Seq(Nat))
    BY <2>1 DEF BufOK
  <2>4. Bytes(q) \in Seq(Nat) /\ Bytes(q') \in Seq(Nat)
    BY <2>3, BytesType
  <2>5. chan = hand \o (left \o Bytes(q))
    BY <2>3, <2>4, Parts DEF chan
  <2>6. chan' = Bytes(q')
    <3>1. <<>> \o <<>> = <<>> /\ <<>> \o Bytes(q') = Bytes(q')
      BY <2>4, ConcatEmptySeq
    <3> QED BY <2>1, <3>1 DEF chan, Bytes
  <2> DEFINE c == Bytes(q')
  <2>7. CASE c = left \o Bytes(q)
    <3>1. chan = hand \o (<<>> \o c) /\ chan' = c /\ c \in Seq(Nat)
      BY <2>4, <2>5, <2>6, <2>7, ConcatEmptySeq
    <3>2. <<>> \in Seq(Nat)
      OBVIOUS
    <3> HIDE DEF c
    <3>3. AbsStep
      BY <2>1, <2>2, <2>3, <3>1, <3>2, AbsTake
    <3> QED BY <2>1, <3>3
  <2>8. CASE "Qmsg" \in mode /\ c = Bytes(q)
    <3>1. chan = hand \o (left \o c) /\ chan' = c /\ c \in Seq(Nat)
      BY <2>4, <2>5, <2>6, <2>8
    <3> HIDE DEF c
    <3>2. AbsStep
      BY <2>1, <2>2, <2>3, <2>8, <3>1, AbsTake
    <3> QED BY <2>1, <3>2
  <2> QED BY <2>1, <2>7, <2>8
<1>11. ASSUME NEW r \in Reader, qbread(r) PROVE BufOK' /\ AbsStep
  <2>1. pc[r] = "qwait" /\ UNCHANGED <<hand, left, sent, mode, use>>
    BY <1>11 DEF qbread
  <2>2. hand = <<>> /\ left = <<>>
    BY <2>1, NobodyCopies
  <2>3. BufOK' /\ \E b, l : Hands(b, l) /\ recv' = recv \o b
    BY <1>11, qbreadHands
  <2> QED BY <2>1, <2>2, <2>3, TakePlain
<1>12. ASSUME NEW a \in Agent, qproduce(a) PROVE BufOK' /\ AbsStep
  <2>1. (\E n \in use.writes : Enqueue(n)) /\ UNCHANGED <<use, mode, limit, hand, left, recv>>
    BY <1>12 DEF qproduce, Produce
  <2> QED BY <2>1, Put
<1>13. ASSUME NEW a \in Agent, qproduceFull(a) PROVE BufOK' /\ AbsStep
  <2>1. UNCHANGED <<q, len, dlen, use, limit, mode, hand, left, sent, msgs, recv>>
    BY <1>13 DEF qproduceFull
  <2> QED BY <2>1, Kept
<1>14. ASSUME NEW a \in Agent, qpass(a) PROVE BufOK' /\ AbsStep
  <2>1. (\E n \in use.writes : Enqueue(n)) /\ UNCHANGED <<use, mode, limit, hand, left, recv>>
    BY <1>14 DEF qpass, Produce
  <2> QED BY <2>1, Put
<1>15. ASSUME NEW a \in Agent, qpassnolim(a) PROVE BufOK' /\ AbsStep
  <2>1. (\E n \in use.writes : Enqueue(n)) /\ UNCHANGED <<use, mode, limit, hand, left, recv>>
    BY <1>15 DEF qpassnolim, Produce
  <2> QED BY <2>1, Put
<1>16. ASSUME NEW a \in Agent, qiwrite(a) PROVE BufOK' /\ AbsStep
  <2>1. (\E n \in use.writes : Enqueue(n)) /\ UNCHANGED <<use, mode, limit, hand, left, recv>>
    BY <1>16 DEF qiwrite
  <2> QED BY <2>1, Put
<1>17. ASSUME NEW a \in Agent, qget(a) PROVE BufOK' /\ AbsStep
  <2>1. "qread" \notin use.ops
    BY <1>17, ReadOneWay DEF BufOK, qget
  <2>2. hand = <<>> /\ left = <<>>
    BY <2>1, NobodyCopies
  <2>3. CASE q # <<>> /\ UNCHANGED <<hand, left, sent, mode, use>>
    <3>1. BufOK' /\ \E b, l : Hands(b, l) /\ recv' = recv \o b
      BY <1>17, <2>3, qgetHands
    <3> QED BY <2>2, <2>3, <3>1, TakePlain
  <2>4. CASE Starve(a) /\ (q = <<>> \/ Len(q) = Zeros)
    <3>1. BufOK' /\ Bytes(q') = Bytes(q)
      BY <2>4, StarveDrains
    <3>2. UNCHANGED <<hand, left, sent, recv, mode, use>>
      BY <2>4 DEF Starve
    <3> QED BY <3>1, <3>2, SameBytes
  <2> QED BY <1>17, <2>3, <2>4 DEF qget
<1>18. ASSUME NEW a \in Agent, qconsume(a) PROVE BufOK' /\ AbsStep
  <2>1. "qread" \notin use.ops
    BY <1>18, ReadOneWay DEF BufOK, qconsume
  <2>2. hand = <<>> /\ left = <<>>
    BY <2>1, NobodyCopies
  <2>3. CASE Len(q) > Zeros /\ UNCHANGED <<hand, left, sent, mode, use>>
    <3>1. BufOK' /\ \E b, l : Hands(b, l) /\ recv' = recv \o b
      BY <1>18, <2>3, qconsumeHands
    <3> QED BY <2>2, <2>3, <3>1, TakePlain
  <2>4. CASE Starve(a) /\ (q = <<>> \/ Len(q) = Zeros)
    <3>1. BufOK' /\ Bytes(q') = Bytes(q)
      BY <2>4, StarveDrains
    <3>2. UNCHANGED <<hand, left, sent, recv, mode, use>>
      BY <2>4 DEF Starve
    <3> QED BY <3>1, <3>2, SameBytes
  <2> QED BY <1>18, <2>3, <2>4 DEF qconsume
<1>19. ASSUME NEW a \in Agent, qdiscard(a) PROVE BufOK' /\ AbsStep
  <2>1. "qread" \notin use.ops /\ UNCHANGED <<hand, left, sent, mode, use>>
    BY <1>19, ReadOneWay DEF BufOK, qdiscard
  <2>2. hand = <<>> /\ left = <<>>
    BY <2>1, NobodyCopies
  <2>3. BufOK' /\ \E b, l : Hands(b, l) /\ recv' = recv \o b
    BY <1>19, qdiscardHands
  <2> QED BY <2>1, <2>2, <2>3, TakePlain
<1>20. ASSUME NEW a \in Agent, qclose(a) PROVE BufOK' /\ AbsStep
  <2>1. /\ Empty /\ "qclose" \in use.ops
        /\ UNCHANGED <<use, mode, limit, sent, msgs, hand, left, recv>>
    BY <1>20 DEF qclose
  <2> QED BY <2>1, Emptied
<1>21. ASSUME NEW a \in Agent, qhangup(a) PROVE BufOK' /\ AbsStep
  <2>1. UNCHANGED <<q, len, dlen, use, limit, mode, hand, left, sent, msgs, recv>>
    BY <1>21 DEF qhangup
  <2> QED BY <2>1, Kept
<1>22. ASSUME NEW a \in Agent, qreopen(a) PROVE BufOK' /\ AbsStep
  <2>1. UNCHANGED <<q, len, dlen, use, mode, hand, left, sent, msgs, recv>> /\ limit' \in Nat
    BY <1>22, ConstantsOK DEF qreopen
  <2> QED BY <2>1, Kept
<1>23. ASSUME NEW a \in Agent, qflush(a) PROVE BufOK' /\ AbsStep
  <2>1. /\ Empty /\ "qflush" \in use.ops
        /\ UNCHANGED <<use, mode, limit, sent, msgs, hand, left, recv>>
    BY <1>23 DEF qflush
  <2> QED BY <2>1, Emptied
<1>24. ASSUME NEW a \in Agent, qsetlimit(a) PROVE BufOK' /\ AbsStep
  <2>1. UNCHANGED <<q, len, dlen, use, mode, hand, left, sent, msgs, recv>> /\ limit' \in Nat
    BY <1>24, ConstantsOK DEF qsetlimit
  <2> QED BY <2>1, Kept
<1>25. ASSUME NEW a \in Agent, qnoblock(a) PROVE BufOK' /\ AbsStep
  <2>1. UNCHANGED <<q, len, dlen, use, limit, mode, hand, left, sent, msgs, recv>>
    BY <1>25 DEF qnoblock
  <2> QED BY <2>1, Kept
<1>26. ASSUME NEW w \in Writer, qbwriteIntr(w) PROVE BufOK' /\ AbsStep
  <2>1. UNCHANGED <<q, len, dlen, use, limit, mode, hand, left, sent, msgs, recv>>
    BY <1>26 DEF qbwriteIntr
  <2> QED BY <2>1, Kept
<1>27. ASSUME NEW r \in Reader, qwaitIntr(r) PROVE BufOK' /\ AbsStep
  <2>1. UNCHANGED <<q, len, dlen, use, limit, mode, hand, left, sent, msgs, recv>>
    BY <1>27 DEF qwaitIntr
  <2> QED BY <2>1, Kept
<1>28. ASSUME NEW a \in Actor, wakeupR(a) PROVE BufOK' /\ AbsStep
  <2>1. UNCHANGED <<q, len, dlen, use, limit, mode, hand, left, sent, msgs, recv>>
    BY <1>28 DEF wakeupR
  <2> QED BY <2>1, Kept
<1>29. ASSUME NEW a \in Actor, wakeupW(a) PROVE BufOK' /\ AbsStep
  <2>1. UNCHANGED <<q, len, dlen, use, limit, mode, hand, left, sent, msgs, recv>>
    BY <1>29 DEF wakeupW
  <2> QED BY <2>1, Kept
<1>30. ASSUME UNCHANGED vars PROVE BufOK' /\ AbsStep
  <2>1. UNCHANGED <<q, len, dlen, use, limit, mode, hand, left, sent, msgs, recv>>
    BY <1>30 DEF vars
  <2> QED BY <2>1, Kept
<1> QED
  BY <1>1, <1>2, <1>3, <1>4, <1>5, <1>6, <1>7, <1>8, <1>9, <1>10, <1>11, <1>12, <1>13, <1>14, <1>15, <1>16, <1>17, <1>18, <1>19, <1>20, <1>21, <1>22, <1>23, <1>24, <1>25, <1>26, <1>27, <1>28, <1>29, <1>30
  DEF Next, WriterStep, ReaderStep, Interrupted, AgentStep

(* A queue starts empty.                                                   *)
LEMMA InitOK == Init => IInv
<1> SUFFICES ASSUME Init PROVE IInv
  OBVIOUS
<1>1. CtlOK
  BY ConstantsOK DEF Init, CtlOK, ReaderAt, WriterAt, AgentAt
<1>2. Bytes(<<>>) = <<>>
  BY FlattenEmpty DEF Bytes
<1>3. Accounting
  BY <1>2 DEF Init, Accounting
<1>4. BufOK
  BY <1>3, ConstantsOK DEF Init, BufOK
<1>5. CopyOK
  BY DEF Init, CopyOK
<1> QED BY <1>1, <1>4, <1>5 DEF IInv

(* IInv is inductive, and every step maps to one of Fifo.                  *)
LEMMA IInvStep == IInv /\ [Next]_vars => IInv' /\ AbsStep
BY CtlStep, BufStep, CopyStep DEF IInv

(* IInv always holds.                                                      *)
LEMMA Inductive == Spec => []IInv
<1>1. Init => IInv
  BY InitOK
<1>2. IInv /\ [Next]_vars => IInv'
  BY IInvStep
<1> QED BY <1>1, <1>2, PTL DEF Spec

(* q->len and q->dlen are those of the blocks on the queue, whatever the   *)
(* interleaving of readers, writers, drivers and hang-ups: the partial     *)
(* block qread() puts back is counted although the lock was given up while *)
(* it was copied.                                                          *)
THEOREM CountsExact == Spec => []Accounting
<1>1. IInv => Accounting
  BY DEF IInv, BufOK
<1> QED BY <1>1, Inductive, PTL

(* The queue implements a byte stream (module Fifo): no byte is delivered  *)
(* twice or out of order, and none is lost except by a close, a flush or   *)
(* the end of a message that was read short.                               *)
THEOREM StreamRefined == Spec => Stream
<1>1. Init => Abs!Init
  <2> SUFFICES ASSUME Init PROVE Abs!Init
    OBVIOUS
  <2>1. chan = Bytes(q)
    BY ChanPlain, InitOK DEF IInv, BufOK, Init
  <2>2. chan = <<>>
    BY <2>1, FlattenEmpty DEF Init, Bytes
  <2> QED BY <2>2 DEF Init, Abs!Init
<1>2. IInv /\ [Next]_vars => [Abs!Next]_AbsVars
  BY IInvStep DEF AbsStep
<1> QED BY <1>1, <1>2, Inductive, PTL DEF Spec, Stream, Abs!Spec, AbsVars
-----------------------------------------------------------------------------
(* A reader on its way to sleep, or asleep, has asked to be woken up or    *)
(* has something to find.                                                  *)
AwakeOK ==
  /\ \A r \in Reader : pc[r] \in {"sleep", "asleep"} => "Qstarve" \in qstate \/ notempty
  /\ NoLostReader

(* A block is put on the queue and whoever asked is woken up.              *)
LEMMA Filled ==
  ASSUME CtlOK, BufOK, AwakeOK, NEW a \in Actor, NEW there \in {"idle", "flow"},
         pc[a] \in {"idle", "write"}, \E n \in use.writes : Enqueue(n),
         Go(a, IF "Qstarve" \in qstate THEN "wakeR" ELSE there), UNCHANGED rr
  PROVE  AwakeOK'
<1>1. q' # <<>>
  BY DEF Enqueue, BufOK
<1>2. \A b \in Actor : b # a => pc'[b] = pc[b]
  BY DEF CtlOK
<1>3. "Qstarve" \in qstate => pc'[a] = "wakeR"
  BY DEF CtlOK
<1>4. ASSUME rr # nil, "Qstarve" \notin qstate PROVE Waking({"wakeR", "wakeRW"})
  <2>1. pc[rr] = "asleep" /\ rr \in Reader
    BY <1>4 DEF CtlOK
  <2>2. notempty
    BY <2>1, <1>4 DEF AwakeOK
  <2> QED BY <1>4, <2>2 DEF AwakeOK, NoLostReader
<1>5. rr # nil => Waking({"wakeR", "wakeRW"})'
  BY <1>2, <1>3, <1>4 DEF Waking
<1> QED BY <1>1, <1>5 DEF AwakeOK, NoLostReader, notempty

(* While one reader is busy no other is in sleep().                        *)
LEMMA Alone ==
  ASSUME CtlOK', NEW r \in Reader, rlock' \in {r, nil}, pc'[r] \notin {"sleep", "asleep"}
  PROVE  AwakeOK'
BY ConstantsOK DEF CtlOK, AwakeOK, NoLostReader

(* Without readers nobody can be asleep for nothing.                       *)
LEMMA NobodyReads ==
  ASSUME CtlOK', "qread" \notin use.ops, UNCHANGED use
  PROVE  AwakeOK'
BY ConstantsOK DEF CtlOK, AwakeOK, NoLostReader

(* Every step keeps AwakeOK.                                               *)
LEMMA AwakeStep ==
  ASSUME IInv, AwakeOK, [Next]_vars
  PROVE  AwakeOK'
<1> USE ConstantsOK DEF IInv
<1>0. CtlOK'
  BY CtlStep
<1>1. ASSUME NEW w \in Writer, qbwrite(w) PROVE AwakeOK'
  BY <1>1 DEF qbwrite, AwakeOK, NoLostReader, Waking, notempty, Closed, CtlOK, ReaderAt, WriterAt, AgentAt
<1>2. ASSUME NEW w \in Writer, qbwriteBlock(w) PROVE AwakeOK'
  <2>0. pc[w] = "write" /\ UNCHANGED rr
    BY <1>2 DEF qbwriteBlock
  <2>1. CASE /\ \E n \in use.writes : Enqueue(n)
             /\ Go(w, IF "Qstarve" \in qstate THEN "wakeR" ELSE "flow")
    <3>1. w \in Actor /\ "flow" \in {"idle", "flow"}
      OBVIOUS
    <3> QED BY <2>0, <2>1, <3>1, Filled
  <2>2. CASE Go(w, "idle") /\ UNCHANGED <<q, qstate>>
    BY <2>0, <2>2 DEF AwakeOK, NoLostReader, Waking, notempty, Closed, CtlOK, ReaderAt, WriterAt, AgentAt
  <2> QED BY <1>2, <2>1, <2>2 DEF qbwriteBlock
<1>3. ASSUME NEW w \in Writer, qbwriteTest(w) PROVE AwakeOK'
  BY <1>3 DEF qbwriteTest, AwakeOK, NoLostReader, Waking, notempty, Closed, CtlOK, ReaderAt, WriterAt, AgentAt
<1>4. ASSUME NEW w \in Writer, qbwriteFlow(w) PROVE AwakeOK'
  BY <1>4 DEF qbwriteFlow, AwakeOK, NoLostReader, Waking, notempty, Closed, CtlOK, ReaderAt, WriterAt, AgentAt
<1>5. ASSUME NEW w \in Writer, qbwriteSleep(w) PROVE AwakeOK'
  BY <1>5 DEF qbwriteSleep, AwakeOK, NoLostReader, Waking, notempty, Closed, CtlOK, ReaderAt, WriterAt, AgentAt
<1>6. ASSUME NEW r \in Reader, qread(r) PROVE AwakeOK'
  BY <1>6 DEF qread, AwakeOK, NoLostReader, Waking, notempty, Closed, CtlOK, ReaderAt, WriterAt, AgentAt
<1>7. ASSUME NEW r \in Reader, qwait(r) PROVE AwakeOK'
  BY <1>7 DEF qwait, AwakeOK, NoLostReader, Waking, notempty, Closed, CtlOK, ReaderAt, WriterAt, AgentAt
<1>8. ASSUME NEW r \in Reader, qwaitSleep(r) PROVE AwakeOK'
  BY <1>8 DEF qwaitSleep, AwakeOK, NoLostReader, Waking, notempty, Closed, CtlOK, ReaderAt, WriterAt, AgentAt
<1>9. ASSUME NEW r \in Reader, qreadRemove(r) PROVE AwakeOK'
  <2>1. /\ pc[r] \in {"qwait", "copied"} /\ rlock' \in {rlock, nil}
        /\ pc'[r] \in {"copied", "wakeW", "idle"}
    BY <1>9 DEF qreadRemove, CtlOK
  <2>2. rlock' \in {r, nil}
    BY <2>1 DEF CtlOK
  <2> QED BY <2>1, <2>2, <1>0, Alone
<1>10. ASSUME NEW r \in Reader, qreadDone(r) PROVE AwakeOK'
  <2>1. /\ pc[r] \in {"qwait", "copied"} /\ rlock' \in {rlock, nil}
        /\ pc'[r] \in {"copied", "wakeW", "idle"}
    BY <1>10 DEF qreadDone, CtlOK
  <2>2. rlock' \in {r, nil}
    BY <2>1 DEF CtlOK
  <2> QED BY <2>1, <2>2, <1>0, Alone
<1>11. ASSUME NEW r \in Reader, qbread(r) PROVE AwakeOK'
  <2>1. /\ pc[r] \in {"qwait", "copied"} /\ rlock' \in {rlock, nil}
        /\ pc'[r] \in {"copied", "wakeW", "idle"}
    BY <1>11 DEF qbread, Dequeue, CtlOK
  <2>2. rlock' \in {r, nil}
    BY <2>1 DEF CtlOK
  <2> QED BY <2>1, <2>2, <1>0, Alone
<1>12. ASSUME NEW a \in Agent, qproduce(a) PROVE AwakeOK'
  <2>1. /\ \E n \in use.writes : Enqueue(n)
        /\ Go(a, IF "Qstarve" \in qstate THEN "wakeR" ELSE "idle")
        /\ pc[a] = "idle" /\ UNCHANGED rr
    BY <1>12 DEF qproduce, Produce
  <2>2. a \in Actor /\ "idle" \in {"idle", "flow"}
    OBVIOUS
  <2> QED BY <2>1, <2>2, Filled
<1>13. ASSUME NEW a \in Agent, qproduceFull(a) PROVE AwakeOK'
  BY <1>13 DEF qproduceFull, AwakeOK, NoLostReader, Waking, notempty, Closed, CtlOK, ReaderAt, WriterAt, AgentAt
<1>14. ASSUME NEW a \in Agent, qpass(a) PROVE AwakeOK'
  <2>1. /\ \E n \in use.writes : Enqueue(n)
        /\ Go(a, IF "Qstarve" \in qstate THEN "wakeR" ELSE "idle")
        /\ pc[a] = "idle" /\ UNCHANGED rr
    BY <1>14 DEF qpass, Produce
  <2>2. a \in Actor /\ "idle" \in {"idle", "flow"}
    OBVIOUS
  <2> QED BY <2>1, <2>2, Filled
<1>15. ASSUME NEW a \in Agent, qpassnolim(a) PROVE AwakeOK'
  <2>1. /\ \E n \in use.writes : Enqueue(n)
        /\ Go(a, IF "Qstarve" \in qstate THEN "wakeR" ELSE "idle")
        /\ pc[a] = "idle" /\ UNCHANGED rr
    BY <1>15 DEF qpassnolim, Produce
  <2>2. a \in Actor /\ "idle" \in {"idle", "flow"}
    OBVIOUS
  <2> QED BY <2>1, <2>2, Filled
<1>16. ASSUME NEW a \in Agent, qiwrite(a) PROVE AwakeOK'
  <2>1. /\ \E n \in use.writes : Enqueue(n)
        /\ Go(a, IF "Qstarve" \in qstate THEN "wakeR" ELSE "idle")
        /\ pc[a] = "idle" /\ UNCHANGED rr
    BY <1>16 DEF qiwrite
  <2>2. a \in Actor /\ "idle" \in {"idle", "flow"}
    OBVIOUS
  <2> QED BY <2>1, <2>2, Filled
<1>17. ASSUME NEW a \in Agent, qget(a) PROVE AwakeOK'
  <2>1. "qread" \notin use.ops /\ UNCHANGED use
    BY <1>17, ReadOneWay DEF BufOK, qget, Starve
  <2> QED BY <2>1, <1>0, NobodyReads
<1>18. ASSUME NEW a \in Agent, qconsume(a) PROVE AwakeOK'
  <2>1. "qread" \notin use.ops /\ UNCHANGED use
    BY <1>18, ReadOneWay DEF BufOK, qconsume, Starve
  <2> QED BY <2>1, <1>0, NobodyReads
<1>19. ASSUME NEW a \in Agent, qdiscard(a) PROVE AwakeOK'
  <2>1. "qread" \notin use.ops /\ UNCHANGED use
    BY <1>19, ReadOneWay DEF BufOK, qdiscard, Starve
  <2> QED BY <2>1, <1>0, NobodyReads
<1>20. ASSUME NEW a \in Agent, qclose(a) PROVE AwakeOK'
  BY <1>20 DEF qclose, Empty, AwakeOK, NoLostReader, Waking, notempty, Closed, CtlOK, ReaderAt, WriterAt, AgentAt
<1>21. ASSUME NEW a \in Agent, qhangup(a) PROVE AwakeOK'
  BY <1>21 DEF qhangup, AwakeOK, NoLostReader, Waking, notempty, Closed, CtlOK, ReaderAt, WriterAt, AgentAt
<1>22. ASSUME NEW a \in Agent, qreopen(a) PROVE AwakeOK'
  BY <1>22 DEF qreopen, AwakeOK, NoLostReader, Waking, notempty, Closed, CtlOK, ReaderAt, WriterAt, AgentAt
<1>23. ASSUME NEW a \in Agent, qflush(a) PROVE AwakeOK'
  BY <1>23 DEF qflush, Empty, AwakeOK, NoLostReader, Waking, notempty, Closed, CtlOK, ReaderAt, WriterAt, AgentAt
<1>24. ASSUME NEW a \in Agent, qsetlimit(a) PROVE AwakeOK'
  BY <1>24 DEF qsetlimit, AwakeOK, NoLostReader, Waking, notempty, Closed, CtlOK, ReaderAt, WriterAt, AgentAt
<1>25. ASSUME NEW a \in Agent, qnoblock(a) PROVE AwakeOK'
  BY <1>25 DEF qnoblock, AwakeOK, NoLostReader, Waking, notempty, Closed, CtlOK, ReaderAt, WriterAt, AgentAt
<1>26. ASSUME NEW w \in Writer, qbwriteIntr(w) PROVE AwakeOK'
  BY <1>26 DEF qbwriteIntr, AwakeOK, NoLostReader, Waking, notempty, Closed, CtlOK, ReaderAt, WriterAt, AgentAt
<1>27. ASSUME NEW r \in Reader, qwaitIntr(r) PROVE AwakeOK'
  BY <1>27 DEF qwaitIntr, AwakeOK, NoLostReader, Waking, notempty, Closed, CtlOK, ReaderAt, WriterAt, AgentAt
<1>28. ASSUME NEW a \in Actor, wakeupR(a) PROVE AwakeOK'
  BY <1>28 DEF wakeupR, AfterWakeR, AwakeOK, NoLostReader, Waking, notempty, Closed, CtlOK, ReaderAt, WriterAt, AgentAt
<1>29. ASSUME NEW a \in Actor, wakeupW(a) PROVE AwakeOK'
  <2>1. /\ pc[a] = "wakeW" /\ UNCHANGED <<q, qstate, rr>>
        /\ \A b \in Actor : pc'[b] = IF b = a THEN "idle" ELSE IF b = wr THEN "flow" ELSE pc[b]
    BY <1>29 DEF wakeupW
  <2>2. \A b \in Actor : pc[b] \in {"wakeR", "wakeRW"} => b # a /\ b # wr
    BY <2>1 DEF CtlOK
  <2>3. \A r \in Reader : pc'[r] \in {"sleep", "asleep"} => pc[r] = pc'[r]
    BY <2>1 DEF CtlOK
  <2> QED BY <2>1, <2>2, <2>3 DEF AwakeOK, NoLostReader, Waking, notempty, Closed
<1>30. ASSUME UNCHANGED vars PROVE AwakeOK'
  <2>1. UNCHANGED <<pc, qstate, q, rr>>
    BY <1>30 DEF vars
  <2> QED BY <2>1 DEF AwakeOK, NoLostReader, Waking, notempty, Closed
<1> QED
  BY <1>1, <1>2, <1>3, <1>4, <1>5, <1>6, <1>7, <1>8, <1>9, <1>10, <1>11, <1>12, <1>13, <1>14, <1>15, <1>16, <1>17, <1>18, <1>19, <1>20, <1>21, <1>22, <1>23, <1>24, <1>25, <1>26, <1>27, <1>28, <1>29, <1>30
  DEF Next, WriterStep, ReaderStep, Interrupted, AgentStep

(* A reader is never asleep with something to read, or with the queue      *)
(* closed, and no wakeup(&q->rr) on its way: Qstarve, set under ilock      *)
(* before the reader sleeps and cleared by whoever queues a block, is      *)
(* never lost.                                                             *)
THEOREM ReaderWoken == Spec => []NoLostReader
<1>1. Init => AwakeOK
  BY ConstantsOK DEF Init, AwakeOK, NoLostReader
<1>2. IInv /\ AwakeOK /\ [Next]_vars => AwakeOK'
  BY AwakeStep
<1>3. AwakeOK => NoLostReader
  BY DEF AwakeOK
<1> QED BY <1>1, <1>2, <1>3, Inductive, PTL DEF Spec
-----------------------------------------------------------------------------
(* Messages stay whole, and blocks of length 0 come only from the writers. *)
BlocksOK ==
  /\ WholeMessages
  /\ 0 \notin use.writes => \A i \in 1..Len(q) : q[i] # <<>>

(* No new block, no block that was not written.                            *)
LEMMA BlocksInherit ==
  ASSUME BlocksOK, Inherits, UNCHANGED <<mode, msgs, use>>
  PROVE  BlocksOK'
BY DEF BlocksOK, WholeMessages, Inherits

(* The queue does not change.                                              *)
LEMMA BlocksKept ==
  ASSUME BlocksOK, UNCHANGED <<q, mode, msgs, use>>
  PROVE  BlocksOK'
BY DEF BlocksOK, WholeMessages

(* The queue becomes empty.                                                *)
LEMMA BlocksGone ==
  ASSUME BlocksOK, q' = <<>>, UNCHANGED <<mode, msgs, use>>
  PROVE  BlocksOK'
BY DEF BlocksOK, WholeMessages

(* The block that is put is one that was written.                          *)
LEMMA BlocksPut ==
  ASSUME BufOK, BlocksOK, \E n \in use.writes : Enqueue(n), UNCHANGED <<mode, use>>
  PROVE  BlocksOK'
<1>1. PICK n \in use.writes : Enqueue(n)
  OBVIOUS
<1> DEFINE b == [i \in 1..n |-> sent + i]
<1>2. q' = Append(q, b) /\ msgs' = Append(msgs, b)
  BY <1>1 DEF Enqueue
<1>3. n \in Nat /\ sent \in Nat
  BY ConstantsOK DEF BufOK
<1>4. b \in Seq(Nat) /\ Len(b) = n
  BY <1>3
<1> HIDE DEF b
<1>5. /\ q \in Seq(Seq(Nat)) /\ msgs \in Seq(Seq(Nat)) /\ Len(q) \in Nat /\ Len(msgs) \in Nat
  BY DEF BufOK
<1>6. \A i \in 1..Len(q') : q'[i] = b \/ (i \in 1..Len(q) /\ q'[i] = q[i])
  <2>1. /\ Len(q') = Len(q) + 1 /\ q'[Len(q) + 1] = b
        /\ \A i \in 1..Len(q) : q'[i] = q[i]
    BY <1>2, <1>4, <1>5, AppendProperties
  <2>2. \A i \in 1..(Len(q) + 1) : i \in 1..Len(q) \/ i = Len(q) + 1
    BY <1>5
  <2> QED BY <2>1, <2>2
<1>7. b \in ToSet(msgs') /\ ToSet(msgs) \subseteq ToSet(msgs')
  <2>1. /\ Len(msgs') = Len(msgs) + 1 /\ msgs'[Len(msgs) + 1] = b
        /\ msgs' \in Seq(Seq(Nat)) /\ \A i \in 1..Len(msgs) : msgs'[i] = msgs[i]
    BY <1>2, <1>4, <1>5, AppendProperties
  <2>2. DOMAIN msgs = 1..Len(msgs) /\ DOMAIN msgs' = 1..Len(msgs')
    BY <1>5, <2>1
  <2>3. Len(msgs) + 1 \in 1..Len(msgs') /\ 1..Len(msgs) \subseteq 1..Len(msgs')
    BY <1>5, <2>1
  <2> QED BY <2>1, <2>2, <2>3 DEF ToSet
<1>8. 0 \notin use.writes => b # <<>>
  BY <1>3, <1>4
<1> HIDE DEF ToSet
<1>9. WholeMessages'
  BY <1>6, <1>7 DEF BlocksOK, WholeMessages
<1> QED BY <1>6, <1>8, <1>9 DEF BlocksOK

(* Every step keeps BlocksOK.                                              *)
LEMMA BlocksStep ==
  ASSUME IInv, BlocksOK, [Next]_vars
  PROVE  BlocksOK'
<1> USE DEF IInv
<1>1. ASSUME NEW w \in Writer, qbwrite(w) PROVE BlocksOK'
  <2>1. UNCHANGED <<q, mode, msgs, use>>
    BY <1>1 DEF qbwrite
  <2> QED BY <2>1, BlocksKept
<1>2. ASSUME NEW w \in Writer, qbwriteBlock(w) PROVE BlocksOK'
  <2>0. UNCHANGED <<mode, use>>
    BY <1>2 DEF qbwriteBlock
  <2>1. CASE \E n \in use.writes : Enqueue(n)
    BY <2>0, <2>1, BlocksPut
  <2>2. CASE UNCHANGED <<q, msgs>>
    BY <2>0, <2>2, BlocksKept
  <2> QED BY <1>2, <2>1, <2>2 DEF qbwriteBlock
<1>3. ASSUME NEW w \in Writer, qbwriteTest(w) PROVE BlocksOK'
  <2>1. UNCHANGED <<q, mode, msgs, use>>
    BY <1>3 DEF qbwriteTest
  <2> QED BY <2>1, BlocksKept
<1>4. ASSUME NEW w \in Writer, qbwriteFlow(w) PROVE BlocksOK'
  <2>1. UNCHANGED <<q, mode, msgs, use>>
    BY <1>4 DEF qbwriteFlow
  <2> QED BY <2>1, BlocksKept
<1>5. ASSUME NEW w \in Writer, qbwriteSleep(w) PROVE BlocksOK'
  <2>1. UNCHANGED <<q, mode, msgs, use>>
    BY <1>5 DEF qbwriteSleep
  <2> QED BY <2>1, BlocksKept
<1>6. ASSUME NEW r \in Reader, qread(r) PROVE BlocksOK'
  <2>1. UNCHANGED <<q, mode, msgs, use>>
    BY <1>6 DEF qread
  <2> QED BY <2>1, BlocksKept
<1>7. ASSUME NEW r \in Reader, qwait(r) PROVE BlocksOK'
  <2>1. q' = <<>> /\ UNCHANGED <<mode, msgs, use>>
    BY <1>7 DEF qwait
  <2> QED BY <2>1, BlocksGone
<1>8. ASSUME NEW r \in Reader, qwaitSleep(r) PROVE BlocksOK'
  <2>1. UNCHANGED <<q, mode, msgs, use>>
    BY <1>8 DEF qwaitSleep
  <2> QED BY <2>1, BlocksKept
<1>9. ASSUME NEW r \in Reader, qreadRemove(r) PROVE BlocksOK'
  <2>1. UNCHANGED <<mode, msgs, use>>
    BY <1>9 DEF qreadRemove
  <2> QED BY <1>9, <2>1, qreadTakes, BlocksInherit
<1>10. ASSUME NEW r \in Reader, qreadDone(r) PROVE BlocksOK'
  <2>1. UNCHANGED <<mode, msgs, use>>
    BY <1>10 DEF qreadDone
  <2> QED BY <1>10, <2>1, qreadPuts, BlocksInherit
<1>11. ASSUME NEW r \in Reader, qbread(r) PROVE BlocksOK'
  <2>1. UNCHANGED <<mode, msgs, use>>
    BY <1>11 DEF qbread
  <2> QED BY <1>11, <2>1, qbreadHands, BlocksInherit
<1>12. ASSUME NEW a \in Agent, qproduce(a) PROVE BlocksOK'
  <2>1. (\E n \in use.writes : Enqueue(n)) /\ UNCHANGED <<mode, use>>
    BY <1>12 DEF qproduce, Produce
  <2> QED BY <2>1, BlocksPut
<1>13. ASSUME NEW a \in Agent, qproduceFull(a) PROVE BlocksOK'
  <2>1. UNCHANGED <<q, mode, msgs, use>>
    BY <1>13 DEF qproduceFull
  <2> QED BY <2>1, BlocksKept
<1>14. ASSUME NEW a \in Agent, qpass(a) PROVE BlocksOK'
  <2>1. (\E n \in use.writes : Enqueue(n)) /\ UNCHANGED <<mode, use>>
    BY <1>14 DEF qpass, Produce
  <2> QED BY <2>1, BlocksPut
<1>15. ASSUME NEW a \in Agent, qpassnolim(a) PROVE BlocksOK'
  <2>1. (\E n \in use.writes : Enqueue(n)) /\ UNCHANGED <<mode, use>>
    BY <1>15 DEF qpassnolim, Produce
  <2> QED BY <2>1, BlocksPut
<1>16. ASSUME NEW a \in Agent, qiwrite(a) PROVE BlocksOK'
  <2>1. (\E n \in use.writes : Enqueue(n)) /\ UNCHANGED <<mode, use>>
    BY <1>16 DEF qiwrite
  <2> QED BY <2>1, BlocksPut
<1>17. ASSUME NEW a \in Agent, qget(a) PROVE BlocksOK'
  <2>1. CASE q # <<>> /\ UNCHANGED <<mode, msgs, use>>
    BY <1>17, <2>1, qgetHands, BlocksInherit
  <2>2. CASE Starve(a)
    <3>1. q' = <<>> /\ UNCHANGED <<mode, msgs, use>>
      BY <2>2 DEF Starve
    <3> QED BY <3>1, BlocksGone
  <2> QED BY <1>17, <2>1, <2>2 DEF qget
<1>18. ASSUME NEW a \in Agent, qconsume(a) PROVE BlocksOK'
  <2>1. CASE Len(q) > Zeros /\ UNCHANGED <<mode, msgs, use>>
    BY <1>18, <2>1, qconsumeHands, BlocksInherit
  <2>2. CASE Starve(a)
    <3>1. q' = <<>> /\ UNCHANGED <<mode, msgs, use>>
      BY <2>2 DEF Starve
    <3> QED BY <3>1, BlocksGone
  <2> QED BY <1>18, <2>1, <2>2 DEF qconsume
<1>19. ASSUME NEW a \in Agent, qdiscard(a) PROVE BlocksOK'
  <2>1. UNCHANGED <<mode, msgs, use>>
    BY <1>19 DEF qdiscard
  <2> QED BY <1>19, <2>1, qdiscardHands, BlocksInherit
<1>20. ASSUME NEW a \in Agent, qclose(a) PROVE BlocksOK'
  <2>1. q' = <<>> /\ UNCHANGED <<mode, msgs, use>>
    BY <1>20 DEF qclose, Empty
  <2> QED BY <2>1, BlocksGone
<1>21. ASSUME NEW a \in Agent, qhangup(a) PROVE BlocksOK'
  <2>1. UNCHANGED <<q, mode, msgs, use>>
    BY <1>21 DEF qhangup
  <2> QED BY <2>1, BlocksKept
<1>22. ASSUME NEW a \in Agent, qreopen(a) PROVE BlocksOK'
  <2>1. UNCHANGED <<q, mode, msgs, use>>
    BY <1>22 DEF qreopen
  <2> QED BY <2>1, BlocksKept
<1>23. ASSUME NEW a \in Agent, qflush(a) PROVE BlocksOK'
  <2>1. q' = <<>> /\ UNCHANGED <<mode, msgs, use>>
    BY <1>23 DEF qflush, Empty
  <2> QED BY <2>1, BlocksGone
<1>24. ASSUME NEW a \in Agent, qsetlimit(a) PROVE BlocksOK'
  <2>1. UNCHANGED <<q, mode, msgs, use>>
    BY <1>24 DEF qsetlimit
  <2> QED BY <2>1, BlocksKept
<1>25. ASSUME NEW a \in Agent, qnoblock(a) PROVE BlocksOK'
  <2>1. UNCHANGED <<q, mode, msgs, use>>
    BY <1>25 DEF qnoblock
  <2> QED BY <2>1, BlocksKept
<1>26. ASSUME NEW w \in Writer, qbwriteIntr(w) PROVE BlocksOK'
  <2>1. UNCHANGED <<q, mode, msgs, use>>
    BY <1>26 DEF qbwriteIntr
  <2> QED BY <2>1, BlocksKept
<1>27. ASSUME NEW r \in Reader, qwaitIntr(r) PROVE BlocksOK'
  <2>1. UNCHANGED <<q, mode, msgs, use>>
    BY <1>27 DEF qwaitIntr
  <2> QED BY <2>1, BlocksKept
<1>28. ASSUME NEW a \in Actor, wakeupR(a) PROVE BlocksOK'
  <2>1. UNCHANGED <<q, mode, msgs, use>>
    BY <1>28 DEF wakeupR
  <2> QED BY <2>1, BlocksKept
<1>29. ASSUME NEW a \in Actor, wakeupW(a) PROVE BlocksOK'
  <2>1. UNCHANGED <<q, mode, msgs, use>>
    BY <1>29 DEF wakeupW
  <2> QED BY <2>1, BlocksKept
<1>30. ASSUME UNCHANGED vars PROVE BlocksOK'
  <2>1. UNCHANGED <<q, mode, msgs, use>>
    BY <1>30 DEF vars
  <2> QED BY <2>1, BlocksKept
<1> QED
  BY <1>1, <1>2, <1>3, <1>4, <1>5, <1>6, <1>7, <1>8, <1>9, <1>10, <1>11, <1>12, <1>13, <1>14, <1>15, <1>16, <1>17, <1>18, <1>19, <1>20, <1>21, <1>22, <1>23, <1>24, <1>25, <1>26, <1>27, <1>28, <1>29, <1>30
  DEF Next, WriterStep, ReaderStep, Interrupted, AgentStep

(* BlocksOK always holds.                                                  *)
LEMMA BlocksInv == Spec => []BlocksOK
<1>1. Init => BlocksOK
  BY DEF Init, BlocksOK, WholeMessages
<1>2. IInv /\ BlocksOK /\ [Next]_vars => BlocksOK'
  BY BlocksStep
<1> QED BY <1>1, <1>2, Inductive, PTL DEF Spec

(* Every block of a message queue is a message somebody wrote: no read,    *)
(* however short, and no interleaving leaves the rest of one to be taken   *)
(* for a message.                                                          *)
THEOREM MessagesWhole == Spec => []WholeMessages
<1>1. BlocksOK => WholeMessages
  BY DEF BlocksOK
<1> QED BY <1>1, BlocksInv, PTL
-----------------------------------------------------------------------------
(* When flow control restarts its writer: the limit is more than a block,  *)
(* and a queue that processes write to is not filled by drivers too, has a *)
(* limit that stays and, if empty blocks are written, no reader that       *)
(* throws them away without counting them (run qio_zero).                  *)
Restartable ==
  /\ inilim >= 2
  /\ \A u \in Uses : "qwrite" \in u.ops =>
       /\ u.ops \cap {"qiwrite", "qproduce", "qpass", "qpassnolim", "qsetlimit"} = {}
       /\ 0 \in u.writes => "qconsume" \notin u.ops /\ \A m \in u.modes : "Qcoalesce" \notin m

(* A writer on its way to sleep has set Qflow, or the queue is so far from *)
(* full that not even the block a reader may put back fills it; a sleeping *)
(* one has a wakeup on its way, or Qflow set and something to be read.     *)
FlowOK ==
  /\ wlock # nil => "qwrite" \in use.ops
  /\ "qwrite" \in use.ops => limit = inilim
  /\ \A w \in Writer : pc[w] = "sleep" =>
       "Qflow" \in qstate \/ (len < limit /\ (Waking({"copied"}) => len + 1 < limit))
  /\ wr # nil =>
       \/ Waking({"wakeRW", "wakeW"})
       \/ "Qflow" \in qstate /\ (q # <<>> \/ Waking({"copied"}))

(* Without writers nobody can be asleep for nothing.                       *)
LEMMA NobodyWrites ==
  ASSUME CtlOK', FlowOK, "qwrite" \notin use.ops, UNCHANGED <<use, wlock>>
  PROVE  FlowOK'
BY ConstantsOK DEF CtlOK, FlowOK

(* The writer with the lock is not asleep, and no other can be.            *)
LEMMA OneWriter ==
  ASSUME CtlOK', FlowOK, NEW w \in Writer, wlock' \in {w, nil}, pc'[w] \notin {"sleep", "asleep"},
         UNCHANGED <<use, limit>>, wlock' = nil \/ wlock' = wlock \/ "qwrite" \in use.ops
  PROVE  FlowOK'
BY ConstantsOK DEF CtlOK, FlowOK

(* A reader that goes to sleep or gives up does not matter to writers.     *)
LEMMA ReaderMoves ==
  ASSUME CtlOK, FlowOK, NEW r \in Reader, pc[r] \in {"idle", "sleep", "asleep"},
         \E there \in {"qwait", "asleep", "idle"} : Go(r, there),
         UNCHANGED <<qstate, q, len, limit, use, wr, wlock>>
  PROVE  FlowOK'
<1>1. /\ pc'[r] \in {"qwait", "asleep", "idle"} /\ \A b \in Actor : b # r => pc'[b] = pc[b]
  BY DEF CtlOK
<1>2. \A w \in Writer : pc'[w] = pc[w]
  BY <1>1, ConstantsOK
<1>3. Waking({"wakeRW", "wakeW"}) => Waking({"wakeRW", "wakeW"})'
  BY <1>1 DEF Waking
<1>4. Waking({"copied"}) <=> Waking({"copied"})'
  BY <1>1 DEF Waking
<1> QED BY <1>2, <1>3, <1>4 DEF FlowOK

(* qclose(), qhangup(), qflush(): a wakeup is on its way.                  *)
LEMMA Announced ==
  ASSUME CtlOK, BufOK, FlowOK, Restartable, NEW a \in Agent, pc[a] = "idle",
         pc'[a] \in {"wakeRW", "wakeW"}, \A b \in Actor : b # a => pc'[b] = pc[b],
         \/ len' = 0
         \/ len' = len /\ ("Qflow" \in qstate => "Qflow" \in qstate'),
         UNCHANGED <<use, limit, wr, wlock>>
  PROVE  FlowOK'
<1>1. Waking({"wakeRW", "wakeW"})'
  BY DEF Waking
<1>2. Waking({"copied"})' => Waking({"copied"})
  BY DEF Waking
<1>3. ASSUME NEW w \in Writer, pc'[w] = "sleep"
      PROVE  "Qflow" \in qstate' \/ (len' < limit' /\ (Waking({"copied"})' => len' + 1 < limit'))
  <2>1. pc[w] = "sleep" /\ w # a /\ wlock # nil
    BY <1>3, ConstantsOK DEF CtlOK
  <2>2. limit = inilim /\ inilim \in Nat /\ inilim >= 2
    BY <2>1, ConstantsOK DEF FlowOK, Restartable
  <2>3. CASE len' = 0
    BY <2>2, <2>3
  <2>4. CASE len' = len /\ ("Qflow" \in qstate => "Qflow" \in qstate')
    BY <1>2, <2>1, <2>4 DEF FlowOK
  <2> QED BY <2>3, <2>4
<1> QED BY <1>1, <1>3 DEF FlowOK

(* The operations that take blocks off restart the writer if the queue has *)
(* become half empty.                                                      *)
LEMMA Restarted ==
  ASSUME CtlOK, BufOK, BufOK', FlowOK, Restartable, "qwrite" \in use.ops,
         NEW a \in Reader \cup Agent, pc[a] \in {"idle", "qwait", "copied"},
         \A r \in Reader : pc[r] = "copied" => r = a,
         qstate' = IF Restarts(len') THEN qstate \ {"Qflow"} ELSE qstate,
         Go(a, IF Restarts(len') THEN "wakeW" ELSE "idle"),
         len' <= len \/ (pc[a] = "copied" /\ len' = len + 1),
         UNCHANGED <<use, limit, wlock, wr>>
  PROVE  FlowOK'
<1>1. limit = inilim /\ limit \in Nat /\ limit >= 2 /\ limit \div 2 >= 1 /\ limit \div 2 < limit
  BY ConstantsOK DEF FlowOK, Restartable
<1>2. len \in Nat /\ len' \in Nat /\ len' = Len(q') /\ q' \in Seq(Seq(Nat))
  BY DEF BufOK, Accounting
<1>3. /\ a \in Actor /\ pc'[a] = IF Restarts(len') THEN "wakeW" ELSE "idle"
      /\ \A b \in Actor : b # a => pc'[b] = pc[b]
  BY DEF CtlOK
<1>4. ~Waking({"copied"})'
  <2> SUFFICES ASSUME NEW b \in Actor, pc'[b] = "copied" PROVE FALSE
    BY DEF Waking
  <2>1. b # a /\ pc[b] = "copied"
    BY <1>3
  <2>2. b \in Reader
    BY <2>1 DEF CtlOK, WriterAt, AgentAt
  <2> QED BY <2>1, <2>2
<1>5. \A w \in Writer : pc'[w] = pc[w]
  BY <1>3, ConstantsOK
<1>6. pc[a] = "copied" => Waking({"copied"})
  BY <1>3 DEF Waking
<1>7. ASSUME NEW w \in Writer, pc'[w] = "sleep" PROVE "Qflow" \in qstate' \/ len' < limit
  <2>1. "Qflow" \in qstate \/ (len < limit /\ (Waking({"copied"}) => len + 1 < limit))
    BY <1>5, <1>7 DEF FlowOK
  <2>2. CASE Restarts(len')
    <3>1. len' < limit \div 2
      BY <2>2 DEF Restarts
    <3> QED BY <1>1, <1>2, <3>1
  <2>3. CASE ~Restarts(len')
    <3>1. qstate' = qstate
      BY <2>3
    <3> QED BY <1>1, <1>2, <1>6, <2>1, <3>1
  <2> QED BY <2>2, <2>3
<1>8. ASSUME wr # nil
      PROVE  Waking({"wakeRW", "wakeW"})' \/ ("Qflow" \in qstate' /\ q' # <<>>)
  <2>1. CASE Restarts(len')
    BY <1>3, <2>1 DEF Waking
  <2>2. CASE ~Restarts(len') /\ Waking({"wakeRW", "wakeW"})
    <3>1. PICK b \in Actor : pc[b] \in {"wakeRW", "wakeW"}
      BY <2>2 DEF Waking
    <3>2. pc'[b] = pc[b]
      BY <1>3, <3>1
    <3> QED BY <3>1, <3>2 DEF Waking
  <2>3. CASE ~Restarts(len') /\ ~Waking({"wakeRW", "wakeW"})
    <3>1. "Qflow" \in qstate /\ qstate' = qstate
      BY <1>8, <2>3 DEF FlowOK
    <3>2. ~(len' < limit \div 2)
      BY <2>3, <3>1 DEF Restarts
    <3>3. Len(q') # 0
      BY <1>1, <1>2, <3>2
    <3> QED BY <1>2, <3>1, <3>3
  <2> QED BY <2>1, <2>2, <2>3
<1> QED BY <1>4, <1>7, <1>8 DEF FlowOK

(* qget() and qconsume() of an empty queue.                                *)
LEMMA Starved ==
  ASSUME CtlOK, BufOK, FlowOK, NEW a, Starve(a), q = <<>>, \A r \in Reader : pc[r] # "copied"
  PROVE  FlowOK'
<1>1. /\ q' = q /\ qstate' = qstate \cup {"Qstarve"} /\ len' = len
      /\ UNCHANGED <<use, limit, wlock, wr, pc>>
  BY DEF Starve, BufOK, Accounting
<1> QED BY <1>1 DEF FlowOK, Waking

(* Without empty blocks there is none to skip.                             *)
LEMMA ZerosNone ==
  ASSUME q \in Seq(Seq(Nat)), \A i \in 1..Len(q) : q[i] # <<>>
  PROVE  Zeros = 0 /\ (Len(q) = Zeros => q = <<>>)
<1> DEFINE T == {i \in 1..(Len(q) + 1) : i <= Len(q) => q[i] # <<>>}
<1>0. Len(q) \in Nat
  OBVIOUS
<1>1. 1 \in T /\ T \subseteq 1..(Len(q) + 1)
  BY <1>0
<1>2. T \subseteq Nat /\ T # {}
  <2>1. 1..(Len(q) + 1) \subseteq Nat
    BY <1>0
  <2> QED BY <1>1, <2>1
<1>3. Min(T) \in T /\ \A y \in T : Min(T) <= y
  BY <1>2, MinIn
<1>4. Min(T) \in 1..(Len(q) + 1) /\ Min(T) <= 1
  <2> HIDE DEF T
  <2> QED BY <1>1, <1>3
<1>5. Min(T) = 1
  BY <1>0, <1>4
<1>6. Zeros = 0
  BY <1>5 DEF Zeros
<1> QED BY <1>6

(* Without empty blocks qwait() that skips all finds the queue empty.      *)
LEMMA NoneSkipped ==
  ASSUME BufOK, BlocksOK, Restartable, "qwrite" \in use.ops, Len(q) = Skipped
  PROVE  q = <<>> /\ Skipped = 0
<1>0. q \in Seq(Seq(Nat))
  BY DEF BufOK
<1>1. CASE "Qcoalesce" \in mode
  <2>1. 0 \notin use.writes
    BY <1>1 DEF Restartable, BufOK
  <2>2. \A i \in 1..Len(q) : q[i] # <<>>
    BY <2>1 DEF BlocksOK
  <2>3. Zeros = 0 /\ (Len(q) = Zeros => q = <<>>)
    BY <1>0, <2>2, ZerosNone
  <2> QED BY <1>1, <2>3 DEF Skipped
<1>2. CASE "Qcoalesce" \notin mode
  <2>1. Skipped = 0
    BY <1>2 DEF Skipped
  <2> QED BY <1>0, <2>1
<1> QED BY <1>1, <1>2

(* qread() makes the queue shorter by a byte at least.                     *)
LEMMA RemovesOne ==
  ASSUME BufOK, BufOK', NEW r, qreadRemove(r)
  PROVE  len \in Nat /\ len' \in Nat /\ len' + 1 <= len
<1>0. q \in Seq(Seq(Nat)) /\ len = Len(q)
  BY DEF BufOK, Accounting
<1>1. Skipped \in 0..Len(q) /\ After(q, Skipped) \in Seq(Seq(Nat)) /\ Len(After(q, Skipped)) = Len(q) - Skipped
  BY <1>0, SkippedAre
<1>2. PICK n : len' = len - Skipped - Taken(After(q, Skipped), n)
  BY Zenon DEF qreadRemove
<1>3. Len(q) \in Nat /\ Len(q) > Skipped
  BY <1>0 DEF qreadRemove
<1>4. After(q, Skipped) # <<>>
  <2> DEFINE s == After(q, Skipped)
  <2>1. Len(s) = Len(q) - Skipped
    BY <1>1
  <2> HIDE DEF s
  <2>2. Len(s) > 0
    BY <1>1, <1>3, <2>1
  <2>3. s # <<>>
    BY <2>2
  <2> QED BY <2>3 DEF s
<1> DEFINE k == Taken(After(q, Skipped), n)
<1>5. k \in 1..Len(After(q, Skipped))
  BY <1>1, <1>4, TakenIn
<1> HIDE DEF k
<1>6. k \in Nat /\ k >= 1
  BY <1>1, <1>3, <1>5
<1>7. len' \in Nat
  BY DEF BufOK, Accounting
<1>8. len' = len - Skipped - k
  BY <1>2 DEF k
<1> QED BY <1>0, <1>1, <1>3, <1>6, <1>7, <1>8

(* A block taken from a queue below its limit.                             *)
LEMMA OneLess ==
  \A x, y, z \in Nat : y + 1 <= x /\ x < z => y < z /\ y + 1 < z
OBVIOUS

(* Every step keeps FlowOK.                                                *)
LEMMA FlowStep ==
  ASSUME Restartable, IInv, BlocksOK, FlowOK, [Next]_vars
  PROVE  FlowOK'
<1> USE ConstantsOK DEF IInv
<1>0. CtlOK'
  BY CtlStep
<1>a. BufOK'
  BY BufStep
<1>1. ASSUME NEW w \in Writer, qbwrite(w) PROVE FlowOK'
  <2>1. /\ wlock \in {w, nil} /\ wlock' \in {w, nil} /\ pc'[w] \notin {"sleep", "asleep"}
        /\ UNCHANGED <<use, limit>> /\ (wlock' = nil \/ wlock' = wlock \/ "qwrite" \in use.ops)
    BY <1>1 DEF qbwrite, CtlOK
  <2> QED BY <2>1, <1>0, OneWriter
<1>2. ASSUME NEW w \in Writer, qbwriteBlock(w) PROVE FlowOK'
  <2>1. /\ wlock \in {w, nil} /\ wlock' \in {w, nil} /\ pc'[w] \notin {"sleep", "asleep"}
        /\ UNCHANGED <<use, limit>> /\ (wlock' = nil \/ wlock' = wlock \/ "qwrite" \in use.ops)
    BY <1>2 DEF qbwriteBlock, CtlOK
  <2> QED BY <2>1, <1>0, OneWriter
<1>3. ASSUME NEW w \in Writer, qbwriteTest(w) PROVE FlowOK'
  <2>1. /\ wlock \in {w, nil} /\ wlock' \in {w, nil} /\ pc'[w] \notin {"sleep", "asleep"}
        /\ UNCHANGED <<use, limit>> /\ (wlock' = nil \/ wlock' = wlock \/ "qwrite" \in use.ops)
    BY <1>3 DEF qbwriteTest, CtlOK
  <2> QED BY <2>1, <1>0, OneWriter
<1>4. ASSUME NEW w \in Writer, qbwriteFlow(w) PROVE FlowOK'
  BY <1>4 DEF qbwriteFlow, FlowOK, Waking, Closed, qnotfull, CtlOK, ReaderAt, WriterAt, AgentAt
<1>5. ASSUME NEW w \in Writer, qbwriteSleep(w) PROVE FlowOK'
  <2>0. /\ UNCHANGED <<qstate, q, len, limit, use, wlock>> /\ pc[w] = "sleep" /\ wlock = w
        /\ \A x \in Writer : x # w => pc[x] = "idle"
    BY <1>5 DEF qbwriteSleep, CtlOK
  <2>1. CASE Go(w, "flow") /\ UNCHANGED wr
    <3>1. wlock' \in {w, nil} /\ pc'[w] \notin {"sleep", "asleep"}
      BY <2>0, <2>1 DEF CtlOK
    <3> QED BY <1>0, <2>0, <3>1, OneWriter
  <2>2. CASE ~qnotfull /\ wr' = w /\ Go(w, "asleep")
    <3>1. limit \in Nat /\ limit >= 2 /\ len \in Nat /\ len = Len(q)
      BY <2>0 DEF FlowOK, Restartable, BufOK, Accounting
    <3>2. len >= limit
      BY <2>2, <3>1 DEF qnotfull
    <3>3. "Qflow" \in qstate
      BY <2>0, <3>1, <3>2 DEF FlowOK
    <3>4. Len(q) # 0
      BY <3>1, <3>2
    <3>5. q # <<>>
      BY <3>4
    <3>6. \A x \in Writer : pc'[x] # "sleep"
      BY <2>0, <2>2 DEF CtlOK
    <3> QED BY <2>0, <3>3, <3>5, <3>6 DEF FlowOK
  <2> QED BY <1>5, <2>1, <2>2 DEF qbwriteSleep
<1>6. ASSUME NEW r \in Reader, qread(r) PROVE FlowOK'
  <2>1. UNCHANGED <<qstate, q, len, limit, use, wr, wlock>> /\ pc[r] \in {"idle", "sleep", "asleep"}
    BY <1>6 DEF qread
  <2>2. \E there \in {"qwait", "asleep", "idle"} : Go(r, there)
    BY <1>6 DEF qread
  <2> QED BY <2>1, <2>2, ReaderMoves
<1>7. ASSUME NEW r \in Reader, qwait(r) PROVE FlowOK'
  <2>0. UNCHANGED <<use, wlock, limit, wr>> /\ pc[r] = "qwait"
    BY <1>7 DEF qwait
  <2>1. CASE "qwrite" \notin use.ops
    BY <2>0, <2>1, <1>0, NobodyWrites
  <2>2. CASE "qwrite" \in use.ops
    <3>1. q = <<>> /\ Skipped = 0
      BY <1>7, <2>2, NoneSkipped DEF qwait
    <3>2. /\ Go(r, "idle") \/ Go(r, "sleep") 
          /\ qstate' = qstate \/ qstate' = qstate \cup {"Qstarve"}
          /\ len' = len - Skipped /\ q' = <<>>
      BY <1>7 DEF qwait
    <3>3. len \in Nat /\ len' = len
      BY <3>1, <3>2 DEF BufOK, Accounting
    <3>4. \A x \in Reader : pc[x] # "copied"
      BY <2>0 DEF CtlOK
    <3>5. ~Waking({"copied"}) /\ ~Waking({"copied"})'
      BY <2>0, <3>2, <3>4 DEF Waking, CtlOK, WriterAt, AgentAt
    <3>6. Waking({"wakeRW", "wakeW"}) => Waking({"wakeRW", "wakeW"})'
      BY <2>0, <3>2 DEF Waking, CtlOK
    <3>7. \A w \in Writer : pc'[w] = pc[w]
      BY <3>2 DEF CtlOK
    <3> QED BY <2>0, <3>1, <3>2, <3>3, <3>5, <3>6, <3>7 DEF FlowOK
  <2> QED BY <2>1, <2>2
<1>8. ASSUME NEW r \in Reader, qwaitSleep(r) PROVE FlowOK'
  <2>1. UNCHANGED <<qstate, q, len, limit, use, wr, wlock>> /\ pc[r] \in {"idle", "sleep", "asleep"}
    BY <1>8 DEF qwaitSleep
  <2>2. \E there \in {"qwait", "asleep", "idle"} : Go(r, there)
    BY <1>8 DEF qwaitSleep
  <2> QED BY <2>1, <2>2, ReaderMoves
<1>9. ASSUME NEW r \in Reader, qreadRemove(r) PROVE FlowOK'
  <2>0. /\ UNCHANGED <<use, wlock, limit, wr, qstate>> /\ pc[r] = "qwait"
        /\ Go(r, "copied")
    BY <1>9 DEF qreadRemove
  <2>1. len \in Nat /\ len' \in Nat /\ len' + 1 <= len
    BY <1>9, <1>a, RemovesOne
  <2>2. pc'[r] = "copied" /\ \A b \in Actor : b # r => pc'[b] = pc[b]
    BY <2>0 DEF CtlOK
  <2>3. Waking({"copied"})'
    BY <2>2 DEF Waking
  <2>4. Waking({"wakeRW", "wakeW"}) => Waking({"wakeRW", "wakeW"})'
    BY <2>0, <2>2 DEF Waking
  <2>5. ASSUME NEW w \in Writer, pc'[w] = "sleep"
        PROVE  "Qflow" \in qstate' \/ (len' < limit' /\ (Waking({"copied"})' => len' + 1 < limit'))
    <3>1. pc[w] = "sleep"
      BY <2>2, <2>5
    <3>2. limit \in Nat
      BY DEF BufOK
    <3>3. "Qflow" \in qstate \/ len < limit
      BY <3>1 DEF FlowOK
    <3>4. len < limit => len' < limit /\ len' + 1 < limit
      BY <2>1, <3>2, OneLess
    <3>5. limit' = limit /\ qstate' = qstate
      BY <2>0
    <3> QED BY <3>3, <3>4, <3>5
  <2> QED BY <2>0, <2>3, <2>4, <2>5 DEF FlowOK
<1>10. ASSUME NEW r \in Reader, qreadDone(r) PROVE FlowOK'
  <2>0. UNCHANGED <<use, wlock, limit, wr>> /\ pc[r] = "copied"
    BY <1>10 DEF qreadDone
  <2>1. CASE "qwrite" \notin use.ops
    BY <2>0, <2>1, <1>0, NobodyWrites
  <2>2. CASE "qwrite" \in use.ops
    <3>1. \A x \in Reader : pc[x] = "copied" => x = r
      BY <2>0 DEF CtlOK
    <3>2. /\ qstate' = IF Restarts(len') THEN qstate \ {"Qflow"} ELSE qstate
          /\ Go(r, IF Restarts(len') THEN "wakeW" ELSE "idle")
          /\ len' = len + 1 \/ len' = len
      BY <1>10 DEF qreadDone
    <3>3. len \in Nat
      BY DEF BufOK, Accounting
    <3>4. len' <= len \/ len' = len + 1
      BY <3>2, <3>3
    <3> QED BY <1>a, <2>0, <2>2, <3>1, <3>2, <3>4, Restarted
  <2> QED BY <2>1, <2>2
<1>11. ASSUME NEW r \in Reader, qbread(r) PROVE FlowOK'
  <2>0. UNCHANGED <<use, wlock, limit, wr>> /\ pc[r] = "qwait"
    BY <1>11 DEF qbread
  <2>1. CASE "qwrite" \notin use.ops
    BY <2>0, <2>1, <1>0, NobodyWrites
  <2>2. CASE "qwrite" \in use.ops
    <3>1. \A x \in Reader : pc[x] = "copied" => x = r
      BY <2>0 DEF CtlOK
    <3>2. /\ qstate' = IF Restarts(len') THEN qstate \ {"Qflow"} ELSE qstate
          /\ Go(r, IF Restarts(len') THEN "wakeW" ELSE "idle")
          /\ len' = len - 0 \/ len' = len - 1
      BY <1>11 DEF qbread, Dequeue
    <3>3. len \in Nat /\ len' \in Nat
      <4>1. len = Len(q) /\ len' = Len(q') /\ q \in Seq(Seq(Nat)) /\ q' \in Seq(Seq(Nat))
        BY <1>a DEF BufOK, Accounting
      <4> QED BY <4>1, LenProperties
    <3>4. len' <= len
      BY <3>2, <3>3
    <3> QED BY <1>a, <2>0, <2>2, <3>1, <3>2, <3>4, Restarted
  <2> QED BY <2>1, <2>2
<1>12. ASSUME NEW a \in Agent, qproduce(a) PROVE FlowOK'
  <2>1. "qproduce" \in use.ops /\ UNCHANGED <<use, wlock>>
    BY <1>12 DEF qproduce, Produce
  <2>2. "qwrite" \notin use.ops
    BY <2>1 DEF Restartable, BufOK
  <2> QED BY <2>1, <2>2, <1>0, NobodyWrites
<1>13. ASSUME NEW a \in Agent, qproduceFull(a) PROVE FlowOK'
  <2>1. "qproduce" \in use.ops /\ UNCHANGED <<use, wlock>>
    BY <1>13 DEF qproduceFull
  <2>2. "qwrite" \notin use.ops
    BY <2>1 DEF Restartable, BufOK
  <2> QED BY <2>1, <2>2, <1>0, NobodyWrites
<1>14. ASSUME NEW a \in Agent, qpass(a) PROVE FlowOK'
  <2>1. "qpass" \in use.ops /\ UNCHANGED <<use, wlock>>
    BY <1>14 DEF qpass, Produce
  <2>2. "qwrite" \notin use.ops
    BY <2>1 DEF Restartable, BufOK
  <2> QED BY <2>1, <2>2, <1>0, NobodyWrites
<1>15. ASSUME NEW a \in Agent, qpassnolim(a) PROVE FlowOK'
  <2>1. "qpassnolim" \in use.ops /\ UNCHANGED <<use, wlock>>
    BY <1>15 DEF qpassnolim, Produce
  <2>2. "qwrite" \notin use.ops
    BY <2>1 DEF Restartable, BufOK
  <2> QED BY <2>1, <2>2, <1>0, NobodyWrites
<1>16. ASSUME NEW a \in Agent, qiwrite(a) PROVE FlowOK'
  <2>1. "qiwrite" \in use.ops /\ UNCHANGED <<use, wlock>>
    BY <1>16 DEF qiwrite
  <2>2. "qwrite" \notin use.ops
    BY <2>1 DEF Restartable, BufOK
  <2> QED BY <2>1, <2>2, <1>0, NobodyWrites
<1>17. ASSUME NEW a \in Agent, qget(a) PROVE FlowOK'
  <2>0. UNCHANGED <<use, wlock, limit, wr>> /\ pc[a] = "idle" /\ "qread" \notin use.ops
    BY <1>17, ReadOneWay DEF qget, Starve, BufOK
  <2>1. CASE "qwrite" \notin use.ops
    BY <2>0, <2>1, <1>0, NobodyWrites
  <2>2. CASE "qwrite" \in use.ops
    <3>1. \A r \in Reader : pc[r] # "copied"
      BY <2>0 DEF CtlOK
    <3>2. ASSUME NEW s, NEW k \in Nat, NEW n, Dequeue(a, s, k, n, "idle")
          PROVE  FlowOK'
      <4>1. len' = len - k /\ len \in Nat /\ len' \in Nat
        BY <3>2, <1>a DEF Dequeue, BufOK, Accounting
      <4>2. len' <= len
        BY <4>1
      <4>3. /\ qstate' = IF Restarts(len') THEN qstate \ {"Qflow"} ELSE qstate
            /\ Go(a, IF Restarts(len') THEN "wakeW" ELSE "idle")
        BY <3>2, <4>1 DEF Dequeue
      <4> QED BY <1>a, <2>0, <2>2, <3>1, <4>2, <4>3, Restarted
    <3>3. CASE q = <<>> /\ Starve(a)
      BY <2>0, <3>1, <3>3, Starved
    <3>4. CASE Dequeue(a, Tail(q), 1, Len(Head(q)), "idle")
      BY <3>2, <3>4
    <3> QED BY <1>17, <3>3, <3>4 DEF qget
  <2> QED BY <2>1, <2>2
<1>18. ASSUME NEW a \in Agent, qconsume(a) PROVE FlowOK'
  <2>0. UNCHANGED <<use, wlock, limit, wr>> /\ pc[a] = "idle" /\ "qread" \notin use.ops
    BY <1>18, ReadOneWay DEF qconsume, Starve, BufOK
  <2>1. CASE "qwrite" \notin use.ops
    BY <2>0, <2>1, <1>0, NobodyWrites
  <2>2. CASE "qwrite" \in use.ops
    <3>1. \A r \in Reader : pc[r] # "copied"
      BY <2>0 DEF CtlOK
    <3>2. ASSUME NEW s, NEW k \in Nat, NEW n, Dequeue(a, s, k, n, "idle")
          PROVE  FlowOK'
      <4>1. len' = len - k /\ len \in Nat /\ len' \in Nat
        BY <3>2, <1>a DEF Dequeue, BufOK, Accounting
      <4>2. len' <= len
        BY <4>1
      <4>3. /\ qstate' = IF Restarts(len') THEN qstate \ {"Qflow"} ELSE qstate
            /\ Go(a, IF Restarts(len') THEN "wakeW" ELSE "idle")
        BY <3>2, <4>1 DEF Dequeue
      <4> QED BY <1>a, <2>0, <2>2, <3>1, <4>2, <4>3, Restarted
    <3>3. CASE Len(q) = Zeros /\ Starve(a)
      <4>1. 0 \notin use.writes
        BY <1>18, <2>2 DEF qconsume, BufOK, Restartable
      <4>2. q = <<>>
        BY <3>3, <4>1, ZerosNone DEF BlocksOK, BufOK
      <4> QED BY <2>0, <3>1, <3>3, <4>2, Starved
    <3>4. CASE Len(q) > Zeros
      <4>1. PICK n \in use.reads :
              LET s == After(q, Zeros)
                  b == Head(s)
                  whole == n >= Len(b) \/ "Qmsg" \in mode
              IN  Dequeue(a, IF whole THEN Tail(s) ELSE <<After(b, n)>> \o Tail(s),
                          IF whole THEN Zeros + 1 ELSE Zeros, IF whole THEN Len(b) ELSE n, "idle")
        <5> HIDE DEF Go, Calls, buf, conf, locks, sleepers, copy, written, Actor
        <5>1. Len(q) # Zeros
          BY <3>4, ZerosAre DEF BufOK
        <5> QED BY <1>18, <3>4, <5>1, Zenon DEF qconsume
      <4>2. Zeros \in Nat /\ Zeros + 1 \in Nat
        <5>1. Zeros \in 0..Len(q) /\ Len(q) \in Nat
          BY ZerosAre, LenProperties DEF BufOK
        <5> QED BY <5>1
      <4>3. PICK k \in Nat : \E s, m : Dequeue(a, s, k, m, "idle")
        BY <4>1, <4>2, Zenon
      <4>4. PICK s, m : Dequeue(a, s, k, m, "idle")
        BY <4>3
      <4> QED BY <3>2, <4>3, <4>4
    <3> QED BY <1>18, <3>3, <3>4 DEF qconsume
  <2> QED BY <2>1, <2>2
<1>19. ASSUME NEW a \in Agent, qdiscard(a) PROVE FlowOK'
  <2>0. UNCHANGED <<use, wlock, limit, wr>> /\ pc[a] = "idle" /\ "qread" \notin use.ops
    BY <1>19, ReadOneWay DEF qdiscard, Starve, BufOK
  <2>1. CASE "qwrite" \notin use.ops
    BY <2>0, <2>1, <1>0, NobodyWrites
  <2>2. CASE "qwrite" \in use.ops
    <3>1. \A r \in Reader : pc[r] # "copied"
      BY <2>0 DEF CtlOK
    <3>2. ASSUME NEW s, NEW k \in Nat, NEW n, Dequeue(a, s, k, n, "idle")
          PROVE  FlowOK'
      <4>1. len' = len - k /\ len \in Nat /\ len' \in Nat
        BY <3>2, <1>a DEF Dequeue, BufOK, Accounting
      <4>2. len' <= len
        BY <4>1
      <4>3. /\ qstate' = IF Restarts(len') THEN qstate \ {"Qflow"} ELSE qstate
            /\ Go(a, IF Restarts(len') THEN "wakeW" ELSE "idle")
        BY <3>2, <4>1 DEF Dequeue
      <4> QED BY <1>a, <2>0, <2>2, <3>1, <4>2, <4>3, Restarted
    <3>3. PICK n \in use.reads :
            LET k == Cardinality({i \in 1..Len(q) : Until(i - 1) < n /\ Until(i) <= n})
                s == After(q, k)
                m == Min({n, dlen})
            IN  Dequeue(a, IF s # <<>> /\ Until(k) < m THEN <<After(Head(s), m - Until(k))>> \o Tail(s)
                           ELSE s, k, m, "idle")
      BY <1>19, Zenon DEF qdiscard, Until
    <3> DEFINE k == Cardinality({i \in 1..Len(q) : Until(i - 1) < n /\ Until(i) <= n})
    <3>4. \E s, m : Dequeue(a, s, k, m, "idle")
      BY <3>3, Zenon
    <3>5. k \in 0..Len(q)
      <4>1. n \in Nat /\ n > 0 /\ q \in Seq(Seq(Nat))
        BY ReadsPositive DEF BufOK
      <4> QED BY <4>1, Discarded
    <3> HIDE DEF k
    <3>6. k \in Nat
      BY <3>5 DEF BufOK
    <3> QED BY <3>2, <3>4, <3>6
  <2> QED BY <2>1, <2>2
<1>20. ASSUME NEW a \in Agent, qclose(a) PROVE FlowOK'
  <2>1. /\ Go(a, "wakeRW") /\ UNCHANGED <<use, limit, wr, wlock>> /\ pc[a] = "idle"
    BY <1>20 DEF qclose
  <2>2. \/ len' = 0
        \/ len' = len /\ ("Qflow" \in qstate => "Qflow" \in qstate')
    BY <1>20 DEF qclose, Empty
  <2>3. pc'[a] = "wakeRW" /\ \A b \in Actor : b # a => pc'[b] = pc[b]
    BY <2>1 DEF CtlOK
  <2> QED BY <2>1, <2>2, <2>3, Announced
<1>21. ASSUME NEW a \in Agent, qhangup(a) PROVE FlowOK'
  <2>1. /\ Go(a, "wakeRW") /\ UNCHANGED <<use, limit, wr, wlock>> /\ pc[a] = "idle"
    BY <1>21 DEF qhangup
  <2>2. \/ len' = 0
        \/ len' = len /\ ("Qflow" \in qstate => "Qflow" \in qstate')
    BY <1>21 DEF qhangup
  <2>3. pc'[a] = "wakeRW" /\ \A b \in Actor : b # a => pc'[b] = pc[b]
    BY <2>1 DEF CtlOK
  <2> QED BY <2>1, <2>2, <2>3, Announced
<1>22. ASSUME NEW a \in Agent, qreopen(a) PROVE FlowOK'
  BY <1>22 DEF qreopen, FlowOK, Waking, Closed, qnotfull, CtlOK, ReaderAt, WriterAt, AgentAt
<1>23. ASSUME NEW a \in Agent, qflush(a) PROVE FlowOK'
  <2>1. /\ Go(a, "wakeW") /\ UNCHANGED <<use, limit, wr, wlock>> /\ pc[a] = "idle"
    BY <1>23 DEF qflush
  <2>2. \/ len' = 0
        \/ len' = len /\ ("Qflow" \in qstate => "Qflow" \in qstate')
    BY <1>23 DEF qflush, Empty
  <2>3. pc'[a] = "wakeW" /\ \A b \in Actor : b # a => pc'[b] = pc[b]
    BY <2>1 DEF CtlOK
  <2> QED BY <2>1, <2>2, <2>3, Announced
<1>24. ASSUME NEW a \in Agent, qsetlimit(a) PROVE FlowOK'
  <2>1. "qsetlimit" \in use.ops /\ UNCHANGED <<use, wlock>>
    BY <1>24 DEF qsetlimit
  <2>2. "qwrite" \notin use.ops
    BY <2>1 DEF Restartable, BufOK
  <2> QED BY <2>1, <2>2, <1>0, NobodyWrites
<1>25. ASSUME NEW a \in Agent, qnoblock(a) PROVE FlowOK'
  <2>1. UNCHANGED <<pc, qstate, q, len, limit, use, wr, wlock>>
    BY <1>25 DEF qnoblock
  <2> QED BY <2>1 DEF FlowOK, Waking
<1>26. ASSUME NEW w \in Writer, qbwriteIntr(w) PROVE FlowOK'
  <2>1. /\ wlock \in {w, nil} /\ wlock' \in {w, nil} /\ pc'[w] \notin {"sleep", "asleep"}
        /\ UNCHANGED <<use, limit>> /\ (wlock' = nil \/ wlock' = wlock \/ "qwrite" \in use.ops)
    BY <1>26 DEF qbwriteIntr, CtlOK
  <2> QED BY <2>1, <1>0, OneWriter
<1>27. ASSUME NEW r \in Reader, qwaitIntr(r) PROVE FlowOK'
  <2>1. UNCHANGED <<qstate, q, len, limit, use, wr, wlock>> /\ pc[r] \in {"idle", "sleep", "asleep"}
    BY <1>27 DEF qwaitIntr
  <2>2. \E there \in {"qwait", "asleep", "idle"} : Go(r, there)
    BY <1>27 DEF qwaitIntr
  <2> QED BY <2>1, <2>2, ReaderMoves
<1>28. ASSUME NEW a \in Actor, wakeupR(a) PROVE FlowOK'
  <2>1. /\ pc[a] \in {"wakeR", "wakeRW"} /\ UNCHANGED <<qstate, q, len, limit, use, wr, wlock>>
        /\ \A b \in Actor : pc'[b] = IF b = a THEN AfterWakeR(a) ELSE IF b = rr THEN "qwait" ELSE pc[b]
    BY <1>28 DEF wakeupR
  <2>2. pc'[a] \in {"flow", "idle", "wakeW"} /\ (pc[a] = "wakeRW" => pc'[a] = "wakeW")
    BY <2>1 DEF AfterWakeR, CtlOK, WriterAt
  <2>3. \A w \in Writer : pc'[w] = "sleep" => pc[w] = "sleep"
    BY <2>1, <2>2 DEF CtlOK
  <2>4. \A b \in Actor : b # a => pc'[b] = pc[b] \/ (pc[b] = "asleep" /\ pc'[b] = "qwait")
    BY <2>1 DEF CtlOK
  <2>5. Waking({"copied"})' <=> Waking({"copied"})
    BY <2>1, <2>2, <2>4 DEF Waking
  <2>6. Waking({"wakeRW", "wakeW"}) => Waking({"wakeRW", "wakeW"})'
    BY <2>1, <2>2, <2>4 DEF Waking
  <2> QED BY <2>1, <2>3, <2>5, <2>6 DEF FlowOK
<1>29. ASSUME NEW a \in Actor, wakeupW(a) PROVE FlowOK'
  BY <1>29 DEF wakeupW, FlowOK, Waking, Closed, qnotfull, CtlOK, ReaderAt, WriterAt, AgentAt
<1>30. ASSUME UNCHANGED vars PROVE FlowOK'
  <2>1. UNCHANGED <<pc, qstate, q, len, limit, use, wr, wlock>>
    BY <1>30 DEF vars
  <2> QED BY <2>1 DEF FlowOK, Waking
<1> QED
  BY <1>1, <1>2, <1>3, <1>4, <1>5, <1>6, <1>7, <1>8, <1>9, <1>10, <1>11, <1>12, <1>13, <1>14, <1>15, <1>16, <1>17, <1>18, <1>19, <1>20, <1>21, <1>22, <1>23, <1>24, <1>25, <1>26, <1>27, <1>28, <1>29, <1>30
  DEF Next, WriterStep, ReaderStep, Interrupted, AgentStep

(* Under these conditions no writer is left asleep before an empty queue:  *)
(* Qflow, set under ilock before it sleeps, is still set when the queue    *)
(* drains, although the test for a full queue and the reader's copy are    *)
(* made outside the lock.                                                  *)
THEOREM WriterRestarted == ASSUME Restartable PROVE Spec => []NoStall
<1>1. Init => FlowOK
  BY ConstantsOK DEF Init, FlowOK
<1>2. IInv /\ BlocksOK /\ FlowOK /\ [Next]_vars => FlowOK'
  BY FlowStep
<1>3. FlowOK => NoStall
  BY DEF FlowOK, NoStall, Waking
<1> QED BY <1>1, <1>2, <1>3, Inductive, BlocksInv, PTL DEF Spec
=============================================================================
