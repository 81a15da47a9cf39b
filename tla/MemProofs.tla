------------------------------ MODULE MemProofs ------------------------------
(***************************************************************************)
(* Virtual memory: the counts are exact, page tables and maps agree, and a *)
(* page that is written is in one segment only.                            *)
(*                                                                         *)
(* The invariant has two parts.  Basic holds whatever may happen: each     *)
(* step changes the map in places at one address, or in one segment, and   *)
(* the count of a page by as many places as it gets or loses (PutPlace,    *)
(* DropPlace, CopyRow, ClearRow); the same for the processes of a segment  *)
(* (JoinsSegment, FoundsSegment, LeavesSegment).  Sound says where a fault *)
(* is: what a process has seen in the map is still there at its next step, *)
(* since nobody else has its data segment, or since nobody who has it can  *)
(* empty it.  A page with one reference is in one place (OnlyPlace), so    *)
(* that no fork, copy or fault of another process reaches what is written. *)
(***************************************************************************)
EXTENDS Mem, FiniteSetTheorems, TLAPS

(* What the theorems suppose of the constants.                             *)
Sane ==
  /\ IsFiniteSet(Proc) /\ IsFiniteSet(Addr) /\ First \in Proc
  /\ Text \cap Data = {} /\ Text \cap Bss = {} /\ Data \cap Bss = {}
  /\ NPage \in Nat /\ NSeg \in Nat \ {0}
  /\ nil \notin Proc /\ nil \notin Addr /\ nil \notin Nat

(* A data segment that is shared is neither copied nor freed, and there is *)
(* no I/O error.                                                           *)
Alone == "share" \in May => {"copy", "free", "fail"} \cap May = {}
-----------------------------------------------------------------------------
Labels == {"user", "dead", "pagein", "read", "pagedin", "relock", "cow", "copy",
           "mmuput", "mfreeseg", "flush"}
TypeOK ==
  /\ pg \in [Segments -> [Addr -> Pages \cup {nil}]]
  /\ sref \in [Segments -> Nat]
  /\ lk \in [Segments -> Proc \cup {nil}]
  /\ ref \in [Pages -> Nat]
  /\ in \in [Pages -> BOOLEAN]
  /\ io \in [Pages -> Proc \cup {nil}]
  /\ dseg \in [Proc -> Segs \cup {nil}]
  /\ mmu \in [Proc -> [Addr -> Pages \cup {nil}]]
  /\ pc \in [Proc -> Labels]
  /\ at \in [Proc -> Addr \cup {nil}]
  /\ child \in [Proc -> Proc \cup {nil}]

(* A process that lives has a data segment and, in a system call or fault, *)
(* an address; a dead one has an empty page table.                         *)
Fault == {"pagein", "read", "pagedin", "relock", "cow", "copy", "mmuput"}
Lives == \A p \in Proc :
  /\ pc[p] # "dead" => dseg[p] # nil
  /\ pc[p] = "dead" => \A a \in Addr : mmu[p][a] = nil
  /\ pc[p] \in Fault \cup {"mfreeseg"} => at[p] \in Addr
  /\ pc[p] \in {"relock", "cow", "copy", "mfreeseg"} => at[p] \notin Text
  /\ pc[p] = "flush" => child[p] \in Proc /\ dseg[child[p]] # nil /\ pc[child[p]] = "dead"
Children == \A p, q \in Proc :
  pc[p] = "flush" /\ pc[q] = "flush" /\ child[p] = child[q] => p = q

(* A segment that nobody has is empty; a page is at one address.           *)
Unused == \A s \in Segs : (\A p \in Proc : dseg[p] # s) => \A a \in Addr : pg[s][a] = nil
OneAddress == \A x, y \in Segments, a, b \in Addr :
  pg[x][a] # nil /\ pg[x][a] = pg[y][b] => a = b

Basic == TypeOK /\ Lives /\ Children /\ Unused /\ OneAddress /\ CountsExact
-----------------------------------------------------------------------------
(* Without fork there is one data segment, and without sharing every       *)
(* process has one of its own.                                             *)
Private ==
  /\ "copy" \notin May => \A p \in Proc : dseg[p] \in {nil, 1} /\ pc[p] # "flush"
  /\ "share" \notin May => \A p, q \in Proc : dseg[p] # nil /\ dseg[p] = dseg[q] => p = q
  /\ "free" \notin May => \A p \in Proc : pc[p] # "mfreeseg"

(* Who works on a shared data segment has it locked.                       *)
Locked == "share" \in May => \A p \in Proc :
  /\ pc[p] = "pagein" => lk[segof(p, at[p])] = p
  /\ pc[p] \in {"cow", "copy"} => lk[dseg[p]] = p

(* Where a fault is, its page is, and it is read in.                       *)
ThereFor(p) ==
  /\ pc[p] \in Fault \ {"pagein"} => entry(p) # nil
  /\ pc[p] \in Fault \ {"mmuput"} => mmu[p][at[p]] = nil
  /\ pc[p] = "read" => io[entry(p)] = p
  /\ pc[p] \in {"relock", "cow", "copy", "mmuput"} => in[entry(p)] \/ "fail" \in May
  /\ pc[p] = "copy" /\ "share" \in May => pg[text][at[p]] = entry(p)
There == \A p \in Proc : ThereFor(p)
Reading ==
  /\ \A g \in Pages, p \in Proc : io[g] = p => ~in[g] /\ pc[p] = "read" /\ entry(p) = g
  /\ \A g \in Pages : in[g] => ref[g] > 0
  /\ \A g \in Pages : ref[g] > 0 => in[g] \/ io[g] # nil \/ "fail" \in May

(* Page tables have what the segments have, and a page that is written, or *)
(* about to be, is in no other segment.                                    *)
MmuExact == \A p \in Proc, a \in Addr : mmu[p][a] # nil => mmu[p][a] = pg[segof(p, a)][a]
Writes(p, a) == mmu[p][a] # nil \/ (pc[p] = "mmuput" /\ at[p] = a)
Owned == \A p \in Proc, a \in Addr \ Text : Writes(p, a) => ref[pg[dseg[p]][a]] = 1

Sound == Private /\ Locked /\ There /\ Reading /\ MmuExact /\ Owned
-----------------------------------------------------------------------------
(* The counting of map entries.                                            *)
Holders(m, g) == {x \in Segments \X Addr : m[x[1]][x[2]] = g}
Row(m, s, g) == {a \in Addr : m[s][a] = g}
PageCounts(m, r) == \A g \in Pages : r[g] = Cardinality(Holders(m, g))
Map == [Segments -> [Addr -> Pages \cup {nil}]]

(* The places of a map are finitely many ...                               *)
LEMMA PlacesFinite ==
  ASSUME Sane
  PROVE  IsFiniteSet(Segments \X Addr) /\ IsFiniteSet(Segments) /\ IsFiniteSet(Segs)
<1>1. IsFiniteSet(1..NSeg)
  BY FS_Interval DEF Sane
<1>2. IsFiniteSet(Segments)
  BY <1>1, FS_AddElement DEF Segments, Segs
<1> QED BY <1>1, <1>2, FS_Product DEF Sane, Segs

(* ... and so are those of a page ...                                      *)
LEMMA HoldersFinite ==
  ASSUME Sane, NEW m, NEW g
  PROVE  IsFiniteSet(Holders(m, g)) /\ Cardinality(Holders(m, g)) \in Nat
<1>1. Holders(m, g) \in SUBSET (Segments \X Addr)
  BY DEF Holders
<1> QED BY <1>1, PlacesFinite, FS_Subset, FS_CardinalityType

(* ... and those of a page in one segment.                                 *)
LEMMA RowFinite ==
  ASSUME Sane, NEW m, NEW s, NEW g
  PROVE  IsFiniteSet(Row(m, s, g)) /\ Cardinality(Row(m, s, g)) \in Nat
<1>1. Row(m, s, g) \in SUBSET Addr
  BY DEF Row
<1> QED BY <1>1, FS_Subset, FS_CardinalityType DEF Sane

(* Nil is no page, and the text no data segment.                           *)
LEMMA Distinct ==
  ASSUME Sane
  PROVE  nil \notin Pages /\ nil \notin Segs /\ text \notin Segs /\ text \in Segments
BY DEF Sane, Pages, Segs, Segments, text

(* A page in two places has two references.                                *)
LEMMA TwoPlaces ==
  ASSUME Sane, NEW m, NEW r, PageCounts(m, r), NEW g \in Pages,
         NEW s \in Segments, NEW a \in Addr, NEW t \in Segments, NEW b \in Addr,
         m[s][a] = g, m[t][b] = g, s # t \/ a # b
  PROVE  r[g] \in Nat /\ r[g] >= 2
<1>1. <<s, a>> \in Holders(m, g) /\ <<t, b>> \in Holders(m, g) /\ <<s, a>> # <<t, b>>
  BY DEF Holders
<1>2. {<<s, a>>} \in SUBSET Holders(m, g) /\ {<<s, a>>} # Holders(m, g)
  BY <1>1
<1>3. Cardinality({<<s, a>>}) = 1
  BY FS_Singleton
<1>4. 1 <= Cardinality(Holders(m, g)) /\ Cardinality(Holders(m, g)) # 1
  BY <1>2, <1>3, HoldersFinite, FS_Subset
<1> QED BY <1>4, HoldersFinite DEF PageCounts

(* A page in a place has a reference, and one without is in no place.      *)
LEMMA OnePlace ==
  ASSUME Sane, NEW m, NEW r, PageCounts(m, r), NEW g \in Pages
  PROVE  /\ r[g] \in Nat
         /\ r[g] = 0 <=> Holders(m, g) = {}
         /\ r[g] > 0 <=> \E s \in Segments, a \in Addr : m[s][a] = g
<1>1. r[g] \in Nat /\ (r[g] = 0 <=> Holders(m, g) = {})
  BY HoldersFinite, FS_EmptySet DEF PageCounts
<1>2. Holders(m, g) # {} <=> \E s \in Segments, a \in Addr : m[s][a] = g
  <2>1. ASSUME NEW x \in Holders(m, g) PROVE \E s \in Segments, a \in Addr : m[s][a] = g
    <3>1. x[1] \in Segments /\ x[2] \in Addr /\ m[x[1]][x[2]] = g
      BY DEF Holders
    <3> QED BY <3>1
  <2>2. ASSUME NEW s \in Segments, NEW a \in Addr, m[s][a] = g PROVE <<s, a>> \in Holders(m, g)
    BY <2>2 DEF Holders
  <2> QED BY <2>1, <2>2
<1> QED BY <1>1, <1>2

(* A place that is put to use ...                                          *)
LEMMA PutPlace ==
  ASSUME Sane, NEW m \in Map, NEW r \in [Pages -> Nat], PageCounts(m, r), NEW h \in Pages,
         NEW s \in Segments, NEW a \in Addr, m[s][a] = nil
  PROVE  PageCounts([m EXCEPT ![s][a] = h], [r EXCEPT ![h] = @ + 1])
<1> DEFINE n == [m EXCEPT ![s][a] = h]
<1> SUFFICES ASSUME NEW g \in Pages
             PROVE  [r EXCEPT ![h] = @ + 1][g] = Cardinality(Holders(n, g))
  BY DEF PageCounts
<1>1. \A x \in Segments \X Addr : n[x[1]][x[2]] = IF x = <<s, a>> THEN h ELSE m[x[1]][x[2]]
  BY DEF Map
<1>2. nil \notin Pages
  BY Distinct
<1>3. CASE g = h
  <2>1. Holders(n, g) = Holders(m, g) \cup {<<s, a>>}
    BY <1>1, <1>2, <1>3 DEF Holders
  <2>2. <<s, a>> \notin Holders(m, g)
    BY <1>2 DEF Holders
  <2>3. Cardinality(Holders(n, g)) = Cardinality(Holders(m, g)) + 1
    BY <2>1, <2>2, HoldersFinite, FS_AddElement, ZenonT(60)
  <2> QED BY <2>3, <1>3 DEF PageCounts
<1>4. CASE g # h
  <2>1. Holders(n, g) = Holders(m, g)
    BY <1>1, <1>2, <1>4 DEF Holders
  <2> QED BY <2>1, <1>4 DEF PageCounts
<1> QED BY <1>3, <1>4

(* ... and one that is emptied.                                            *)
LEMMA DropPlace ==
  ASSUME Sane, NEW m \in Map, NEW r \in [Pages -> Nat], PageCounts(m, r), NEW h \in Pages,
         NEW s \in Segments, NEW a \in Addr, m[s][a] = h
  PROVE  /\ PageCounts([m EXCEPT ![s][a] = nil], putpage(r, h))
         /\ putpage(r, h) \in [Pages -> Nat]
<1> DEFINE n == [m EXCEPT ![s][a] = nil]
<1>1. \A x \in Segments \X Addr : n[x[1]][x[2]] = IF x = <<s, a>> THEN nil ELSE m[x[1]][x[2]]
  BY DEF Map
<1>2. nil \notin Pages
  BY Distinct
<1>3. r[h] > 0
  BY OnePlace
<1>4. ASSUME NEW g \in Pages PROVE putpage(r, h)[g] = Cardinality(Holders(n, g))
  <2>1. CASE g = h
    <3>1. Holders(n, g) = Holders(m, g) \ {<<s, a>>}
      BY <1>1, <1>2, <2>1 DEF Holders
    <3>2. <<s, a>> \in Holders(m, g)
      BY <2>1 DEF Holders
    <3>3. Cardinality(Holders(n, g)) = Cardinality(Holders(m, g)) - 1
      BY <3>1, <3>2, HoldersFinite, FS_RemoveElement, ZenonT(60)
    <3> QED BY <3>3, <2>1 DEF PageCounts, putpage
  <2>2. CASE g # h
    <3>1. Holders(n, g) = Holders(m, g)
      BY <1>1, <1>2, <2>2 DEF Holders
    <3> QED BY <3>1, <2>2 DEF PageCounts, putpage
  <2> QED BY <2>1, <2>2
<1>5. PageCounts(n, putpage(r, h))
  BY <1>4 DEF PageCounts
<1>6. putpage(r, h) \in [Pages -> Nat]
  BY <1>3 DEF putpage
<1> QED BY <1>5, <1>6

(* A row of a map, as part of it.                                          *)
LEMMA RowSize ==
  ASSUME Sane, NEW m, NEW s, NEW t, NEW g
  PROVE  /\ IsFiniteSet({t} \X Row(m, s, g))
         /\ Cardinality({t} \X Row(m, s, g)) = Cardinality(Row(m, s, g))
<1>1. IsFiniteSet({t}) /\ Cardinality({t}) = 1
  BY FS_Singleton
<1>2. Cardinality({t} \X Row(m, s, g)) = 1 * Cardinality(Row(m, s, g))
  BY <1>1, RowFinite, FS_Product
<1> QED BY <1>1, <1>2, RowFinite, FS_Product

(* The copy of a segment ...                                               *)
LEMMA CopyRow ==
  ASSUME Sane, NEW m \in Map, NEW r \in [Pages -> Nat], PageCounts(m, r),
         NEW s \in Segments, NEW t \in Segments, \A a \in Addr : m[t][a] = nil
  PROVE  PageCounts([m EXCEPT ![t] = m[s]], [g \in Pages |-> r[g] + Cardinality(Row(m, s, g))])
<1> DEFINE n == [m EXCEPT ![t] = m[s]]
<1> SUFFICES ASSUME NEW g \in Pages
             PROVE  r[g] + Cardinality(Row(m, s, g)) = Cardinality(Holders(n, g))
  BY DEF PageCounts
<1>1. \A x \in Segments \X Addr : n[x[1]][x[2]] = IF x[1] = t THEN m[s][x[2]] ELSE m[x[1]][x[2]]
  BY DEF Map
<1>2. nil \notin Pages
  BY Distinct
<1>3. \A x \in Holders(m, g) : x[1] # t
  BY <1>2 DEF Holders
<1>4. Holders(n, g) = Holders(m, g) \cup ({t} \X Row(m, s, g))
  <2>1. ASSUME NEW x \in Holders(n, g) PROVE x \in Holders(m, g) \cup ({t} \X Row(m, s, g))
    BY <1>1 DEF Holders, Row
  <2>2. ASSUME NEW x \in Holders(m, g) PROVE x \in Holders(n, g)
    BY <1>1, <1>3 DEF Holders
  <2>3. ASSUME NEW x \in {t} \X Row(m, s, g) PROVE x \in Holders(n, g)
    BY <1>1 DEF Holders, Row
  <2> QED BY <2>1, <2>2, <2>3
<1>5. Holders(m, g) \cap ({t} \X Row(m, s, g)) = {}
  BY <1>3
<1> DEFINE H == Holders(m, g)
           R == {t} \X Row(m, s, g)
<1>6. /\ IsFiniteSet(H) /\ IsFiniteSet(R)
      /\ Cardinality(H) \in Nat /\ Cardinality(R) = Cardinality(Row(m, s, g))
      /\ Cardinality(Row(m, s, g)) \in Nat
  BY HoldersFinite, RowSize, RowFinite
<1>7. Cardinality(Holders(n, g)) = Cardinality(H) + Cardinality(R)
  <2> HIDE DEF H, R, n
  <2>1. Cardinality(H \cup R) = Cardinality(H) + Cardinality(R) - Cardinality(H \cap R)
    BY <1>6, FS_Union
  <2>2. Holders(n, g) = H \cup R /\ H \cap R = {}
    BY <1>4, <1>5 DEF H, R
  <2>3. Cardinality(H) + Cardinality(R) - 0 = Cardinality(H) + Cardinality(R)
    BY <1>6
  <2> QED BY <2>1, <2>2, <2>3, FS_EmptySet
<1> QED BY <1>6, <1>7 DEF PageCounts

(* ... and the end of one.                                                 *)
LEMMA ClearRow ==
  ASSUME Sane, NEW m \in Map, NEW r \in [Pages -> Nat], PageCounts(m, r), NEW s \in Segments
  PROVE  /\ PageCounts([m EXCEPT ![s] = [a \in Addr |-> nil]],
                       [g \in Pages |-> r[g] - Cardinality(Row(m, s, g))])
         /\ [g \in Pages |-> r[g] - Cardinality(Row(m, s, g))] \in [Pages -> Nat]
<1> DEFINE n == [m EXCEPT ![s] = [a \in Addr |-> nil]]
           q == [g \in Pages |-> r[g] - Cardinality(Row(m, s, g))]
<1>1. \A x \in Segments \X Addr : n[x[1]][x[2]] = IF x[1] = s THEN nil ELSE m[x[1]][x[2]]
  BY DEF Map
<1>2. nil \notin Pages
  BY Distinct
<1>3. ASSUME NEW g \in Pages PROVE q[g] = Cardinality(Holders(n, g)) /\ q[g] \in Nat
  <2>1. {s} \X Row(m, s, g) \subseteq Holders(m, g)
    BY DEF Holders, Row
  <2>2. Holders(n, g) = Holders(m, g) \ ({s} \X Row(m, s, g))
    BY <1>1, <1>2 DEF Holders, Row
  <2>3. Holders(m, g) \cap ({s} \X Row(m, s, g)) = {s} \X Row(m, s, g)
    BY <2>1
  <2> DEFINE H == Holders(m, g)
             R == {s} \X Row(m, s, g)
  <2> HIDE DEF q
  <2>4. IsFiniteSet(H) /\ Cardinality(H) \in Nat /\ Cardinality(R) = Cardinality(Row(m, s, g))
    <3> HIDE DEF n
    <3>1. IsFiniteSet(H) /\ Cardinality(H) \in Nat
      BY HoldersFinite
    <3>2. \A t : Cardinality({t} \X Row(m, s, g)) = Cardinality(Row(m, s, g))
      BY RowSize, ZenonT(60)
    <3> QED BY <3>1, <3>2
  <2>5. Cardinality(H \ R) = Cardinality(H) - Cardinality(R)
    <3> HIDE DEF H, R
    <3>1. H \cap R = R
      BY <2>3 DEF H, R
    <3>2. Cardinality(H \ R) = Cardinality(H) - Cardinality(H \cap R)
      BY <2>4, FS_Difference
    <3> QED BY <3>1, <3>2
  <2>6. Cardinality(H \ R) \in Nat
    BY <2>2, HoldersFinite
  <2>7. q[g] = r[g] - Cardinality(Row(m, s, g)) /\ r[g] = Cardinality(H)
    BY DEF PageCounts, q
  <2>8. q[g] = Cardinality(H \ R)
    BY <2>4, <2>5, <2>7
  <2>9. Holders(n, g) = H \ R
    BY <2>2
  <2> HIDE DEF n, H, R
  <2> QED BY <2>6, <2>8, <2>9
<1>4. q \in [Pages -> Nat]
  <2>1. \A g \in Pages : q[g] \in Nat
    BY <1>3
  <2>2. q = [g \in Pages |-> q[g]]
    OBVIOUS
  <2> HIDE DEF q
  <2> QED BY <2>1, <2>2
<1>5. PageCounts(n, q)
  <2> HIDE DEF n, q
  <2> QED BY <1>3 DEF PageCounts
<1> QED BY <1>4, <1>5
-----------------------------------------------------------------------------
(* The counting of processes and data segments.                            *)
Users(d, s) == {p \in Proc : d[p] = s}
Living(d) == {p \in Proc : d[p] # nil}
InUse(k) == {s \in Segs : k[s] > 0}
SegCounts(d, k) ==
  /\ \A s \in Segs : k[s] = Cardinality(Users(d, s))
  /\ k[text] = 1 + Cardinality(Living(d)) + Cardinality(InUse(k))

(* The sets that are counted are finite.                                   *)
LEMMA UsersFinite ==
  ASSUME Sane, NEW d, NEW s, NEW k
  PROVE  /\ IsFiniteSet(Users(d, s)) /\ Cardinality(Users(d, s)) \in Nat
         /\ IsFiniteSet(Living(d)) /\ Cardinality(Living(d)) \in Nat
         /\ IsFiniteSet(InUse(k)) /\ Cardinality(InUse(k)) \in Nat
<1>1. IsFiniteSet(Proc) /\ IsFiniteSet(Segs)
  BY PlacesFinite DEF Sane
<1>2. Users(d, s) \in SUBSET Proc /\ Living(d) \in SUBSET Proc /\ InUse(k) \in SUBSET Segs
  BY DEF Users, Living, InUse
<1>3. IsFiniteSet(Users(d, s)) /\ IsFiniteSet(Living(d)) /\ IsFiniteSet(InUse(k))
  BY <1>1, <1>2, FS_Subset
<1> QED BY <1>3, FS_CardinalityType

(* A segment is used if a process has it, and by two if two have it.       *)
LEMMA UsedBy ==
  ASSUME Sane, NEW d, NEW k, SegCounts(d, k), NEW s \in Segs
  PROVE  /\ k[s] \in Nat /\ k[text] \in Nat
         /\ k[s] > 0 <=> \E p \in Proc : d[p] = s
         /\ \A p, q \in Proc : d[p] = s /\ d[q] = s /\ p # q => k[s] > 1
<1>1. k[s] \in Nat /\ k[text] \in Nat
  BY UsersFinite DEF SegCounts
<1>2. k[s] > 0 <=> \E p \in Proc : d[p] = s
  <2>1. k[s] = 0 <=> Users(d, s) = {}
    BY UsersFinite, FS_EmptySet DEF SegCounts
  <2> QED BY <1>1, <2>1 DEF Users
<1>3. ASSUME NEW p \in Proc, NEW q \in Proc, d[p] = s, d[q] = s, p # q PROVE k[s] > 1
  <2>1. {p} \in SUBSET Users(d, s) /\ {p} # Users(d, s)
    BY <1>3 DEF Users
  <2>2. Cardinality({p}) = 1
    BY FS_Singleton
  <2> QED BY <2>1, <2>2, UsersFinite, FS_Subset DEF SegCounts
<1> QED BY <1>1, <1>2, <1>3

(* A process gets a segment: one that is used, or a new one ...            *)
LEMMA Gains ==
  ASSUME Sane, NEW d \in [Proc -> Segs \cup {nil}], NEW q \in Proc, d[q] = nil, NEW n \in Segs
  PROVE  LET e == [d EXCEPT ![q] = n] IN
         /\ Cardinality(Living(e)) = Cardinality(Living(d)) + 1
         /\ Cardinality(Users(e, n)) = Cardinality(Users(d, n)) + 1
         /\ \A s \in Segs \ {n} : Users(e, s) = Users(d, s)
<1> DEFINE e == [d EXCEPT ![q] = n]
<1>1. nil \notin Segs
  BY Distinct
<1>2. Living(e) = Living(d) \cup {q} /\ q \notin Living(d)
  BY <1>1 DEF Living
<1>3. Users(e, n) = Users(d, n) \cup {q} /\ q \notin Users(d, n)
  BY <1>1 DEF Users
<1>4. \A s \in Segs \ {n} : Users(e, s) = Users(d, s)
  BY <1>1 DEF Users
<1> HIDE DEF e
<1>5. Cardinality(Living(e)) = Cardinality(Living(d)) + 1
  BY <1>2, UsersFinite, FS_AddElement, SMTT(60)
<1>6. Cardinality(Users(e, n)) = Cardinality(Users(d, n)) + 1
  BY <1>3, UsersFinite, FS_AddElement, ZenonT(60)
<1> QED BY <1>4, <1>5, <1>6 DEF e

(* rfork() with RFMEM: a segment has one more process.                     *)
LEMMA JoinsSegment ==
  ASSUME Sane, NEW d \in [Proc -> Segs \cup {nil}], NEW k \in [Segments -> Nat], SegCounts(d, k),
         NEW q \in Proc, d[q] = nil, NEW n \in Segs, k[n] > 0
  PROVE  SegCounts([d EXCEPT ![q] = n], [k EXCEPT ![text] = @ + 1, ![n] = @ + 1])
<1> DEFINE e == [d EXCEPT ![q] = n]
           j == [k EXCEPT ![text] = @ + 1, ![n] = @ + 1]
<1>1. text \notin Segs /\ text \in Segments /\ Segs \subseteq Segments
  BY Distinct DEF Segments
<1>2. j[text] = k[text] + 1 /\ j[n] = k[n] + 1 /\ \A s \in Segs \ {n} : j[s] = k[s]
  BY <1>1
<1>3. InUse(j) = InUse(k)
  BY <1>1, <1>2 DEF InUse
<1>4. /\ Cardinality(Living(e)) = Cardinality(Living(d)) + 1
      /\ Cardinality(Users(e, n)) = Cardinality(Users(d, n)) + 1
      /\ \A s \in Segs \ {n} : Users(e, s) = Users(d, s)
  BY Gains
<1> HIDE DEF e, j
<1>5. SegCounts(e, j)
  BY <1>2, <1>3, <1>4, UsersFinite DEF SegCounts
<1> QED BY <1>5 DEF e, j

(* rfork() without: a new segment has its first one.                       *)
LEMMA FoundsSegment ==
  ASSUME Sane, NEW d \in [Proc -> Segs \cup {nil}], NEW k \in [Segments -> Nat], SegCounts(d, k),
         NEW q \in Proc, d[q] = nil, NEW n \in Segs, k[n] = 0
  PROVE  SegCounts([d EXCEPT ![q] = n], [k EXCEPT ![n] = 1, ![text] = @ + 2])
<1> DEFINE e == [d EXCEPT ![q] = n]
           j == [k EXCEPT ![n] = 1, ![text] = @ + 2]
<1>1. text \notin Segs /\ text \in Segments /\ Segs \subseteq Segments
  BY Distinct DEF Segments
<1>2. j[text] = k[text] + 2 /\ j[n] = 1 /\ \A s \in Segs \ {n} : j[s] = k[s]
  BY <1>1
<1>3. InUse(j) = InUse(k) \cup {n} /\ n \notin InUse(k)
  BY <1>1, <1>2 DEF InUse
<1>4. /\ Cardinality(Living(e)) = Cardinality(Living(d)) + 1
      /\ Cardinality(Users(e, n)) = Cardinality(Users(d, n)) + 1
      /\ \A s \in Segs \ {n} : Users(e, s) = Users(d, s)
  BY Gains
<1> HIDE DEF e, j
<1>5. Cardinality(InUse(j)) = Cardinality(InUse(k)) + 1
  BY <1>3, UsersFinite, FS_AddElement, ZenonT(60)
<1>6. SegCounts(e, j)
  BY <1>2, <1>4, <1>5, UsersFinite DEF SegCounts
<1> QED BY <1>6 DEF e, j

(* ... or leaves one, the last or not.                                     *)
LEMMA LeavesSegment ==
  ASSUME Sane, NEW d \in [Proc -> Segs \cup {nil}], NEW k \in [Segments -> Nat], SegCounts(d, k),
         NEW q \in Proc, NEW n \in Segs, d[q] = n
  PROVE  LET j == [k EXCEPT ![n] = @ - 1, ![text] = @ - IF k[n] = 1 THEN 2 ELSE 1]
         IN  SegCounts([d EXCEPT ![q] = nil], j) /\ j \in [Segments -> Nat]
<1> DEFINE e == [d EXCEPT ![q] = nil]
           j == [k EXCEPT ![n] = @ - 1, ![text] = @ - IF k[n] = 1 THEN 2 ELSE 1]
<1>1. text \notin Segs /\ text \in Segments /\ Segs \subseteq Segments /\ nil \notin Segs
  BY Distinct DEF Segments
<1>2. /\ j[text] = k[text] - IF k[n] = 1 THEN 2 ELSE 1
      /\ j[n] = k[n] - 1 /\ \A s \in Segs \ {n} : j[s] = k[s]
  BY <1>1
<1>3. k[n] > 0 /\ k[n] \in Nat
  BY UsedBy
<1>4. Living(e) = Living(d) \ {q} /\ q \in Living(d)
  BY <1>1 DEF Living
<1>5. Users(e, n) = Users(d, n) \ {q} /\ q \in Users(d, n)
  BY <1>1 DEF Users
<1>6. \A s \in Segs \ {n} : Users(e, s) = Users(d, s)
  BY <1>1 DEF Users
<1>7. n \in InUse(k) /\ InUse(j) = IF k[n] = 1 THEN InUse(k) \ {n} ELSE InUse(k)
  BY <1>1, <1>2, <1>3 DEF InUse
<1>8. j \in [Segments -> Int]
  BY <1>1, <1>3
<1> HIDE DEF e, j
<1>9. Cardinality(Living(e)) = Cardinality(Living(d)) - 1
  BY <1>4, UsersFinite, FS_RemoveElement, SMTT(60)
<1>10. Cardinality(Users(e, n)) = Cardinality(Users(d, n)) - 1
  BY <1>5, UsersFinite, FS_RemoveElement, ZenonT(60)
<1>11. Cardinality(InUse(j)) = Cardinality(InUse(k)) - IF k[n] = 1 THEN 1 ELSE 0
  BY <1>7, UsersFinite, FS_RemoveElement, SMTT(60)
<1>12. SegCounts(e, j)
  BY <1>2, <1>6, <1>9, <1>10, <1>11, UsersFinite DEF SegCounts
<1>13. j \in [Segments -> Nat]
  <2>1. \A s \in Segments : j[s] \in Nat
    BY <1>12, UsersFinite DEF SegCounts, Segments
  <2> QED BY <1>8, <2>1
<1> QED BY <1>12, <1>13 DEF e, j

(* CountsExact, in parts.                                                  *)
LEMMA CountsParts == CountsExact <=> PageCounts(pg, ref) /\ SegCounts(dseg, sref)
<1>1. \A g \in Pages : Maps(g) = Holders(pg, g)
  BY DEF Maps, Holders
<1> QED BY <1>1 DEF CountsExact, PageCounts, SegCounts, Users, Living, InUse

(* The same after a step.                                                  *)
LEMMA CountsPartsNext == CountsExact' <=> PageCounts(pg', ref') /\ SegCounts(dseg', sref')
<1>1. \A g \in Pages : Maps(g)' = Holders(pg', g)
  BY DEF Maps, Holders
<1> QED BY <1>1 DEF CountsExact, PageCounts, SegCounts, Users, Living, InUse
-----------------------------------------------------------------------------
(* Basic holds at first ...                                                *)
LEMMA BasicInit == ASSUME Sane, Init PROVE Basic
<1> USE DEF Init
<1>1. /\ 1 \in Segs /\ text \notin Segs /\ nil \notin Segs /\ First \in Proc /\ nil \notin Pages
      /\ Segments = Segs \cup {text} /\ nil \notin Proc
  BY DEF Sane, Segs, Pages, text, Segments
<1>2. TypeOK
  BY <1>1 DEF TypeOK, Labels, segof
<1>3. Lives /\ Children /\ Unused /\ OneAddress
  BY <1>1 DEF Lives, Fault, Children, Unused, OneAddress, Segments
<1>4. PageCounts(pg, ref)
  <2>1. \A g \in Pages : Holders(pg, g) = {}
    BY <1>1 DEF Holders
  <2> QED BY <2>1, FS_EmptySet DEF PageCounts
<1>5. SegCounts(dseg, sref)
  <2>1. Living(dseg) = {First} /\ InUse(sref) = {1}
    BY <1>1 DEF Living, InUse
  <2>2. Users(dseg, 1) = {First} /\ \A s \in Segs \ {1} : Users(dseg, s) = {} /\ sref[s] = 0
    BY <1>1 DEF Users
  <2>3. sref[text] = 3 /\ sref[1] = 1
    BY <1>1
  <2>4. Cardinality({First}) = 1 /\ Cardinality({1}) = 1 /\ Cardinality({}) = 0
    BY FS_Singleton, FS_EmptySet
  <2> HIDE DEF Init
  <2>5. \A s \in Segs : sref[s] = Cardinality(Users(dseg, s))
    BY <2>2, <2>3, <2>4
  <2>6. sref[text] = 1 + Cardinality(Living(dseg)) + Cardinality(InUse(sref))
    BY <2>1, <2>3, <2>4
  <2> QED BY <2>5, <2>6 DEF SegCounts
<1> QED BY <1>2, <1>3, <1>4, <1>5, CountsParts DEF Basic

(* ... and a step that changes neither maps nor counts keeps it if it      *)
(* keeps processes in order.                                               *)
LEMMA QuietBasic ==
  ASSUME Basic, TypeOK', Lives', Children', UNCHANGED <<pg, ref, sref, dseg>>
  PROVE  Basic'
<1>1. CountsExact'
  BY CountsParts, CountsPartsNext DEF Basic
<1>2. Unused' /\ OneAddress'
  BY DEF Basic, Unused, OneAddress
<1> QED BY <1>1, <1>2 DEF Basic

(* The steps of a process in a fault that leave the pages alone.           *)
LEMMA FaultBasic ==
  ASSUME Sane, Basic, NEW p \in Proc,
         \/ \E a \in Addr : fault(p, a) \/ syssegfree(p, a)
         \/ pageinHas(p) \/ pagedin(p) \/ relock(p) \/ cow(p) \/ pgread(p) \/ pgreadFails(p)
  PROVE  Basic'
<1> USE DEF Basic
<1>1. UNCHANGED <<pg, ref, sref, dseg, mmu, child>> /\ \A q \in Proc \ {p} : pc'[q] = pc[q] /\ at'[q] = at[q]
  BY DEF TypeOK, fault, syssegfree, pageinHas, pagedin, relock, cow, pgread, pgreadFails, faulterror, goto
<1>2. segof(p, at[p]) \in Segments \/ at[p] = nil \/ dseg[p] = nil
  BY DEF segof, TypeOK, Segments
<1>3. CASE \E a \in Addr : fault(p, a) \/ syssegfree(p, a)
  <2>1. PICK a \in Addr : fault(p, a) \/ syssegfree(p, a)
    BY <1>3
  <2>2. pc[p] = "user" /\ at' = [at EXCEPT ![p] = a]
        /\ pc' = [pc EXCEPT ![p] = IF a \notin Text /\ syssegfree(p, a) THEN "mfreeseg" ELSE "pagein"]
        /\ (pc'[p] = "mfreeseg" => a \notin Text)
    BY <2>1 DEF fault, syssegfree, goto, TypeOK
  <2>3. TypeOK'
    BY <1>1, <2>1, <2>2, SMTT(60) DEF TypeOK, Labels, fault, syssegfree
  <2>4. Lives'
    BY <1>1, <2>2 DEF Lives, Fault, TypeOK
  <2>5. Children'
    BY <1>1, <2>2 DEF Children, TypeOK
  <2> QED BY <1>1, <2>3, <2>4, <2>5, QuietBasic
<1>4. CASE \/ pageinHas(p) \/ pagedin(p) \/ relock(p) \/ cow(p) \/ pgread(p) \/ pgreadFails(p)
  <2>1. /\ at' = at
        /\ pc[p] \in {"pagein", "pagedin", "relock", "cow", "read"}
        /\ \E l \in {"pagedin", "mmuput", "relock", "user", "cow", "copy"} :
             /\ pc' = [pc EXCEPT ![p] = l]
             /\ l = "relock" => at[p] \notin Text
             /\ l \in {"cow", "copy"} => pc[p] \in {"relock", "cow"}
    BY <1>4, SMTT(30) DEF pageinHas, pagedin, relock, cow, pgread, pgreadFails, faulterror, goto, after, TypeOK
  <2>2. TypeOK'
    <3>1. /\ lk' = lk \/ \E x, v : lk' = [lk EXCEPT ![x] = v] /\ v \in {p, nil}
          /\ io' = io \/ \E x : io' = [io EXCEPT ![x] = nil]
          /\ in' = in \/ \E x : in' = [in EXCEPT ![x] = TRUE]
      <4>1. CASE pageinHas(p) \/ pagedin(p) \/ relock(p) \/ cow(p)
        BY <4>1 DEF pageinHas, pagedin, relock, cow, faulterror
      <4>2. CASE pgread(p) \/ pgreadFails(p)
        BY <4>2 DEF pgread, pgreadFails, faulterror
      <4> QED BY <1>4, <4>1, <4>2
    <3>2. lk' \in [Segments -> Proc \cup {nil}] /\ io' \in [Pages -> Proc \cup {nil}]
      <4>1. lk \in [Segments -> Proc \cup {nil}] /\ io \in [Pages -> Proc \cup {nil}]
        BY DEF TypeOK
      <4>2. ASSUME NEW x, NEW v \in {p, nil} PROVE [lk EXCEPT ![x] = v] \in [Segments -> Proc \cup {nil}]
        BY <4>1
      <4>3. ASSUME NEW x PROVE [io EXCEPT ![x] = nil] \in [Pages -> Proc \cup {nil}]
        BY <4>1
      <4> QED BY <3>1, <4>1, <4>2, <4>3
    <3>3. in' \in [Pages -> BOOLEAN]
      BY <3>1 DEF TypeOK
    <3>4. pc' \in [Proc -> Labels]
      BY <2>1 DEF TypeOK, Labels
    <3> QED BY <1>1, <2>1, <3>1, <3>2, <3>3, <3>4 DEF TypeOK
  <2>3. Lives'
    BY <1>1, <2>1 DEF Lives, Fault, TypeOK
  <2>4. Children'
    BY <1>1, <2>1 DEF Children, TypeOK
  <2> QED BY <1>1, <2>2, <2>3, <2>4, QuietBasic
<1> QED BY <1>3, <1>4

(* mmuput() changes the page table, too.                                   *)
LEMMA MmuputBasic ==
  ASSUME Sane, Basic, NEW p \in Proc, mmuput(p)
  PROVE  Basic'
<1> USE DEF Basic
<1>1. TypeOK'
  BY DEF TypeOK, Labels, mmuput, goto, Lives, Fault, entry, segof, Segments
<1>2. Lives'
  BY DEF Lives, Fault, TypeOK, mmuput, goto
<1>3. Children'
  BY DEF Children, TypeOK, mmuput, goto
<1> QED BY <1>1, <1>2, <1>3, QuietBasic DEF mmuput
(* A step that fills places at one address with one page.                  *)
LEMMA FillsPlaces ==
  ASSUME Sane, Unused, OneAddress, dseg' = dseg, NEW g \in Pages, NEW a \in Addr,
         \A x \in Segments, b \in Addr : pg[x][b] = g => b = a,
         \A x \in Segments, b \in Addr :
           \/ pg'[x][b] = pg[x][b]
           \/ pg'[x][b] = nil
           \/ b = a /\ pg'[x][b] = g /\ (x = text \/ \E q \in Proc : dseg[q] = x)
  PROVE  Unused' /\ OneAddress'
<1>1. Unused'
  <2> SUFFICES ASSUME NEW s \in Segs, \A p \in Proc : dseg[p] # s, NEW b \in Addr
               PROVE  pg'[s][b] = nil
    BY DEF Unused
  <2>1. s \in Segments /\ s # text
    BY Distinct DEF Segments
  <2>2. pg[s][b] = nil
    BY DEF Unused
  <2> QED BY <2>1, <2>2
<1>2. OneAddress'
  <2> SUFFICES ASSUME NEW x \in Segments, NEW y \in Segments, NEW b \in Addr, NEW c \in Addr,
                      pg'[x][b] # nil, pg'[x][b] = pg'[y][c]
               PROVE  b = c
    BY DEF OneAddress
  <2>1. pg'[x][b] = pg[x][b] \/ (b = a /\ pg'[x][b] = g)
    OBVIOUS
  <2>2. pg'[y][c] = pg[y][c] \/ (c = a /\ pg'[y][c] = g)
    OBVIOUS
  <2> QED BY <2>1, <2>2 DEF OneAddress
<1> QED BY <1>1, <1>2

(* Where a process is in a fault, it has a segment and an address.         *)
LEMMA Faulting ==
  ASSUME Sane, Basic, NEW p \in Proc, pc[p] \in Fault \cup {"mfreeseg"}
  PROVE  /\ dseg[p] \in Segs /\ dseg[p] \in Segments /\ dseg[p] # text
         /\ at[p] \in Addr /\ segof(p, at[p]) \in Segments
         /\ entry(p) \in Pages \cup {nil}
<1>1. dseg[p] \in Segs /\ at[p] \in Addr
  BY DEF Basic, TypeOK, Lives, Fault
<1>2. dseg[p] \in Segments /\ dseg[p] # text /\ segof(p, at[p]) \in Segments
  BY <1>1, Distinct DEF segof, Segments
<1> QED BY <1>1, <1>2 DEF Basic, TypeOK, entry

(* A free page is nowhere.                                                 *)
LEMMA FreeNowhere ==
  ASSUME Sane, Basic, NEW g \in Pages, newpage(g)
  PROVE  /\ ref[g] = 0
         /\ \A x \in Segments, b \in Addr : pg[x][b] # g
<1>1. ref[g] = 0 /\ PageCounts(pg, ref)
  BY CountsParts DEF Basic, newpage
<1>2. ~ \E x \in Segments, b \in Addr : pg[x][b] = g
  BY <1>1, OnePlace
<1> QED BY <1>1, <1>2

(* What is left to show of a step that moves p from one place of the       *)
(* kernel to another.                                                      *)
LEMMA MovesOn ==
  ASSUME Sane, Basic, NEW p \in Proc, pc[p] \in Fault \cup {"mfreeseg"},
         NEW l \in {"relock", "pagedin", "read", "mmuput", "user"}, pc' = [pc EXCEPT ![p] = l],
         l = "relock" => at[p] \notin Text,
         \A q \in Proc, a \in Addr : mmu'[q][a] \in {mmu[q][a], nil},
         UNCHANGED <<dseg, at, child>>
  PROVE  Lives' /\ Children' /\ pc' \in [Proc -> Labels]
<1> USE DEF Basic
<1>1. Lives'
  BY DEF Lives, Fault, TypeOK
<1>2. Children'
  BY DEF Children, TypeOK
<1> QED BY <1>1, <1>2 DEF TypeOK, Labels

(* pagein() of a page that is zero filled ...                              *)
LEMMA PageinZeroBasic ==
  ASSUME Sane, Basic, NEW p \in Proc, pageinZero(p)
  PROVE  Basic'
<1> DEFINE s == dseg[p]
           a == at[p]
<1> USE DEF Basic
<1>1. /\ pc[p] = "pagein" /\ a \in Bss /\ entry(p) = nil
      /\ pc' = [pc EXCEPT ![p] = "relock"] /\ lk' = [lk EXCEPT ![s] = nil]
      /\ UNCHANGED <<sref, io, dseg, mmu, at, child>>
  BY DEF pageinZero, goto
<1>2. PICK g \in Pages : /\ newpage(g)
                         /\ ref' = [ref EXCEPT ![g] = 1]
                         /\ in' = [in EXCEPT ![g] = TRUE]
                         /\ pg' = [pg EXCEPT ![s][a] = g]
  BY DEF pageinZero
<1>3. s \in Segs /\ s \in Segments /\ s # text /\ a \in Addr /\ a \notin Text
  BY <1>1, Faulting DEF Fault, Sane
<1>4. pg[s][a] = nil
  BY <1>1, <1>3 DEF entry, segof
<1>5. ref[g] = 0 /\ \A x \in Segments, b \in Addr : pg[x][b] # g
  BY <1>2, FreeNowhere
<1>6. Lives' /\ Children' /\ pc' \in [Proc -> Labels]
  BY <1>1, <1>3, MovesOn DEF Fault
<1>7. TypeOK'
  BY <1>1, <1>2, <1>3, <1>6 DEF TypeOK
<1>8. Unused' /\ OneAddress'
  <2>1. \A x \in Segments, b \in Addr :
          pg'[x][b] = pg[x][b] \/ (b = a /\ pg'[x][b] = g /\ x = s)
    BY <1>2, <1>3 DEF TypeOK
  <2> QED BY <1>1, <1>3, <1>5, <2>1, FillsPlaces
<1>9. CountsExact'
  <2>1. ref' = [ref EXCEPT ![g] = @ + 1]
    BY <1>2, <1>5 DEF TypeOK
  <2>2. pg \in Map /\ ref \in [Pages -> Nat] /\ PageCounts(pg, ref)
    BY CountsParts DEF TypeOK, Map
  <2>3. PageCounts([pg EXCEPT ![s][a] = g], [ref EXCEPT ![g] = @ + 1])
    <3> HIDE DEF Basic, s, a
    <3> QED BY <1>3, <1>4, <2>2, PutPlace
  <2>4. PageCounts(pg', ref')
    BY <1>2, <2>1, <2>3
  <2> QED BY <1>1, <2>4, CountsParts, CountsPartsNext
<1> QED BY <1>6, <1>7, <1>8, <1>9

(* ... of one that the text segment has ...                                *)
LEMMA PageinSrcBasic ==
  ASSUME Sane, Basic, NEW p \in Proc, pageinSrc(p)
  PROVE  Basic'
<1> DEFINE s == dseg[p]
           a == at[p]
           g == pg[text][a]
<1> USE DEF Basic
<1>1. /\ pc[p] = "pagein" /\ a \in Data /\ entry(p) = nil
      /\ g # nil
      /\ pg' = [pg EXCEPT ![s][a] = g] /\ ref' = [ref EXCEPT ![g] = @ + 1]
      /\ pc' = [pc EXCEPT ![p] = "pagedin"] /\ lk' = [lk EXCEPT ![s] = nil]
      /\ UNCHANGED <<sref, in, io, dseg, mmu, at, child>>
  BY DEF pageinSrc, goto
<1>2. s \in Segs /\ s \in Segments /\ s # text /\ a \in Addr /\ a \notin Text /\ text \in Segments
  BY <1>1, Faulting, Distinct DEF Fault, Sane
<1>3. g \in Pages
  BY <1>1, <1>2 DEF TypeOK
<1>4. pg[s][a] = nil
  BY <1>1, <1>2 DEF entry, segof
<1>5. \A x \in Segments, b \in Addr : pg[x][b] = g => b = a
  BY <1>1, <1>2 DEF OneAddress
<1>6. Lives' /\ Children' /\ pc' \in [Proc -> Labels]
  BY <1>1, <1>2, MovesOn DEF Fault
<1> HIDE DEF g
<1>7. TypeOK'
  BY <1>1, <1>2, <1>3, <1>6 DEF TypeOK
<1>8. Unused' /\ OneAddress'
  BY <1>1, <1>2, <1>3, <1>5, FillsPlaces DEF TypeOK
<1>9. PageCounts(pg', ref')
  BY <1>1, <1>2, <1>3, <1>4, CountsParts, PutPlace DEF TypeOK, Map
<1>10. CountsExact'
  BY <1>1, <1>9, CountsParts, CountsPartsNext
<1> QED BY <1>6, <1>7, <1>8, <1>10

(* ... and of one that must be read.                                       *)
LEMMA PageinReadBasic ==
  ASSUME Sane, Basic, NEW p \in Proc, pageinRead(p)
  PROVE  Basic'
<1> DEFINE s == dseg[p]
           a == at[p]
<1> USE DEF Basic
<1>1. /\ pc[p] = "pagein" /\ a \notin Bss /\ entry(p) = nil
      /\ a \in Data => pg[text][a] = nil
      /\ pc' = [pc EXCEPT ![p] = "read"] /\ lk' = [lk EXCEPT ![segof(p, a)] = nil]
      /\ UNCHANGED <<sref, in, dseg, mmu, at, child>>
  BY DEF pageinRead, goto
<1>2. PICK g \in Pages : /\ newpage(g)
                         /\ ref' = [ref EXCEPT ![g] = Cardinality(Shares(p))]
                         /\ io' = [io EXCEPT ![g] = p]
                         /\ pg' = [x \in Segments |->
                                     IF x \in Shares(p) THEN [pg[x] EXCEPT ![a] = g] ELSE pg[x]]
  BY DEF pageinRead
<1>3. /\ s \in Segs /\ s \in Segments /\ s # text /\ a \in Addr /\ text \in Segments
      /\ a \in Text \/ a \in Data
  BY <1>1, Faulting, Distinct DEF Fault, Sane, Addr
<1>4. ref[g] = 0 /\ \A x \in Segments, b \in Addr : pg[x][b] # g
  BY <1>2, FreeNowhere
<1>5. Lives' /\ Children' /\ pc' \in [Proc -> Labels]
  BY <1>1, <1>3, MovesOn DEF Fault
<1>6. Cardinality(Shares(p)) = IF a \in Data THEN 2 ELSE 1
  <2>1. Cardinality({text}) = 1 /\ IsFiniteSet({text})
    BY FS_Singleton
  <2>2. Cardinality({text} \cup {s}) = Cardinality({text}) + 1
    <3> HIDE DEF s
    <3> QED BY <1>3, <2>1, FS_AddElement
  <2>3. {text} \cup {s} = {s, text}
    OBVIOUS
  <2> QED BY <2>1, <2>2, <2>3 DEF Shares
<1>7. TypeOK'
  <2>1. pg' \in Map
    BY <1>2, <1>3 DEF TypeOK, Map
  <2>2. ref' \in [Pages -> Nat] /\ io' \in [Pages -> Proc \cup {nil}]
    BY <1>2, <1>6 DEF TypeOK
  <2>3. lk' \in [Segments -> Proc \cup {nil}]
    BY <1>1 DEF TypeOK
  <2> QED BY <1>1, <1>5, <2>1, <2>2, <2>3 DEF TypeOK, Map
<1>8. Unused' /\ OneAddress'
  <2>1. \A x \in Segments, b \in Addr :
           \/ pg'[x][b] = pg[x][b]
           \/ b = a /\ pg'[x][b] = g /\ (x = text \/ x = s)
    BY <1>2, <1>3 DEF TypeOK, Shares
  <2> QED BY <1>1, <1>3, <1>4, <2>1, FillsPlaces
<1>9. PageCounts(pg', ref')
  <2>1. pg \in Map /\ ref \in [Pages -> Nat] /\ PageCounts(pg, ref)
    BY CountsParts DEF TypeOK, Map
  <2>2. CASE a \in Data
    <3>1. pg[text][a] = nil /\ pg[s][a] = nil /\ a \notin Text
      BY <1>1, <1>3, <2>2 DEF entry, segof, Sane
    <3> DEFINE m == [pg EXCEPT ![text][a] = g]
               r == [ref EXCEPT ![g] = @ + 1]
    <3>2. m \in Map /\ r \in [Pages -> Nat] /\ m[s][a] = nil
      BY <1>3, <2>1, <3>1 DEF Map
    <3>3. PageCounts(m, r)
      <4> HIDE DEF Basic, s, a
      <4> QED BY <1>3, <2>1, <3>1, PutPlace
    <3>4. pg' = [m EXCEPT ![s][a] = g]
      BY <1>2, <1>3, <2>1, <2>2 DEF Map, Shares
    <3>5. ref' = [r EXCEPT ![g] = @ + 1]
      BY <1>2, <1>4, <1>6, <2>1, <2>2
    <3> HIDE DEF m, r
    <3> HIDE DEF s, a, Basic
    <3>6. PageCounts([m EXCEPT ![s][a] = g], [r EXCEPT ![g] = @ + 1])
      BY <1>3, <3>2, <3>3, PutPlace
    <3> QED BY <3>4, <3>5, <3>6
  <2>3. CASE a \notin Data
    <3>1. pg[text][a] = nil
      BY <1>1, <1>3, <2>3 DEF entry, segof
    <3>2. pg' = [pg EXCEPT ![text][a] = g]
      BY <1>2, <1>3, <2>1, <2>3 DEF Map, Shares
    <3>3. ref' = [ref EXCEPT ![g] = @ + 1]
      BY <1>2, <1>4, <1>6, <2>1, <2>3
    <3> QED BY <1>3, <2>1, <3>1, <3>2, <3>3, PutPlace
  <2> QED BY <2>2, <2>3
<1>10. CountsExact'
  BY <1>1, <1>9, CountsParts, CountsPartsNext
<1> QED BY <1>5, <1>7, <1>8, <1>10

(* The copy: the entry may be another page than at the time of cow().      *)
LEMMA CopyBasic ==
  ASSUME Sane, Basic, NEW p \in Proc, copy(p)
  PROVE  Basic'
<1> DEFINE s == dseg[p]
           a == at[p]
           e == entry(p)
           r1 == [ref EXCEPT ![e] = @ - 1]
           m1 == [pg EXCEPT ![s][a] = nil]
<1> USE DEF Basic
<1>1. /\ pc[p] = "copy"
      /\ pc' = [pc EXCEPT ![p] = "mmuput"] /\ lk' = [lk EXCEPT ![s] = nil]
      /\ UNCHANGED <<sref, io, dseg, mmu, at, child>>
  BY DEF copy, goto
<1>2. PICK g \in Pages : /\ newpage(g)
                         /\ ref' = putpage([ref EXCEPT ![g] = 1], e)
                         /\ in' = [freed(ref') EXCEPT ![g] = in[e]]
                         /\ pg' = [pg EXCEPT ![s][a] = g]
  BY DEF copy
<1>3. /\ s \in Segs /\ s \in Segments /\ s # text /\ a \in Addr /\ a \notin Text
      /\ e = pg[s][a] /\ e \in Pages /\ nil \notin Pages
  BY <1>1, Faulting, Distinct DEF Fault, Lives, entry, segof, copy
<1>4. ref[g] = 0 /\ \A x \in Segments, b \in Addr : pg[x][b] # g
  BY <1>2, FreeNowhere
<1>5. e # g
  BY <1>3, <1>4
<1>6. Lives' /\ Children' /\ pc' \in [Proc -> Labels]
  BY <1>1, MovesOn DEF Fault
<1>7. pg \in Map /\ ref \in [Pages -> Nat] /\ PageCounts(pg, ref)
  BY CountsParts DEF TypeOK, Map
<1>8. m1 \in Map /\ m1[s][a] = nil /\ pg' = [m1 EXCEPT ![s][a] = g]
  BY <1>2, <1>3, <1>7 DEF Map
<1>9. PageCounts(m1, r1) /\ r1 \in [Pages -> Nat] /\ r1[g] = 0
  <2>1. r1 = putpage(ref, e)
    BY DEF putpage
  <2> HIDE DEF Basic, s, a, e, r1
  <2>2. PageCounts([pg EXCEPT ![s][a] = nil], putpage(ref, e)) /\ putpage(ref, e) \in [Pages -> Nat]
    BY <1>3, <1>7, DropPlace
  <2>3. r1[g] = ref[g]
    BY <1>5, <1>7, <2>1 DEF putpage
  <2> QED BY <1>4, <2>1, <2>2, <2>3
<1>10. ref' = [r1 EXCEPT ![g] = @ + 1]
  <2> HIDE DEF e, Basic
  <2>1. ref' = [[ref EXCEPT ![g] = 1] EXCEPT ![e] = @ - 1]
    BY <1>2 DEF putpage
  <2>2. [[ref EXCEPT ![g] = 1] EXCEPT ![e] = @ - 1] = [[ref EXCEPT ![e] = @ - 1] EXCEPT ![g] = 1]
    BY <1>3, <1>5, <1>7
  <2>3. [r1 EXCEPT ![g] = 1] = [r1 EXCEPT ![g] = @ + 1]
    <3> HIDE DEF r1
    <3> QED BY <1>9
  <2> QED BY <2>1, <2>2, <2>3
<1> HIDE DEF m1, r1
<1>11. PageCounts(pg', ref')
  <2> HIDE DEF Basic, s, a
  <2>1. PageCounts([m1 EXCEPT ![s][a] = g], [r1 EXCEPT ![g] = @ + 1])
    BY <1>3, <1>8, <1>9, PutPlace
  <2> QED BY <1>8, <1>10, <2>1
<1>12. TypeOK'
  <2>1. pg' \in Map /\ ref' \in [Pages -> Nat]
    BY <1>3, <1>8, <1>9, <1>10 DEF Map
  <2>2. in' \in [Pages -> BOOLEAN]
    <3>1. in[e] \in BOOLEAN
      BY <1>3 DEF TypeOK
    <3> HIDE DEF e
    <3>2. freed(ref') \in [Pages -> BOOLEAN]
      BY DEF TypeOK, freed
    <3> QED BY <1>2, <3>1, <3>2
  <2>3. lk' \in [Segments -> Proc \cup {nil}]
    BY <1>1 DEF TypeOK
  <2> QED BY <1>1, <1>6, <2>1, <2>2, <2>3 DEF TypeOK, Map
<1>13. Unused' /\ OneAddress'
  <2>1. \A x \in Segments, b \in Addr :
          pg'[x][b] = pg[x][b] \/ (b = a /\ pg'[x][b] = g /\ x = s)
    BY <1>2, <1>3 DEF TypeOK
  <2> QED BY <1>1, <1>3, <1>4, <2>1, FillsPlaces
<1>14. CountsExact'
  BY <1>1, <1>11, CountsParts, CountsPartsNext
<1> QED BY <1>6, <1>12, <1>13, <1>14

(* mfreeseg() takes a page out of the map.                                 *)
LEMMA MfreesegBasic ==
  ASSUME Sane, Basic, NEW p \in Proc, mfreeseg(p)
  PROVE  Basic'
<1> DEFINE s == dseg[p]
           a == at[p]
           e == entry(p)
<1> USE DEF Basic
<1>1. /\ pc[p] = "mfreeseg"
      /\ pc' = [pc EXCEPT ![p] = "user"] /\ lk' = [lk EXCEPT ![s] = nil]
      /\ mmu' = [r \in Proc |-> IF r = p \/ (dseg[r] = s /\ sref[s] > 1)
                                THEN [b \in Addr |-> nil] ELSE mmu[r]]
      /\ UNCHANGED <<sref, io, dseg, at, child>>
  BY DEF mfreeseg, goto
<1>2. /\ s \in Segs /\ s \in Segments /\ s # text /\ a \in Addr
      /\ e = pg[s][a] /\ e \in Pages \cup {nil} /\ nil \notin Pages
  BY <1>1, Faulting, Distinct DEF Fault, Lives, entry, segof
<1>3. pg \in Map /\ ref \in [Pages -> Nat] /\ PageCounts(pg, ref)
  BY CountsParts DEF TypeOK, Map
<1>4. /\ pg' = [pg EXCEPT ![s][a] = nil]
      /\ ref' = IF e = nil THEN ref ELSE putpage(ref, e)
      /\ in' = IF e = nil THEN in ELSE freed(ref')
  <2>1. e = nil => pg = [pg EXCEPT ![s][a] = nil]
    BY <1>2, <1>3 DEF Map
  <2> QED BY <2>1 DEF mfreeseg
<1>5. PageCounts(pg', ref') /\ ref' \in [Pages -> Nat]
  <2>1. CASE e = nil
    <3>1. pg' = pg
      BY <1>2, <1>3, <1>4, <2>1 DEF Map
    <3> QED BY <1>3, <1>4, <2>1, <3>1
  <2>2. CASE e # nil
    <3> HIDE DEF Basic, s, a, e
    <3> QED BY <1>2, <1>3, <1>4, <2>2, DropPlace
  <2> QED BY <2>1, <2>2
<1>6. mmu' \in [Proc -> [Addr -> Pages \cup {nil}]] /\ \A q \in Proc, b \in Addr : mmu'[q][b] \in {mmu[q][b], nil}
  BY <1>1 DEF TypeOK
<1>7. Lives' /\ Children' /\ pc' \in [Proc -> Labels]
  BY <1>1, <1>6, MovesOn DEF Fault
<1>8. TypeOK'
  <2>1. pg' \in Map
    BY <1>2, <1>3, <1>4 DEF Map
  <2>2. in' \in [Pages -> BOOLEAN]
    BY <1>4 DEF TypeOK, freed
  <2>3. lk' \in [Segments -> Proc \cup {nil}]
    BY <1>1 DEF TypeOK
  <2> QED BY <1>1, <1>5, <1>6, <1>7, <2>1, <2>2, <2>3 DEF TypeOK, Map
<1>9. Unused' /\ OneAddress'
  <2>1. \A x \in Segments, b \in Addr : pg'[x][b] \in {pg[x][b], nil}
    BY <1>2, <1>3, <1>4 DEF Map
  <2>2. \A x \in Segs : x \in Segments
    BY DEF Segments
  <2>3. Unused'
    BY <1>1, <2>1, <2>2 DEF Unused
  <2>4. OneAddress'
    BY <2>1 DEF OneAddress
  <2> QED BY <2>3, <2>4
<1>10. CountsExact'
  BY <1>1, <1>3, <1>5, CountsParts, CountsPartsNext
<1> QED BY <1>7, <1>8, <1>9, <1>10

(* A process leaves the kernel with its segment; the pages go with the     *)
(* last one.                                                               *)
LEMMA PexitBasic ==
  ASSUME Sane, Basic, NEW p \in Proc, pexit(p)
  PROVE  Basic'
<1> DEFINE s == dseg[p]
           row == [g \in Pages |-> ref[g] - Cardinality(Row(pg, s, g))]
<1> USE DEF Basic
<1>1. /\ pc[p] = "user"
      /\ sref' = [sref EXCEPT ![s] = @ - 1, ![text] = @ - IF sref[s] = 1 THEN 2 ELSE 1]
      /\ dseg' = [dseg EXCEPT ![p] = nil]
      /\ mmu' = [mmu EXCEPT ![p] = [b \in Addr |-> nil]]
      /\ at' = [at EXCEPT ![p] = nil] /\ pc' = [pc EXCEPT ![p] = "dead"]
      /\ UNCHANGED <<lk, io, child>>
  BY DEF pexit, goto
<1>2. s \in Segs /\ s \in Segments /\ nil \notin Pages /\ nil \notin Segs /\ nil \notin Proc
  BY <1>1, Distinct DEF TypeOK, Lives, Segments, Sane
<1>3. /\ pg \in Map /\ ref \in [Pages -> Nat] /\ PageCounts(pg, ref)
      /\ sref \in [Segments -> Nat] /\ SegCounts(dseg, sref)
      /\ dseg \in [Proc -> Segs \cup {nil}]
  BY CountsParts DEF TypeOK, Map
<1>4. /\ \A x \in Segments, b \in Addr : pg'[x][b] = pg[x][b] \/ (x = s /\ sref[s] = 1 /\ pg'[x][b] = nil)
      /\ sref[s] = 1 => \A b \in Addr : pg'[s][b] = nil
      /\ pg' \in Map /\ ref' \in [Pages -> Nat] /\ in' \in [Pages -> BOOLEAN]
      /\ PageCounts(pg', ref')
  <2>1. CASE sref[s] = 1
    <3>1. ref' = row /\ in' = freed(ref') /\ pg' = [pg EXCEPT ![s] = [b \in Addr |-> nil]]
      BY <2>1 DEF pexit, Row
    <3>2. PageCounts(pg', ref') /\ ref' \in [Pages -> Nat]
      <4> DEFINE m == [pg EXCEPT ![s] = [b \in Addr |-> nil]]
      <4>1. PageCounts(m, row) /\ row \in [Pages -> Nat]
        <5>1. pg \in Map /\ ref \in [Pages -> Nat] /\ PageCounts(pg, ref) /\ s \in Segments
          BY <1>2, <1>3
        <5> HIDE DEF Basic, s, Map
        <5>2. /\ PageCounts([pg EXCEPT ![s] = [b \in Addr |-> nil]],
                            [g \in Pages |-> ref[g] - Cardinality(Row(pg, s, g))])
              /\ [g \in Pages |-> ref[g] - Cardinality(Row(pg, s, g))] \in [Pages -> Nat]
          BY <5>1, ClearRow, ZenonT(60)
        <5> QED BY <5>2
      <4> HIDE DEF Basic, s, row, m
      <4> QED BY <3>1, <4>1 DEF m
    <3>3. in' \in [Pages -> BOOLEAN]
      BY <3>1 DEF TypeOK, freed
    <3>4. /\ \A x \in Segments, b \in Addr : pg'[x][b] = IF x = s THEN nil ELSE pg[x][b]
          /\ pg' \in Map
      BY <1>2, <1>3, <3>1 DEF Map
    <3> QED BY <2>1, <1>2, <3>2, <3>3, <3>4
  <2>2. CASE sref[s] # 1
    <3>1. UNCHANGED <<ref, in, pg>>
      BY <2>2 DEF pexit
    <3> QED BY <1>3, <2>2, <3>1 DEF TypeOK
  <2> QED BY <2>1, <2>2
<1>5. SegCounts(dseg', sref') /\ sref' \in [Segments -> Nat]
  <2> HIDE DEF Basic, s
  <2> QED BY <1>1, <1>2, <1>3, LeavesSegment DEF s
<1>6. TypeOK'
  <2>1. mmu' \in [Proc -> [Addr -> Pages \cup {nil}]] /\ dseg' \in [Proc -> Segs \cup {nil}]
    BY <1>1 DEF TypeOK
  <2>2. at' \in [Proc -> Addr \cup {nil}] /\ pc' \in [Proc -> Labels]
    BY <1>1 DEF TypeOK, Labels
  <2> QED BY <1>1, <1>4, <1>5, <2>1, <2>2 DEF TypeOK, Map
<1>7. Lives'
  <2>1. pc'[p] = "dead" /\ \A b \in Addr : mmu'[p][b] = nil
    BY <1>1 DEF TypeOK
  <2>2. \A q \in Proc \ {p} : /\ pc'[q] = pc[q] /\ mmu'[q] = mmu[q] /\ at'[q] = at[q]
                              /\ child'[q] = child[q] /\ dseg'[q] = dseg[q]
    BY <1>1 DEF TypeOK
  <2>3. \A q \in Proc : pc[q] = "flush" => child[q] # p
    BY <1>1 DEF Lives
  <2> QED BY <2>1, <2>2, <2>3 DEF Lives, Fault
<1>8. Children'
  BY <1>1 DEF Children, TypeOK
<1>9. Unused'
  <2> SUFFICES ASSUME NEW x \in Segs, \A q \in Proc : dseg'[q] # x, NEW b \in Addr
               PROVE  pg'[x][b] = nil
    BY DEF Unused
  <2>1. x \in Segments
    BY DEF Segments
  <2>2. CASE x = s
    <3>1. \A q \in Proc \ {p} : dseg[q] # s
      BY <1>1, <1>3, <2>2
    <3>2. sref[s] = 1
      <4>1. Users(dseg, s) = {p}
        BY <3>1 DEF Users
      <4> QED BY <1>2, <1>3, <4>1, FS_Singleton DEF SegCounts
    <3> QED BY <1>4, <2>2, <3>2
  <2>3. CASE x # s
    <3>1. \A q \in Proc : dseg[q] # x
      BY <1>1, <1>3, <2>3
    <3> QED BY <1>4, <2>1, <2>3, <3>1 DEF Unused
  <2> QED BY <2>2, <2>3
<1>10. OneAddress'
  <2>1. \A x \in Segments, b \in Addr : pg'[x][b] \in {pg[x][b], nil}
    BY <1>4
  <2> QED BY <2>1 DEF OneAddress
<1>11. CountsExact'
  BY <1>4, <1>5, CountsPartsNext
<1> QED BY <1>6, <1>7, <1>8, <1>9, <1>10, <1>11

(* rfork() gives the child the same segment ...                            *)
LEMMA RforkShareBasic ==
  ASSUME Sane, Basic, NEW p \in Proc, NEW q \in Proc, rforkShare(p, q)
  PROVE  Basic'
<1> DEFINE s == dseg[p]
<1> USE DEF Basic
<1>1. /\ pc[p] = "user" /\ dseg[q] = nil
      /\ sref' = [sref EXCEPT ![text] = @ + 1, ![s] = @ + 1]
      /\ dseg' = [dseg EXCEPT ![q] = s] /\ pc' = [pc EXCEPT ![q] = "user"]
      /\ UNCHANGED <<pg, lk, ref, in, io, mmu, at, child>>
  BY DEF rforkShare, goto
<1>2. s \in Segs /\ s \in Segments /\ s # text /\ nil \notin Segs /\ text \in Segments
  BY <1>1, Distinct DEF TypeOK, Lives, Segments
<1>3. /\ PageCounts(pg, ref) /\ SegCounts(dseg, sref)
      /\ sref \in [Segments -> Nat] /\ dseg \in [Proc -> Segs \cup {nil}]
  BY CountsParts DEF TypeOK
<1>4. sref[s] > 0
  BY <1>2, <1>3, UsedBy
<1>5. SegCounts(dseg', sref')
  <2> HIDE DEF Basic, s
  <2> QED BY <1>1, <1>2, <1>3, <1>4, JoinsSegment
<1>6. TypeOK'
  <2>1. sref' \in [Segments -> Nat] /\ dseg' \in [Proc -> Segs \cup {nil}]
    <3> HIDE DEF Basic, s
    <3> QED BY <1>1, <1>2, <1>3
  <2>2. pc' \in [Proc -> Labels]
    BY <1>1 DEF TypeOK, Labels
  <2> QED BY <1>1, <2>1, <2>2 DEF TypeOK
<1>7. Lives'
  <2>1. \A r \in Proc : pc[r] = "flush" => child[r] # q
    BY <1>1 DEF Lives
  <2> QED BY <1>1, <1>2, <2>1 DEF Lives, Fault, TypeOK
<1>8. Children'
  BY <1>1 DEF Children, TypeOK
<1>9. Unused' /\ OneAddress'
  <2>1. \A x \in Segs : (\A r \in Proc : dseg'[r] # x) => \A r \in Proc : dseg[r] # x
    BY <1>1, <1>2, <1>3
  <2>2. Unused'
    BY <1>1, <2>1 DEF Unused
  <2> QED BY <1>1, <2>2 DEF OneAddress
<1>10. CountsExact'
  BY <1>1, <1>3, <1>5, CountsPartsNext
<1> QED BY <1>6, <1>7, <1>8, <1>9, <1>10

(* ... or a copy.                                                          *)
LEMMA ForksegBasic ==
  ASSUME Sane, Basic, NEW p \in Proc, NEW q \in Proc, NEW n \in Segs, forkseg(p, q, n)
  PROVE  Basic'
<1> DEFINE s == dseg[p]
<1> USE DEF Basic
<1>1. /\ pc[p] = "user" /\ dseg[q] = nil /\ sref[n] = 0
      /\ pg' = [pg EXCEPT ![n] = pg[s]]
      /\ ref' = [g \in Pages |-> ref[g] + Cardinality(Row(pg, s, g))]
      /\ lk' = [lk EXCEPT ![s] = p]
      /\ mmu' = [mmu EXCEPT ![p] = [a \in Addr |-> IF a \in Text THEN @[a] ELSE nil]]
      /\ sref' = [sref EXCEPT ![n] = 1, ![text] = @ + 2]
      /\ dseg' = [dseg EXCEPT ![q] = n] /\ child' = [child EXCEPT ![p] = q]
      /\ pc' = [pc EXCEPT ![p] = "flush"]
      /\ UNCHANGED <<in, io, at>>
  BY DEF forkseg, goto, newseg, ptecpy, mmuflushpg, Row
<1>2. /\ s \in Segs /\ s \in Segments /\ n \in Segments /\ nil \notin Segs
      /\ text \in Segments /\ text \notin Segs
  BY <1>1, Distinct DEF TypeOK, Lives, Segments
<1>3. /\ pg \in Map /\ ref \in [Pages -> Nat] /\ PageCounts(pg, ref) /\ SegCounts(dseg, sref)
      /\ sref \in [Segments -> Nat] /\ dseg \in [Proc -> Segs \cup {nil}]
  BY CountsParts DEF TypeOK, Map
<1>4. (\A r \in Proc : dseg[r] # n) /\ \A a \in Addr : pg[n][a] = nil
  <2>1. \A r \in Proc : dseg[r] # n
    BY <1>1, <1>3, UsedBy
  <2> QED BY <2>1 DEF Unused
<1>5. PageCounts(pg', ref')
  <2> HIDE DEF Basic, s
  <2> QED BY <1>1, <1>2, <1>3, <1>4, CopyRow
<1>6. SegCounts(dseg', sref')
  <2> HIDE DEF Basic, s
  <2> QED BY <1>1, <1>2, <1>3, FoundsSegment
<1>7. p # q /\ pc[q] = "dead"
  BY <1>1, <1>2 DEF Lives
<1>8. TypeOK'
  <2>1. ref' \in [Pages -> Nat]
    BY <1>1, <1>3, RowFinite
  <2>2. pg' \in Map /\ sref' \in [Segments -> Nat] /\ lk' \in [Segments -> Proc \cup {nil}]
    <3>1. lk \in [Segments -> Proc \cup {nil}]
      BY DEF TypeOK
    <3> HIDE DEF Basic, s
    <3>2. pg' \in Map
      BY <1>1, <1>2, <1>3 DEF Map
    <3>3. sref' \in [Segments -> Nat]
      BY <1>1, <1>2, <1>3
    <3>4. lk' \in [Segments -> Proc \cup {nil}]
      BY <1>1, <3>1
    <3> QED BY <3>2, <3>3, <3>4
  <2>3. mmu' \in [Proc -> [Addr -> Pages \cup {nil}]]
    BY <1>1 DEF TypeOK
  <2>4. /\ dseg' \in [Proc -> Segs \cup {nil}] /\ child' \in [Proc -> Proc \cup {nil}]
        /\ pc' \in [Proc -> Labels]
    BY <1>1 DEF TypeOK, Labels
  <2> QED BY <1>1, <2>1, <2>2, <2>3, <2>4 DEF TypeOK, Map
<1>9. Lives' /\ Children'
  <2>1. \A r \in Proc : pc[r] = "flush" => child[r] # q
    BY <1>1 DEF Lives
  <2>2. /\ \A r \in Proc \ {p} : pc'[r] = pc[r] /\ child'[r] = child[r] /\ mmu'[r] = mmu[r]
        /\ \A r \in Proc \ {q} : dseg'[r] = dseg[r]
        /\ pc'[p] = "flush" /\ child'[p] = q /\ dseg'[q] = n /\ pc'[q] = "dead"
    BY <1>1, <1>7 DEF TypeOK
  <2>3. Lives'
    BY <1>1, <1>2, <1>7, <2>2 DEF Lives, Fault
  <2>4. Children'
    BY <2>1, <2>2 DEF Children
  <2> QED BY <2>3, <2>4
<1>10. Unused'
  BY <1>1, <1>2, <1>3 DEF Unused, Map
<1>11. OneAddress'
  <2>1. \A x \in Segments, a \in Addr : pg'[x][a] = IF x = n THEN pg[s][a] ELSE pg[x][a]
    BY <1>1, <1>2, <1>3 DEF Map
  <2> QED BY <1>2, <2>1 DEF OneAddress
<1>12. CountsExact'
  BY <1>5, <1>6, CountsPartsNext
<1> QED BY <1>8, <1>9, <1>10, <1>11, <1>12

(* The rest of fork only moves processes and flushes page tables.          *)
LEMMA ForkedBasic ==
  ASSUME Sane, Basic, NEW p \in Proc, forked(p)
  PROVE  Basic'
<1> DEFINE q == child[p]
<1> USE DEF Basic
<1>1. /\ pc[p] = "flush" /\ q \in Proc /\ dseg[q] # nil /\ pc[q] = "dead"
      /\ lk' = [lk EXCEPT ![dseg[p]] = nil] /\ child' = [child EXCEPT ![p] = nil]
      /\ pc' = [pc EXCEPT ![p] = "user", ![q] = "user"]
      /\ UNCHANGED <<pg, sref, ref, in, io, dseg, at>>
  BY DEF forked, Lives
<1>2. /\ mmu' \in [Proc -> [Addr -> Pages \cup {nil}]]
      /\ \A r \in Proc, a \in Addr : mmu'[r][a] \in {mmu[r][a], nil}
  <2>1. \/ mmu' = mmu
        \/ mmu' = [r \in Proc |-> IF dseg[r] = dseg[p] THEN [a \in Addr |-> nil] ELSE mmu[r]]
    BY DEF forked, procflushseg
  <2>2. mmu \in [Proc -> [Addr -> Pages \cup {nil}]]
    BY DEF TypeOK
  <2> HIDE DEF Basic
  <2> QED BY <2>1, <2>2
<1>3. TypeOK'
  BY <1>1, <1>2 DEF TypeOK, Labels
<1>4. Lives'
  <2>1. \A r \in Proc \ {p} : pc[r] = "flush" => child[r] # q
    BY <1>1 DEF Children
  <2>2. /\ pc'[p] = "user" /\ pc'[q] = "user" /\ dseg[p] # nil
        /\ \A r \in Proc \ {p, q} : pc'[r] = pc[r] /\ child'[r] = child[r]
    BY <1>1 DEF TypeOK, Lives
  <2>3. \A r \in Proc \ {p, q} : pc'[r] = "flush" =>
          /\ child'[r] \in Proc /\ dseg'[child'[r]] # nil /\ pc'[child'[r]] = "dead"
    <3> SUFFICES ASSUME NEW r \in Proc \ {p, q}, pc'[r] = "flush"
                 PROVE  child'[r] \in Proc /\ dseg'[child'[r]] # nil /\ pc'[child'[r]] = "dead"
      OBVIOUS
    <3>1. pc[r] = "flush" /\ child'[r] = child[r]
      BY <2>2
    <3>2. child[r] \in Proc /\ dseg[child[r]] # nil /\ pc[child[r]] = "dead"
      BY <3>1 DEF Lives
    <3>3. child[r] # q /\ child[r] # p
      BY <1>1, <2>1, <3>1, <3>2
    <3> QED BY <1>1, <2>2, <3>1, <3>2, <3>3
  <2>4. \A r \in Proc \ {p, q} : pc'[r] # "dead" => dseg'[r] # nil
    BY <1>1, <2>2 DEF Lives
  <2>5. \A r \in Proc \ {p, q} : pc'[r] = "dead" => \A a \in Addr : mmu'[r][a] = nil
    <3> SUFFICES ASSUME NEW r \in Proc \ {p, q}, pc'[r] = "dead", NEW a \in Addr PROVE mmu'[r][a] = nil
      OBVIOUS
    <3>1. mmu[r][a] = nil
      BY <2>2 DEF Lives
    <3> QED BY <1>2, <3>1
  <2>6. \A r \in Proc \ {p, q} :
          /\ pc'[r] \in Fault \cup {"mfreeseg"} => at'[r] \in Addr
          /\ pc'[r] \in {"relock", "cow", "copy", "mfreeseg"} => at'[r] \notin Text
    BY <1>1, <2>2 DEF Lives
  <2>7. dseg'[p] # nil /\ dseg'[q] # nil
    BY <1>1, <2>2
  <2> QED BY <2>2, <2>3, <2>4, <2>5, <2>6, <2>7 DEF Lives, Fault
<1>5. Children'
  BY <1>1 DEF Children, TypeOK
<1> QED BY <1>1, <1>3, <1>4, <1>5, QuietBasic
-----------------------------------------------------------------------------
(* Every step keeps Basic ...                                              *)
LEMMA BasicNext == ASSUME Sane, Basic, Next PROVE Basic'
<1> PICK p \in Proc : Step(p)
  BY DEF Next
<1>1. CASE \/ \E a \in Addr : fault(p, a) \/ syssegfree(p, a)
           \/ pageinHas(p) \/ pagedin(p) \/ relock(p) \/ cow(p) \/ pgread(p) \/ pgreadFails(p)
  BY <1>1, FaultBasic
<1>2. CASE pageinZero(p) \/ pageinSrc(p) \/ pageinRead(p)
  BY <1>2, PageinZeroBasic, PageinSrcBasic, PageinReadBasic
<1>3. CASE copy(p) \/ mmuput(p) \/ mfreeseg(p) \/ pexit(p)
  BY <1>3, CopyBasic, MmuputBasic, MfreesegBasic, PexitBasic
<1>4. CASE forked(p) \/ \E q \in Proc : rforkShare(p, q) \/ \E n \in Segs : forkseg(p, q, n)
  BY <1>4, ForkedBasic, RforkShareBasic, ForksegBasic
<1> QED BY <1>1, <1>2, <1>3, <1>4 DEF Step

(* ... and so does one that changes nothing.                               *)
LEMMA BasicStutters == ASSUME Basic, UNCHANGED vars PROVE Basic'
<1>1. TypeOK' /\ Lives' /\ Children' /\ Unused' /\ OneAddress'
  BY DEF Basic, vars, TypeOK, Lives, Children, Unused, OneAddress
<1>2. CountsExact'
  BY CountsParts, CountsPartsNext DEF Basic, vars
<1> QED BY <1>1, <1>2 DEF Basic

(* Basic is an invariant.                                                  *)
LEMMA BasicAlways == ASSUME Sane PROVE Spec => []Basic
<1>1. Init => Basic
  BY BasicInit
<1>2. Basic /\ [Next]_vars => Basic'
  BY BasicNext, BasicStutters
<1> QED BY <1>1, <1>2, PTL DEF Spec

(* The reference counts of the pages and of the segments are exact, in any *)
(* mix of faults, forks with and without sharing, segfree(), I/O errors    *)
(* and exits: newpage(), putpage(), forkseg() and putseg() never lose or   *)
(* duplicate one, and so no page is given out while it is mapped.          *)
THEOREM CountsAreExact == ASSUME Sane PROVE Spec => []CountsExact
<1>1. Basic => CountsExact
  BY DEF Basic
<1> QED BY <1>1, BasicAlways, PTL
-----------------------------------------------------------------------------
(* The rest of the invariant, conjunct by conjunct.                        *)
(* A page in a place has a reference before and after a step, and one that *)
(* had one reference and gets no more still has one.                       *)
LEMMA Placed ==
  ASSUME Sane, Basic, NEW s \in Segments, NEW a \in Addr, pg[s][a] # nil
  PROVE  pg[s][a] \in Pages /\ ref[pg[s][a]] \in Nat /\ ref[pg[s][a]] > 0
<1>1. pg[s][a] \in Pages /\ PageCounts(pg, ref)
  BY CountsParts DEF Basic, TypeOK
<1>2. \E x \in Segments, b \in Addr : pg[x][b] = pg[s][a]
  OBVIOUS
<1> QED BY <1>1, <1>2, OnePlace

(* The same after a step.                                                  *)
LEMMA PlacedNext ==
  ASSUME Sane, Basic', NEW s \in Segments, NEW a \in Addr, pg'[s][a] # nil
  PROVE  pg'[s][a] \in Pages /\ ref'[pg'[s][a]] \in Nat /\ ref'[pg'[s][a]] > 0
<1>1. pg'[s][a] \in Pages /\ PageCounts(pg', ref')
  BY CountsPartsNext DEF Basic, TypeOK
<1>2. \E x \in Segments, b \in Addr : pg'[x][b] = pg'[s][a]
  OBVIOUS
<1> QED BY <1>1, <1>2, OnePlace

(* A page with one reference is in one place.                              *)
LEMMA OnlyPlace ==
  ASSUME Sane, Basic, NEW s \in Segments, NEW a \in Addr, NEW t \in Segments, NEW b \in Addr,
         pg[s][a] # nil, ref[pg[s][a]] = 1, pg[t][b] = pg[s][a]
  PROVE  s = t /\ a = b
<1>1. pg[s][a] \in Pages /\ PageCounts(pg, ref)
  BY CountsParts DEF Basic, TypeOK
<1> SUFFICES ASSUME s # t \/ a # b PROVE FALSE
  OBVIOUS
<1>2. ref[pg[s][a]] >= 2
  BY <1>1, TwoPlaces
<1> QED BY <1>2

(* The address and segment of a process that writes.                       *)
LEMMA Writing ==
  ASSUME Sane, Basic, Sound, NEW p \in Proc, NEW a \in Addr \ Text, Writes(p, a)
  PROVE  /\ pc[p] # "dead" /\ dseg[p] \in Segs /\ dseg[p] \in Segments /\ dseg[p] # text
         /\ pg[dseg[p]][a] # nil /\ pg[dseg[p]][a] \in Pages /\ ref[pg[dseg[p]][a]] = 1
<1>1. pc[p] # "dead" /\ dseg[p] \in Segs /\ dseg[p] \in Segments /\ dseg[p] # text
  BY Distinct DEF Writes, Basic, TypeOK, Lives, Segments
<1>2. CASE mmu[p][a] # nil
  <2>1. mmu[p][a] = pg[dseg[p]][a]
    BY <1>2 DEF Sound, MmuExact, segof
  <2> QED BY <1>1, <1>2, <2>1 DEF Sound, Owned, Basic, TypeOK
<1>3. CASE pc[p] = "mmuput" /\ at[p] = a
  <2>1. pg[dseg[p]][a] # nil
    BY <1>3 DEF Sound, There, ThereFor, Fault, entry, segof
  <2> QED BY <1>1, <1>3, <2>1 DEF Sound, Owned, Basic, TypeOK
<1> QED BY <1>2, <1>3 DEF Writes

(* What another process must leave alone for ThereFor to stay.             *)
LEMMA ThereStays ==
  ASSUME NEW r \in Proc, ThereFor(r), pc'[r] = pc[r], at'[r] = at[r],
         pc[r] \in Fault =>
           /\ pc[r] # "pagein" => entry(r)' = entry(r)
           /\ pc[r] = "read" => io'[entry(r)] = io[entry(r)]
           /\ pc[r] \in {"relock", "cow", "copy", "mmuput"} /\ in[entry(r)] => in'[entry(r)]
           /\ mmu'[r][at[r]] \in {mmu[r][at[r]], nil}
           /\ pc[r] = "copy" /\ "share" \in May => pg'[text][at[r]] = pg[text][at[r]]
  PROVE  ThereFor(r)'
<1>1. pc[r] \in Fault \/ ThereFor(r)'
  BY DEF ThereFor, Fault
<1>2. CASE pc[r] = "pagein"
  BY <1>2 DEF ThereFor, Fault
<1>3. CASE pc[r] \in Fault \ {"pagein"}
  <2> DEFINE e == entry(r)
  <2>1. entry(r)' = e
    BY <1>3
  <2> HIDE DEF e
  <2>2. /\ e # nil
        /\ pc[r] # "mmuput" => mmu[r][at[r]] = nil
        /\ pc[r] = "read" => io[e] = r
        /\ pc[r] \in {"relock", "cow", "copy", "mmuput"} => in[e] \/ "fail" \in May
        /\ pc[r] = "copy" /\ "share" \in May => pg[text][at[r]] = e
    BY <1>3 DEF ThereFor, e
  <2>3. /\ pc[r] = "read" => io'[e] = io[e]
        /\ pc[r] \in {"relock", "cow", "copy", "mmuput"} /\ in[e] => in'[e]
        /\ mmu'[r][at[r]] \in {mmu[r][at[r]], nil}
        /\ pc[r] = "copy" /\ "share" \in May => pg'[text][at[r]] = pg[text][at[r]]
    BY <1>3 DEF e
  <2> QED BY <1>3, <2>1, <2>2, <2>3 DEF ThereFor, Fault
<1> QED BY <1>1, <1>2, <1>3

(* With sharing there is no fork, segfree() or I/O error.                  *)
LEMMA Modes ==
  ASSUME Alone, Private, "share" \in May
  PROVE  /\ "copy" \notin May /\ "free" \notin May /\ "fail" \notin May
         /\ \A p \in Proc : dseg[p] \in {nil, 1} /\ pc[p] # "flush" /\ pc[p] # "mfreeseg"
BY DEF Alone, Private

(* The steps that only move one process, p.                                *)
Moves(p) ==
  \/ \E a \in Addr : fault(p, a) \/ syssegfree(p, a)
  \/ pageinHas(p) \/ pageinZero(p) \/ pageinSrc(p) \/ pageinRead(p)
  \/ pgread(p) \/ pgreadFails(p) \/ pagedin(p) \/ relock(p) \/ cow(p) \/ copy(p)
  \/ mmuput(p) \/ mfreeseg(p)

(* They leave the other processes and all segments where they are.         *)
LEMMA MovesOne ==
  ASSUME Basic, NEW p \in Proc, Moves(p)
  PROVE  /\ dseg' = dseg /\ pc[p] \notin {"dead", "flush"}
         /\ pc' = [pc EXCEPT ![p] = pc'[p]] /\ pc'[p] # "flush" /\ pc'[p] # "dead"
         /\ pc'[p] = "mfreeseg" => "free" \in May
         /\ \A q \in Proc \ {p} : pc'[q] = pc[q] /\ at'[q] = at[q]
<1>1. CASE \E a \in Addr : fault(p, a) \/ syssegfree(p, a)
  BY <1>1 DEF Basic, TypeOK, fault, syssegfree, goto
<1>2. CASE pageinHas(p) \/ pageinZero(p) \/ pageinSrc(p) \/ pageinRead(p)
  BY <1>2 DEF Basic, TypeOK, pageinHas, pageinZero, pageinSrc, pageinRead, goto
<1>3. CASE pgread(p) \/ pgreadFails(p) \/ pagedin(p) \/ relock(p) \/ cow(p)
  BY <1>3 DEF Basic, TypeOK, pgread, pgreadFails, pagedin, relock, cow, faulterror, after, goto
<1>4. CASE copy(p) \/ mmuput(p) \/ mfreeseg(p)
  BY <1>4 DEF Basic, TypeOK, copy, mmuput, mfreeseg, goto
<1> QED BY <1>1, <1>2, <1>3, <1>4 DEF Moves

(* Who has which segment.                                                  *)
LEMMA PrivateNext ==
  ASSUME Sane, Basic, Private, NEW p \in Proc, Step(p)
  PROVE  Private'
<1>1. CASE Moves(p)
  <2>1. /\ dseg' = dseg /\ pc' = [pc EXCEPT ![p] = pc'[p]] /\ pc'[p] # "flush"
        /\ pc'[p] = "mfreeseg" => "free" \in May
    BY <1>1, MovesOne
  <2> QED BY <2>1 DEF Private, Basic, TypeOK
<1>2. CASE pexit(p)
  BY <1>2 DEF Private, Basic, TypeOK, pexit, goto
<1>3. CASE forked(p)
  BY <1>3 DEF Private, Basic, TypeOK, forked
<1>4. CASE \E q \in Proc : rforkShare(p, q)
  BY <1>4 DEF Private, Basic, TypeOK, rforkShare, goto
<1>5. CASE \E q \in Proc : \E n \in Segs : forkseg(p, q, n)
  <2> PICK q \in Proc, n \in Segs : forkseg(p, q, n)
    BY <1>5
  <2>1. /\ "copy" \in May /\ sref[n] = 0
        /\ dseg' = [dseg EXCEPT ![q] = n] /\ pc' = [pc EXCEPT ![p] = "flush"]
    BY DEF forkseg, newseg, goto
  <2>2. \A r \in Proc : dseg[r] # n
    BY <2>1, CountsParts, UsedBy DEF Basic
  <2> QED BY <2>1, <2>2 DEF Private, Basic, TypeOK
<1> QED BY <1>1, <1>2, <1>3, <1>4, <1>5 DEF Step, Moves

(* With sharing, s->lk is let go only by its holder.                       *)
LEMMA LockedNext ==
  ASSUME Sane, Alone, Basic, Sound, NEW p \in Proc, Step(p)
  PROVE  Locked'
<1> SUFFICES ASSUME "share" \in May
             PROVE  \A q \in Proc :
                      /\ pc'[q] = "pagein" => lk'[IF at'[q] \in Text THEN text ELSE dseg'[q]] = q
                      /\ pc'[q] \in {"cow", "copy"} => lk'[dseg'[q]] = q
  BY DEF Locked, segof
<1>1. /\ "copy" \notin May /\ "free" \notin May /\ "fail" \notin May
      /\ \A q \in Proc : dseg[q] \in {nil, 1} /\ pc[q] # "flush" /\ pc[q] # "mfreeseg"
  BY Modes DEF Sound
<1>2. \A q \in Proc : /\ pc[q] = "pagein" => lk[segof(q, at[q])] = q
                      /\ pc[q] \in {"cow", "copy"} => lk[dseg[q]] = q
  BY DEF Sound, Locked
<1>3. \A q \in Proc : pc[q] # "dead" => dseg[q] = 1
  BY <1>1 DEF Basic, Lives
<1>4. nil \notin Proc /\ lk \in [Segments -> Proc \cup {nil}] /\ text \in Segments /\ 1 \in Segments
  BY Distinct DEF Sane, Basic, TypeOK, Segments, Segs
<1>5. CASE \E a \in Addr : fault(p, a)
  <2> PICK a \in Addr : fault(p, a)
    BY <1>5
  <2>1. /\ pc[p] = "user" /\ lk[segof(p, a)] = nil
        /\ lk' = [lk EXCEPT ![segof(p, a)] = p] /\ at' = [at EXCEPT ![p] = a]
        /\ pc' = [pc EXCEPT ![p] = "pagein"] /\ dseg' = dseg
    BY DEF fault, goto
  <2>2. segof(p, a) \in Segments
    BY <1>3, <1>4, <2>1 DEF segof
  <2> QED BY <1>2, <1>3, <1>4, <2>1, <2>2 DEF segof, Basic, TypeOK
<1>6. CASE pageinHas(p) \/ pageinZero(p) \/ pageinSrc(p) \/ pageinRead(p) \/ copy(p)
  <2> DEFINE x == segof(p, at[p])
  <2>1. /\ pc[p] \in {"pagein", "copy"} /\ dseg' = dseg /\ at' = at
        /\ lk' = [lk EXCEPT ![x] = nil]
        /\ \E l \in {"pagedin", "relock", "read", "mmuput"} : pc' = [pc EXCEPT ![p] = l]
        /\ pc[p] = "copy" => x = dseg[p]
    <3>1. CASE pageinHas(p) \/ pageinRead(p)
      BY <3>1 DEF pageinHas, pageinRead, goto
    <3>2. CASE pageinZero(p) \/ pageinSrc(p)
      BY <3>2 DEF pageinZero, pageinSrc, goto, segof, Sane
    <3>3. CASE copy(p)
      BY <3>3 DEF copy, goto, segof, Basic, Lives
    <3> QED BY <1>6, <3>1, <3>2, <3>3
  <2>2. lk[x] = p
    BY <1>2, <2>1
  <2> HIDE DEF x
  <2>3. \A q \in Proc \ {p} : pc'[q] = pc[q]
    BY <2>1 DEF Basic, TypeOK
  <2>4. pc'[p] \notin {"pagein", "cow", "copy"}
    BY <2>1 DEF Basic, TypeOK
  <2>5. \A y : lk[y] # p => lk'[y] = lk[y] \/ y \notin Segments
    BY <1>4, <2>1, <2>2
  <2>6. \A q \in Proc : pc[q] # "dead" => segof(q, at[q]) \in Segments /\ dseg[q] \in Segments
    BY <1>3, <1>4 DEF segof
  <2>7. ASSUME NEW q \in Proc \ {p}, pc'[q] \in {"pagein", "cow", "copy"}
        PROVE  /\ pc'[q] = "pagein" => lk'[segof(q, at[q])] = q
               /\ pc'[q] \in {"cow", "copy"} => lk'[dseg[q]] = q
    BY <1>2, <2>3, <2>5, <2>6, <2>7
  <2> QED BY <2>1, <2>4, <2>7 DEF segof
<1>7. CASE relock(p)
  <2>1. /\ lk[dseg[p]] = nil /\ lk' = [lk EXCEPT ![dseg[p]] = p] /\ pc[p] = "relock"
        /\ pc' = [pc EXCEPT ![p] = "cow"] /\ dseg' = dseg /\ at' = at
    BY <1>7 DEF relock, goto
  <2> QED BY <1>2, <1>3, <1>4, <2>1 DEF segof, Basic, TypeOK
<1>8. CASE cow(p)
  <2>1. /\ pc[p] = "cow" /\ dseg' = dseg /\ at' = at
        /\ \/ lk' = lk /\ pc' = [pc EXCEPT ![p] = "copy"]
           \/ lk' = [lk EXCEPT ![dseg[p]] = nil] /\ pc' = [pc EXCEPT ![p] = "mmuput"]
    BY <1>8 DEF cow, goto
  <2>2. \A q \in Proc \ {p} : pc'[q] = pc[q] /\ at'[q] = at[q] /\ dseg'[q] = dseg[q]
    BY <2>1 DEF Basic, TypeOK
  <2>3. lk[dseg[p]] = p /\ dseg[p] = 1
    BY <1>2, <1>3, <2>1
  <2>4. \A y \in Segments : lk[y] # p => lk'[y] = lk[y]
    BY <1>4, <2>1, <2>3
  <2>5. \A q \in Proc : pc[q] # "dead" => segof(q, at[q]) \in Segments /\ dseg[q] \in Segments
    BY <1>3, <1>4 DEF segof
  <2>6. ASSUME NEW q \in Proc \ {p}, pc'[q] \in {"pagein", "cow", "copy"}
        PROVE  /\ pc'[q] = "pagein" => lk'[segof(q, at[q])] = q
               /\ pc'[q] \in {"cow", "copy"} => lk'[dseg[q]] = q
    BY <1>2, <2>2, <2>4, <2>5, <2>6
  <2>7. pc'[p] = "mmuput" \/ (pc'[p] = "copy" /\ lk'[dseg'[p]] = p)
    BY <2>1, <2>3 DEF Basic, TypeOK
  <2> QED BY <2>1, <2>6, <2>7 DEF segof
<1>9. CASE pagedin(p) \/ pgread(p) \/ mmuput(p)
  <2>1. pagedin(p) => in[entry(p)]
    <3> SUFFICES ASSUME pagedin(p), ~ in[entry(p)], io[entry(p)] = nil PROVE FALSE
      BY DEF pagedin
    <3>1. at[p] \in Addr /\ segof(p, at[p]) \in Segments /\ entry(p) # nil
      BY Faulting DEF pagedin, Fault
    <3>2. entry(p) \in Pages /\ ref[entry(p)] > 0
      BY <3>1, Placed DEF entry
    <3> QED BY <1>1, <3>2 DEF Sound, Reading
  <2>2. lk' = lk /\ dseg' = dseg /\ at' = at /\ \E l \in {"relock", "mmuput", "user"} : pc' = [pc EXCEPT ![p] = l]
    BY <1>9, <2>1 DEF pagedin, pgread, mmuput, goto, after
  <2> QED BY <1>2, <2>2 DEF segof, Basic, TypeOK
<1>10. CASE pexit(p)
  <2>1. /\ lk' = lk /\ \A q \in Proc \ {p} : dseg'[q] = dseg[q] /\ at'[q] = at[q] /\ pc'[q] = pc[q]
        /\ pc'[p] = "dead"
    BY <1>10 DEF pexit, goto, Basic, TypeOK
  <2> QED BY <1>2, <2>1 DEF segof
<1>11. CASE \E q \in Proc : rforkShare(p, q)
  <2> PICK q \in Proc : rforkShare(p, q)
    BY <1>11
  <2>1. /\ lk' = lk /\ at' = at /\ \A r \in Proc \ {q} : dseg'[r] = dseg[r] /\ pc'[r] = pc[r]
        /\ pc'[q] = "user"
    BY DEF rforkShare, goto, Basic, TypeOK
  <2> QED BY <1>2, <2>1 DEF segof
<1>12. ~ forked(p) /\ ~ pgreadFails(p) /\ ~ mfreeseg(p)
       /\ (\A a \in Addr : ~ syssegfree(p, a)) /\ \A q \in Proc, n \in Segs : ~ forkseg(p, q, n)
  BY <1>1 DEF forked, pgreadFails, mfreeseg, syssegfree, forkseg
<1> QED BY <1>5, <1>6, <1>7, <1>8, <1>9, <1>10, <1>11, <1>12 DEF Step

(* The rest, on pages.                                                     *)
Pagewise == There /\ Reading /\ MmuExact /\ Owned

(* The steps that leave pages, maps and page tables alone.                 *)
LEMMA QuietPagewise ==
  ASSUME Sane, Alone, Basic, Sound, NEW p \in Proc,
         \/ \E a \in Addr : fault(p, a) \/ syssegfree(p, a)
         \/ pageinHas(p) \/ pagedin(p) \/ relock(p) \/ cow(p)
  PROVE  Pagewise'
<1>1. /\ UNCHANGED <<pg, ref, in, io, dseg, mmu>>
      /\ pc[p] \notin {"read", "mmuput", "dead"}
      /\ \A r \in Proc \ {p} : pc'[r] = pc[r] /\ at'[r] = at[r]
  BY DEF Basic, TypeOK, fault, syssegfree, pageinHas, pagedin, relock, cow, faulterror, goto
<1>2. ThereFor(p) /\ pc[p] # "dead" /\ dseg[p] \in Segs /\ pc' \in [Proc -> Labels]
      /\ pc \in [Proc -> Labels]
  <2>1. pc' \in [Proc -> Labels]
    BY FaultBasic DEF Basic, TypeOK
  <2> QED BY <1>1, <2>1 DEF Sound, There, Basic, TypeOK, Lives
<1>3. /\ ThereFor(p)'
      /\ pc'[p] = "mmuput" => at'[p] \in Text \/ ref[pg[dseg[p]][at'[p]]] = 1
  <2>1. CASE \E a \in Addr : fault(p, a)
    <3> PICK a \in Addr : fault(p, a)
      BY <2>1
    <3>1. pc'[p] = "pagein" /\ at'[p] = a /\ mmu'[p][a] = nil
      BY DEF fault, goto, Basic, TypeOK
    <3> QED BY <3>1 DEF ThereFor, Fault
  <2>2. CASE \E a \in Addr : syssegfree(p, a)
    <3>1. pc'[p] = "mfreeseg"
      BY <2>2 DEF syssegfree, goto, Basic, TypeOK
    <3> QED BY <3>1 DEF ThereFor, Fault
  <2>3. CASE pageinHas(p) \/ pagedin(p) \/ relock(p) \/ cow(p)
    <3>1. at' = at /\ entry(p)' = entry(p) /\ entry(p) # nil /\ mmu[p][at[p]] = nil
      BY <1>1, <1>2, <2>3 DEF pageinHas, pagedin, relock, cow, entry, segof, ThereFor, Fault
    <3>2. CASE pageinHas(p)
      <4>1. pc'[p] = "pagedin"
        BY <3>2 DEF pageinHas, goto, Basic, TypeOK
      <4> QED BY <1>1, <3>1, <4>1 DEF ThereFor, Fault
    <3>3. CASE pagedin(p)
      <4>1. \/ pc'[p] = "user"
            \/ in[entry(p)] /\ pc'[p] = "relock"
            \/ in[entry(p)] /\ pc'[p] = "mmuput" /\ at[p] \in Text
        BY <3>3 DEF pagedin, faulterror, after, goto, Basic, TypeOK
      <4> QED BY <1>1, <3>1, <4>1 DEF ThereFor, Fault
    <3>4. CASE relock(p)
      <4>1. pc'[p] = "cow" /\ pc[p] = "relock"
        BY <3>4 DEF relock, goto, Basic, TypeOK
      <4> QED BY <1>1, <1>2, <3>1, <4>1 DEF ThereFor, Fault
    <3>5. CASE cow(p)
      <4>1. pc[p] = "cow" /\ at[p] \in Addr \ Text /\ entry(p) = pg[dseg[p]][at[p]]
            /\ dseg[p] \in Segments /\ dseg[p] # text
        BY <3>5, Faulting DEF cow, Basic, Lives, Fault, entry, segof
      <4>2. entry(p) \in Pages /\ ref[entry(p)] \in Nat /\ ref[entry(p)] > 0
        BY <3>1, <4>1, Placed
      <4>3. CASE ref[entry(p)] > 1
        <5>1. pc'[p] = "copy"
          BY <3>5, <4>3 DEF cow, goto, Basic, TypeOK
        <5>2. "share" \in May => pg[text][at[p]] = entry(p)
          <6> SUFFICES ASSUME "share" \in May PROVE pg[text][at[p]] = entry(p)
            OBVIOUS
          <6>1. \A r \in Proc : dseg[r] \in {nil, 1}
            BY Modes DEF Sound
          <6>2. \A s \in Segs : s # 1 => \A a \in Addr : pg[s][a] = nil
            <7>1. nil \notin Segs
              BY Distinct
            <7> QED BY <6>1, <7>1 DEF Basic, Unused
          <6>3. dseg[p] = 1
            BY <1>2, <6>1, Distinct
          <6>4. \E s \in Segments, a \in Addr : pg[s][a] = entry(p) /\ (s # 1 \/ a # at[p])
            <7> SUFFICES ASSUME \A s \in Segments, a \in Addr : pg[s][a] = entry(p) => s = 1 /\ a = at[p]
                         PROVE  FALSE
              OBVIOUS
            <7>1. Holders(pg, entry(p)) = {<<1, at[p]>>}
              BY <4>1, <6>3 DEF Holders
            <7>2. ref[entry(p)] = 1
              BY <4>2, <7>1, CountsParts, FS_Singleton, ZenonT(60) DEF Basic, PageCounts
            <7> QED BY <4>3, <7>2
          <6>5. PICK s \in Segments, a \in Addr : pg[s][a] = entry(p) /\ (s # 1 \/ a # at[p])
            BY <6>4
          <6>6. a = at[p]
            BY <3>1, <4>1, <6>5 DEF Basic, OneAddress
          <6>7. s = text
            BY <3>1, <6>2, <6>5, <6>6 DEF Segments
          <6> QED BY <6>5, <6>6, <6>7
        <5> QED BY <1>1, <1>2, <3>1, <4>1, <5>1, <5>2 DEF ThereFor, Fault
      <4>4. CASE ~ (ref[entry(p)] > 1)
        <5>1. pc'[p] = "mmuput"
          BY <3>5, <4>4 DEF cow, goto, Basic, TypeOK
        <5>2. ref[entry(p)] = 1
          BY <4>2, <4>4
        <5> QED BY <1>1, <1>2, <3>1, <4>1, <5>1, <5>2 DEF ThereFor, Fault
      <4> QED BY <4>3, <4>4
    <3> QED BY <2>3, <3>2, <3>3, <3>4, <3>5
  <2> QED BY <2>1, <2>2, <2>3
<1>4. There'
  <2> SUFFICES ASSUME NEW r \in Proc \ {p} PROVE ThereFor(r)'
    BY <1>3 DEF There
  <2>1. ThereFor(r) /\ pc'[r] = pc[r] /\ at'[r] = at[r]
    BY <1>1 DEF Sound, There
  <2>2. entry(r)' = entry(r)
    BY <1>1, <2>1 DEF entry, segof
  <2> QED BY <1>1, <2>1, <2>2, ThereStays
<1>5. Reading'
  <2>1. ASSUME NEW g \in Pages, NEW r \in Proc, io'[g] = r
        PROVE  ~in'[g] /\ pc'[r] = "read" /\ entry(r)' = g
    <3>1. ~in[g] /\ pc[r] = "read" /\ entry(r) = g
      BY <1>1, <2>1 DEF Sound, Reading
    <3>2. r # p
      BY <1>1, <3>1
    <3>3. entry(r)' = entry(r)
      BY <1>1, <3>2 DEF entry, segof
    <3> QED BY <1>1, <3>1, <3>2, <3>3
  <2> QED BY <1>1, <2>1 DEF Sound, Reading
<1>6. MmuExact'
  BY <1>1 DEF Sound, MmuExact, segof
<1>7. Owned'
  <2> SUFFICES ASSUME NEW r \in Proc, NEW a \in Addr \ Text, Writes(r, a)'
               PROVE  ref'[pg'[dseg'[r]][a]] = 1
    BY DEF Owned
  <2>1. CASE Writes(r, a)
    BY <1>1, <2>1 DEF Sound, Owned
  <2>2. CASE ~ Writes(r, a)
    <3>1. r = p /\ pc'[p] = "mmuput" /\ at'[p] = a
      BY <1>1, <2>2 DEF Writes
    <3> QED BY <1>1, <1>3, <3>1
  <2> QED BY <2>1, <2>2
<1> QED BY <1>4, <1>5, <1>6, <1>7 DEF Pagewise

(* The read of a page is over.                                             *)
LEMMA ReadPagewise ==
  ASSUME Sane, Basic, Sound, NEW p \in Proc, pgread(p) \/ pgreadFails(p)
  PROVE  Pagewise'
<1>1. /\ UNCHANGED <<pg, ref, dseg, mmu, at>> /\ pc[p] = "read"
      /\ pc'[p] \in {"user", "relock", "mmuput"} /\ (pc'[p] = "mmuput" => at[p] \in Text)
      /\ \A r \in Proc \ {p} : pc'[r] = pc[r]
  BY DEF pgread, pgreadFails, faulterror, after, goto, Basic, TypeOK
<1>2. PICK g \in Pages : /\ io[g] = p /\ io' = [io EXCEPT ![g] = nil]
                         /\ \/ in' = [in EXCEPT ![g] = TRUE]
                            \/ in' = in /\ "fail" \in May /\ pc'[p] = "user"
  BY DEF pgread, pgreadFails, faulterror, goto, Basic, TypeOK
<1>3. /\ entry(p) = g /\ at[p] \in Addr /\ segof(p, at[p]) \in Segments /\ nil \notin Proc /\ g # nil
      /\ mmu[p][at[p]] = nil
  BY <1>1, <1>2, Faulting, Distinct DEF Sound, Reading, Fault, Sane, There, ThereFor
<1>4. /\ \A h \in Pages \ {g} : in'[h] = in[h] /\ io'[h] = io[h]
      /\ io'[g] = nil /\ (in'[g] \/ ("fail" \in May /\ pc'[p] = "user"))
      /\ \A h \in Pages : in[h] => in'[h]
  BY <1>2 DEF Basic, TypeOK
<1>5. \A r \in Proc : entry(r)' = entry(r)
  BY <1>1 DEF entry, segof
<1>6. There'
  <2>1. ThereFor(p)'
    BY <1>1, <1>3, <1>4, <1>5 DEF ThereFor, Fault
  <2>2. ASSUME NEW r \in Proc \ {p} PROVE ThereFor(r)'
    <3>1. ThereFor(r) /\ pc'[r] = pc[r] /\ at'[r] = at[r]
      BY <1>1 DEF Sound, There
    <3>2. pc[r] = "read" => entry(r) # g /\ entry(r) \in Pages
      <4> SUFFICES ASSUME pc[r] = "read" PROVE entry(r) # g /\ entry(r) \in Pages
        OBVIOUS
      <4>1. io[entry(r)] = r /\ entry(r) # nil
        BY <3>1 DEF ThereFor, Fault
      <4>2. entry(r) \in Pages \cup {nil}
        BY Faulting DEF Fault
      <4> QED BY <1>2, <4>1, <4>2
    <3>3. pc[r] \in Fault \ {"pagein"} => entry(r) \in Pages
      BY <3>1, Faulting DEF ThereFor
    <3> QED BY <1>1, <1>4, <1>5, <3>1, <3>2, <3>3, ThereStays DEF Fault
  <2> QED BY <2>1, <2>2 DEF There
<1>7. Reading'
  <2>1. ASSUME NEW h \in Pages, NEW r \in Proc, io'[h] = r
        PROVE  ~in'[h] /\ pc'[r] = "read" /\ entry(r)' = h
    <3>1. h # g /\ io[h] = r
      BY <1>3, <1>4, <2>1
    <3>2. ~in[h] /\ pc[r] = "read" /\ entry(r) = h
      BY <3>1 DEF Sound, Reading
    <3>3. r # p
      BY <1>3, <3>1, <3>2
    <3> QED BY <1>1, <1>4, <1>5, <3>1, <3>2, <3>3
  <2>2. ASSUME NEW h \in Pages, in'[h] PROVE ref'[h] > 0
    <3>1. ref[g] > 0
      BY <1>3, Placed DEF entry
    <3> QED BY <1>1, <1>4, <2>2, <3>1 DEF Sound, Reading
  <2>3. ASSUME NEW h \in Pages, ref'[h] > 0 PROVE in'[h] \/ io'[h] # nil \/ "fail" \in May
    BY <1>1, <1>4, <2>3 DEF Sound, Reading
  <2> QED BY <2>1, <2>2, <2>3 DEF Reading
<1>8. MmuExact'
  BY <1>1 DEF Sound, MmuExact, segof
<1>9. Owned'
  <2> SUFFICES ASSUME NEW r \in Proc, NEW a \in Addr \ Text, Writes(r, a)'
               PROVE  ref'[pg'[dseg'[r]][a]] = 1
    BY DEF Owned
  <2>1. Writes(r, a)
    BY <1>1 DEF Writes
  <2> QED BY <1>1, <2>1 DEF Sound, Owned
<1> QED BY <1>6, <1>7, <1>8, <1>9 DEF Pagewise

(* A page, free before or of the text, goes to empty places.               *)
LEMMA FillPagewise ==
  ASSUME Sane, Basic, Sound, NEW p \in Proc, NEW g \in Pages, NEW a \in Addr,
         UNCHANGED <<dseg, mmu, at>>, pc[p] = "pagein", pc'[p] # "mmuput",
         \A r \in Proc \ {p} : pc'[r] = pc[r],
         \A x \in Segments, b \in Addr : pg[x][b] # nil => pg'[x][b] = pg[x][b],
         \A h \in Pages \ {g} : in'[h] = in[h] /\ io'[h] = io[h] /\ ref'[h] = ref[h],
         ref'[g] > 0,
         \/ /\ newpage(g)
            /\ \/ in'[g] /\ io'[g] = io[g]
               \/ in'[g] = in[g] /\ io'[g] = p /\ pc'[p] = "read" /\ entry(p)' = g
         \/ pg[text][a] = g /\ in'[g] = in[g] /\ io'[g] = io[g],
         ThereFor(p)'
  PROVE  Pagewise'
<1>1. nil \notin Proc /\ nil \notin Pages /\ text \in Segments
  BY Distinct DEF Sane
<1>2. newpage(g) => /\ \A x \in Segments, b \in Addr : pg[x][b] # g
                    /\ ~ in[g] /\ \A r \in Proc : io[g] # r
  <2> SUFFICES ASSUME newpage(g)
               PROVE  /\ \A x \in Segments, b \in Addr : pg[x][b] # g
                      /\ ~ in[g] /\ \A r \in Proc : io[g] # r
    OBVIOUS
  <2>1. ref[g] = 0 /\ \A x \in Segments, b \in Addr : pg[x][b] # g
    BY FreeNowhere
  <2>2. ~ in[g]
    BY <2>1 DEF Sound, Reading
  <2>3. ASSUME NEW r \in Proc, io[g] = r PROVE FALSE
    <3>1. pc[r] = "read" /\ entry(r) = g
      BY <2>3 DEF Sound, Reading
    <3> QED BY <2>1, <3>1, Faulting DEF Fault, entry
  <2> QED BY <2>1, <2>2, <2>3
<1>3. ASSUME NEW r \in Proc, pc[r] \in Fault \ {"pagein"}
      PROVE  /\ entry(r)' = entry(r) /\ entry(r) \in Pages /\ r # p
             /\ newpage(g) => entry(r) # g
  <2>1. /\ at[r] \in Addr /\ segof(r, at[r]) \in Segments
        /\ entry(r) \in Pages \cup {nil} /\ entry(r) # nil
    BY <1>3, Faulting DEF Sound, There, ThereFor
  <2>2. pg'[segof(r, at[r])][at[r]] = pg[segof(r, at[r])][at[r]]
    BY <2>1 DEF entry
  <2>3. segof(r, at[r])' = segof(r, at[r]) /\ at'[r] = at[r]
    BY DEF segof
  <2>4. entry(r)' = entry(r)
    BY <2>2, <2>3 DEF entry
  <2>5. newpage(g) => entry(r) # g
    BY <1>2, <2>1 DEF entry
  <2> QED BY <1>3, <2>1, <2>4, <2>5
<1>4. There'
  <2> SUFFICES ASSUME NEW r \in Proc \ {p} PROVE ThereFor(r)'
    BY DEF There
  <2>1. ThereFor(r) /\ pc'[r] = pc[r] /\ at'[r] = at[r]
    BY DEF Sound, There
  <2>2. pc[r] \in Fault \ {"pagein"} => /\ entry(r)' = entry(r)
                                        /\ io'[entry(r)] = io[entry(r)]
                                        /\ in[entry(r)] => in'[entry(r)]
    BY <1>3
  <2>3. pc[r] = "copy" /\ "share" \in May => pg'[text][at[r]] = pg[text][at[r]]
    <3> SUFFICES ASSUME pc[r] = "copy", "share" \in May PROVE pg'[text][at[r]] = pg[text][at[r]]
      OBVIOUS
    <3>1. pg[text][at[r]] # nil /\ at[r] \in Addr
      BY <2>1, Faulting DEF ThereFor, Fault
    <3> QED BY <1>1, <3>1
  <2> QED BY <2>1, <2>2, <2>3, ThereStays DEF Fault
<1>5. Reading'
  <2>1. ASSUME NEW h \in Pages, NEW r \in Proc, io'[h] = r
        PROVE  ~in'[h] /\ pc'[r] = "read" /\ entry(r)' = h
    <3>1. CASE io[h] = r
      <4>1. ~in[h] /\ pc[r] = "read" /\ entry(r) = h
        BY <3>1 DEF Sound, Reading
      <4>2. entry(r)' = h /\ r # p /\ (newpage(g) => h # g)
        BY <1>3, <4>1 DEF Fault
      <4> QED BY <4>1, <4>2
    <3>2. CASE io[h] # r
      <4>1. h = g /\ r = p /\ newpage(g) /\ in'[g] = in[g] /\ pc'[p] = "read" /\ entry(p)' = g
        BY <2>1, <3>2
      <4> QED BY <1>2, <4>1
    <3> QED BY <3>1, <3>2
  <2>2. ASSUME NEW h \in Pages, in'[h] PROVE ref'[h] > 0
    BY <2>2 DEF Sound, Reading
  <2>3. ASSUME NEW h \in Pages, ref'[h] > 0 PROVE in'[h] \/ io'[h] # nil \/ "fail" \in May
    <3>1. CASE h = g /\ pg[text][a] = g
      <4>1. ref[g] > 0
        BY <1>1, <3>1, Placed
      <4> QED BY <1>1, <1>2, <3>1, <4>1 DEF Sound, Reading
    <3>2. CASE h = g /\ newpage(g)
      BY <1>1, <3>2, <1>2
    <3>3. CASE h # g
      BY <2>3, <3>3 DEF Sound, Reading
    <3> QED BY <3>1, <3>2, <3>3
  <2> QED BY <2>1, <2>2, <2>3 DEF Reading
<1>6. MmuExact'
  <2> SUFFICES ASSUME NEW r \in Proc, NEW b \in Addr, mmu[r][b] # nil
               PROVE  mmu[r][b] = pg'[segof(r, b)][b]
    BY DEF MmuExact, segof
  <2>1. mmu[r][b] = pg[segof(r, b)][b] /\ pc[r] # "dead"
    BY DEF Sound, MmuExact, Basic, Lives
  <2>2. segof(r, b) \in Segments
    BY <1>1, <2>1 DEF segof, Basic, TypeOK, Lives, Segments
  <2> QED BY <2>1, <2>2
<1>7. Owned'
  <2> SUFFICES ASSUME NEW r \in Proc, NEW b \in Addr \ Text, Writes(r, b)'
               PROVE  ref'[pg'[dseg[r]][b]] = 1
    BY DEF Owned
  <2>1. Writes(r, b)
    BY DEF Writes
  <2>2. /\ dseg[r] \in Segments /\ dseg[r] # text
        /\ pg[dseg[r]][b] # nil /\ pg[dseg[r]][b] \in Pages /\ ref[pg[dseg[r]][b]] = 1
    BY <2>1, Writing
  <2>3. pg'[dseg[r]][b] = pg[dseg[r]][b]
    BY <2>2
  <2>4. pg[dseg[r]][b] # g
    <3>1. newpage(g) => pg[dseg[r]][b] # g
      BY <1>2, <2>2
    <3>2. pg[text][a] = g => pg[dseg[r]][b] # g
      BY <1>1, <2>2, OnlyPlace
    <3> QED BY <3>1, <3>2
  <2> QED BY <2>2, <2>3, <2>4
<1> QED BY <1>4, <1>5, <1>6, <1>7 DEF Pagewise

(* The three ways of pagein() to fill a place.                             *)
LEMMA PageinPagewise ==
  ASSUME Sane, Basic, Sound, NEW p \in Proc, pageinZero(p) \/ pageinSrc(p) \/ pageinRead(p)
  PROVE  Pagewise'
<1> DEFINE s == dseg[p]
           a == at[p]
<1>1. /\ pc[p] = "pagein" /\ entry(p) = nil
      /\ UNCHANGED <<dseg, mmu, at>>
      /\ pc'[p] \in {"relock", "pagedin", "read"} /\ (pc'[p] = "relock" => a \notin Text)
      /\ \A r \in Proc \ {p} : pc'[r] = pc[r]
  BY DEF pageinZero, pageinSrc, pageinRead, goto, Basic, TypeOK, Sane
<1>2. /\ s \in Segments /\ s # text /\ a \in Addr /\ text \in Segments
      /\ pg[segof(p, a)][a] = nil /\ mmu'[p][a] = nil /\ nil \notin Pages
  <2>1. ThereFor(p)
    BY DEF Sound, There
  <2> QED BY <1>1, <2>1, Faulting, Distinct DEF entry, Fault, ThereFor
<1>3. /\ pg \in [Segments -> [Addr -> Pages \cup {nil}]] /\ ref \in [Pages -> Nat]
      /\ in \in [Pages -> BOOLEAN] /\ io \in [Pages -> Proc \cup {nil}]
  BY DEF Basic, TypeOK
<1>4. Basic'
  BY PageinZeroBasic, PageinSrcBasic, PageinReadBasic
<1>5. CASE pageinZero(p)
  <2>1. PICK g \in Pages : /\ newpage(g)
                           /\ ref' = [ref EXCEPT ![g] = 1] /\ in' = [in EXCEPT ![g] = TRUE]
                           /\ pg' = [pg EXCEPT ![s][a] = g] /\ io' = io
                           /\ pc'[p] = "relock" /\ a \in Bss
    BY <1>5 DEF pageinZero, goto, Basic, TypeOK
  <2>2. segof(p, a) = s /\ entry(p)' = g
    BY <1>1, <1>2, <1>3, <2>1 DEF segof, entry, Sane
  <2>3. \A x \in Segments, b \in Addr : pg[x][b] # nil => pg'[x][b] = pg[x][b]
    <3> HIDE DEF s, a
    <3> QED BY <1>2, <1>3, <2>1, <2>2
  <2>4. in'[g] /\ ref'[g] > 0 /\ io'[g] = io[g]
        /\ \A h \in Pages \ {g} : in'[h] = in[h] /\ io'[h] = io[h] /\ ref'[h] = ref[h]
    BY <1>3, <2>1
  <2>5. ThereFor(p)'
    BY <1>1, <1>2, <2>1, <2>2, <2>4 DEF ThereFor, Fault
  <2> QED BY <1>1, <1>2, <2>1, <2>3, <2>4, <2>5, FillPagewise
<1>6. CASE pageinSrc(p)
  <2> DEFINE g == pg[text][a]
  <2>1. /\ g # nil /\ pg' = [pg EXCEPT ![s][a] = g] /\ ref' = [ref EXCEPT ![g] = @ + 1]
        /\ UNCHANGED <<in, io>> /\ pc'[p] = "pagedin" /\ a \in Data
    BY <1>6 DEF pageinSrc, goto, Basic, TypeOK
  <2>2. g \in Pages /\ segof(p, a) = s
    BY <1>2, <1>3, <2>1 DEF segof, Sane
  <2> HIDE DEF g
  <2>3. entry(p)' = g
    BY <1>1, <1>2, <1>3, <2>1, <2>2 DEF segof, entry, Sane
  <2>4. \A x \in Segments, b \in Addr : pg[x][b] # nil => pg'[x][b] = pg[x][b]
    <3> HIDE DEF s, a
    <3> QED BY <1>2, <1>3, <2>1, <2>2
  <2>5. ref'[g] > 0 /\ \A h \in Pages \ {g} : in'[h] = in[h] /\ io'[h] = io[h] /\ ref'[h] = ref[h]
    BY <1>3, <2>1, <2>2
  <2>6. ThereFor(p)'
    BY <1>1, <1>2, <2>1, <2>2, <2>3 DEF ThereFor, Fault
  <2>7. pg[text][a] = g
    BY DEF g
  <2> QED BY <1>1, <1>2, <2>1, <2>2, <2>4, <2>5, <2>6, <2>7, FillPagewise
<1>7. CASE pageinRead(p)
  <2>1. PICK g \in Pages : /\ newpage(g)
                           /\ io' = [io EXCEPT ![g] = p] /\ in' = in /\ pc'[p] = "read"
                           /\ ref' = [ref EXCEPT ![g] = Cardinality(Shares(p))]
                           /\ pg' = [x \in Segments |->
                                       IF x \in Shares(p) THEN [pg[x] EXCEPT ![a] = g] ELSE pg[x]]
                           /\ a \in Data => pg[text][a] = nil
                           /\ a \notin Bss
    BY <1>7 DEF pageinRead, goto, Basic, TypeOK
  <2>2. segof(p, a) \in Shares(p) /\ Shares(p) \subseteq {s, text} /\ (s \in Shares(p) => a \in Data)
    BY <1>2, <2>1 DEF segof, Shares, Addr, Sane
  <2>3. \A x \in Shares(p) : x \in Segments /\ pg[x][a] = nil
    BY <1>2, <2>1, <2>2 DEF segof, Shares, Sane
  <2>4. entry(p)' = g /\ g # nil
    <3>1. pg'[segof(p, a)][a] = g
      BY <1>2, <1>3, <2>1, <2>2, <2>3
    <3>2. entry(p)' = pg'[segof(p, a)][a]
      BY <1>1 DEF entry, segof
    <3> QED BY <1>2, <3>1, <3>2
  <2>5. \A x \in Segments, b \in Addr : pg[x][b] # nil => pg'[x][b] = pg[x][b]
    <3> HIDE DEF s, a
    <3> QED BY <1>2, <1>3, <2>1, <2>3
  <2>6. ref'[g] > 0
    <3>1. segof(p, a) \in Segments /\ pg'[segof(p, a)][a] = g
      BY <1>1, <2>2, <2>3, <2>4 DEF entry, segof
    <3> QED BY <1>2, <1>4, <2>4, <3>1, PlacedNext
  <2>7. \A h \in Pages \ {g} : in'[h] = in[h] /\ io'[h] = io[h] /\ ref'[h] = ref[h]
    BY <1>3, <2>1
  <2>8. io'[g] = p /\ in'[g] = in[g]
    BY <1>3, <2>1
  <2>9. ThereFor(p)'
    BY <1>1, <1>2, <2>1, <2>4, <2>8 DEF ThereFor, Fault
  <2> QED BY <1>1, <1>2, <2>1, <2>4, <2>5, <2>6, <2>7, <2>8, <2>9, FillPagewise
<1> QED BY <1>5, <1>6, <1>7

(* The page goes to the page table.                                        *)
LEMMA MmuputPagewise ==
  ASSUME Sane, Basic, Sound, NEW p \in Proc, mmuput(p)
  PROVE  Pagewise'
<1>1. /\ UNCHANGED <<pg, ref, in, io, dseg, at>> /\ pc[p] = "mmuput" /\ entry(p) # nil
      /\ mmu' = [mmu EXCEPT ![p][at[p]] = entry(p)] /\ pc'[p] = "user"
      /\ \A r \in Proc \ {p} : pc'[r] = pc[r] /\ mmu'[r] = mmu[r]
  BY DEF mmuput, goto, Basic, TypeOK
<1>2. at[p] \in Addr /\ mmu \in [Proc -> [Addr -> Pages \cup {nil}]]
  BY <1>1, Faulting DEF Fault, Basic, TypeOK
<1>3. \A r \in Proc : entry(r)' = entry(r)
  BY <1>1 DEF entry, segof
<1>4. There'
  <2>1. ThereFor(p)'
    BY <1>1 DEF ThereFor, Fault
  <2>2. ASSUME NEW r \in Proc \ {p} PROVE ThereFor(r)'
    BY <1>1, <1>3, ThereStays DEF Sound, There
  <2> QED BY <2>1, <2>2 DEF There
<1>5. Reading'
  <2>1. ASSUME NEW h \in Pages, NEW r \in Proc, io'[h] = r
        PROVE  ~in'[h] /\ pc'[r] = "read" /\ entry(r)' = h
    <3>1. ~in[h] /\ pc[r] = "read" /\ entry(r) = h
      BY <1>1, <2>1 DEF Sound, Reading
    <3> QED BY <1>1, <1>3, <3>1
  <2> QED BY <1>1, <2>1 DEF Sound, Reading
<1>6. \A r \in Proc, b \in Addr : mmu'[r][b] = IF r = p /\ b = at[p] THEN entry(p) ELSE mmu[r][b]
  BY <1>1, <1>2
<1>7. MmuExact'
  BY <1>1, <1>6 DEF Sound, MmuExact, entry, segof
<1>8. Owned'
  <2> SUFFICES ASSUME NEW r \in Proc, NEW b \in Addr \ Text, Writes(r, b)'
               PROVE  ref[pg[dseg[r]][b]] = 1
    BY <1>1 DEF Owned
  <2>1. Writes(r, b)
    BY <1>1, <1>6 DEF Writes
  <2> QED BY <2>1 DEF Sound, Owned
<1> QED BY <1>4, <1>5, <1>7, <1>8 DEF Pagewise

(* The copy of a page: nobody else is at it, or writes it.                 *)
LEMMA CopyPagewise ==
  ASSUME Sane, Alone, Basic, Sound, NEW p \in Proc, copy(p)
  PROVE  Pagewise'
<1> DEFINE s == dseg[p]
           a == at[p]
           e == entry(p)
<1>1. /\ pc[p] = "copy" /\ e # nil /\ UNCHANGED <<io, dseg, mmu, at>>
      /\ pc'[p] = "mmuput" /\ \A r \in Proc \ {p} : pc'[r] = pc[r]
  BY DEF copy, goto, Basic, TypeOK
<1>2. PICK g \in Pages : /\ newpage(g)
                         /\ ref' = putpage([ref EXCEPT ![g] = 1], e)
                         /\ in' = [freed(ref') EXCEPT ![g] = in[e]]
                         /\ pg' = [pg EXCEPT ![s][a] = g]
  BY DEF copy
<1>3. /\ s \in Segs /\ s \in Segments /\ s # text /\ a \in Addr /\ a \notin Text
      /\ e = pg[s][a] /\ e \in Pages /\ nil \notin Pages /\ text \in Segments /\ nil \notin Proc
  BY <1>1, Faulting, Distinct DEF Fault, Basic, Lives, entry, segof, Sane
<1>4. ref[g] = 0 /\ (\A x \in Segments, b \in Addr : pg[x][b] # g) /\ e # g
  BY <1>2, <1>3, FreeNowhere
<1>5. Basic'
  BY CopyBasic
<1>6. /\ mmu[p][a] = nil /\ (in[e] \/ "fail" \in May)
      /\ "share" \in May => pg[text][a] = e /\ in[e] /\ lk[s] = p
  <2>1. ThereFor(p) /\ ("share" \in May => "fail" \notin May /\ lk[s] = p)
    BY <1>1, Modes DEF Sound, There, Locked
  <2> QED BY <1>1, <2>1 DEF ThereFor, Fault
<1>7. /\ \A x \in Segments, b \in Addr : pg'[x][b] = IF x = s /\ b = a THEN g ELSE pg[x][b]
      /\ ref'[g] = 1 /\ in'[g] = in[e]
      /\ \A h \in Pages \ {g} : /\ ref'[h] = IF h = e THEN ref[h] - 1 ELSE ref[h]
                                /\ in'[h] = (in[h] /\ ref'[h] > 0)
  <2>1. pg \in [Segments -> [Addr -> Pages \cup {nil}]] /\ ref \in [Pages -> Nat] /\ in \in [Pages -> BOOLEAN]
    BY DEF Basic, TypeOK
  <2> HIDE DEF s, a, e
  <2>2. \A x \in Segments, b \in Addr : pg'[x][b] = IF x = s /\ b = a THEN g ELSE pg[x][b]
    BY <1>2, <1>3, <2>1
  <2>3. ref'[g] = 1 /\ \A h \in Pages \ {g} : ref'[h] = IF h = e THEN ref[h] - 1 ELSE ref[h]
    BY <1>2, <1>3, <1>4, <2>1 DEF putpage
  <2>4. in'[g] = in[e] /\ \A h \in Pages \ {g} : in'[h] = (in[h] /\ ref'[h] > 0)
    BY <1>2 DEF freed
  <2> QED BY <2>2, <2>3, <2>4
<1> DEFINE Same(r) == segof(r, at[r]) = s /\ at[r] = a
<1>8. ASSUME NEW r \in Proc \ {p}, pc[r] \in Fault \ {"pagein"}, Same(r)
      PROVE  "share" \in May /\ pc[r] \notin {"read", "copy"} /\ entry(r) = e
  <2>1. dseg[r] = s /\ entry(r) = e /\ s # nil
    BY <1>3, <1>8, Distinct DEF segof, entry
  <2>2. "share" \in May
    BY <2>1 DEF Sound, Private
  <2>3. ThereFor(r) /\ (pc[r] = "copy" => lk[s] = r)
    BY <2>1, <2>2 DEF Sound, There, Locked
  <2>4. pc[r] = "read" => io[e] = r
    BY <2>1, <2>3 DEF ThereFor
  <2>5. pc[r] # "read"
    BY <1>3, <1>6, <2>2, <2>4 DEF Sound, Reading
  <2> QED BY <1>6, <2>1, <2>2, <2>3, <2>5
<1>9. ASSUME NEW r \in Proc, pc[r] \in Fault \ {"pagein"}, ~ Same(r)
      PROVE  /\ entry(r)' = entry(r) /\ entry(r) \in Pages /\ entry(r) # g
             /\ in'[entry(r)] = in[entry(r)]
  <2>1. /\ at[r] \in Addr /\ segof(r, at[r]) \in Segments
        /\ entry(r) \in Pages \cup {nil} /\ entry(r) # nil
    BY <1>9, Faulting DEF Sound, There, ThereFor
  <2>2. segof(r, at[r])' = segof(r, at[r]) /\ at'[r] = at[r]
    BY <1>1 DEF segof
  <2>3. pg'[segof(r, at[r])][at[r]] = pg[segof(r, at[r])][at[r]]
    BY <1>7, <1>9, <2>1
  <2>4. entry(r)' = entry(r)
    BY <2>2, <2>3 DEF entry
  <2>5. ref'[entry(r)] > 0
    BY <1>5, <2>1, <2>3, PlacedNext DEF entry
  <2>6. entry(r) # g
    BY <1>4, <2>1 DEF entry
  <2> QED BY <1>7, <2>1, <2>4, <2>5, <2>6, SMTT(60) DEF Basic, TypeOK
<1>10. There'
  <2>1. ThereFor(p)'
    <3>1. entry(p)' = g
      BY <1>1, <1>3, <1>7 DEF entry, segof
    <3> QED BY <1>1, <1>3, <1>6, <1>7, <3>1 DEF ThereFor, Fault
  <2>2. ASSUME NEW r \in Proc \ {p} PROVE ThereFor(r)'
    <3>1. ThereFor(r) /\ pc'[r] = pc[r] /\ at'[r] = at[r]
      BY <1>1 DEF Sound, There
    <3>2. CASE pc[r] \in Fault \ {"pagein"} /\ Same(r)
      <4>1. entry(r)' = g
        BY <1>1, <1>3, <1>7, <3>2 DEF entry, segof
      <4> QED BY <1>1, <1>3, <1>6, <1>7, <1>8, <3>1, <3>2, <4>1 DEF ThereFor, Fault
    <3>3. CASE pc[r] \in Fault \ {"pagein"} /\ ~ Same(r)
      <4>1. pg'[text][at[r]] = pg[text][at[r]]
        BY <1>3, <1>7, <3>3, Faulting
      <4>2. entry(r)' = entry(r) /\ in'[entry(r)] = in[entry(r)]
        BY <1>9, <3>3
      <4> QED BY <1>1, <3>1, <3>3, <4>1, <4>2, ThereStays
    <3>4. CASE pc[r] \notin Fault \ {"pagein"}
      BY <1>1, <3>1, <3>4 DEF ThereFor, Fault
    <3> QED BY <3>2, <3>3, <3>4
  <2> QED BY <2>1, <2>2 DEF There
<1>11. Reading'
  <2>1. ASSUME NEW h \in Pages, NEW r \in Proc, io'[h] = r
        PROVE  ~in'[h] /\ pc'[r] = "read" /\ entry(r)' = h
    <3>1. ~in[h] /\ pc[r] = "read" /\ entry(r) = h /\ r # p
      BY <1>1, <2>1 DEF Sound, Reading
    <3>2. ~ Same(r)
      BY <1>8, <3>1 DEF Fault
    <3> QED BY <1>1, <1>9, <3>1, <3>2 DEF Fault
  <2>2. ASSUME NEW h \in Pages, in'[h] PROVE ref'[h] > 0
    <3>1. CASE h = g
      BY <1>7, <3>1
    <3>2. CASE h # g
      BY <1>7, <2>2, <3>2, Zenon
    <3> QED BY <3>1, <3>2
  <2>3. ASSUME NEW h \in Pages, ref'[h] > 0 PROVE in'[h] \/ io'[h] # nil \/ "fail" \in May
    <3>1. CASE h = g
      BY <1>6, <1>7, <3>1
    <3>2. CASE h # g
      <4>1. ref[h] > 0
        <5>1. ref[h] \in Nat
          BY DEF Basic, TypeOK
        <5>2. ref'[h] = IF h = e THEN ref[h] - 1 ELSE ref[h]
          BY <1>7, <3>2
        <5> HIDE DEF e
        <5> QED BY <2>3, <5>1, <5>2
      <4> QED BY <1>1, <1>7, <2>3, <3>2, <4>1 DEF Sound, Reading
    <3> QED BY <3>1, <3>2
  <2> QED BY <2>1, <2>2, <2>3 DEF Reading
<1>12. ASSUME NEW r \in Proc, dseg[r] = s, Writes(r, a) PROVE r = p
  <2> SUFFICES ASSUME r # p PROVE FALSE
    OBVIOUS
  <2>1. "share" \in May
    BY <1>3, <1>12, Distinct DEF Sound, Private
  <2>2. ref[e] = 1 /\ pg[text][a] = e
    BY <1>3, <1>6, <1>12, <2>1, Writing
  <2> QED BY <1>1, <1>3, <2>2, OnlyPlace
<1>13. MmuExact'
  <2> SUFFICES ASSUME NEW r \in Proc, NEW b \in Addr, mmu[r][b] # nil
               PROVE  mmu[r][b] = pg'[segof(r, b)][b]
    BY <1>1 DEF MmuExact, segof
  <2>1. mmu[r][b] = pg[segof(r, b)][b] /\ pc[r] # "dead"
    BY DEF Sound, MmuExact, Basic, Lives
  <2>2. segof(r, b) \in Segments
    BY <1>3, <2>1 DEF segof, Basic, TypeOK, Lives, Segments
  <2>3. ~ (segof(r, b) = s /\ b = a)
    BY <1>3, <1>6, <1>12 DEF segof, Writes
  <2> QED BY <1>7, <2>1, <2>2, <2>3
<1>14. Owned'
  <2> SUFFICES ASSUME NEW r \in Proc, NEW b \in Addr \ Text, Writes(r, b)'
               PROVE  ref'[pg'[dseg[r]][b]] = 1
    BY <1>1 DEF Owned
  <2>1. CASE r = p /\ b = a
    BY <1>3, <1>7, <2>1
  <2>2. CASE ~ (r = p /\ b = a)
    <3>1. Writes(r, b)
      BY <1>1, <2>2 DEF Writes
    <3>2. /\ dseg[r] \in Segments /\ pg[dseg[r]][b] # nil
          /\ pg[dseg[r]][b] \in Pages /\ ref[pg[dseg[r]][b]] = 1
      BY <3>1, Writing
    <3>3. ~ (dseg[r] = s /\ b = a)
      BY <1>12, <2>2, <3>1
    <3>4. pg[dseg[r]][b] # e
      BY <1>3, <3>2, <3>3, OnlyPlace
    <3> QED BY <1>4, <1>7, <3>2, <3>3, <3>4
  <2> QED BY <2>1, <2>2
<1> QED BY <1>10, <1>11, <1>13, <1>14 DEF Pagewise

(* A process gives pages up that nobody else has in a map.                 *)
LEMMA DropPagewise ==
  ASSUME Sane, Basic, Sound, Basic', NEW p \in Proc,
         pc[p] \in {"user", "mfreeseg"}, pc'[p] \in {"user", "dead"},
         \A r \in Proc \ {p} : pc'[r] = pc[r] /\ at'[r] = at[r] /\ dseg'[r] = dseg[r],
         io' = io, \A b \in Addr : mmu'[p][b] = nil,
         \A r \in Proc, b \in Addr : mmu'[r][b] \in {mmu[r][b], nil},
         \A h \in Pages : ref'[h] <= ref[h] /\ in'[h] = (in[h] /\ ref'[h] > 0),
         \A b \in Addr : pg'[text][b] = pg[text][b],
         \A r \in Proc \ {p}, b \in Addr : dseg[r] # nil => pg'[dseg[r]][b] = pg[dseg[r]][b]
  PROVE  Pagewise'
<1>1. nil \notin Proc /\ nil \notin Pages /\ text \in Segments /\ Segs \subseteq Segments
  BY Distinct DEF Sane, Segments
<1>2. ref \in [Pages -> Nat] /\ ref' \in [Pages -> Nat] /\ dseg \in [Proc -> Segs \cup {nil}]
  BY DEF Basic, TypeOK
<1>3. ASSUME NEW r \in Proc \ {p}, NEW b \in Addr, pc[r] # "dead"
      PROVE  /\ segof(r, b) \in Segments /\ segof(r, b)' = segof(r, b)
             /\ pg'[segof(r, b)][b] = pg[segof(r, b)][b]
  BY <1>1, <1>2, <1>3 DEF segof, Basic, Lives
<1>4. ASSUME NEW r \in Proc \ {p}, pc[r] \in Fault \ {"pagein"}
      PROVE  /\ entry(r)' = entry(r) /\ entry(r) \in Pages
             /\ in'[entry(r)] = in[entry(r)]
  <2>1. /\ at[r] \in Addr /\ segof(r, at[r]) \in Segments
        /\ entry(r) \in Pages \cup {nil} /\ entry(r) # nil
    BY <1>4, Faulting DEF Sound, There, ThereFor
  <2>2. pg'[segof(r, at[r])][at[r]] = pg[segof(r, at[r])][at[r]] /\ segof(r, at[r])' = segof(r, at[r])
    <3>1. segof(r, at[r])' = segof(r, at[r])
      BY DEF segof
    <3> QED BY <1>3, <1>4, <2>1, <3>1 DEF Fault
  <2>3. entry(r)' = entry(r)
    BY <2>2 DEF entry
  <2>4. ref'[entry(r)] > 0
    BY <2>1, <2>2, PlacedNext DEF entry
  <2>5. entry(r) \in Pages /\ in[entry(r)] \in BOOLEAN
    BY <2>1 DEF Basic, TypeOK
  <2>6. in'[entry(r)] = in[entry(r)]
    <3> DEFINE h == entry(r)
    <3>1. h \in Pages /\ in[h] \in BOOLEAN /\ ref'[h] > 0 /\ in'[h] = (in[h] /\ ref'[h] > 0)
      BY <2>4, <2>5
    <3> HIDE DEF h
    <3>2. in'[h] = in[h]
      BY <3>1
    <3> QED BY <3>2 DEF h
  <2> QED BY <2>3, <2>5, <2>6
<1>5. There'
  <2>1. ThereFor(p)'
    BY DEF ThereFor, Fault
  <2>2. ASSUME NEW r \in Proc \ {p} PROVE ThereFor(r)'
    <3>1. ThereFor(r) /\ pc'[r] = pc[r] /\ at'[r] = at[r]
      BY DEF Sound, There
    <3>2. pc[r] \in Fault => at[r] \in Addr
      BY Faulting
    <3> QED BY <1>4, <3>1, <3>2, ThereStays DEF Fault
  <2> QED BY <2>1, <2>2 DEF There
<1>6. Reading'
  <2>1. ASSUME NEW h \in Pages, NEW r \in Proc, io'[h] = r
        PROVE  ~in'[h] /\ pc'[r] = "read" /\ entry(r)' = h
    <3>1. ~in[h] /\ pc[r] = "read" /\ entry(r) = h /\ r # p
      BY <2>1 DEF Sound, Reading
    <3> QED BY <1>4, <3>1 DEF Fault
  <2>2. ASSUME NEW h \in Pages, in'[h] PROVE ref'[h] > 0
    BY <2>2, Zenon
  <2>3. ASSUME NEW h \in Pages, ref'[h] > 0 PROVE in'[h] \/ io'[h] # nil \/ "fail" \in May
    <3>1. ref[h] > 0
      BY <1>2, <2>3
    <3>2. in[h] \/ io[h] # nil \/ "fail" \in May
      BY <3>1 DEF Sound, Reading
    <3> QED BY <2>3, <3>2
  <2> QED BY <2>1, <2>2, <2>3 DEF Reading
<1>7. MmuExact'
  <2> SUFFICES ASSUME NEW r \in Proc, NEW b \in Addr, mmu'[r][b] # nil
               PROVE  mmu'[r][b] = pg'[segof(r, b)'][b]
    BY DEF MmuExact
  <2>1. r # p /\ mmu[r][b] # nil /\ mmu'[r][b] = mmu[r][b]
    OBVIOUS
  <2>2. mmu[r][b] = pg[segof(r, b)][b] /\ pc[r] # "dead"
    BY <2>1 DEF Sound, MmuExact, Basic, Lives
  <2> QED BY <1>3, <2>1, <2>2
<1>8. Owned'
  <2> SUFFICES ASSUME NEW r \in Proc, NEW b \in Addr \ Text, Writes(r, b)'
               PROVE  ref'[pg'[dseg'[r]][b]] = 1
    BY DEF Owned
  <2>1. r # p /\ Writes(r, b)
    BY DEF Writes
  <2>2. /\ dseg[r] \in Segments /\ dseg[r] # nil /\ pg[dseg[r]][b] # nil
        /\ pg[dseg[r]][b] \in Pages /\ ref[pg[dseg[r]][b]] = 1
    BY <2>1, Writing, Distinct
  <2>3. dseg'[r] = dseg[r] /\ pg'[dseg[r]][b] = pg[dseg[r]][b]
    BY <2>1, <2>2
  <2>4. ref'[pg[dseg[r]][b]] > 0
    BY <2>2, <2>3, PlacedNext
  <2> QED BY <1>2, <2>2, <2>3, <2>4
<1> QED BY <1>5, <1>6, <1>7, <1>8 DEF Pagewise

(* segfree() gives up a page of a segment nobody else has ...              *)
LEMMA MfreesegPagewise ==
  ASSUME Sane, Alone, Basic, Sound, NEW p \in Proc, mfreeseg(p)
  PROVE  Pagewise'
<1> DEFINE s == dseg[p]
           a == at[p]
           e == entry(p)
<1>1. /\ pc[p] = "mfreeseg" /\ UNCHANGED <<io, dseg, at>>
      /\ pc'[p] = "user" /\ \A r \in Proc \ {p} : pc'[r] = pc[r]
      /\ mmu' = [r \in Proc |-> IF r = p \/ (dseg[r] = s /\ sref[s] > 1)
                                THEN [b \in Addr |-> nil] ELSE mmu[r]]
  BY DEF mfreeseg, goto, Basic, TypeOK
<1>2. /\ s \in Segs /\ s \in Segments /\ s # text /\ a \in Addr /\ text \in Segments
      /\ e = pg[s][a] /\ e \in Pages \cup {nil} /\ nil \notin Pages
  BY <1>1, Faulting, Distinct DEF Fault, Basic, Lives, entry, segof
<1>3. Basic'
  BY MfreesegBasic
<1>4. \A r \in Proc \ {p} : dseg[r] # s
  <2>1. "share" \notin May /\ s # nil
    BY <1>1, <1>2, Distinct, Modes DEF Sound
  <2> QED BY <2>1 DEF Sound, Private
<1>5. (\A b \in Addr : mmu'[p][b] = nil) /\ \A r \in Proc, b \in Addr : mmu'[r][b] \in {mmu[r][b], nil}
  BY <1>1
<1>6. \A x \in Segments, b \in Addr : x # s => pg'[x][b] = pg[x][b]
  <2>1. pg' = pg \/ pg' = [pg EXCEPT ![s][a] = nil]
    BY DEF mfreeseg
  <2> QED BY <1>2, <2>1 DEF Basic, TypeOK
<1>7. \A h \in Pages : ref'[h] <= ref[h] /\ in'[h] = (in[h] /\ ref'[h] > 0)
  <2>1. ref \in [Pages -> Nat] /\ in \in [Pages -> BOOLEAN] /\ \A h \in Pages : in[h] => ref[h] > 0
    BY DEF Basic, TypeOK, Sound, Reading
  <2>2. CASE e = nil
    <3>1. ref' = ref /\ in' = in
      BY <2>2 DEF mfreeseg
    <3> QED BY <2>1, <3>1
  <2>3. CASE e # nil
    <3>1. ref' = [ref EXCEPT ![e] = @ - 1] /\ in' = [h \in Pages |-> in[h] /\ ref'[h] > 0]
      BY <2>3 DEF mfreeseg, putpage, freed
    <3>2. \A h \in Pages : ref'[h] <= ref[h]
      <4> HIDE DEF e
      <4> QED BY <2>1, <3>1
    <3> QED BY <3>1, <3>2
  <2> QED BY <2>2, <2>3
<1>8. \A r \in Proc \ {p}, b \in Addr : dseg[r] # nil => pg'[dseg[r]][b] = pg[dseg[r]][b]
  <2>1. \A r \in Proc : dseg[r] # nil => dseg[r] \in Segments
    BY DEF Basic, TypeOK, Segments
  <2> QED BY <1>4, <1>6, <2>1
<1> QED BY <1>1, <1>2, <1>3, <1>5, <1>6, <1>7, <1>8, DropPagewise

(* ... and exit all of them, if it is the last.                            *)
LEMMA PexitPagewise ==
  ASSUME Sane, Basic, Sound, NEW p \in Proc, pexit(p)
  PROVE  Pagewise'
<1> DEFINE s == dseg[p]
<1>1. /\ pc[p] = "user" /\ io' = io /\ pc'[p] = "dead"
      /\ \A r \in Proc \ {p} : pc'[r] = pc[r] /\ at'[r] = at[r] /\ dseg'[r] = dseg[r]
      /\ mmu' = [mmu EXCEPT ![p] = [b \in Addr |-> nil]]
  BY DEF pexit, goto, Basic, TypeOK
<1>2. s \in Segs /\ s \in Segments /\ s # text /\ text \in Segments /\ nil \notin Pages
  BY <1>1, Distinct DEF Basic, TypeOK, Lives, Segments
<1>3. Basic'
  BY PexitBasic
<1>4. (\A b \in Addr : mmu'[p][b] = nil) /\ \A r \in Proc, b \in Addr : mmu'[r][b] \in {mmu[r][b], nil}
  BY <1>1 DEF Basic, TypeOK
<1>5. sref[s] = 1 => \A r \in Proc \ {p} : dseg[r] # s
  BY <1>2, CountsParts, UsedBy DEF Basic
<1>6. \A x \in Segments, b \in Addr : x # s \/ sref[s] # 1 => pg'[x][b] = pg[x][b]
  <2>1. (sref[s] # 1 /\ pg' = pg) \/ (sref[s] = 1 /\ pg' = [pg EXCEPT ![s] = [b \in Addr |-> nil]])
    BY DEF pexit
  <2> QED BY <1>2, <2>1 DEF Basic, TypeOK
<1>7. \A h \in Pages : ref'[h] <= ref[h] /\ in'[h] = (in[h] /\ ref'[h] > 0)
  <2>1. ref \in [Pages -> Nat] /\ in \in [Pages -> BOOLEAN] /\ \A h \in Pages : in[h] => ref[h] > 0
    BY DEF Basic, TypeOK, Sound, Reading
  <2>2. CASE sref[s] # 1
    <3>1. ref' = ref /\ in' = in
      BY <2>2 DEF pexit
    <3> QED BY <2>1, <3>1
  <2>3. CASE sref[s] = 1
    <3>1. /\ ref' = [g \in Pages |-> ref[g] - Cardinality(Row(pg, s, g))]
          /\ in' = [h \in Pages |-> in[h] /\ ref'[h] > 0]
      BY <2>3 DEF pexit, freed, Row
    <3>2. \A h \in Pages : ref'[h] <= ref[h]
      <4>1. \A h \in Pages : ref'[h] = ref[h] - Cardinality(Row(pg, s, h))
        BY <3>1
      <4>2. \A h \in Pages : Cardinality(Row(pg, s, h)) \in Nat
        BY RowFinite
      <4> QED BY <2>1, <4>1, <4>2
    <3> QED BY <3>1, <3>2
  <2> QED BY <2>2, <2>3
<1>8. \A r \in Proc \ {p}, b \in Addr : dseg[r] # nil => pg'[dseg[r]][b] = pg[dseg[r]][b]
  <2>1. \A r \in Proc : dseg[r] # nil => dseg[r] \in Segments
    BY DEF Basic, TypeOK, Segments
  <2> QED BY <1>5, <1>6, <2>1
<1> QED BY <1>1, <1>2, <1>3, <1>4, <1>6, <1>7, <1>8, DropPagewise

(* A child that starts, or its parent after fork: page tables only lose    *)
(* entries, and processes only come to "user".                             *)
LEMMA StartPagewise ==
  ASSUME Sane, Basic, Sound, NEW p \in Proc, forked(p) \/ \E q \in Proc : rforkShare(p, q)
  PROVE  Pagewise'
<1>1. UNCHANGED <<pg, ref, in, io, at>>
  BY DEF forked, rforkShare
<1>2. \A r \in Proc, b \in Addr : mmu'[r][b] \in {mmu[r][b], nil}
  <2>1. \/ mmu' = mmu
        \/ mmu' = [r \in Proc |-> IF dseg[r] = dseg[p] THEN [a \in Addr |-> nil] ELSE mmu[r]]
    BY DEF forked, rforkShare, procflushseg
  <2> QED BY <2>1
<1>3. ASSUME NEW r \in Proc
      PROVE  /\ \/ pc'[r] = pc[r]
                \/ pc'[r] = "user" /\ pc[r] \in {"dead", "flush"}
             /\ dseg'[r] = dseg[r] \/ pc[r] = "dead"
  <2>1. CASE forked(p)
    <3>1. /\ pc[p] = "flush" /\ pc[child[p]] = "dead" /\ dseg' = dseg
          /\ pc' = [pc EXCEPT ![p] = "user", ![child[p]] = "user"]
      BY <2>1 DEF forked, Basic, Lives
    <3> QED BY <3>1 DEF Basic, TypeOK
  <2>2. CASE \E q \in Proc : rforkShare(p, q)
    <3>1. PICK q \in Proc : dseg[q] = nil /\ dseg' = [dseg EXCEPT ![q] = dseg[p]] /\ pc' = [pc EXCEPT ![q] = "user"]
      BY <2>2 DEF rforkShare, goto
    <3>2. pc[q] = "dead"
      BY <3>1 DEF Basic, Lives
    <3> QED BY <3>1, <3>2 DEF Basic, TypeOK
  <2> QED BY <2>1, <2>2
<1>4. ASSUME NEW r \in Proc, pc[r] # "dead"
      PROVE  dseg'[r] = dseg[r] /\ entry(r)' = entry(r) /\ \A b : segof(r, b)' = segof(r, b)
  <2>1. dseg'[r] = dseg[r]
    BY <1>3, <1>4
  <2> QED BY <1>1, <2>1 DEF entry, segof
<1>5. There'
  <2> SUFFICES ASSUME NEW r \in Proc PROVE ThereFor(r)'
    BY DEF There
  <2>1. CASE pc'[r] = pc[r]
    <3>1. pc[r] \in Fault => at[r] \in Addr
      BY Faulting
    <3> QED BY <1>1, <1>2, <1>4, <2>1, <3>1, ThereStays DEF Sound, There, Fault
  <2>2. CASE pc'[r] = "user"
    BY <2>2 DEF ThereFor, Fault
  <2> QED BY <1>3, <2>1, <2>2
<1>6. Reading'
  <2>1. ASSUME NEW h \in Pages, NEW r \in Proc, io'[h] = r
        PROVE  ~in'[h] /\ pc'[r] = "read" /\ entry(r)' = h
    <3>1. ~in[h] /\ pc[r] = "read" /\ entry(r) = h
      BY <1>1, <2>1 DEF Sound, Reading
    <3> QED BY <1>1, <1>3, <1>4, <3>1
  <2> QED BY <1>1, <2>1 DEF Sound, Reading
<1>7. ASSUME NEW r \in Proc, NEW b \in Addr, Writes(r, b)'
      PROVE  Writes(r, b) /\ pc[r] # "dead"
  <2>1. Writes(r, b)
    BY <1>1, <1>2, <1>3, <1>7 DEF Writes
  <2> QED BY <2>1 DEF Writes, Basic, Lives
<1>8. MmuExact'
  <2> SUFFICES ASSUME NEW r \in Proc, NEW b \in Addr, mmu'[r][b] # nil
               PROVE  mmu'[r][b] = pg'[segof(r, b)'][b]
    BY DEF MmuExact
  <2>1. pc[r] # "dead" /\ mmu'[r][b] = mmu[r][b]
    BY <1>2 DEF Basic, Lives
  <2> QED BY <1>1, <1>4, <2>1 DEF Sound, MmuExact
<1>9. Owned'
  <2> SUFFICES ASSUME NEW r \in Proc, NEW b \in Addr \ Text, Writes(r, b)'
               PROVE  ref'[pg'[dseg'[r]][b]] = 1
    BY DEF Owned
  <2> QED BY <1>1, <1>4, <1>7 DEF Sound, Owned
<1> QED BY <1>5, <1>6, <1>8, <1>9 DEF Pagewise

(* The copy of a segment: the parent's page table lets go of it, and no    *)
(* other process has it.                                                   *)
LEMMA ForksegPagewise ==
  ASSUME Sane, Alone, Basic, Sound, NEW p \in Proc, NEW q \in Proc, NEW n \in Segs, forkseg(p, q, n)
  PROVE  Pagewise'
<1> DEFINE s == dseg[p]
<1>1. /\ pc[p] = "user" /\ dseg[q] = nil /\ sref[n] = 0 /\ "copy" \in May
      /\ pg' = [pg EXCEPT ![n] = pg[s]]
      /\ ref' = [g \in Pages |-> ref[g] + Cardinality(Row(pg, s, g))]
      /\ mmu' = [mmu EXCEPT ![p] = [a \in Addr |-> IF a \in Text THEN @[a] ELSE nil]]
      /\ dseg' = [dseg EXCEPT ![q] = n] /\ pc' = [pc EXCEPT ![p] = "flush"]
      /\ UNCHANGED <<in, io, at>>
  BY DEF forkseg, goto, newseg, ptecpy, mmuflushpg, Row
<1>2. /\ s \in Segs /\ s \in Segments /\ s # text /\ n \in Segments /\ nil \notin Segs /\ nil \notin Pages
      /\ n # text /\ text \in Segments /\ pc[q] = "dead" /\ p # q
  BY <1>1, Distinct DEF Basic, TypeOK, Lives, Segments
<1>3. \A r \in Proc : dseg[r] # n /\ (r # p => dseg[r] # s)
  <2>1. \A r \in Proc : dseg[r] # n
    BY <1>1, CountsParts, UsedBy DEF Basic
  <2>2. "share" \notin May
    BY <1>1 DEF Alone
  <2> QED BY <1>2, <2>1, <2>2 DEF Sound, Private
<1>4. Basic'
  BY ForksegBasic
<1>5. /\ \A x \in Segments, b \in Addr : pg'[x][b] = IF x = n THEN pg[s][b] ELSE pg[x][b]
      /\ \A r \in Proc, b \in Addr : mmu'[r][b] \in {mmu[r][b], nil} /\ (r = p /\ b \notin Text => mmu'[r][b] = nil)
      /\ \A r \in Proc \ {p} : pc'[r] = pc[r]
      /\ \A r \in Proc \ {q} : dseg'[r] = dseg[r]
      /\ pc'[p] = "flush"
  BY <1>1, <1>2 DEF Basic, TypeOK
<1>6. ASSUME NEW r \in Proc, pc[r] # "dead", NEW b \in Addr
      PROVE  /\ segof(r, b) \in Segments /\ segof(r, b)' = segof(r, b)
             /\ pg'[segof(r, b)][b] = pg[segof(r, b)][b]
  <2>1. r # q /\ dseg[r] \in Segments /\ dseg[r] # n
    BY <1>2, <1>3, <1>6 DEF Basic, TypeOK, Lives, Segments
  <2> QED BY <1>2, <1>5, <2>1 DEF segof
<1>7. ASSUME NEW r \in Proc, pc[r] \in Fault \ {"pagein"} PROVE entry(r)' = entry(r)
  <2>1. at[r] \in Addr /\ pc[r] # "dead" /\ at'[r] = at[r]
    BY <1>1, <1>7, Faulting DEF Fault
  <2>2. segof(r, at[r])' = segof(r, at[r])
    <3>1. r # q
      BY <1>2, <2>1
    <3> QED BY <1>5, <2>1, <3>1 DEF segof
  <2> QED BY <1>6, <2>1, <2>2 DEF entry
<1>8. There'
  <2> SUFFICES ASSUME NEW r \in Proc PROVE ThereFor(r)'
    BY DEF There
  <2>1. CASE r = p
    BY <1>5, <2>1 DEF ThereFor, Fault
  <2>2. CASE r # p
    <3>1. pc'[r] = pc[r] /\ at'[r] = at[r] /\ ThereFor(r) /\ (pc[r] \in Fault => at[r] \in Addr)
      BY <1>1, <1>5, <2>2, Faulting DEF Sound, There
    <3>2. pc[r] \in Fault => pg'[text][at[r]] = pg[text][at[r]]
      BY <1>2, <1>5, <3>1
    <3> QED BY <1>1, <1>5, <1>7, <3>1, <3>2, ThereStays DEF Fault
  <2> QED BY <2>1, <2>2
<1>9. \A h \in Pages : (ref'[h] > 0 <=> ref[h] > 0) /\ ref'[h] = ref[h] + Cardinality(Row(pg, s, h))
  <2> SUFFICES ASSUME NEW h \in Pages PROVE ref'[h] > 0 <=> ref[h] > 0
    BY <1>1
  <2>1. PageCounts(pg, ref) /\ PageCounts(pg', ref')
    BY <1>4, CountsParts, CountsPartsNext DEF Basic
  <2>2. ref[h] > 0 <=> \E x \in Segments, b \in Addr : pg[x][b] = h
    BY <2>1, OnePlace
  <2>3. ref'[h] > 0 <=> \E x \in Segments, b \in Addr : pg'[x][b] = h
    BY <2>1, OnePlace
  <2>4. ref'[h] = ref[h] + Cardinality(Row(pg, s, h)) /\ ref[h] \in Nat /\ Cardinality(Row(pg, s, h)) \in Nat
    BY <1>1, RowFinite DEF Basic, TypeOK
  <2>5. ref[h] > 0 => ref'[h] > 0
    BY <2>4
  <2>6. ref'[h] > 0 => ref[h] > 0
    BY <1>2, <1>5, <2>2, <2>3
  <2> QED BY <2>5, <2>6
<1>10. Reading'
  <2>1. ASSUME NEW h \in Pages, NEW r \in Proc, io'[h] = r
        PROVE  ~in'[h] /\ pc'[r] = "read" /\ entry(r)' = h
    <3>1. ~in[h] /\ pc[r] = "read" /\ entry(r) = h
      BY <1>1, <2>1 DEF Sound, Reading
    <3>2. r # p
      BY <1>1, <3>1
    <3> QED BY <1>1, <1>5, <1>7, <3>1, <3>2 DEF Fault
  <2> QED BY <1>1, <1>9, <2>1 DEF Sound, Reading
<1>11. MmuExact'
  <2> SUFFICES ASSUME NEW r \in Proc, NEW b \in Addr, mmu'[r][b] # nil
               PROVE  mmu'[r][b] = pg'[segof(r, b)'][b]
    BY DEF MmuExact
  <2>1. pc[r] # "dead" /\ mmu'[r][b] = mmu[r][b]
    BY <1>5 DEF Basic, Lives
  <2> QED BY <1>6, <2>1 DEF Sound, MmuExact
<1>12. Owned'
  <2> SUFFICES ASSUME NEW r \in Proc, NEW b \in Addr \ Text, Writes(r, b)'
               PROVE  ref'[pg'[dseg'[r]][b]] = 1
    BY DEF Owned
  <2>1. r # p /\ Writes(r, b)
    BY <1>1, <1>5 DEF Writes
  <2>2. /\ pc[r] # "dead" /\ dseg[r] \in Segments /\ pg[dseg[r]][b] # nil
        /\ pg[dseg[r]][b] \in Pages /\ ref[pg[dseg[r]][b]] = 1
    BY <2>1, Writing
  <2>3. dseg'[r] = dseg[r] /\ pg'[dseg[r]][b] = pg[dseg[r]][b] /\ dseg[r] # s
    BY <1>2, <1>3, <1>5, <2>1, <2>2
  <2> DEFINE h == pg[dseg[r]][b]
  <2>4. Row(pg, s, h) = {}
    <3>1. \A a \in Addr : pg[s][a] # h
      BY <1>2, <2>2, <2>3, OnlyPlace
    <3> QED BY <3>1 DEF Row
  <2>5. Cardinality(Row(pg, s, h)) = 0
    BY <2>4, FS_EmptySet
  <2> QED BY <1>9, <2>2, <2>3, <2>5
<1> QED BY <1>8, <1>10, <1>11, <1>12 DEF Pagewise
-----------------------------------------------------------------------------
(* Sound holds at first ...                                                *)
LEMMA SoundInit == ASSUME Sane, Init PROVE Sound
<1>1. /\ nil \notin Pages /\ nil \notin Proc /\ nil \notin Segs /\ 1 \in Segs
  BY Distinct DEF Sane, Segs
<1>2. \A p \in Proc : /\ pc[p] \in {"user", "dead"} /\ (p # First => dseg[p] = nil)
                      /\ dseg[p] \in {nil, 1} /\ \A a \in Addr : mmu[p][a] = nil
  BY DEF Init
<1>3. \A g \in Pages : ~ in[g] /\ io[g] = nil /\ ref[g] = 0
  BY DEF Init
<1>4. Private /\ Locked
  BY <1>2 DEF Private, Locked
<1>5. There /\ MmuExact /\ Owned
  BY <1>2 DEF There, ThereFor, Fault, MmuExact, Owned, Writes
<1>6. Reading
  BY <1>1, <1>3 DEF Reading
<1> QED BY <1>4, <1>5, <1>6 DEF Sound

(* ... every step keeps it ...                                             *)
LEMMA SoundNext == ASSUME Sane, Alone, Basic, Sound, Next PROVE Sound'
<1> PICK p \in Proc : Step(p)
  BY DEF Next
<1>1. Private' /\ Locked'
  BY PrivateNext, LockedNext DEF Sound
<1>2. Pagewise'
  <2>1. CASE \/ \E a \in Addr : fault(p, a) \/ syssegfree(p, a)
             \/ pageinHas(p) \/ pagedin(p) \/ relock(p) \/ cow(p)
    BY <2>1, QuietPagewise
  <2>2. CASE pageinZero(p) \/ pageinSrc(p) \/ pageinRead(p) \/ pgread(p) \/ pgreadFails(p)
    BY <2>2, PageinPagewise, ReadPagewise
  <2>3. CASE copy(p) \/ mmuput(p) \/ mfreeseg(p) \/ pexit(p)
    BY <2>3, CopyPagewise, MmuputPagewise, MfreesegPagewise, PexitPagewise
  <2>4. CASE forked(p) \/ \E q \in Proc : rforkShare(p, q) \/ \E n \in Segs : forkseg(p, q, n)
    BY <2>4, StartPagewise, ForksegPagewise
  <2> QED BY <2>1, <2>2, <2>3, <2>4 DEF Step
<1> QED BY <1>1, <1>2 DEF Sound, Pagewise

(* ... and so does one that changes nothing.                               *)
LEMMA SoundStutters == ASSUME Sound, UNCHANGED vars PROVE Sound'
BY DEF Sound, vars, Private, Locked, There, ThereFor, Reading, MmuExact, Owned, Writes, entry, segof

(* The invariant.                                                          *)
LEMMA InvariantAlways == ASSUME Sane, Alone PROVE Spec => [](Basic /\ Sound)
<1>1. Init => Basic /\ Sound
  BY BasicInit, SoundInit
<1>2. Basic /\ Sound /\ [Next]_vars => (Basic /\ Sound)'
  BY BasicNext, BasicStutters, SoundNext, SoundStutters
<1> QED BY <1>1, <1>2, PTL DEF Spec

(* Fault handling keeps page tables and maps in step: no page table has a  *)
(* page that the segment has given up, every page in a map is read in or   *)
(* being read, and the kernel never follows a map entry that another       *)
(* process has emptied between two locks of fixfault().                    *)
THEOREM PagesAreExact == ASSUME Sane, Alone PROVE Spec => []PagesExact
<1>1. ASSUME Basic, Sound PROVE PagesExact
  <2>1. \A g \in Pages : Maps(g) # {} => ref[g] > 0
    <3>1. \A g \in Pages : Maps(g) = Holders(pg, g)
      BY DEF Maps, Holders
    <3>2. \A g \in Pages : ref[g] \in Nat /\ (ref[g] = 0 <=> Holders(pg, g) = {})
      BY <1>1, CountsParts, OnePlace DEF Basic
    <3> QED BY <3>1, <3>2
  <2>2. ~ Crashed
    BY <1>1 DEF Crashed, Sound, There, ThereFor, Fault
  <2> QED BY <1>1, <2>1, <2>2 DEF PagesExact, Basic, Sound, Reading, MmuExact
<1>2. Basic /\ Sound => PagesExact
  BY <1>1
<1> QED BY <1>2, InvariantAlways, PTL

(* Copy on reference is sound: what a process can write is in no other     *)
(* segment, so a child never sees what its parent writes after the fork,   *)
(* nor does the cached image of the file.                                  *)
THEOREM NoWriteIsShared == ASSUME Sane, Alone PROVE Spec => []NoSharedWrite
<1>1. Basic /\ Sound => NoSharedWrite
  BY DEF Sound, MmuExact, Owned, Writes, segof, NoSharedWrite
<1> QED BY <1>1, InvariantAlways, PTL
=============================================================================
