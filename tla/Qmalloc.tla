------------------------------- MODULE Qmalloc ------------------------------
(***************************************************************************)
(* The kernel's malloc: port/qmalloc.c.  Blocks come from lists of blocks   *)
(* of one size, from the unused tail of a segment of memory, or from the    *)
(* circular list of its larger fragments, searched from the "rover" on.     *)
(* Lengths are in units, the header of a block included.                    *)
(***************************************************************************)
EXTENDS Naturals, Sequences, FiniteSets, SequencesExt

CONSTANTS
  Proc,
  Wants,      \* sizes that are asked for, in units
  Aligns,     \* alignments
  NQUICK,     \* the largest size that has a list of its own
  Mult,       \* what is left of a fragment is not worth splitting if it is less
  Units,      \* the length of a segment
  NSeg,       \* how many there can be
  MaxUsed,    \* how many blocks a process has
  nil

VARIABLES
  segs,       \* mseg0 and those linked to it: base, end, tail, rover and the list, maxsz
  quick,      \* [size -> the free blocks of that size]
  used,       \* [process -> its blocks]
  main,       \* who has mainlock
  waited,     \* history: who ever came back from morecore() without mainlock
  torn,       \* somebody changed the heap under a process without mainlock
  mclock,     \* who has mclock
  pc,
  req,        \* what a process asks for: units, alignment, calls of morecore()
  panic

qvars == <<segs, quick, used, main, waited, torn, mclock, pc, req, panic>>

Block(at, n) == [at |-> at, size |-> n]
mallocinitseg(k) ==
  [base |-> k * (Units + 1), end |-> k * (Units + 1) + Units, tail |-> k * (Units + 1),
   rover |-> <<>>, maxsz |-> nil]

Init ==
  /\ segs = <<mallocinitseg(0)>>
  /\ quick = [n \in 1..NQUICK |-> {}]
  /\ used = [p \in Proc |-> {}]
  /\ main = nil
  /\ waited = {}
  /\ torn = FALSE
  /\ mclock = nil
  /\ pc = [p \in Proc |-> "user"]
  /\ req = [p \in Proc |-> [n |-> 0, align |-> 1, mc |-> 0]]
  /\ panic = "no"

Goto(p, l) == pc' = [pc EXCEPT ![p] = l]
Aligned(b, align) == (b.at + 1) % align = 0

(* The heap is used, and mseg with it, while another process that has no    *)
(* mainlock is between the look at the lists and the change of them.        *)
Uses(p) == torn' = \E q \in Proc \ {p} : pc[q] = "take"

(* How far a block must start after "at" for what it holds to be aligned.   *)
Skip(at, align) == CHOOSE k \in 0..(align - 1) : (at + k + 1) % align = 0
-----------------------------------------------------------------------------
(* Freeing.  h is what changes: the segment and the lists of blocks.        *)

(* Seeded fault, for HeapExact: a block joins the rover whether or not it   *)
(* comes right after it.                                                    *)
qfreeinternalNear(h, b) ==
  LET s == h.seg IN
  IF b.at + b.size = s.tail THEN [h EXCEPT !.seg.tail = b.at]
  ELSE IF b.size <= NQUICK THEN [h EXCEPT !.quick[b.size] = @ \cup {b}]
  ELSE IF s.rover = <<>> THEN [h EXCEPT !.seg.rover = <<b>>]
  ELSE [h EXCEPT !.seg.rover[1].size = @ + b.size]

(* The list is not sorted: only the rover itself is looked at for a         *)
(* fragment that the block makes longer.                                    *)
qfreeinternal(h, b) ==
  LET s == h.seg
      larger(n) == IF s.maxsz # nil /\ n > s.maxsz THEN n ELSE s.maxsz
  IN
  IF b.at + b.size = s.tail THEN [h EXCEPT !.seg.tail = b.at]
  ELSE IF b.size <= NQUICK THEN [h EXCEPT !.quick[b.size] = @ \cup {b}]
  ELSE IF s.rover = <<>> THEN [h EXCEPT !.seg.rover = <<b>>]
  ELSE IF s.rover[1].at + s.rover[1].size = b.at
  THEN [h EXCEPT !.seg.rover[1].size = @ + b.size,
                 !.seg.maxsz = larger(s.rover[1].size + b.size)]
  ELSE [h EXCEPT !.seg.rover = <<s.rover[1], b>> \o Tail(s.rover), !.seg.maxsz = larger(b.size)]

SegOf(b) == CHOOSE i \in DOMAIN segs : segs[i].base <= b.at /\ b.at < segs[i].end
Set(i, h) == segs' = [segs EXCEPT ![i] = h.seg] /\ quick' = h.quick

free(p, b) ==
  /\ pc[p] = "user" /\ main = nil
  /\ Set(SegOf(b), qfreeinternal([seg |-> segs[SegOf(b)], quick |-> quick], b))
  /\ used' = [used EXCEPT ![p] = @ \ {b}]
  /\ Uses(p)
  /\ UNCHANGED <<main, waited, mclock, pc, req, panic>>

(* An allocation that is at the tail is made longer where it is; else       *)
(* realloc() is a malloc() and a free().                                    *)
realloc(p, b, n) ==
  LET i == SegOf(b) IN
  /\ pc[p] = "user" /\ main = nil
  /\ n > b.size /\ b.at + b.size = segs[i].tail /\ b.at + n <= segs[i].end
  /\ segs' = [segs EXCEPT ![i].tail = b.at + n]
  /\ used' = [used EXCEPT ![p] = (@ \ {b}) \cup {Block(b.at, n)}]
  /\ Uses(p)
  /\ UNCHANGED <<quick, main, waited, mclock, pc, req, panic>>
-----------------------------------------------------------------------------
malloc(p, n, align) ==
  /\ pc[p] = "user" /\ Cardinality(used[p]) < MaxUsed
  /\ Goto(p, "quick")
  /\ req' = [req EXCEPT ![p] = [n |-> n, align |-> align, mc |-> 0]]
  /\ UNCHANGED <<segs, quick, used, main, waited, torn, mclock, panic>>

(* A block of the list of its size, or of a size not much larger.           *)
Quick(n, align) ==
  LET nq == IF n > Mult /\ align = 1 THEN Mult ELSE 1
      from(m) == {b \in quick[m] : align = 1 \/ Aligned(b, align)}
      ms == {m \in n..(n + nq - 1) : m <= NQUICK /\ (m < NQUICK \/ align > 1) /\ from(m) # {}}
  IN IF ms = {} THEN {} ELSE from(CHOOSE m \in ms : \A k \in ms : m <= k)

qmalloc(p) ==
  /\ pc[p] = "quick"
  /\ \/ \E b \in Quick(req[p].n, req[p].align) :
          /\ quick' = [quick EXCEPT ![b.size] = @ \ {b}]
          /\ used' = [used EXCEPT ![p] = @ \cup {b}]
          /\ Goto(p, "user") /\ UNCHANGED main
     \/ /\ Quick(req[p].n, req[p].align) = {} /\ main = nil
        /\ main' = p /\ Goto(p, "search") /\ UNCHANGED <<quick, used>>
  /\ UNCHANGED <<segs, waited, torn, mclock, req, panic>>

(* tailalloc() in the first segment that has room; the runt before an       *)
(* aligned block is freed.                                                  *)
Room(s, n, align) ==
  LET k == Skip(s.tail, align) IN
  /\ s.end - s.tail >= n
  /\ k > 0 => s.end - s.tail >= n + align

TailAlloc(s, n, align) ==
  LET k == Skip(s.tail, align)
      h == [seg |-> [s EXCEPT !.tail = @ + k + n], quick |-> quick]
  IN [h |-> IF k = 0 THEN h ELSE qfreeinternal(h, Block(s.tail, k)), b |-> Block(s.tail + k, n)]

(* The fragment that a search finds, by its place on the list: the rover    *)
(* comes last.                                                              *)
Fits(b, n, align) ==
  b.size >= n /\ (align > 1 /\ ~Aligned(b, align) => b.size >= n + align)

Order(s) == [j \in DOMAIN s.rover |-> IF j = Len(s.rover) THEN 1 ELSE j + 1]
Found(s, n, align) ==
  LET js == SelectSeq(Order(s), LAMBDA j : Fits(s.rover[j], n, align)) IN
  IF align = 1 /\ s.maxsz # nil /\ n > s.maxsz THEN <<>> ELSE js

(* The list without fragment j, from the one before it on.                  *)
Without(s, j) ==
  LET l == s.rover IN SubSeq(l, j + 1, Len(l)) \o SubSeq(l, 1, j - 1)
Rotated(l) == IF l = <<>> THEN l ELSE <<l[Len(l)]>> \o Front(l)

(* Seeded fault, for HeapExact: the fragment keeps what is given away.      *)
FragAllocKeeps(s, j, n) ==
  LET b == s.rover[j] IN
  IF b.size - n >= Mult
  THEN [h |-> [seg |-> s, quick |-> quick], b |-> Block(b.at + b.size - n, n)]
  ELSE [h |-> [seg |-> [s EXCEPT !.rover = Rotated(Without(s, j))], quick |-> quick], b |-> b]

FragAlloc(s, j, n) ==
  LET b == s.rover[j]
      got == IF b.size - n >= Mult THEN Block(b.at + b.size - n, n) ELSE b
      l == IF b.size - n >= Mult THEN [s.rover EXCEPT ![j].size = @ - n]
           ELSE Rotated(Without(s, j))
  IN [h |-> [seg |-> [s EXCEPT !.rover = l, !.maxsz = IF got.size = @ THEN nil ELSE @],
             quick |-> quick],
      b |-> got]

(* qmallocalign(), the hard way.                                            *)
FragAlign(s, j, n, align) ==
  LET b == s.rover[j]
      k == Skip(b.at, align)
      h0 == [seg |-> [s EXCEPT !.rover = Rotated(Without(s, j)),
                               !.maxsz = IF b.size = @ THEN nil ELSE @],
             quick |-> quick]
      h1 == IF k = 0 THEN h0 ELSE qfreeinternal(h0, Block(b.at, k))
      rest == b.size - k - n
  IN IF rest > Mult
     THEN [h |-> qfreeinternal(h1, Block(b.at + k + n, rest)), b |-> Block(b.at + k, n)]
     ELSE [h |-> h1, b |-> Block(b.at + k, b.size - k)]

(* maxsz of a segment that was searched in vain.                            *)
Searched(s, n, align) ==
  IF align > 1 \/ s.rover = <<>> \/ (s.maxsz # nil /\ n > s.maxsz) THEN s
  ELSE [s EXCEPT !.maxsz = Max({s.rover[j].size : j \in DOMAIN s.rover})]

(* The tails, then the fragments, then morecore().  It ends with an         *)
(* iunlock(), whoever has mainlock.  Who has it looks and takes in one      *)
(* step, others may change the heap between the two.                        *)
look(p) ==
  /\ pc[p] = "search" /\ main # p
  /\ Goto(p, "take")
  /\ UNCHANGED <<segs, quick, used, main, waited, torn, mclock, req, panic>>

search(p) ==
  LET n == req[p].n
      align == req[p].align
      tails == {i \in DOMAIN segs : Room(segs[i], n, align)}
      frags == {i \in DOMAIN segs : Found(segs[i], n, align) # <<>>}
      give(i, a, before) ==
        /\ segs' = [before EXCEPT ![i] = a.h.seg] /\ quick' = a.h.quick
        /\ used' = [used EXCEPT ![p] = @ \cup {a.b}]
        /\ main' = nil /\ Goto(p, "user") /\ UNCHANGED <<req, panic>>
  IN
  /\ pc[p] = "take" \/ (pc[p] = "search" /\ main = p)
  /\ Uses(p)
  /\ \/ /\ tails # {}
        /\ give(Min(tails), TailAlloc(segs[Min(tails)], n, align), segs)
     \/ /\ tails = {} /\ frags # {}
        /\ LET i == Min(frags) j == Head(Found(segs[i], n, align)) IN
           give(i, IF align = 1 THEN FragAlloc(segs[i], j, n) ELSE FragAlign(segs[i], j, n, align),
                [k \in DOMAIN segs |-> IF k < i THEN Searched(segs[k], n, align) ELSE segs[k]])
     \/ /\ tails = {} /\ frags = {}
        /\ segs' = [k \in DOMAIN segs |-> Searched(segs[k], n, align)]
        /\ \/ /\ req[p].mc < 3 /\ n + align <= Units
              /\ req' = [req EXCEPT ![p].mc = @ + 1]
              /\ Goto(p, "morecore") /\ UNCHANGED panic
           \/ /\ ~(req[p].mc < 3 /\ n + align <= Units)
              /\ panic' = "Enomem" /\ UNCHANGED <<req, pc>>
        /\ main' = nil
        /\ UNCHANGED <<quick, used>>
  /\ UNCHANGED <<waited, mclock>>

(* morecore(): one process gets memory.  Others wait for it and come back   *)
(* without mainlock.                                                        *)
morecore(p) ==
  /\ \/ /\ pc[p] = "morecore" /\ mclock = nil
        /\ mclock' = p /\ Goto(p, "newpg") /\ UNCHANGED <<segs, main, waited, torn, panic>>
     \/ /\ pc[p] = "morecore" /\ mclock # nil
        /\ Goto(p, "wait") /\ UNCHANGED <<segs, main, waited, torn, mclock, panic>>
     \/ /\ pc[p] = "wait" /\ mclock = nil
        /\ waited' = waited \cup {p} /\ Goto(p, "search")
        /\ UNCHANGED <<segs, main, torn, mclock, panic>>
     \/ /\ pc[p] = "newpg" /\ Len(segs) < NSeg /\ main = nil
        /\ segs' = <<segs[1], mallocinitseg(Len(segs))>> \o Tail(segs)
        /\ main' = p /\ mclock' = nil /\ Goto(p, "search")
        /\ Uses(p) /\ UNCHANGED <<waited, panic>>
     \/ /\ pc[p] = "newpg" /\ Len(segs) = NSeg
        /\ mclock' = nil /\ panic' = "Enomem" /\ UNCHANGED <<segs, main, waited, torn, pc>>
  /\ UNCHANGED <<quick, used, req>>
-----------------------------------------------------------------------------
(* Once two uses of the heap overlap, what becomes of it is not modelled.   *)
Next ==
  /\ panic = "no" /\ ~torn
  /\ \E p \in Proc :
       \/ \E n \in Wants, align \in Aligns : malloc(p, n, align)
       \/ qmalloc(p) \/ look(p) \/ search(p) \/ morecore(p)
       \/ \E b \in used[p] : free(p, b) \/ \E n \in Wants : realloc(p, b, n)

Spec == Init /\ [][Next]_qvars
-----------------------------------------------------------------------------
(* The blocks in use, those on lists and the tails of the segments are all  *)
(* of memory, and no two overlap, until two uses of the heap do: which      *)
(* takes a process that waited in morecore() and went on without mainlock,  *)
(* or one whose mainlock such a process has released.  Before anybody came  *)
(* back from there, who searches has mainlock.                              *)
HeapExact ==
  LET fromto(a, b) == a..(b - 1)
      units(b) == fromto(b.at, b.at + b.size)
      bs == UNION {used[p] : p \in Proc} \cup UNION {quick[n] : n \in 1..NQUICK}
              \cup UNION {ToSet(segs[i].rover) : i \in DOMAIN segs}
              \cup {Block(segs[i].tail, segs[i].end - segs[i].tail) : i \in DOMAIN segs}
  IN /\ MapThenSumSet(LAMBDA b : b.size, bs) = Len(segs) * Units
     /\ UNION {units(b) : b \in bs} = UNION {fromto(segs[i].base, segs[i].end) : i \in DOMAIN segs}
     /\ waited = {} => ~torn /\ \A p \in Proc : pc[p] \in {"search", "take"} => main = p

=============================================================================
