------------------------------- MODULE Palloc -------------------------------
(***************************************************************************)
(* Page frames: port/page.c.  A page can be split into pages of the next    *)
(* size and be put together again when all of them are free.  The Page and  *)
(* Pgalloc structures of small pages are in the page that was split, and    *)
(* pages of a "bundle" size are adjacent small pages that share the Page of *)
(* the first.  pgalk is let go of between finding a page, splitting it and  *)
(* taking a piece, and between freeing a page and joining the pieces.       *)
(* Memory is of one color (as with *nocolors); the order of the free lists  *)
(* and of the allocators of a size is left out, any may be the first.       *)
(***************************************************************************)
EXTENDS Integers, Sequences, FiniteSets

CONSTANTS
  Proc,
  Sizes,         \* pgasz: the size in frames and the type of allocator, largest first
  Memory,        \* the bank, from a frame to the one after the last
  Lost,          \* frames that the structures of an embedded allocator take
  NPROCPOOLSZ,   \* free pages kept on the process
  MaxOwn,        \* how many pages a process has
  joinpages,     \* *joinpages
  nil

VARIABLES
  pga,      \* the allocators, by index of size and first frame
  ref,      \* pg->ref
  of,       \* pg->pga
  own,      \* the pages of a process
  pool,     \* up->pgfree
  pc,
  loc,      \* i, the wanted index and the page at hand of a process
  raced,    \* history: others took or freed pages during the call of a process
  torn,     \* history: a bundle was joined with a page that was not free, or
            \* a page taken of an allocator that was joined meanwhile
  panic

pvars == <<pga, ref, of, own, pool, pc, loc, raced, torn, panic>>

N == Len(Sizes)
Size(i) == Sizes[i].sz
Type(i) == Sizes[i].type
RoundUp(x, s) == ((x + s - 1) \div s) * s
RoundDn(x, s) == (x \div s) * s

(* A page is named by the index that its structure is for and its frame: a  *)
(* bundle has the Page of its first frame.                                  *)
Page(i, f) == <<IF Type(i) = "bundle" THEN i + 1 ELSE i, f>>
Pages == (1..N) \X (Memory[1]..(Memory[2] - 1))
bsz(i) == Size(i) \div Size(i + 1)

(* The frames of a page of allocator a.                                     *)
Frames(a, pg) == pg[2]..(pg[2] + Size(a[1]) - 1)
-----------------------------------------------------------------------------
(* Allocators for the frames from start up to end.                          *)
Range(i, start, end) == {f \in start..(end - 1) : f % Size(i) = 0 /\ f + Size(i) <= end}

NewPga(i, start, end, parent) ==
  LET pgs == {Page(i, f) : f \in Range(i, start, end)} IN
  [free |-> pgs, nfree |-> Cardinality(pgs), npg |-> Cardinality(pgs),
   start |-> RoundUp(start, Size(i)), parent |-> parent, linked |-> TRUE]

(* The small pages that are in a bundle are taken from their allocator.     *)
NewUnder(i, start, end, parent) ==
  LET all == NewPga(i + 1, start, end, parent)
      bundled == {Page(i + 1, f) : f \in UNION {b..(b + Size(i) - 1) : b \in Range(i, start, end)}}
  IN [all EXCEPT !.free = @ \ bundled, !.nfree = @ - Cardinality(bundled)]

(* The allocators for a range, named by frame f, and where each page is.    *)
Make(i, f, start, end, parent) ==
  LET own1 == <<i, f>> under == <<i + 1, f>> IN
  [pga |-> [a \in IF Type(i) = "bundle" THEN {own1, under} ELSE {own1} |->
              IF a = own1 THEN NewPga(i, start, end, parent)
              ELSE NewUnder(i, start, end, parent)],
   of |-> IF Type(i) = "bundle"
          THEN [pg \in {Page(i + 1, g) : g \in Range(i + 1, start, end)} |->
                  IF pg[2] \in Range(i, start, end) THEN own1 ELSE under]
          ELSE [pg \in {Page(i, g) : g \in Range(i, start, end)} |-> own1]]

Join(f, g) == [x \in DOMAIN f \cup DOMAIN g |-> IF x \in DOMAIN g THEN g[x] ELSE f[x]]

(* The bank is cut into pages that are as large as can be.                  *)
RECURSIVE pgainit(_, _, _)
pgainit(start, end, m) ==
  LET can == {i \in 1..N : RoundDn(end, Size(i)) > RoundUp(start, Size(i))} IN
  IF can = {} THEN m
  ELSE
    LET i == CHOOSE i \in can : \A j \in can : i <= j
        s == RoundUp(start, Size(i))
        e == RoundDn(end, Size(i))
        new == Make(i, s, s, e, nil)
        m1 == IF s > start THEN pgainit(start, s, m) ELSE m
        m2 == [pga |-> Join(m1.pga, new.pga), of |-> Join(m1.of, new.of)]
    IN IF e < end THEN pgainit(e, end, m2) ELSE m2

Boot == pgainit(Memory[1], Memory[2], [pga |-> <<>>, of |-> <<>>])

Init ==
  /\ pga = Boot.pga
  /\ of = [pg \in Pages |-> IF pg \in DOMAIN Boot.of THEN Boot.of[pg] ELSE nil]
  /\ ref = [pg \in Pages |-> 0]
  /\ own = [p \in Proc |-> {}]
  /\ pool = [p \in Proc |-> {}]
  /\ pc = [p \in Proc |-> "user"]
  /\ loc = [p \in Proc |-> [i |-> 0, want |-> 0, pg |-> nil, a |-> nil]]
  /\ raced = [p \in Proc |-> FALSE]
  /\ torn = FALSE
  /\ panic = "no"

Goto(p, l) == pc' = [pc EXCEPT ![p] = l]
-----------------------------------------------------------------------------
(* newpage(), from the pool of the process if it has one of that size.      *)
newpage(p, want) ==
  /\ pc[p] = "user" /\ Cardinality(own[p]) < MaxOwn
  /\ \/ /\ Type(want) = "bundle" /\ pool[p] # {}
        /\ \E pg \in pool[p] :
             /\ pool' = [pool EXCEPT ![p] = @ \ {pg}]
             /\ own' = [own EXCEPT ![p] = @ \cup {pg}]
             /\ ref' = [ref EXCEPT ![pg] = 1]
        /\ UNCHANGED <<pc, loc>>
     \/ /\ ~(Type(want) = "bundle" /\ pool[p] # {})
        /\ Goto(p, "find")
        /\ loc' = [loc EXCEPT ![p] = [i |-> want, want |-> want, pg |-> nil, a |-> nil]]
        /\ UNCHANGED <<pool, own, ref>>
  /\ UNCHANGED <<pga, of, panic>>

(* pganewpg(): a free page of an allocator.                                 *)
Take(p, a, pg) ==
  /\ pga' = [pga EXCEPT ![a].free = @ \ {pg}, ![a].nfree = @ - 1]
  /\ ref' = [ref EXCEPT ![pg] = 1]
  /\ loc' = [loc EXCEPT ![p].pg = pg, ![p].a = a]

Having(i) == {a \in DOMAIN pga : a[1] = i /\ pga[a].linked /\ pga[a].free # {}}

(* newpage() panics with "no free pages" if newpg() returns nil, whether or  *)
(* not a page that would do is free by then: the model tells which.         *)
NoPages(want) ==
  panic' = IF \E i \in 1..want : Having(i) # {} THEN "pages missed" ELSE "no free pages"

(* newpg(): the smallest page that is large enough, a size at a time, with  *)
(* the lock given up in between.                                            *)
find(p) ==
  /\ pc[p] = "find"
  /\ \/ /\ loc[p].i > 0
        /\ \E a \in Having(loc[p].i) : \E pg \in pga[a].free : Take(p, a, pg)
        /\ Goto(p, "split") /\ UNCHANGED panic
     \/ /\ loc[p].i > 0 /\ Having(loc[p].i) = {}
        /\ loc' = [loc EXCEPT ![p].i = @ - 1]
        /\ UNCHANGED <<pga, ref, pc, panic>>
     \/ /\ loc[p].i = 0
        /\ NoPages(loc[p].want)
        /\ UNCHANGED <<pga, ref, pc, loc>>
  /\ UNCHANGED <<of, own, pool>>

(* Seeded fault, for FramesExact: the page is not the first of its bundle   *)
(* only.                                                                    *)
splitbundleAll(p) ==
  LET pg == loc[p].pg a == loc[p].a under == <<a[1] + 1, a[2]>>
      rest == {<<pg[1], f>> : f \in Frames(a, pg)}
  IN /\ pga' = [pga EXCEPT ![under].free = @ \cup rest, ![under].nfree = @ + Cardinality(rest)]
     /\ of' = [of EXCEPT ![pg] = under]
     /\ loc' = [loc EXCEPT ![p].i = @ + 1, ![p].a = under]

(* A bundle: all of its pages but the first become free.                    *)
splitbundle(p) ==
  LET pg == loc[p].pg a == loc[p].a under == <<a[1] + 1, a[2]>>
      rest == {<<pg[1], f>> : f \in Frames(a, pg) \ {pg[2]}}
  IN /\ pga' = [pga EXCEPT ![under].free = @ \cup rest, ![under].nfree = @ + Cardinality(rest)]
     /\ of' = [of EXCEPT ![pg] = under]
     /\ loc' = [loc EXCEPT ![p].i = @ + 1, ![p].a = under]

(* newpga() and newepga(): an allocator of the next size for the page.      *)
newpga(p) ==
  LET pg == loc[p].pg i == loc[p].i
      end == pg[2] + Size(i)
      start == IF Type(i + 1) = "prealloc" THEN pg[2] ELSE pg[2] + Lost
      new == Make(i + 1, pg[2], start, end, pg)
  IN /\ pga' = Join(pga, new.pga)
     /\ of' = Join(of, new.of)
     /\ ref' = [x \in Pages |-> IF x \in DOMAIN new.of THEN 0 ELSE ref[x]]
     /\ loc' = [loc EXCEPT ![p].i = @ + 1, ![p].a = <<i + 1, pg[2]>>]

split(p) ==
  /\ pc[p] = "split"
  /\ \/ /\ loc[p].i < loc[p].want /\ loc[p].pg # nil /\ Type(loc[p].i) = "bundle"
        /\ splitbundle(p)
        /\ UNCHANGED <<ref, own, pc, panic>>
     \/ /\ loc[p].i < loc[p].want /\ loc[p].pg # nil /\ Type(loc[p].i) # "bundle"
        /\ newpga(p)
        /\ Goto(p, "take") /\ UNCHANGED <<own, panic>>
     \/ /\ loc[p].i < loc[p].want /\ loc[p].pg = nil
        /\ panic' = "nil page"
        /\ UNCHANGED <<pga, ref, of, own, pc, loc>>
     \/ /\ loc[p].i = loc[p].want /\ loc[p].pg # nil
        /\ own' = [own EXCEPT ![p] = @ \cup {loc[p].pg}]
        /\ Goto(p, "user")
        /\ UNCHANGED <<pga, ref, of, loc, panic>>
     \/ /\ loc[p].i = loc[p].want /\ loc[p].pg = nil
        /\ NoPages(loc[p].want)
        /\ UNCHANGED <<pga, ref, of, own, pc, loc>>
  /\ UNCHANGED pool

(* A page of the new allocator, unless others took them all.                *)
take(p) ==
  /\ pc[p] = "take"
  /\ \/ \E pg \in pga[loc[p].a].free : Take(p, loc[p].a, pg)
     \/ pga[loc[p].a].free = {} /\ loc' = [loc EXCEPT ![p].pg = nil] /\ UNCHANGED <<pga, ref>>
  /\ torn' = (torn \/ ~pga[loc[p].a].linked)
  /\ Goto(p, "split")
  /\ UNCHANGED <<of, own, pool, panic>>
-----------------------------------------------------------------------------
putpage(p, pg) ==
  /\ pc[p] = "user" /\ pg \in own[p]
  /\ ref' = [ref EXCEPT ![pg] = 0]
  /\ own' = [own EXCEPT ![p] = @ \ {pg}]
  /\ \/ /\ Type(of[pg][1]) = "bundle" /\ Cardinality(pool[p]) < NPROCPOOLSZ
        /\ pool' = [pool EXCEPT ![p] = @ \cup {pg}]
        /\ UNCHANGED <<pc, loc>>
     \/ /\ ~(Type(of[pg][1]) = "bundle" /\ Cardinality(pool[p]) < NPROCPOOLSZ)
        /\ Goto(p, "pgfree")
        /\ loc' = [loc EXCEPT ![p].pg = pg, ![p].a = of[pg]]
        /\ UNCHANGED pool
  /\ UNCHANGED <<pga, of, panic>>

(* pgaunfree(): one that is on no list makes the allocator lose its list.   *)
Unfree(free, pgs) == IF pgs \subseteq free THEN free \ pgs ELSE {}

(* The pages of the bundle that pg is in, if there is such a bundle.        *)
Bundle(a, pg) ==
  LET b == <<a[1] - 1, a[2]>> f == RoundDn(pg[2], Size(b[1])) IN
  IF b \notin DOMAIN pga \/ ~pga[b].linked \/ Type(b[1]) # "bundle"
     \/ f < pga[b].start \/ f + Size(b[1]) > pga[b].start + pga[b].npg * Size(b[1])
  THEN {} ELSE {<<pg[1], g>> : g \in f..(f + Size(b[1]) - 1)}

(* Seeded fault, for CountsExact: the bundle is free, and so are its pages. *)
joinbundleKeeps(p, a, pg) ==
  LET bundle == Bundle(a, pg)
      first == CHOOSE x \in bundle : \A y \in bundle : x[2] <= y[2]
      b == <<a[1] - 1, a[2]>>
  IN /\ pga' = [pga EXCEPT ![a].free = Unfree(@ \cup {pg}, bundle), ![a].nfree = @ + 1]
     /\ of' = [of EXCEPT ![first] = b]
     /\ loc' = [loc EXCEPT ![p].pg = first, ![p].a = b]

joinbundle(p, a, pg) ==
  LET bundle == Bundle(a, pg)
      first == CHOOSE x \in bundle : \A y \in bundle : x[2] <= y[2]
      b == <<a[1] - 1, a[2]>>
  IN /\ pga' = [pga EXCEPT ![a].free = Unfree(@ \cup {pg}, bundle),
                           ![a].nfree = @ + 1 - Cardinality(bundle)]
     /\ of' = [of EXCEPT ![first] = b]
     /\ loc' = [loc EXCEPT ![p].pg = first, ![p].a = b]

(* The test of joinbundle() counts in bundles what it should in pages.      *)
OutOfRange(a, pg) ==
  LET b == <<a[1] - 1, a[2]>> IN
  RoundDn(pg[2], Size(b[1])) - pga[b].start >= pga[b].npg

pgfree(p) ==
  LET pg == loc[p].pg a == loc[p].a
      freed == pga' = [pga EXCEPT ![a].free = @ \cup {pg}, ![a].nfree = @ + 1]
      bundle == Bundle(a, pg)
  IN
  /\ pc[p] = "pgfree"
  /\ \/ /\ ~joinpages \/ (pga[a].parent = nil /\ bundle = {})
        /\ freed /\ Goto(p, "user") /\ UNCHANGED <<of, loc, torn, panic>>
     \/ /\ joinpages /\ bundle # {} /\ OutOfRange(a, pg)
        /\ panic' = "canjoinbundle: out of range"
        /\ UNCHANGED <<pga, of, pc, loc, torn>>
     \/ /\ joinpages /\ bundle # {} /\ ~OutOfRange(a, pg)
        /\ \A x \in bundle : ref[x] = 0
        /\ joinbundle(p, a, pg)
        /\ torn' = (torn \/ ~(bundle \subseteq pga[a].free \cup {pg}))
        /\ UNCHANGED <<pc, panic>>
     \/ /\ joinpages /\ (bundle # {} \/ pga[a].parent # nil)
        /\ bundle # {} => ~OutOfRange(a, pg)
        /\ bundle = {} \/ \E x \in bundle : ref[x] # 0
        /\ freed /\ Goto(p, "check") /\ UNCHANGED <<of, loc, torn, panic>>
  /\ UNCHANGED <<ref, own, pool>>

(* Is it the last page in use of those of a split?  pgalk is not held.      *)
check(p) ==
  /\ pc[p] = "check"
  /\ Goto(p, IF pga[loc[p].a].nfree < pga[loc[p].a].npg THEN "user" ELSE "join")
  /\ UNCHANGED <<pga, ref, of, own, pool, loc, panic>>

InUse(a) ==
  IF Type(a[1]) = "bundle"
  THEN LET under == pga[<<a[1] + 1, a[2]>>] IN
       pga[a].nfree * bsz(a[1]) + under.nfree < under.npg
  ELSE pga[a].nfree < pga[a].npg

(* Once more with the lock; the allocators go, and the page is whole again. *)
join(p) ==
  LET a == loc[p].a
      ppg == pga[a].parent
      gone == IF Type(a[1]) = "bundle" THEN {a, <<a[1] + 1, a[2]>>} ELSE {a}
  IN
  /\ pc[p] = "join"
  /\ \/ InUse(a) /\ Goto(p, "user") /\ UNCHANGED <<pga, ref, loc, panic>>
     \/ /\ ~InUse(a) /\ ppg = nil
        /\ panic' = "nil parent" /\ UNCHANGED <<pga, ref, pc, loc>>
     \/ /\ ~InUse(a) /\ ppg # nil
        /\ pga' = [x \in DOMAIN pga |->
                     IF x \in gone THEN [pga[x] EXCEPT !.linked = FALSE, !.parent = nil] ELSE pga[x]]
        /\ ref' = [ref EXCEPT ![ppg] = 0]
        /\ loc' = [loc EXCEPT ![p].pg = ppg, ![p].a = of[ppg]]
        /\ Goto(p, "pgfree") /\ UNCHANGED panic
  /\ UNCHANGED <<of, own, pool>>
-----------------------------------------------------------------------------
Step(p) ==
  \/ /\ \/ \E want \in 1..N : newpage(p, want)
        \/ find(p) \/ split(p)
        \/ \E pg \in own[p] : putpage(p, pg)
        \/ check(p) \/ join(p)
     /\ UNCHANGED torn
  \/ take(p) \/ pgfree(p)

(* Memory that is torn is not followed further: its lists are no lists.     *)
Next ==
  /\ panic = "no" /\ ~torn
  /\ \E p \in Proc :
       /\ Step(p)
       /\ raced' = [q \in Proc |-> pc'[q] # "user" /\ (raced[q] \/ (q # p /\ pga' # pga))]

Spec == Init /\ [][Next]_pvars
-----------------------------------------------------------------------------
(* Where pages are: free, in a process, in its pool, or at hand.            *)
Held ==
  UNION {{<<a, pg>> : pg \in pga[a].free} : a \in {a \in DOMAIN pga : pga[a].linked}}
    \cup UNION {{<<of[pg], pg>> : pg \in own[p] \cup pool[p]} : p \in Proc}
    \cup {<<loc[p].a, loc[p].pg>> :
           p \in {p \in Proc : pc[p] \in {"split", "pgfree"} /\ loc[p].pg # nil}}

(* No frame is in two pages that are free or in use, and none gets lost but *)
(* to the structures in a page that was split.  With joinpages this lasts   *)
(* until joinbundle() meets a page with ref 0 that another process did not  *)
(* yet put on the free list, and takes it off a list it is not on, or until *)
(* newpg() takes a page of its new allocator after others joined it.        *)
FramesExact ==
  panic = "no" /\ ~torn =>
  /\ \A x, y \in Held : x # y => Frames(x[1], x[2]) \cap Frames(y[1], y[2]) = {}
  /\ Cardinality(UNION {Frames(x[1], x[2]) : x \in Held})
       = Memory[2] - Memory[1]
         - Lost * Cardinality({a \in DOMAIN pga : /\ pga[a].linked /\ pga[a].parent # nil
                                                  /\ Type(a[1]) = "embed"})

(* nfree is the length of the free list, whatever was split and joined, up  *)
(* to there; and it takes joinpages and two processes to get there.         *)
CountsExact ==
  /\ ~torn => \A a \in DOMAIN pga : pga[a].linked => pga[a].nfree = Cardinality(pga[a].free)
  /\ torn => joinpages /\ Cardinality(Proc) > 1

(* A call that no other process allocates or frees during panics only if    *)
(* nothing large enough is free.  Against others it may miss pages: newpg() *)
(* looks at the sizes one after the other, and its own new allocator can be *)
(* empty before it takes a page of it, which ends in a panic or in the use  *)
(* of a nil page.  With joinpages, two frees can both find that theirs was  *)
(* the last page of an allocator, and no page of a bundle can be freed but  *)
(* in the first ones of its allocator, npg / bsz of them.                   *)
NoPanic ==
  /\ panic \in {"pages missed", "nil page", "nil parent"} => \E p \in Proc : raced[p]
  /\ panic = "nil parent" => joinpages
  /\ panic = "nil page" =>
       \E p \in Proc :
         /\ pc[p] = "split" /\ loc[p].pg = nil
         /\ \A pg \in Pages : of[pg] = loc[p].a /\ pg \notin pga[loc[p].a].free =>
              \E q \in Proc \ {p} : pg \in own[q] \cup pool[q] \cup {loc[q].pg}
  /\ panic = "canjoinbundle: out of range" =>
       joinpages /\ \E a \in DOMAIN pga : Type(a[1]) = "bundle" /\ pga[a].npg > 1
=============================================================================
