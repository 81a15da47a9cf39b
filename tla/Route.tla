-------------------------------- MODULE Route -------------------------------
(***************************************************************************)
(* The routing tables of ip/iproute.c: forests of ternary trees, where the  *)
(* routes of a level do not overlap and those inside a route are under its  *)
(* "mid".  Trees are balanced by depths that are only approximate, and a    *)
(* subtree that loses its place is added again, node by node.  A table of   *)
(* ranges, kept by what the operations mean, is beside them.                *)
(***************************************************************************)
EXTENDS Naturals, Sequences, FiniteSets

CONSTANTS
  Versions,   \* the IP versions in use: 4, 6
  Addrs,      \* addresses, numbers from 0
  H(_),       \* V4H and V6H: the tree of an address
  Ranges,     \* routes: pairs of a first and a last address, as from a mask
  Local,      \* those of them that an interface may have
  Gates,      \* gateways; the tag of a route that is added is that of its gateway
  MaxRef,     \* how often the route of an interface is added
  MaxRoutes   \* how many routes there are at a time

VARIABLES
  root,       \* f->v4root and f->v6root: a tree is <<>> or <<node>>
  table       \* [v -> the routes there should be, by range]

rvars == <<root, table>>

Trees == {H(a) : a \in Addrs}

Init ==
  /\ root = [v \in Versions |-> [h \in Trees |-> <<>>]]
  /\ table = [v \in Versions |-> <<>>]
-----------------------------------------------------------------------------
(* Trees                                                                    *)

allocroute(range, new) ==
  [lo |-> range[1], hi |-> range[2], ifc |-> new.ifc, gate |-> new.gate, tag |-> new.tag,
   ref |-> 1, depth |-> 1, left |-> <<>>, right |-> <<>>, mid |-> <<>>]

rangecompare(a, b) ==
  CASE a.hi < b.lo -> "preceeds"
    [] a.lo > b.hi -> "follows"
    [] a.lo = b.lo /\ a.hi = b.hi -> "equals"
    [] a.lo <= b.lo /\ a.hi >= b.hi -> "contains"
    [] OTHER -> "contained"

depth(t) == IF t = <<>> THEN 0 ELSE t[1].depth

calcd(p) ==
  LET ds == {depth(p.left), depth(p.mid), depth(p.right)} IN
  [p EXCEPT !.depth = 1 + CHOOSE d \in ds : \A e \in ds : e <= d]

(* Seeded fault, for LookupExact: a rotation forgets the inner subtree.     *)
balancetreeDrops(p) ==
  IF depth(p.left) > depth(p.right) + 1
  THEN calcd([p.left[1] EXCEPT !.right = <<calcd([p EXCEPT !.left = <<>>])>>])
  ELSE IF depth(p.right) > depth(p.left) + 1
  THEN calcd([p.right[1] EXCEPT !.left = <<calcd([p EXCEPT !.right = <<>>])>>])
  ELSE calcd(p)

balancetree(p) ==
  IF depth(p.left) > depth(p.right) + 1
  THEN LET l == p.left[1] IN
       calcd([l EXCEPT !.right = <<calcd([p EXCEPT !.left = l.right])>>])
  ELSE IF depth(p.right) > depth(p.left) + 1
  THEN LET r == p.right[1] IN
       calcd([r EXCEPT !.left = <<calcd([p EXCEPT !.right = r.left])>>])
  ELSE calcd(p)

(* An old entry that is not of an interface is superseded, tag apart.       *)
Supersede(p, new) ==
  IF ~p.ifc THEN [p EXCEPT !.ifc = new.ifc, !.gate = new.gate]
  ELSE IF new.ifc THEN [p EXCEPT !.ref = @ + 1] ELSE p

(* A tree and f->queue, the subtrees that are to be added again.            *)
RECURSIVE addnode(_, _)
addnode(tq, new) ==
  IF tq.tree = <<>> THEN [tq EXCEPT !.tree = <<[new EXCEPT !.depth = 1]>>]
  ELSE
    LET p == tq.tree[1]
        sub(t) == addnode([tq EXCEPT !.tree = t], new)
        to(p1, q1) == [tree |-> <<balancetree(p1)>>, queue |-> q1]
    IN CASE rangecompare(new, p) = "preceeds" ->
              LET s == sub(p.left) IN to([p EXCEPT !.left = s.tree], s.queue)
         [] rangecompare(new, p) = "follows" ->
              LET s == sub(p.right) IN to([p EXCEPT !.right = s.tree], s.queue)
         [] rangecompare(new, p) = "contained" ->
              LET s == sub(p.mid) IN to([p EXCEPT !.mid = s.tree], s.queue)
         [] rangecompare(new, p) = "contains" ->
              to([new EXCEPT !.depth = 1], <<p>> \o tq.queue)
         [] rangecompare(new, p) = "equals" -> to(Supersede(p, new), tq.queue)

RECURSIVE walkadd(_, _)
walkadd(tq, p) ==
  LET s0 == addnode(tq, [p EXCEPT !.left = <<>>, !.right = <<>>])
      s1 == IF p.left = <<>> THEN s0 ELSE walkadd(s0, p.left[1])
  IN IF p.right = <<>> THEN s1 ELSE walkadd(s1, p.right[1])

RECURSIVE requeue(_)
requeue(tq) ==
  IF tq.queue = <<>> THEN tq.tree
  ELSE requeue(walkadd([tq EXCEPT !.queue = Tail(@)], Head(tq.queue)))

(* The tree with the node taken out, and what was under it.                 *)
RECURSIVE unlink(_, _)
unlink(t, r) ==
  IF t = <<>> THEN [tree |-> t, queue |-> <<>>]
  ELSE
    LET p == t[1] IN
    CASE rangecompare(r, p) = "contains" -> [tree |-> t, queue |-> <<>>]
      [] rangecompare(r, p) = "preceeds" ->
           LET s == unlink(p.left, r) IN [s EXCEPT !.tree = <<[p EXCEPT !.left = s.tree]>>]
      [] rangecompare(r, p) = "follows" ->
           LET s == unlink(p.right, r) IN [s EXCEPT !.tree = <<[p EXCEPT !.right = s.tree]>>]
      [] rangecompare(r, p) = "contained" ->
           LET s == unlink(p.mid, r) IN [s EXCEPT !.tree = <<[p EXCEPT !.mid = s.tree]>>]
      [] rangecompare(r, p) = "equals" ->
           IF p.ref > 1 THEN [tree |-> <<[p EXCEPT !.ref = @ - 1]>>, queue |-> <<>>]
           ELSE [tree |-> <<>>, queue |-> p.right \o p.mid \o p.left]

(* Seeded fault, for ForestExact: what is beside a route goes with it.      *)
delnodeMid(t, r) ==
  LET s == unlink(t, r)
  IN  requeue([s EXCEPT !.queue = IF s.queue = <<>> THEN <<>> ELSE <<s.queue[1]>>])

delnode(t, r) == requeue(unlink(t, r))

RECURSIVE lookup(_, _)
lookup(t, la) ==
  IF t = <<>> THEN <<>>
  ELSE LET p == t[1] IN
       IF la < p.lo THEN lookup(p.left, la)
       ELSE IF la > p.hi THEN lookup(p.right, la)
       ELSE IF lookup(p.mid, la) = <<>> THEN t ELSE lookup(p.mid, la)

RECURSIVE nodes(_)
nodes(t) ==
  IF t = <<>> THEN <<>>
  ELSE nodes(t[1].left) \o <<t[1]>> \o nodes(t[1].mid) \o nodes(t[1].right)
-----------------------------------------------------------------------------
(* Operations.  A route is in the trees of all its addresses.               *)
Of(range) == {h \in Trees : H(range[1]) <= h /\ h <= H(range[2])}
Put(f, x, y) == [z \in DOMAIN f \cup {x} |-> IF z = x THEN y ELSE f[z]]
Drop(f, x) == [z \in DOMAIN f \ {x} |-> f[z]]

addroute(v, range, new) ==
  root' = [root EXCEPT ![v] = [h \in Trees |->
            IF h \in Of(range)
            THEN requeue(addnode([tree |-> root[v][h], queue |-> <<>>], allocroute(range, new)))
            ELSE root[v][h]]]

delroutes(v, t, ranges) ==
  LET step[rs \in SUBSET ranges] ==
        IF rs = {} THEN t
        ELSE LET r == CHOOSE r \in rs : TRUE IN
             [h \in Trees |->
                IF h \in Of(r) THEN delnode(step[rs \ {r}][h], [lo |-> r[1], hi |-> r[2]])
                ELSE step[rs \ {r}][h]]
  IN step[ranges]

(* "add" of a route file, or ipifc's route to a network of its own.         *)
Add(v, range, new) ==
  /\ range \in DOMAIN table[v] =>
       ~table[v][range].ifc \/ ~new.ifc \/ table[v][range].ref < MaxRef
  /\ Cardinality(DOMAIN table[v] \cup {range}) <= MaxRoutes
  /\ addroute(v, range, new)
  /\ table' = [table EXCEPT ![v] =
       Put(@, range, IF range \in DOMAIN @ THEN Supersede(@[range], new)
                     ELSE [ifc |-> new.ifc, gate |-> new.gate, tag |-> new.tag, ref |-> 1])]

(* "remove", of any route or of none.                                       *)
Remove(v, range) ==
  /\ root' = [root EXCEPT ![v] = delroutes(v, @, {range})]
  /\ table' = [table EXCEPT ![v] =
       IF range \notin DOMAIN @ THEN @
       ELSE IF @[range].ref > 1 THEN [@ EXCEPT ![range].ref = @ - 1] ELSE Drop(@, range)]

(* "flush": the routes of a tag that are not of interfaces, one at a time,  *)
(* until a tree has none.                                                   *)
routeflush(tag) ==
  LET gone(v) == {r \in DOMAIN table[v] : ~table[v][r].ifc /\ table[v][r].tag = tag} IN
  /\ root' = [v \in Versions |-> delroutes(v, root[v], gone(v))]
  /\ table' = [v \in Versions |-> [r \in DOMAIN table[v] \ gone(v) |-> table[v][r]]]

Next ==
  \/ \E v \in Versions, range \in Ranges :
       \/ \E g \in Gates : Add(v, range, [ifc |-> FALSE, gate |-> g, tag |-> g])
       \/ range \in Local /\ Add(v, range, [ifc |-> TRUE, gate |-> 0, tag |-> 0])
       \/ Remove(v, range)
  \/ \E tag \in Gates : routeflush(tag)

Spec == Init /\ [][Next]_rvars
-----------------------------------------------------------------------------
(* v4lookup() and v6lookup() find the most specific of the routes that an   *)
(* address is in, with the gateway given last, whatever the order in which  *)
(* routes came and went.                                                    *)
LookupExact ==
  \A v \in Versions, la \in Addrs :
    LET found == lookup(root[v][H(la)], la)
        all == {r \in DOMAIN table[v] : r[1] <= la /\ la <= r[2]}
    IN /\ (found = <<>>) = (all = {})
       /\ all # {} =>
            LET best == CHOOSE r \in all : \A s \in all : s[1] <= r[1] /\ r[2] <= s[2] IN
            /\ <<found[1].lo, found[1].hi>> = best
            /\ found[1].gate = table[v][best].gate

(* Each tree has the routes that touch it, once each, in the order of their *)
(* addresses, with the references that their interfaces have.               *)
ForestExact ==
  \A v \in Versions, h \in Trees :
    LET ns == nodes(root[v][h]) IN
    /\ Len(ns) = Cardinality({r \in DOMAIN table[v] : h \in Of(r)})
    /\ {<<<<ns[i].lo, ns[i].hi>>, ns[i].ref, ns[i].ifc>> : i \in DOMAIN ns}
         = {<<r, table[v][r].ref, table[v][r].ifc>> : r \in {r \in DOMAIN table[v] : h \in Of(r)}}
    /\ \A i, j \in DOMAIN ns : i < j => ns[i].lo <= ns[j].lo
=============================================================================
