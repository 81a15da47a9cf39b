--------------------------------- MODULE Ns ---------------------------------
(***************************************************************************)
(* Name spaces (port/mnt.c, cmount() and cunmount() of port/chan.c, the    *)
(* name space groups of port/pgrp.c): the prefix mount table.              *)
(*                                                                         *)
(* A file is <<server, path in it>>.  A Mount is a record: the name of the *)
(* element, the entries mounted at it (um), and how many of them are chans *)
(* (ismount).  An entry is a chan (to) or a Mount for a longer name        *)
(* (child).  The table changes with pgrp->ns locked, so a change is one    *)
(* step; a Mount is a value, and a copy of it, which dupmnt() makes of all *)
(* that is below it, is the value.  A name is resolved from the root and   *)
(* in the step that uses it: what changes between namec() and cmount() in  *)
(* one bind, resolving from the current directory, device names and what   *)
(* mntlookup() does for create are left out.                               *)
(***************************************************************************)
EXTENDS Integers, Sequences, SequencesExt

CONSTANTS
  Files,     \* files there are: pairs of a server and a path
  slash,     \* the server of the root, the first chan of any name space
  Binds,     \* what may be bound, and where: pairs of paths, the second not
             \* below the first (a union copied into itself is left out)
  Groups,    \* name space groups
  Boot,      \* the name space that the first group starts with
  MaxUm,     \* entries of a union
  nil

VARIABLE
  mnt        \* pgrp->mnt, nil if the group is not in use

vars == <<mnt>>

chan(f) == [to |-> f, child |-> nil]
sub(m) == [to |-> nil, child |-> m]
newmnt(e) == [elem |-> e, um |-> <<>>, ismount |-> 0]

(* setslash(): does not count the chan of the root.                        *)
setslash(f) == [newmnt("/") EXCEPT !.um = <<chan(f)>>]

Init == mnt = [g \in Groups |-> IF g = 1 THEN Boot ELSE nil]

NChans(um) == Len(SelectSeq(um, LAMBDA m : m.to # nil))
prefixes(p) == {SubSeq(p, 1, i) : i \in 0..Len(p)}

(* clwalk(): the file that a walk from a chan arrives at, or nil.          *)
clwalk(f, p) == LET w == <<f[1], f[2] \o p>> IN IF w \in Files THEN w ELSE nil
(* How many elements of p can be walked from f.                            *)
nwalk(f, p) ==
  CHOOSE i \in 0..Len(p) :
    /\ clwalk(f, SubSeq(p, 1, i)) # nil
    /\ i < Len(p) => clwalk(f, SubSeq(p, 1, i + 1)) = nil

(* The first child of an element, 0 if there is none.                      *)
childat(m, e) == SelectInSeq(m.um, LAMBDA x : x.child # nil /\ x.child.elem = e)
haschild(um) == \E i \in 1..Len(um) : um[i].child # nil

(* mntwalk() to change the table: the Mount at p, nil if there is none.    *)
RECURSIVE mountAt(_, _)
mountAt(m, p) ==
  CASE p = <<>> -> m
    [] p # <<>> /\ childat(m, p[1]) = 0 -> nil
    [] OTHER -> mountAt(m.um[childat(m, p[1])].child, Tail(p))
-----------------------------------------------------------------------------
(* mntwalk1() to resolve a name: the first entry of a union that decides,  *)
(* which is the child of the next element or, in a union, a directory that *)
(* is before a child and has at least the first element of p; 0 if none.   *)
mntwalk1(m, p) ==
  SelectInSeq(
    [i \in 1..Len(m.um) |->
       IF m.um[i].child # nil THEN m.um[i].child.elem = p[1]
       ELSE /\ Len(m.um) > 1 /\ haschild(SubSeq(m.um, i + 1, Len(m.um)))
            /\ nwalk(m.um[i].to, p) > 0],
    LAMBDA x : x)

(* mntlookup(), the rest of p from the chans of a union: the first that    *)
(* has it.                                                                 *)
fromum(m, p) ==
  LET i == SelectInSeq(m.um, LAMBDA x : x.to # nil /\ clwalk(x.to, p) # nil)
  IN IF i = 0 THEN nil ELSE clwalk(m.um[i].to, p)

(* mntwalk() and mntlookup(): resolves p from Mount m; top is the last     *)
(* Mount with chans, and tp what was left of the name there.               *)
RECURSIVE resolve(_, _, _, _)
resolve(m, p, top, tp) ==
  LET i == IF p = <<>> THEN 0 ELSE mntwalk1(m, p) IN
  CASE i = 0 -> fromum(top, tp)
    [] i # 0 /\ m.um[i].to # nil ->
         IF nwalk(m.um[i].to, p) = Len(p) THEN clwalk(m.um[i].to, p) ELSE fromum(top, tp)
    [] OTHER -> LET c == m.um[i].child IN
                IF c.ismount # 0 THEN resolve(c, Tail(p), c, Tail(p))
                                 ELSE resolve(c, Tail(p), top, tp)

mntlookup(m, p) == resolve(m, p, m, p)

(* The union that mntlookup() leaves in nc->mnt: there is one if the whole *)
(* name is that of a Mount with several entries.                           *)
RECURSIVE topmount(_, _)
topmount(m, p) ==
  LET i == IF p = <<>> THEN 0 ELSE mntwalk1(m, p) IN
  CASE p = <<>> -> IF m.ismount # 0 \/ m.elem = "/" THEN m ELSE nil
    [] i = 0 \/ (i # 0 /\ m.um[i].to # nil) -> nil
    [] OTHER -> topmount(m.um[i].child, Tail(p))
unionof(m, p) ==
  LET u == topmount(m, p) IN IF u # nil /\ Len(u.um) > 1 THEN u ELSE nil
-----------------------------------------------------------------------------
(* Fault seeded to test AfterKeeps: the union starts empty.          *)
initunionNot(m, above) == m

(* initunion(): what the name was, from the nearest Mount above that has   *)
(* chans, walked to this one.                                              *)
initunion(m, above) ==
  LET with == {i \in 1..Len(above) : above[i].ismount # 0}
      k == CHOOSE i \in with : \A j \in with : j <= i
      names == Append(SubSeq(above, k + 1, Len(above)), m)
      w == [i \in 1..Len(names) |-> names[i].elem]
      old == SelectSeq(above[k].um, LAMBDA x : x.to # nil /\ clwalk(x.to, w) # nil)
  IN IF with = {} THEN m
     ELSE [m EXCEPT !.um = @ \o [i \in 1..Len(old) |-> chan(clwalk(old[i].to, w))],
                    !.ismount = @ + Len(old)]

(* addmntel(): before or after; ents are those of the union that is        *)
(* mounted, or the one chan.                                               *)
addmntel(m, ents, order) ==
  [m EXCEPT !.um = IF order = "after" THEN @ \o ents ELSE ents \o @,
            !.ismount = @ + NChans(ents)]

(* Fault seeded to test NsExact: the chans that are lost still count.      *)
putumCounts(m) == [m EXCEPT !.um = <<>>]

(* Fault seeded to test NsExact: what is mounted below stays.              *)
putumBelow(m) ==
  [m EXCEPT !.um = SelectSeq(@, LAMBDA x : x.child # nil), !.ismount = @ - NChans(m.um)]

(* putum(): what was mounted is lost.                                      *)
putum(m) == [m EXCEPT !.um = <<>>, !.ismount = @ - NChans(m.um)]

(* mntmount() of ents at p, from m down: a Mount is made, before the other *)
(* entries, for each element that lacks one; above are the Mounts above m. *)
RECURSIVE mntmount(_, _, _, _, _)
mntmount(m, p, above, ents, order) ==
  LET i == childat(m, p[1])
      c == IF i = 0 THEN newmnt(p[1]) ELSE m.um[i].child
      new == mntmount(c, Tail(p), Append(above, m), ents, order)
  IN CASE p # <<>> /\ i = 0 -> [m EXCEPT !.um = <<sub(new)>> \o @]
       [] p # <<>> /\ i # 0 -> [m EXCEPT !.um[i].child = new]
       [] p = <<>> /\ order = "repl" -> addmntel(putum(m), ents, order)
       [] p = <<>> /\ order # "repl" ->
            addmntel(IF m.ismount = 0 THEN initunion(m, above) ELSE m, ents, order)

(* sysbind() and cmount(): q, of a directory, is bound at p, unless both   *)
(* are the same name.                                                      *)
cmount(g, q, p, order) ==
  /\ mnt[g] # nil /\ q # p
  /\ mntlookup(mnt[g], q) # nil /\ mntlookup(mnt[g], p) # nil
  /\ LET u == unionof(mnt[g], q)
         ents == IF u # nil THEN u.um ELSE <<chan(mntlookup(mnt[g], q))>>
         m == mntmount(mnt[g], p, <<>>, ents, order)
     IN /\ Len(mountAt(m, p).um) <= MaxUm
        /\ mnt' = [mnt EXCEPT ![g] = m]

(* mntunmount(), to the end of the loop that collects empty Mounts: the    *)
(* Mount at p, without its entry i, or without all of them if i is 0.      *)
RECURSIVE remove(_, _, _)
remove(m, p, i) ==
  IF p = <<>>
  THEN [m EXCEPT !.um = IF i = 0 THEN <<>> ELSE RemoveAt(@, i), !.ismount = @ - 1]
  ELSE LET k == childat(m, p[1])
           c == remove(m.um[k].child, Tail(p), i)
       IN IF c.um = <<>> THEN [m EXCEPT !.um = RemoveAt(@, k)]
                         ELSE [m EXCEPT !.um[k].child = c]

(* cunmount() of the chan of a file, or of all if f is nil.                *)
cunmount(g, p, f) ==
  /\ mnt[g] # nil
  /\ LET m == mountAt(mnt[g], p) IN
     /\ m # nil /\ m.ismount # 0
     /\ IF f = nil
        THEN p # <<>> /\ mnt' = [mnt EXCEPT ![g] = remove(@, p, 0)]
        ELSE LET i == SelectInSeq(m.um, LAMBDA x : x.to = f) IN
             i # 0 /\ mnt' = [mnt EXCEPT ![g] = remove(@, p, i)]

(* duppgrp(), of a group or a new one; closepgrp().                        *)
duppgrp(g, h) ==
  /\ mnt[g] # nil /\ mnt[h] = nil
  /\ mnt' = [mnt EXCEPT ![h] = mnt[g]]
newpgrp(h) ==
  /\ mnt[h] = nil
  /\ mnt' = [mnt EXCEPT ![h] = setslash(<<slash, <<>>>>)]
closepgrp(g) ==
  /\ mnt[g] # nil
  /\ mnt' = [mnt EXCEPT ![g] = nil]

Next == \E g \in Groups :
  \/ \E b \in Binds, order \in {"repl", "before", "after"} : cmount(g, b[1], b[2], order)
  \/ \E b \in Binds : \E f \in Files \cup {nil} : cunmount(g, b[2], f)
  \/ newpgrp(g) \/ closepgrp(g) \/ \E h \in Groups : duppgrp(g, h)

Spec == Init /\ [][Next]_vars
-----------------------------------------------------------------------------
(* All the Mounts below the root.                                          *)
RECURSIVE Below(_)
Below(m) == UNION {{m.um[i].child} \cup Below(m.um[i].child) :
                     i \in {j \in 1..Len(m.um) : m.um[j].child # nil}}

(* ismount is the "number of Chans mounted in um", but for the root, whose *)
(* first chan is not counted; no Mount is empty, and the root of a name    *)
(* space never is: unmounting collects what it empties, and nothing else   *)
(* ("namec: no mnt or um", panic of mntlookup()).                          *)
TableExact ==
  \A g \in Groups : mnt[g] # nil =>
    /\ mnt[g].um # <<>>
    /\ \A m \in Below(mnt[g]) : m.um # <<>> /\ m.ismount = NChans(m.um)

Names == UNION {prefixes(f[2]) : f \in Files} \cup {b[2] : b \in Binds}
below(n, p) == IsPrefix(p, n)
rest(n, p) == SubSeq(n, Len(p) + 1, Len(n))
was(g, n) == mntlookup(mnt[g], n)
is(g, n) == mntlookup(mnt'[g], n)

(* What may have been bound in this step, and where.                       *)
Bound(g) ==
  IF nil \in {mnt[g], mnt'[g]} THEN {}
  ELSE {b \in Binds : mountAt(mnt'[g], b[2]) # mountAt(mnt[g], b[2])}

(* A chan of a union comes before a Mount on the way to p, and has the     *)
(* first element of what is left of the name: mntwalk1() commits to it.    *)
RECURSIVE Hidden(_, _)
Hidden(m, p) ==
  p # <<>> /\ LET i == mntwalk1(m, p) IN
    i # 0 /\ (m.um[i].to # nil \/ Hidden(m.um[i].child, Tail(p)))

(* A Mount on the way to p has chans that are counted: initunion() finds   *)
(* what p was.                                                             *)
Remembers(m, p) ==
  \E n \in prefixes(p) : mountAt(m, n) # nil /\ mountAt(m, n).ismount # 0

(* Where a name below p leads once q was mounted at p, with nothing else   *)
(* there: into the file that q was, or into the union that it was, with    *)
(* the Mounts that are below it.                                           *)
Mounted(g, q, p, n) ==
  IF unionof(mnt[g], q) = nil THEN clwalk(was(g, q), rest(n, p))
                              ELSE was(g, q \o rest(n, p))

(* Where names lead after q was bound at p.  Hidden, the Mount changes     *)
(* nothing; otherwise a replacement leaves below p what q has and nothing  *)
(* that was there, and p leads to what q was also when q is put before.    *)
BindLeads(g, q, p, order) ==
  LET hidden == Hidden(mnt'[g], p) IN
  /\ order = "repl" => \A n \in Names : below(n, p) =>
       is(g, n) = IF hidden THEN was(g, n) ELSE Mounted(g, q, p, n)
  /\ order = "before" => is(g, p) = IF hidden THEN was(g, p) ELSE was(g, q)

(* The table is exact, and a bind or an unmount at p changes where p and   *)
(* what is below it lead, as BindLeads says, and no other name.            *)
NsExact ==
  /\ TableExact'
  /\ \A g \in Groups : \A b \in Bound(g) :
       LET p == b[2]
           elsewhere == \A n \in Names : ~below(n, p) => is(g, n) = was(g, n)
       IN /\ \A order \in {"repl", "before", "after"} : cmount(g, b[1], p, order) =>
               elsewhere /\ BindLeads(g, b[1], p, order)
          /\ \A f \in Files \cup {nil} : cunmount(g, p, f) => elsewhere

(* "Create an entry for the previous state of things" (initunion()):       *)
(* whatever could be resolved before bind -a leads to the same file after  *)
(* it, and after bind -b too, unless what was bound has it.  If initunion()*)
(* finds no Mount with chans that are counted (setslash() does not count   *)
(* the root's), what the name was is lost, as if it had been replaced.     *)
AfterKeeps ==
  \A g \in Groups : \A b \in Bound(g) :
    LET q == b[1] p == b[2] IN
      IF p = <<>> \/ Remembers(mnt[g], p)
      THEN /\ cmount(g, q, p, "after") =>
                \A n \in Names : was(g, n) # nil => is(g, n) = was(g, n)
           /\ cmount(g, q, p, "before") => \A n \in Names :
                was(g, n) # nil => \/ is(g, n) = was(g, n)
                                   \/ /\ below(n, p)
                                      /\ is(g, n) = Mounted(g, q, p, n)
                                      /\ is(g, n) # nil
      ELSE cmount(g, q, p, "after") /\ ~Hidden(mnt'[g], p) => is(g, p) = was(g, q)
=============================================================================
