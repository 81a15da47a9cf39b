------------------------------- MODULE Ipifc --------------------------------
(***************************************************************************)
(* IP interfaces (src/ip/ipifc.c) on Ethernets (src/ip/ethermedium.c):     *)
(* their addresses, the table of what is the host's own, the routes and    *)
(* multicast filters that go with it, and the processes that read.         *)
(*                                                                         *)
(* What is done with an interface wlocked is one step, unless it waits.    *)
(* An address is a value that "Info" says about: its net, the broadcast    *)
(* and multicast addresses that come with it, and its scope.  Masks are    *)
(* part of the net.  Point to point interfaces and proxies are left out.   *)
(***************************************************************************)
EXTENDS Naturals, Sequences, FiniteSets, SequencesExt

CONSTANTS
  Ifcs, Ips, Info,
  Groups,       \* multicast addresses that conversations join
  Convs,
  Readers,      \* etherread4, recvarpproc, etherread6
  MaxBind,      \* bound: times an interface is bound
  nil

VARIABLES
  bound,        \* ifc -> ifc->medium is set
  lifc,         \* ifc -> its addresses, in order, and if they are current
  link,         \* <<ifc, ip, a>> -> references of the Iplink of a, 0 for none
  self,         \* addresses in the hash of f->self
  routes,       \* those that addselfcache() added
  nets,         \* net -> references of the route to it
  allnodes,     \* there is a route for v6allnodesL
  filter,       \* <<ifc, a>> -> addmulti less remmulti messages
  multi,        \* conv -> c->multi
  join,         \* conv -> the join or leave it is in
  connecting,   \* ifc -> the address that connect is to add
  reader,       \* ifc -> its processes: "none", "new", "reading", "noted", "crash"
  arg,          \* ifc -> ifc->arg is set
  unbinding,    \* ifc -> ipifcunbind() waits for the readers, ifc wlocked
  nbind,
  made,         \* history: the joins that made or counted a link
  stolen,       \* history: a leave took the reference of another conv
  early         \* history: unbound before its readers had started

tables == <<link, self, routes, filter>>
ends == <<reader, arg, unbinding, nbind, early>>
vars == <<bound, lifc, tables, nets, allnodes, multi, join, connecting, ends, made, stolen>>

Own(ip) == <<ip>> \o Info[ip].bcast \o Info[ip].multi
Multis == Groups \cup UNION {ToSet(Info[ip].multi) : ip \in Ips}
Addrs == Groups \cup UNION {ToSet(Own(ip)) : ip \in Ips}
Links == Ifcs \X Ips \X Addrs
On(i) == {lifc[i][k].ip : k \in DOMAIN lifc[i]}

Init ==
  /\ bound = [i \in Ifcs |-> FALSE] /\ lifc = [i \in Ifcs |-> <<>>]
  /\ link = [l \in Links |-> 0] /\ self = {} /\ routes = {}
  /\ nets = [n \in {Info[ip].net : ip \in Ips} |-> 0] /\ allnodes = FALSE
  /\ filter = [x \in Ifcs \X Multis |-> 0]
  /\ multi = [c \in Convs |-> {}] /\ join = [c \in Convs |-> nil]
  /\ connecting = [i \in Ifcs |-> nil]
  /\ reader = [i \in Ifcs |-> [r \in Readers |-> "none"]] /\ arg = [i \in Ifcs |-> FALSE]
  /\ unbinding = [i \in Ifcs |-> FALSE] /\ nbind = 0
  /\ made = {} /\ stolen = FALSE /\ early = [i \in Ifcs |-> FALSE]
-----------------------------------------------------------------------------
(* The device is told to receive what is sent to a group, and not to.      *)
etheraddmulti(i, groups) ==
  filter' = [x \in DOMAIN filter |-> IF x[1] = i /\ x[2] \in groups THEN filter[x] + 1 ELSE filter[x]]

etherremmulti(gone) ==
  filter' = [x \in DOMAIN filter |-> filter[x] - Cardinality({l \in gone : l[1] = x[1] /\ l[3] = x[2]})]

(* n(a) references more from lifc ip of i to each address a: a link that   *)
(* is new brings a route, and a multicast address a message to the device. *)
addselfcache(i, ip, n) ==
  LET had == DOMAIN n
      new == {a \in had : link[i, ip, a] = 0}
  IN /\ link' = [l \in DOMAIN link |-> IF l[1] = i /\ l[2] = ip /\ l[3] \in had THEN link[l] + n[l[3]] ELSE link[l]]
     /\ self' = self \cup had
     /\ routes' = routes \cup new
     /\ etheraddmulti(i, new)

(* A reference less to group g from lifc ip of i, or all those of the      *)
(* lifcs in ips: with the last one of a lifc the link and the filter go,   *)
(* with the last link the address and its route.                           *)
Without(i, left) ==
  LET gone == {l \in DOMAIN link : link[l] > 0 /\ left[l] = 0}
      dead == {l[3] : l \in gone} \ {l[3] : l \in {m \in DOMAIN link : left[m] > 0}}
  IN /\ link' = left /\ self' = self \ dead /\ routes' = routes \ dead
     /\ etherremmulti(gone)

(* Fault seeded to test IfcSafe: the link goes with its first reference.   *)
remselfcacheAll(i, ip, g) == Without(i, [link EXCEPT ![i, ip, g] = 0])

remselfcache(i, ip, g) == Without(i, [link EXCEPT ![i, ip, g] = IF @ = 0 THEN 0 ELSE @ - 1])

One(a) == [x \in {a} |-> 1]
Count(s, a) == Cardinality({k \in DOMAIN s : s[k] = a})
Times(s) == [a \in ToSet(s) |-> Count(s, a)]
-----------------------------------------------------------------------------
(* The processes that read are started, and have their own to set up.      *)
etherbind(i) ==
  /\ arg' = [arg EXCEPT ![i] = TRUE]
  /\ reader' = [reader EXCEPT ![i] = [r \in Readers |-> IF @[r] = "new" THEN "crash" ELSE "new"]]

ipifcbind(i) ==
  /\ ~bound[i] /\ nbind < MaxBind
  /\ bound' = [bound EXCEPT ![i] = TRUE] /\ etherbind(i)
  /\ \A r \in Readers : reader[i][r] # "crash"
  /\ early' = [early EXCEPT ![i] = FALSE]
  /\ nbind' = nbind + 1
  /\ UNCHANGED <<lifc, tables, nets, allnodes, multi, join, connecting, unbinding, made, stolen>>

(* A process that starts keeps its identity in ifc->arg, if it is still    *)
(* there.                                                                  *)
etherread(i, r) ==
  /\ reader[i][r] = "new"
  /\ reader' = [reader EXCEPT ![i][r] = IF arg[i] THEN "reading" ELSE "crash"]
  /\ UNCHANGED <<bound, lifc, tables, nets, allnodes, multi, join, connecting, arg, unbinding, nbind, early, made, stolen>>

(* It ends when it finds the note in bread(); canrlock() fails meanwhile.  *)
hangup(i, r) ==
  /\ reader[i][r] = "noted"
  /\ reader' = [reader EXCEPT ![i][r] = "none"]
  /\ UNCHANGED <<bound, lifc, tables, nets, allnodes, multi, join, connecting, arg, unbinding, nbind, early, made, stolen>>

(* Addresses go with their links, and their nets lose references.  The     *)
(* route to all nodes goes with any link local address.                    *)
ipifcremlifc(i, ips) ==
  /\ lifc' = [lifc EXCEPT ![i] = SelectSeq(@, LAMBDA l : l.ip \notin ips)]
  /\ Without(i, [l \in DOMAIN link |-> IF l[1] = i /\ l[2] \in ips THEN 0 ELSE link[l]])
  /\ nets' = [n \in DOMAIN nets |-> nets[n] - Cardinality({ip \in ips : Info[ip].net = n})]
  /\ allnodes' = (allnodes /\ \A ip \in ips : Info[ip].scope # "link")
  /\ made' = {m \in made : m.ifc # i \/ m.ip \notin ips}

Ready(i) == bound[i] /\ ~unbinding[i] /\ connecting[i] = nil

ipifcrem(i) ==
  /\ Ready(i) /\ \E ip \in On(i) : ipifcremlifc(i, {ip})
  /\ UNCHANGED <<bound, multi, join, connecting, ends, stolen>>

(* unbind removes the addresses, posts notes to the processes it knows of  *)
(* and waits until it knows of none, all with the interface wlocked.       *)
ipifcunbind(i) ==
  /\ Ready(i) /\ ipifcremlifc(i, On(i))
  /\ unbinding' = [unbinding EXCEPT ![i] = TRUE]
  /\ reader' = [reader EXCEPT ![i] = [r \in Readers |-> IF @[r] = "reading" THEN "noted" ELSE @[r]]]
  /\ early' = [early EXCEPT ![i] = \E r \in Readers : reader[i][r] = "new"]
  /\ UNCHANGED <<bound, multi, join, connecting, arg, nbind, stolen>>

(* Fault seeded to test IfcSafe: nobody waits for recvarpproc.             *)
etherunbindHasty(i) == \A r \in Readers \ {"recvarpproc"} : reader[i][r] \in {"none", "new"}

etherunbind(i) == \A r \in Readers : reader[i][r] \in {"none", "new"}

unbound(i) ==
  /\ unbinding[i] /\ etherunbind(i)
  /\ arg' = [arg EXCEPT ![i] = FALSE]
  /\ bound' = [bound EXCEPT ![i] = FALSE] /\ unbinding' = [unbinding EXCEPT ![i] = FALSE]
  /\ UNCHANGED <<lifc, tables, nets, allnodes, multi, join, connecting, reader, nbind, early, made, stolen>>

(* The control message add.                                                *)
ipifcadd(i, ip) ==
  /\ bound[i] /\ ~unbinding[i] /\ connecting[i] \in {nil, ip} /\ ip \notin On(i)
  /\ lifc' = [lifc EXCEPT ![i] = Append(@, [ip |-> ip, current |-> TRUE])]
  /\ addselfcache(i, ip, Times(Own(ip)))
  /\ nets' = [nets EXCEPT ![Info[ip].net] = @ + 1]
  /\ allnodes' = (allnodes \/ Info[ip].scope \in {"link", "global"})
  /\ connecting' = [connecting EXCEPT ![i] = nil]
  /\ UNCHANGED <<bound, multi, join, ends, made, stolen>>

(* connect: the addresses there were are removed, the interface is         *)
(* unlocked, and the new one added.                                        *)
ipifcconnect(i, ip) ==
  /\ Ready(i) /\ On(i) # {} /\ ipifcremlifc(i, On(i))
  /\ connecting' = [connecting EXCEPT ![i] = ip]
  /\ UNCHANGED <<bound, multi, join, ends, stolen>>

(* The preferred lifetime of an address ends.                              *)
preflt(i) ==
  /\ \E k \in DOMAIN lifc[i] : lifc[i][k].current /\ Info[lifc[i][k].ip].scope # "v4"
                              /\ lifc' = [lifc EXCEPT ![i][k].current = FALSE]
  /\ UNCHANGED <<bound, tables, nets, allnodes, multi, join, connecting, ends, made, stolen>>
-----------------------------------------------------------------------------
(* addmulti and remmulti of a conversation go over the interfaces, locking *)
(* one at a time.                                                          *)
ipifcaddmulti(c, g, ip) ==
  /\ join[c] = nil /\ <<g, ip>> \notin multi[c]
  /\ multi' = [multi EXCEPT ![c] = @ \cup {<<g, ip>>}]
  /\ join' = [join EXCEPT ![c] = [op |-> "add", g |-> g, ip |-> ip, left |-> Ifcs]]
  /\ UNCHANGED <<bound, lifc, tables, nets, allnodes, connecting, ends, made, stolen>>

ipifcremmulti(c, g, ip) ==
  /\ join[c] = nil /\ <<g, ip>> \in multi[c]
  /\ multi' = [multi EXCEPT ![c] = @ \ {<<g, ip>>}]
  /\ join' = [join EXCEPT ![c] = [op |-> "rem", g |-> g, ip |-> ip, left |-> Ifcs]]
  /\ UNCHANGED <<bound, lifc, tables, nets, allnodes, connecting, ends, made, stolen>>

(* The next interface.  A leave takes a reference whether or not the join  *)
(* found the address there.                                                *)
multiIfc(c) ==
  LET j == join[c]
      i == CHOOSE x \in j.left : \A y \in j.left : x <= y
      m == [conv |-> c, g |-> j.g, ifc |-> i, ip |-> j.ip]
  IN /\ j # nil /\ ~unbinding[i]
     /\ join' = [join EXCEPT ![c] = IF j.left = {i} THEN nil ELSE [j EXCEPT !.left = @ \ {i}]]
     /\ IF j.ip \notin On(i)
        THEN UNCHANGED <<tables, made, stolen>>
        ELSE IF j.op = "add"
             THEN /\ addselfcache(i, j.ip, One(j.g))
                  /\ made' = made \cup {m} /\ UNCHANGED stolen
             ELSE /\ remselfcache(i, j.ip, j.g)
                  /\ made' = made \ {m}
                  /\ stolen' = (stolen \/ (m \notin made /\ link[i, j.ip, j.g] > 0))
     /\ UNCHANGED <<bound, lifc, nets, allnodes, multi, connecting, ends>>
-----------------------------------------------------------------------------
(* findlocalip() for a remote host of version 6 and a route through i: the *)
(* address taken, of what scope, and whether it is deprecated.             *)
Order(s) == CASE s = "v4" -> 0 [] s = "link" -> 2 [] s = "global" -> 3 [] OTHER -> 1
Pick(rs, best, l) ==
  LET t == Order(Info[l.ip].scope) IN
  CASE best.t = rs /\ ~best.dep /\ best.ip # nil -> best
    [] (t > best.t /\ best.t < rs) \/ (t < best.t /\ best.t > rs) ->
         [ip |-> l.ip, t |-> t, dep |-> ~l.current]
    [] t = best.t /\ best.dep /\ l.current -> [ip |-> l.ip, t |-> t, dep |-> FALSE]
    [] OTHER -> best
findlocalip(i, rs) ==
  FoldLeft(LAMBDA best, l : Pick(rs, best, l), [ip |-> nil, t |-> 1, dep |-> FALSE], lifc[i])

Next ==
  \/ \E i \in Ifcs :
       \/ ipifcbind(i) \/ ipifcrem(i) \/ ipifcunbind(i) \/ unbound(i) \/ preflt(i)
       \/ \E r \in Readers : etherread(i, r) \/ hangup(i, r)
       \/ \E ip \in Ips : ipifcadd(i, ip) \/ ipifcconnect(i, ip)
  \/ \E c \in Convs :
       \/ multiIfc(c)
       \/ \E g \in Groups, ip \in Ips : ipifcaddmulti(c, g, ip) \/ ipifcremmulti(c, g, ip)

Spec == Init /\ [][Next]_vars
-----------------------------------------------------------------------------
(* The table has the addresses of each lifc, as often as they come with    *)
(* it, and the groups joined on it, once for each conv, unless one left on *)
(* behalf of another.                                                      *)
SelfExact ==
  /\ stolen \/ \A l \in DOMAIN link :
       link[l] = (IF l[2] \in On(l[1]) THEN Count(Own(l[2]), l[3]) ELSE 0)
               + Cardinality({m \in made : m.ifc = l[1] /\ m.ip = l[2] /\ m.g = l[3]})
  /\ self = {l[3] : l \in {m \in DOMAIN link : link[m] > 0}}

(* Routes and filters say the same as the table, and nets are counted.     *)
FiltersExact ==
  /\ routes = self
  /\ \A n \in DOMAIN nets :
       nets[n] = Cardinality({x \in Ifcs \X Ips : x[2] \in On(x[1]) /\ Info[x[2]].net = n})
  /\ \A x \in DOMAIN filter :
       filter[x] = Cardinality({ip \in Ips : link[x[1], ip, x[2]] > 0})

(* ifc->arg stays while a process reads, and who unbinds waits for none    *)
(* that was not told, unless they had not started.                         *)
ReadersSafe ==
  \A i \in Ifcs, r \in Readers :
    early[i] \/ /\ reader[i][r] \in {"reading", "noted"} => arg[i]
                /\ unbinding[i] => reader[i][r] # "reading"
                /\ ~arg[i] => reader[i][r] \in {"none", "crash"}

(* The source address is of the scope of the remote one, and current, if   *)
(* the interface has one that is.                                          *)
SourceExact ==
  \A i \in Ifcs, s \in {"link", "global"} :
    (\E k \in DOMAIN lifc[i] : lifc[i][k].current /\ Info[lifc[i][k].ip].scope = s)
      => LET b == findlocalip(i, Order(s)) IN b.t = Order(s) /\ ~b.dep

IfcSafe == SelfExact /\ FiltersExact /\ ReadersSafe /\ SourceExact
=============================================================================
