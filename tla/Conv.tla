-------------------------------- MODULE Conv --------------------------------
(***************************************************************************)
(* Conversations of the Internet protocols (src/ip/devip.c), with UDP as   *)
(* the protocol (src/ip/udp.c) and its hash table (src/ip/ipaux.c).        *)
(*                                                                         *)
(* A conversation has a QLock, and so has the protocol: who waits for one  *)
(* of them is in a step of its own.  The remote address and port are one   *)
(* value, nil for none; the local address is one of the host or nil.  Two  *)
(* quads never have the same hash.  A packet is the quad it came with.     *)
(* Permissions, multicast and the bytes of packets are left out.           *)
(***************************************************************************)
EXTENDS Naturals, Sequences, FiniteSets, SequencesExt

CONSTANTS
  Proc,         \* processes that use the device
  NConv,        \* p->nc
  Maxincall,
  Remotes,      \* remote addresses and ports
  Ports,        \* local ports that are asked for, 0 for any
  Ephemeral,    \* those that setlport() chooses from
  Qlimit,       \* packets that rq holds
  MaxHt,        \* bound: entries of the hash table
  Does,         \* what the processes do
  nil

VARIABLES
  inuse, state, quad, headers, incall, \* of each Conv
  rq,           \* conv -> [open, pkts], its queue for received packets
  lk,           \* conv -> who holds its QLock
  plock,        \* who holds that of the protocol
  ht,           \* Udppriv.ht, the entries that were added last first
  pc, at, want, \* process -> its step, its Convs, the address it asked for
  fd,           \* process -> the Conv of which it has a file open
  pkt,          \* the packet that udpiput() has, and its Conv
  moved,        \* history: convs whose addresses changed behind the table
  stray,        \* history: calls queued on a conv that was no longer announced
  raced         \* history: pairs of Convs that got one quad without a comparison

convs == <<inuse, state, quad, headers, incall, rq>>
procs == <<pc, at, want, fd>>
history == <<moved, stray, raced>>
vars == <<convs, lk, plock, ht, procs, pkt, history>>

Convs == 1..NConv
Host == "host"
Quad(l, lp, r) == [laddr |-> l, lport |-> lp, remote |-> r]
None == Quad(nil, 0, nil)

Init ==
  /\ inuse = [c \in Convs |-> 0] /\ state = [c \in Convs |-> "Idle"]
  /\ quad = [c \in Convs |-> None] /\ headers = [c \in Convs |-> FALSE]
  /\ incall = [c \in Convs |-> <<>>]
  /\ rq = [c \in Convs |-> [open |-> FALSE, pkts |-> <<>>]]
  /\ lk = [c \in Convs |-> nil] /\ plock = nil /\ ht = <<>>
  /\ pc = [p \in Proc |-> "idle"] /\ at = [p \in Proc |-> <<>>]
  /\ want = [p \in Proc |-> nil] /\ fd = [p \in Proc |-> nil]
  /\ pkt = nil /\ moved = {} /\ stray = {} /\ raced = {}

Go(p, l) == pc' = [pc EXCEPT ![p] = l]
qlock(p, c) == lk[c] = nil /\ lk' = [lk EXCEPT ![c] = p]
qunlock(c) == lk' = [lk EXCEPT ![c] = nil]
-----------------------------------------------------------------------------
(* The hash table.                                                         *)
Match(q) ==
  CASE q.remote # nil -> "exact"
    [] q.laddr # nil -> IF q.lport = 0 THEN "addr" ELSE "pa"
    [] OTHER -> IF q.lport = 0 THEN "any" ELSE "port"

iphtadd(t, c) == <<[c |-> c, key |-> quad[c], match |-> Match(quad[c])]>> \o t

(* The one removed is the first of the conv under its present addresses.   *)
iphtrem(t, c) ==
  LET found == {i \in DOMAIN t : t[i].c = c /\ t[i].key = quad[c]}
  IN IF found = {} THEN t
     ELSE RemoveAt(t, CHOOSE i \in found : \A j \in found : i <= j)

(* An entry is found by the addresses it was added with, and taken if the  *)
(* conv still has them.                                                    *)
iphtlook(q) ==
  LET keys == <<q, Quad(q.laddr, q.lport, nil), Quad(nil, q.lport, nil),
                Quad(q.laddr, 0, nil), None>>
      kinds == <<"exact", "pa", "port", "addr", "any">>
      Now(k, c) ==
        CASE k = 1 -> quad[c] = q
          [] k = 2 -> quad[c].lport = q.lport /\ quad[c].laddr = q.laddr
          [] k = 3 -> quad[c].lport = q.lport
          [] k = 4 -> quad[c].laddr = q.laddr
          [] OTHER -> TRUE
      Hits(k) == {i \in DOMAIN ht : /\ ht[i].key = keys[k] /\ ht[i].match = kinds[k]
                                    /\ Now(k, ht[i].c)}
      first == {k \in 1..5 : Hits(k) # {}}
  IN IF first = {} THEN nil
     ELSE LET hits == Hits(CHOOSE k \in first : \A j \in first : k <= j)
          IN ht[CHOOSE i \in hits : \A j \in hits : i <= j].c
-----------------------------------------------------------------------------
(* The first Conv that nobody uses, nor has locked.                        *)
Free == {c \in Convs : lk[c] = nil /\ inuse[c] = 0}
Fsprotoclone == IF Free = {} THEN nil ELSE CHOOSE c \in Free : \A d \in Free : c <= d

(* Opening clone; nobody else sees the Conv before the protocol is         *)
(* unlocked.                                                               *)
clone(p) ==
  /\ "clone" \in Does /\ pc[p] = "idle" /\ fd[p] = nil /\ plock = nil
  /\ Fsprotoclone # nil
  /\ LET c == Fsprotoclone
     IN /\ inuse' = [inuse EXCEPT ![c] = 1] /\ state' = [state EXCEPT ![c] = "Idle"]
        /\ quad' = [quad EXCEPT ![c] = None]
        /\ rq' = [rq EXCEPT ![c].open = TRUE]
        /\ fd' = [fd EXCEPT ![p] = c]
  /\ UNCHANGED <<headers, incall, lk, plock, ht, pc, at, want, pkt, history>>

(* Opening data or ctl: the protocol is locked, then the Conv.             *)
ipopen(p, c) ==
  /\ "open" \in Does /\ pc[p] = "idle" /\ fd[p] = nil /\ plock = nil
  /\ plock' = p /\ at' = [at EXCEPT ![p] = <<c>>] /\ Go(p, "open")
  /\ UNCHANGED <<convs, lk, ht, want, fd, pkt, history>>

ipopenConv(p) ==
  LET c == at[p][1] IN
  /\ pc[p] = "open" /\ lk[c] = nil
  /\ inuse' = [inuse EXCEPT ![c] = @ + 1]
  /\ fd' = [fd EXCEPT ![p] = c] /\ at' = [at EXCEPT ![p] = <<>>]
  /\ plock' = nil /\ Go(p, "idle")
  /\ UNCHANGED <<state, quad, headers, incall, rq, lk, ht, want, pkt, history>>
-----------------------------------------------------------------------------
(* The control messages connect, announce and bind set addresses with the  *)
(* Conv locked and then lock the protocol to set the local port: n is the  *)
(* port asked for, 0 for any.                                              *)
Asks(p, c, s, q, w) ==
  /\ pc[p] = "idle" /\ fd[p] = c /\ qlock(p, c)
  /\ state' = [state EXCEPT ![c] = s]
  /\ quad' = [quad EXCEPT ![c] = q]
  /\ want' = [want EXCEPT ![p] = w] /\ Go(p, "port")
  /\ UNCHANGED <<inuse, headers, incall, rq, plock, ht, at, fd, pkt, stray, raced>>

(* Without a local port connect leaves the one the Conv has until setlport *)
(* sets it.                                                                *)
connectctlmsg(p, r, n) ==
  LET c == fd[p] IN
  /\ "connect" \in Does /\ c # nil /\ state[c] = "Idle"
  /\ Asks(p, c, "Connecting", Quad(Host, IF n = 0 THEN quad[c].lport ELSE 0, r),
          [op |-> "connect", port |-> n])
  /\ UNCHANGED moved

(* announce n, announce *!n and announce host!n; n is 0 for all ports.     *)
announcectlmsg(p, l, n) ==
  LET c == fd[p] IN
  /\ "announce" \in Does /\ c # nil /\ state[c] = "Idle"
  /\ Asks(p, c, "Announcing", Quad(l, 0, nil), [op |-> "announce", port |-> n])
  /\ UNCHANGED moved

(* bind does not look at the state: a Conv in the table moves.             *)
bindctlmsg(p, n) ==
  LET c == fd[p] IN
  /\ "bind" \in Does /\ c # nil
  /\ Asks(p, c, state[c], Quad(Host, 0, quad[c].remote), [op |-> "bind", port |-> n])
  /\ moved' = IF \E i \in DOMAIN ht : ht[i].c = c THEN moved \cup {c} ELSE moved

lportinuse(n) == \E c \in Convs : quad[c].lport = n

(* Who has the quad that c gets with port n, of the Convs in such a state: *)
(* only those connected or announced are looked at.                        *)
Same(c, n, S) == {d \in Convs \ {c} : state[d] \in S /\ quad[d] = [quad[c] EXCEPT !.lport = n]}
Made == {"Connected", "Announced"}

setlport(c) == \E n \in Ephemeral : ~lportinuse(n) /\ quad' = [quad EXCEPT ![c].lport = n]

(* Fault seeded to test ConvSafe: a Conv counts only while it is announced. *)
setluniqueportLax(p, c, n) ==
  /\ quad' = IF Same(c, n, {"Announced"}) # {} THEN quad ELSE [quad EXCEPT ![c].lport = n]
  /\ Go(p, IF Same(c, n, {"Announced"}) # {} THEN "failed" ELSE "done")

setluniqueport(p, c, n) ==
  /\ quad' = IF Same(c, n, Made) # {} THEN quad ELSE [quad EXCEPT ![c].lport = n]
  /\ Go(p, IF Same(c, n, Made) # {} THEN "failed" ELSE "done")

(* The protocol is locked meanwhile.                                       *)
setladdrport(p) ==
  LET c == fd[p]
      n == want[p].port
  IN /\ pc[p] = "port" /\ plock = nil
     /\ \/ n = 0 /\ want[p].op # "announce" /\ setlport(c) /\ Go(p, "done") /\ UNCHANGED raced
        \/ /\ n # 0 \/ want[p].op = "announce"
           /\ setluniqueport(p, c, n)
           /\ raced' = raced \cup {{c, d} : d \in Same(c, n, {"Connecting", "Announcing"})}
     /\ UNCHANGED <<inuse, state, headers, incall, rq, lk, plock, ht, at, want, fd, pkt,
                    moved, stray>>

(* Fsconnected(), iphtadd() and the end of the write.  A connect that      *)
(* failed leaves the Conv Connected, out of the table, an announce that    *)
(* failed Announcing.                                                      *)
Fsconnected(p) ==
  LET c == fd[p]
      ok == pc[p] = "done"
      op == want[p].op
  IN /\ pc[p] \in {"done", "failed"}
     /\ state' = CASE op = "connect" -> [state EXCEPT ![c] = "Connected"]
                   [] op = "announce" /\ ok -> [state EXCEPT ![c] = "Announced"]
                   [] OTHER -> state
     /\ ok /\ op # "bind" => Len(ht) < MaxHt
     /\ ht' = IF ok /\ op # "bind" THEN iphtadd(ht, c) ELSE ht
     /\ qunlock(c)
     /\ want' = [want EXCEPT ![p] = nil] /\ Go(p, "idle")
     /\ UNCHANGED <<inuse, quad, headers, incall, rq, plock, at, fd, pkt, history>>

(* The control message headers.                                            *)
udpctl(p) ==
  LET c == fd[p] IN
  /\ "headers" \in Does /\ pc[p] = "idle" /\ c # nil /\ lk[c] = nil
  /\ headers' = [headers EXCEPT ![c] = TRUE]
  /\ UNCHANGED <<inuse, state, quad, incall, rq, lk, plock, ht, procs, pkt, history>>

(* A read of data.                                                         *)
ipbread(p) ==
  LET c == fd[p] IN
  /\ pc[p] = "idle" /\ c # nil /\ rq[c].pkts # <<>>
  /\ rq' = [rq EXCEPT ![c].pkts = Tail(@)]
  /\ UNCHANGED <<inuse, state, quad, headers, incall, lk, plock, ht, procs, pkt, history>>
-----------------------------------------------------------------------------
(* closeconv(): at[p] are the Convs it is in, the innermost first, which   *)
(* are locked.                                                             *)
Closes(p, c) ==
  /\ qlock(p, c)
  /\ inuse' = [inuse EXCEPT ![c] = @ - 1]
  /\ at' = [at EXCEPT ![p] = <<c>> \o @]

ipclose(p) ==
  /\ pc[p] = "idle" /\ fd[p] # nil
  /\ Closes(p, fd[p]) /\ Go(p, "close")
  /\ fd' = [fd EXCEPT ![p] = nil]
  /\ UNCHANGED <<state, quad, headers, incall, rq, plock, ht, want, pkt, history>>

Returns(p) ==
  /\ qunlock(at[p][1])
  /\ at' = [at EXCEPT ![p] = Tail(@)]
  /\ Go(p, IF Len(at[p]) = 1 THEN "idle" ELSE "close")

(* Somebody else has it open.                                              *)
stillInUse(p) ==
  /\ pc[p] = "close" /\ inuse[at[p][1]] > 0
  /\ Returns(p)
  /\ UNCHANGED <<convs, plock, ht, want, fd, pkt, history>>

(* Calls that nobody will listen for.                                      *)
closeIncall(p) ==
  LET c == at[p][1]
      nc == Head(incall[c])
  IN /\ pc[p] = "close" /\ inuse[c] = 0 /\ incall[c] # <<>>
     /\ incall' = [incall EXCEPT ![c] = Tail(@)]
     /\ Closes(p, nc) /\ stray' = stray \ {nc}
     /\ UNCHANGED <<state, quad, headers, rq, plock, ht, pc, want, fd, pkt, moved, raced>>

(* Fault seeded to test ConvSafe: the Conv is taken off the table after    *)
(* its addresses were cleared.                                             *)
udpcloseLate(p) ==
  LET c == at[p][1] IN
  /\ ht' = ht
  /\ quad' = [quad EXCEPT ![c] = None]
  /\ rq' = [rq EXCEPT ![c] = [open |-> FALSE, pkts |-> <<>>]]
  /\ headers' = [headers EXCEPT ![c] = FALSE]

udpclose(p) ==
  LET c == at[p][1] IN
  /\ ht' = iphtrem(ht, c)
  /\ quad' = [quad EXCEPT ![c] = None]
  /\ rq' = [rq EXCEPT ![c] = [open |-> FALSE, pkts |-> <<>>]]
  /\ headers' = [headers EXCEPT ![c] = FALSE]

closeconv(p) ==
  LET c == at[p][1] IN
  /\ pc[p] = "close" /\ inuse[c] = 0 /\ incall[c] = <<>>
  /\ udpclose(p)
  /\ state' = [state EXCEPT ![c] = "Idle"]
  /\ moved' = IF \E i \in DOMAIN ht' : ht'[i].c = c THEN moved ELSE moved \ {c}
  /\ raced' = {cs \in raced : c \notin cs}
  /\ Returns(p)
  /\ UNCHANGED <<inuse, incall, plock, want, fd, pkt, stray>>
-----------------------------------------------------------------------------
(* Opening listen: the state is looked at without the lock.                *)
listen(p, c) ==
  /\ "listen" \in Does /\ pc[p] = "idle" /\ fd[p] = nil /\ state[c] = "Announced"
  /\ at' = [at EXCEPT ![p] = <<c>>] /\ Go(p, "listen")
  /\ UNCHANGED <<convs, lk, plock, ht, want, fd, pkt, history>>

listenCounts(p) ==
  LET c == at[p][1] IN
  /\ pc[p] = "listen" /\ lk[c] = nil
  /\ inuse' = [inuse EXCEPT ![c] = @ + 1]
  /\ Go(p, IF rq[c].open THEN "listening" ELSE "unlisten")
  /\ UNCHANGED <<state, quad, headers, incall, rq, lk, plock, ht, at, want, fd, pkt, history>>

(* A call came in.                                                         *)
listenTakes(p) ==
  LET c == at[p][1] IN
  /\ pc[p] = "listening" /\ lk[c] = nil /\ incall[c] # <<>>
  /\ incall' = [incall EXCEPT ![c] = Tail(@)]
  /\ fd' = [fd EXCEPT ![p] = Head(incall[c])] /\ stray' = stray \ {Head(incall[c])}
  /\ Go(p, "unlisten")
  /\ UNCHANGED <<inuse, state, quad, headers, rq, lk, plock, ht, at, want, pkt, moved, raced>>

(* A note, or the Conv was hung up: the open fails.                        *)
listenFails(p) ==
  /\ pc[p] = "listening" /\ Go(p, "unlisten")
  /\ UNCHANGED <<convs, lk, plock, ht, at, want, fd, pkt, history>>

unlisten(p) ==
  LET c == at[p][1] IN
  /\ pc[p] = "unlisten"
  /\ qlock(p, c) /\ inuse' = [inuse EXCEPT ![c] = @ - 1] /\ Go(p, "close")
  /\ UNCHANGED <<state, quad, headers, incall, rq, plock, ht, at, want, fd, pkt, history>>
-----------------------------------------------------------------------------
(* A packet comes in: udpiput() looks its Conv up, with the protocol       *)
(* locked, and looks at the state of the Conv, which is not.               *)
Net == "udpiput"
udpiput(r, n) ==
  LET q == Quad(Host, n, r)
      c == iphtlook(q)
  IN /\ plock = nil /\ pkt = nil /\ c # nil
     /\ plock' = Net
     /\ pkt' = [q |-> q, c |-> c,
                to |-> IF state[c] = "Announced" /\ ~headers[c] THEN "newcall" ELSE "deliver"]
     /\ UNCHANGED <<convs, lk, ht, procs, history>>

(* The new Conv is queued, if the queue is not full and there is one.      *)
Fsnewcall ==
  LET c == pkt.c
      nc == CHOOSE d \in Free \ {c} : \A e \in Free \ {c} : d <= e
  IN /\ pkt # nil /\ pkt.to = "newcall" /\ lk[c] = nil
     /\ IF Len(incall[c]) >= Maxincall \/ Free \ {c} = {}
        THEN /\ plock' = nil /\ pkt' = nil
             /\ UNCHANGED <<convs, stray, raced>>
        ELSE /\ inuse' = [inuse EXCEPT ![nc] = 1]
             /\ state' = [state EXCEPT ![nc] = "Connected"]
             /\ quad' = [quad EXCEPT ![nc] = pkt.q]
             /\ rq' = [rq EXCEPT ![nc].open = TRUE]
             /\ incall' = [incall EXCEPT ![c] = Append(@, nc)]
             /\ pkt' = [pkt EXCEPT !.c = nc, !.to = "add"]
             /\ stray' = IF state[c] = "Announced" THEN stray ELSE stray \cup {nc}
             /\ raced' = raced \cup {{nc, d} : d \in {e \in Convs : quad[e] = pkt.q}}
             /\ UNCHANGED <<headers, plock>>
     /\ UNCHANGED <<lk, ht, procs, moved>>

(* Whoever listened may have closed the new Conv already.                  *)
addcall ==
  /\ pkt # nil /\ pkt.to = "add" /\ Len(ht) < MaxHt
  /\ ht' = iphtadd(ht, pkt.c)
  /\ moved' = IF inuse[pkt.c] = 0 \/ quad[pkt.c] # pkt.q THEN moved \cup {pkt.c} ELSE moved
  /\ pkt' = [pkt EXCEPT !.to = "deliver"]
  /\ UNCHANGED <<convs, lk, plock, procs, stray, raced>>

(* The protocol is unlocked when the Conv is locked.                       *)
deliver ==
  LET c == pkt.c IN
  /\ pkt # nil /\ pkt.to = "deliver" /\ lk[c] = nil
  /\ rq' = IF rq[c].open /\ Len(rq[c].pkts) < Qlimit
           THEN [rq EXCEPT ![c].pkts = Append(@, pkt.q)] ELSE rq
  /\ plock' = nil /\ pkt' = nil
  /\ UNCHANGED <<inuse, state, quad, headers, incall, lk, ht, procs, history>>

(* An ICMP message about a packet that a Conv sent hangs it up.            *)
udpadvise(r, n) ==
  LET hit == {c \in Convs : quad[c] = Quad(Host, n, r)} IN
  /\ "advise" \in Does /\ plock = nil /\ hit # {}
  /\ LET c == CHOOSE c \in hit : \A d \in hit : c <= d
     IN lk[c] = nil /\ rq' = [rq EXCEPT ![c].open = FALSE]
  /\ UNCHANGED <<inuse, state, quad, headers, incall, lk, plock, ht, procs, pkt, history>>

Next ==
  \/ \E p \in Proc :
       \/ clone(p) \/ ipopenConv(p) \/ setladdrport(p) \/ Fsconnected(p) \/ udpctl(p)
       \/ ipbread(p) \/ ipclose(p) \/ stillInUse(p) \/ closeIncall(p) \/ closeconv(p)
       \/ listenCounts(p) \/ listenTakes(p) \/ listenFails(p) \/ unlisten(p)
       \/ \E c \in Convs : ipopen(p, c) \/ listen(p, c)
       \/ \E n \in Ports : \/ \E r \in Remotes : connectctlmsg(p, r, n)
                          \/ \E l \in {Host, nil} : announcectlmsg(p, l, n)
                          \/ bindctlmsg(p, n)
  \/ \E r \in Remotes, n \in (Ports \cup Ephemeral) \ {0} : udpiput(r, n) \/ udpadvise(r, n)
  \/ Fsnewcall \/ addcall \/ deliver

Spec == Init /\ [][Next]_vars
-----------------------------------------------------------------------------
(* A Conv is in use by those who have it open or listen to it, and by the  *)
(* queue of calls it is on.                                                *)
InUseExact ==
  \A c \in Convs :
    inuse[c] = Cardinality({p \in Proc : fd[p] = c})
             + Cardinality({p \in Proc : pc[p] \in {"listening", "unlisten"} /\ at[p][1] = c})
             + Cardinality({d \in Convs : Contains(incall[d], c)})

(* The table has the addresses of the Convs, of those in use only, unless  *)
(* one was bound anew while it was in it or closed before it was put in.   *)
TableExact ==
  \A i \in DOMAIN ht : LET c == ht[i].c IN
    c \in moved \/ /\ ht[i].key = quad[c]
                   /\ inuse[c] > 0 \/ lk[c] # nil

(* What a Conv receives was sent to it, and a call is for who announced    *)
(* its port, unless it was closed while the call came in.                  *)
DeliverExact ==
  \A c \in Convs \ moved :
    /\ \A i \in DOMAIN rq[c].pkts : LET q == rq[c].pkts[i] IN
         /\ quad[c].remote \in {nil, q.remote} /\ quad[c].laddr \in {nil, q.laddr}
         /\ quad[c].lport \in {0, q.lport}
    /\ \A i \in DOMAIN incall[c] : LET d == incall[c][i] IN
         d \in stray \cup moved \/ quad[c].lport \in {0, quad[d].lport}

(* Two Convs have the same quad only if the first of them had its port but *)
(* was not yet connected or announced when that of the second was compared *)
(* (devip.c:741), or if the second is a call, which is compared with none, *)
(* and only until one of them is closed.                                   *)
QuadsUnique ==
  \A c, d \in Convs :
    c # d /\ {state[c], state[d]} \subseteq Made /\ quad[c] = quad[d] /\ quad[c].lport # 0
      => {c, d} \in raced

ConvSafe == InUseExact /\ TableExact /\ DeliverExact /\ QuadsUnique
=============================================================================
