-------------------------------- MODULE Arp --------------------------------
(***************************************************************************)
(* Address resolution (ip/arp.c, and its callers in ip/ethermedium.c): the *)
(* cache, its hash chains, the packets that wait for an address and, for   *)
(* IPv6, the chain of solicitations to be sent again.  All is done with    *)
(* the cache locked, but rxmitsols() lets go of it while it solicits.  The *)
(* network answers any address at any time, with its own: a mac is the     *)
(* address that it belongs to.                                             *)
(***************************************************************************)
EXTENDS Integers, Sequences, SequencesExt, FiniteSets

CONSTANTS
  V4, V6,    \* addresses
  hash(_),   \* haship()
  NCACHE,    \* entries
  Multi,     \* ... of them broadcast and multicast
  Solicit,   \* MAX_MULTICAST_SOLICIT
  Uchar,     \* rxtsrem is modulo this, 256 in the code
  MaxHold,   \* bound: packets that wait for an address
  nil

VARIABLES
  ent,       \* arp->cache: address, state, mac, packets held, solicitations left
  chain,     \* arp->hash
  age,       \* the entries by utime, the oldest first; not those whose utime is 0
  rxmt,      \* arp->rxmt, an entry or nil ...
  nextrxt,   \* ... and nextrxt of each
  sol        \* the entry that rxmitsols() solicits with the cache unlocked

vars == <<ent, chain, age, rxmt, nextrxt, sol>>

Ips == V4 \cup V6
Ents == 1..NCACHE
Unused == [ip |-> nil, state |-> "UNUSED", mac |-> nil, hold |-> <<>>, left |-> 0, ifc |-> FALSE]

Init ==
  /\ ent = [a \in Ents |-> Unused]
  /\ chain = [h \in {hash(ip) : ip \in Ips} |-> <<>>]
  /\ age = <<>>
  /\ rxmt = nil
  /\ nextrxt = [a \in Ents |-> nil]
  /\ sol = nil

without(s, a) == SelectSeq(s, LAMBDA b : b # a)
youngest(s, a) == Append(without(s, a), a)
Never == Ents \ ToSet(age)
oldest == IF Never # {} THEN CHOOSE a \in Never : \A b \in Never : a <= b ELSE Head(age)
find(ip) == {a \in Ents : Contains(chain[hash(ip)], a) /\ ent[a].ip = ip}

(* The chain of entries from a pointer, through the pointers of next.      *)
RECURSIVE walk(_, _, _)
walk(a, next, n) == IF a = nil \/ n = 0 THEN <<>> ELSE <<a>> \o walk(next[a], next, n - 1)
Rxmt == walk(rxmt, nextrxt, NCACHE + 1)

(* The loop that takes an entry out of the chain, and leaves the pointer   *)
(* of the entry as it was.                                                 *)
unlink(l, a) ==
  LET c == walk(l.head, l.next, NCACHE)
      i == CHOOSE i \in 1..Len(c) : c[i] = a
  IN CASE ~Contains(c, a) -> l
       [] Contains(c, a) /\ i = 1 -> [l EXCEPT !.head = l.next[a]]
       [] OTHER -> [l EXCEPT !.next[c[i - 1]] = l.next[a]]
atend(l, a) ==
  LET c == walk(l.head, l.next, NCACHE) IN
  [IF c = <<>> THEN [l EXCEPT !.head = a] ELSE [l EXCEPT !.next[c[Len(c)]] = a]
     EXCEPT !.next[a] = nil]
List == [head |-> rxmt, next |-> nextrxt]
relink(l) == rxmt' = l.head /\ nextrxt' = l.next

(* Fault seeded to test MacsRight: the entry stays in its old chain, and   *)
(* the packets that wait in it.                                            *)
newarp6Keeps(a, ip, e, addrxt, left) ==
  /\ chain' = [chain EXCEPT ![hash(ip)] = <<a>> \o without(@, a)]
  /\ ent' = [ent EXCEPT ![a] = [e EXCEPT !.ip = ip, !.left = left, !.ifc = TRUE,
                                         !.hold = ent[a].hold \o @]]
  /\ relink(IF addrxt THEN atend(unlink(List, a), a) ELSE [List EXCEPT !.next[a] = nil])

(* newarp6(): takes over an entry, whose packets are dropped; it is put at *)
(* the end of the chain of solicitations if addrxt.                        *)
newarp6(a, ip, e, addrxt, left) ==
  /\ LET old == ent[a].ip
         out == IF old = nil THEN chain ELSE [chain EXCEPT ![hash(old)] = without(@, a)]
     IN chain' = [out EXCEPT ![hash(ip)] = <<a>> \o @]
  /\ ent' = [ent EXCEPT ![a] = [e EXCEPT !.ip = ip, !.left = left, !.ifc = TRUE]]
  /\ relink(IF addrxt THEN atend(unlink(List, a), a) ELSE [List EXCEPT !.next[a] = nil])

(* cleanarpent(), of entry a.                                              *)
cleaned(a) == [ent[a] EXCEPT !.state = "UNUSED", !.hold = <<>>, !.ifc = FALSE]
cleanarpent(a) ==
  /\ chain' = IF ent[a].ip = nil THEN chain
              ELSE [chain EXCEPT ![hash(ent[a].ip)] = without(@, a)]
  /\ ent' = [ent EXCEPT ![a] = cleaned(a)]
  /\ relink([unlink(List, a) EXCEPT !.next[a] = nil])
  /\ age' = without(age, a)
-----------------------------------------------------------------------------
(* sendarp(), resolveaddr6(): if it is not too soon to ask again, all      *)
(* packets but the last are dropped.                                       *)
held(hold, ask) == IF ask THEN SubSeq(hold, Len(hold), Len(hold)) ELSE hold

(* etherbwrite() with arpget(): a packet for ip, when its entry waits ...  *)
arpget(ip, ask) ==
  /\ \E a \in find(ip) :
       /\ ent[a].state = "WAIT" /\ Len(ent[a].hold) < MaxHold
       /\ ent' = [ent EXCEPT ![a].hold = held(Append(@, ip), ask),
                             ![a].left = IF ask /\ ip \in V6 /\ @ > 0 THEN @ - 1 ELSE @]
       /\ age' = youngest(age, a)
  /\ UNCHANGED <<chain, rxmt, nextrxt, sol>>
(* ... when there is none, and it is asked for: resolveaddr6() counts ...  *)
arpgetNew(ip) ==
  /\ find(ip) = {} /\ ip \notin Multi
  /\ newarp6(oldest, ip, [Unused EXCEPT !.state = "WAIT", !.hold = <<ip>>],
             ip \in V6, IF ip \in V6 THEN Solicit - 1 ELSE Solicit)
  /\ age' = youngest(age, oldest)
  /\ UNCHANGED sol
(* ... or multicastarp() knows: arpresolve() takes it off the chain of     *)
(* solicitations, where a multicast address was not put ...                *)
arpresolve(ip) ==
  /\ find(ip) = {} /\ ip \in Multi
  /\ newarp6(oldest, ip, [Unused EXCEPT !.state = "OK", !.mac = ip], FALSE, Solicit)
  /\ age' = youngest(age, oldest)
  /\ UNCHANGED sol
(* ... and when its address is known: it is sent, and an entry of more     *)
(* than 15 minutes goes.                                                   *)
arpgetOld(ip) ==
  /\ \E a \in find(ip) : ent[a].state = "OK" /\ cleanarpent(a)
  /\ UNCHANGED sol

(* arpenter(), by recvarp() and icmp6: the packets held are sent, with no  *)
(* lock on the cache.                                                      *)
arpenter(ip) ==
  /\ \E a \in find(ip) :
       /\ ent' = [ent EXCEPT ![a].state = "OK", ![a].mac = ip, ![a].hold = <<>>, ![a].ifc = TRUE]
       /\ relink(IF ip \in V6 THEN unlink(List, a) ELSE List)
       /\ age' = youngest(age, a)
  /\ UNCHANGED <<chain, sol>>
(* An answer that nobody waits for makes an entry.                         *)
arpenterNew(ip) ==
  /\ find(ip) = {} /\ ip \notin Multi
  /\ newarp6(oldest, ip, [Unused EXCEPT !.state = "OK", !.mac = ip], FALSE, Solicit)
  /\ age' = youngest(age, oldest)
  /\ UNCHANGED sol

(* arpwrite(): "flush", and "del" of an address; the state stays.          *)
flush ==
  /\ \E a \in Ents : ent[a].ip # nil
  /\ ent' = [a \in Ents |-> [Unused EXCEPT !.left = ent[a].left, !.ifc = ent[a].ifc]]
  /\ chain' = [h \in DOMAIN chain |-> <<>>]
  /\ age' = <<>>
  /\ rxmt' = nil
  /\ UNCHANGED <<nextrxt, sol>>
del(ip) ==
  /\ \E a \in find(ip) :
       /\ ent' = [ent EXCEPT ![a] = [Unused EXCEPT !.state = ent[a].state, !.left = ent[a].left]]
       /\ chain' = [chain EXCEPT ![hash(ip)] = without(@, a)]
       /\ relink([unlink(List, a) EXCEPT !.next[a] = nil])
  /\ UNCHANGED <<age, sol>>

(* rxmitsols(): the first of the chain is given up, with no solicitation   *)
(* left, or because its interface is locked or was bound anew ...          *)
rxmitDrop ==
  /\ sol = nil /\ rxmt # nil /\ ent[rxmt].ifc
  /\ cleanarpent(rxmt)
  /\ UNCHANGED sol
(* ... or solicited with the cache unlocked, and put at the end.           *)
rxmitSend ==
  /\ sol = nil /\ rxmt # nil /\ ent[rxmt].left > 0 /\ ent[rxmt].ifc
  /\ sol' = rxmt
  /\ UNCHANGED <<ent, chain, age, rxmt, nextrxt>>
rxmitEnd ==
  /\ sol # nil
  /\ relink(atend(unlink(List, sol), sol))
  /\ ent' = [ent EXCEPT ![sol].left = (@ - 1) % Uchar]
  /\ sol' = nil
  /\ UNCHANGED <<chain, age>>

Next ==
  \/ \E ip \in Ips : \/ \E ask \in BOOLEAN : arpget(ip, ask)
                     \/ arpgetNew(ip) \/ arpgetOld(ip) \/ arpresolve(ip)
                     \/ arpenter(ip) \/ arpenterNew(ip) \/ del(ip)
  \/ flush \/ rxmitDrop \/ rxmitSend \/ rxmitEnd

Spec == Init /\ [][Next]_vars
-----------------------------------------------------------------------------
(* Whatever entries are taken over, aged, deleted and flushed, a packet is *)
(* only sent to the mac of its own address: an entry that can be found has *)
(* the mac of its address, and holds packets for it alone; there is one    *)
(* per address, in the chain of its hash.                                  *)
MacsRight == \A h \in DOMAIN chain : \A i \in 1..Len(chain[h]) :
  LET e == ent[chain[h][i]] IN
  /\ e.ip # nil /\ hash(e.ip) = h
  /\ e.state = "OK" => e.mac = e.ip
  /\ \A k \in 1..Len(e.hold) : e.hold[k] = e.ip
  /\ \A j \in 1..Len(chain[h]) : ent[chain[h][j]].ip = e.ip => i = j

=============================================================================
