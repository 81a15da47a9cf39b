------------------------------- MODULE Netif --------------------------------
(***************************************************************************)
(* The files of a network interface (src/port/netif.c) and how packets are *)
(* handed to them (src/386/devether.c).                                    *)
(*                                                                         *)
(* A file has a QLock and so has the interface; who holds one and waits    *)
(* for the other is in a step of its own.  Multicast addresses are the     *)
(* numbers of their places in nif->maddr, which only grows.  A packet is   *)
(* its type, where it goes to and where it came from.  Scanning for base   *)
(* stations is counted like promiscuous mode and left out.  The card is    *)
(* one that has a bit for all the multicast addresses with the same hash;  *)
(* ether82557.c, which has none and turns promiscuous, is not modelled.    *)
(***************************************************************************)
EXTENDS Integers, Sequences, FiniteSets

CONSTANTS
  Proc, nfile,
  Types,        \* types that files connect to; -1 is for all
  Maddrs,       \* 1..n, multicast addresses in the order they become known
  Hash,         \* address -> its bit of the card's filter
  Does,         \* what the processes do
  nil

VARIABLES
  inuse, type, prom, bridge, headersonly, bits, nmaddr, \* of each Netfile
  open,         \* file -> its iq is open
  nprom, nall,  \* nif->prom, nif->all
  ref, known,   \* the ref of each Netaddr, and how many there are
  hwprom, mta,  \* of the card: it receives all; the bits of its filter
  flk, nlk,     \* who holds the QLock of a file, and of the interface
  pc, fd,       \* process -> its step, and the file it has open
  at,           \* process -> the file that openclone() looks at
  asked         \* history: file -> multicast addresses its users asked for

files == <<inuse, type, prom, bridge, headersonly, bits, nmaddr, open>>
nif == <<nprom, nall, ref, known, hwprom, mta>>
vars == <<files, nif, flk, nlk, pc, fd, at, asked>>

Files == 1..nfile
MaxAll == nfile + 1 \* bound: nobody stops a file from asking for all twice

Init ==
  /\ inuse = [f \in Files |-> 0] /\ type = [f \in Files |-> 0]
  /\ prom = [f \in Files |-> FALSE] /\ bridge = [f \in Files |-> FALSE]
  /\ headersonly = [f \in Files |-> FALSE] /\ bits = [f \in Files |-> {}]
  /\ nmaddr = [f \in Files |-> 0] /\ open = [f \in Files |-> FALSE]
  /\ nprom = 0 /\ nall = 0 /\ ref = [a \in Maddrs |-> 0] /\ known = 0
  /\ hwprom = FALSE /\ mta = {}
  /\ flk = [f \in Files |-> nil] /\ nlk = nil
  /\ pc = [p \in Proc |-> "idle"] /\ fd = [p \in Proc |-> nil]
  /\ at = [p \in Proc |-> 1]
  /\ asked = [f \in Files |-> {}]

Go(p, l) == pc' = [pc EXCEPT ![p] = l]
-----------------------------------------------------------------------------
(* Opening data or ctl of file f.                                          *)
openfile(p, f) ==
  /\ "open" \in Does /\ pc[p] = "idle" /\ fd[p] = nil /\ flk[f] = nil
  /\ open' = [open EXCEPT ![f] = TRUE] /\ inuse' = [inuse EXCEPT ![f] = @ + 1]
  /\ fd' = [fd EXCEPT ![p] = f]
  /\ UNCHANGED <<type, prom, bridge, headersonly, bits, nmaddr, nif, flk, nlk, pc, at, asked>>

(* Opening clone: the interface is locked and then each file in turn, the  *)
(* first that is not in use being taken.                                   *)
openclone(p) ==
  /\ pc[p] = "idle" /\ fd[p] = nil /\ nlk = nil
  /\ nlk' = p /\ Go(p, "clone") /\ at' = [at EXCEPT ![p] = 1]
  /\ UNCHANGED <<files, nif, flk, fd, asked>>

cloneNext(p) ==
  LET f == at[p] IN
  /\ pc[p] = "clone" /\ flk[f] = nil
  /\ IF inuse[f] > 0
     THEN /\ IF f = nfile THEN nlk' = nil /\ Go(p, "idle") /\ UNCHANGED at
             ELSE at' = [at EXCEPT ![p] = f + 1] /\ UNCHANGED <<nlk, pc>>
          /\ UNCHANGED <<files, fd>>
     ELSE /\ inuse' = [inuse EXCEPT ![f] = 1] /\ open' = [open EXCEPT ![f] = TRUE]
          /\ fd' = [fd EXCEPT ![p] = f]
          /\ nlk' = nil /\ Go(p, "idle")
          /\ UNCHANGED <<type, prom, bridge, headersonly, bits, nmaddr, at>>
  /\ UNCHANGED <<nif, flk, asked>>
-----------------------------------------------------------------------------
(* Control messages, with the interface locked and not the file.           *)
Ctl(p) == pc[p] = "idle" /\ fd[p] # nil /\ nlk = nil

typeinuse(t) == t > 0 /\ \E f \in Files : type[f] = t

connect(p, t) ==
  LET f == fd[p] IN
  /\ "connect" \in Does /\ Ctl(p) /\ ~typeinuse(t) /\ (t < 0 => nall < MaxAll)
  /\ type' = [type EXCEPT ![f] = t]
  /\ nall' = IF t < 0 THEN nall + 1 ELSE nall
  /\ UNCHANGED <<inuse, prom, bridge, headersonly, bits, nmaddr, open, nprom, ref, known, hwprom, mta,
                 flk, nlk, pc, fd, at, asked>>

(* nif->promiscuous(): receive all packets, or no more.                    *)
i82563promiscuous(on) == hwprom' = on

promiscuous(p) ==
  LET f == fd[p] IN
  /\ "prom" \in Does /\ Ctl(p) /\ ~prom[f]
  /\ IF nprom = 0 THEN i82563promiscuous(TRUE) ELSE UNCHANGED hwprom
  /\ prom' = [prom EXCEPT ![f] = TRUE] /\ nprom' = nprom + 1
  /\ UNCHANGED <<inuse, type, bridge, headersonly, bits, nmaddr, open, nall, ref, known, mta,
                 flk, nlk, pc, fd, at, asked>>

flags(p) ==
  LET f == fd[p] IN
  /\ "flags" \in Does /\ Ctl(p)
  /\ \/ bridge' = [bridge EXCEPT ![f] = TRUE] /\ UNCHANGED headersonly
     \/ headersonly' = [headersonly EXCEPT ![f] = TRUE] /\ UNCHANGED bridge
  /\ UNCHANGED <<inuse, type, prom, bits, nmaddr, open, nif, flk, nlk, pc, fd, at, asked>>

(* Fault seeded to test NetifSafe: a bit is cleared.                       *)
i82563multicastClears(a, on) ==
  mta' = IF on THEN mta \cup {Hash[a]} ELSE mta \ {Hash[a]}

(* nif->multicast().  A bit is never cleared: other addresses may need it. *)
i82563multicast(a, on) == mta' = IF on THEN mta \cup {Hash[a]} ELSE mta

(* netmulti(): the reference of an address and the bit of the file.        *)
Added(f, a) ==
  /\ ref' = [ref EXCEPT ![a] = @ + 1]
  /\ IF ref[a] = 0 THEN i82563multicast(a, TRUE) ELSE UNCHANGED mta
  /\ nmaddr' = IF a \in bits[f] THEN nmaddr ELSE [nmaddr EXCEPT ![f] = @ + 1]
  /\ bits' = [bits EXCEPT ![f] = @ \cup {a}]

Removed(f, a) ==
  IF ref[a] = 0 THEN UNCHANGED <<ref, mta, nmaddr, bits>>
  ELSE /\ ref' = [ref EXCEPT ![a] = @ - 1]
       /\ IF ref[a] = 1 THEN i82563multicast(a, FALSE) ELSE UNCHANGED mta
       /\ nmaddr' = IF a \in bits[f] THEN [nmaddr EXCEPT ![f] = @ - 1] ELSE nmaddr
       /\ bits' = [bits EXCEPT ![f] = @ \ {a}]

(* Addresses become known in the order of their numbers.  Users ask for an *)
(* address once, and give back what they asked for.                        *)
netmulti(p, a) ==
  LET f == fd[p] IN
  /\ "multi" \in Does /\ Ctl(p)
  /\ \/ /\ a \notin asked[f] /\ a <= known + 1 /\ ref[a] < nfile + 1
        /\ known' = IF a > known THEN a ELSE known
        /\ Added(f, a) /\ asked' = [asked EXCEPT ![f] = @ \cup {a}]
     \/ /\ a \in asked[f]
        /\ known' = known
        /\ Removed(f, a) /\ asked' = [asked EXCEPT ![f] = @ \ {a}]
  /\ UNCHANGED <<inuse, type, prom, bridge, headersonly, open, nprom, nall, hwprom,
                 flk, nlk, pc, fd, at>>
-----------------------------------------------------------------------------
(* netifclose() locks the file, and with the last close the interface for  *)
(* each thing that the file had of it.                                     *)
netifclose(p) ==
  LET f == fd[p] IN
  /\ pc[p] = "idle" /\ f # nil /\ flk[f] = nil
  /\ inuse' = [inuse EXCEPT ![f] = @ - 1]
  /\ IF inuse[f] > 1
     THEN fd' = [fd EXCEPT ![p] = nil] /\ UNCHANGED <<flk, pc, asked>>
     ELSE /\ flk' = [flk EXCEPT ![f] = p] /\ Go(p, "prom") /\ UNCHANGED fd
          /\ asked' = [asked EXCEPT ![f] = {}]
  /\ UNCHANGED <<type, prom, bridge, headersonly, bits, nmaddr, open, nif, nlk, at>>

closeProm(p) ==
  LET f == fd[p] IN
  /\ pc[p] = "prom" /\ Go(p, "multi")
  /\ prom[f] => nlk = nil
  /\ nprom' = IF prom[f] THEN nprom - 1 ELSE nprom
  /\ IF prom[f] /\ nprom = 1 THEN i82563promiscuous(FALSE) ELSE UNCHANGED hwprom
  /\ prom' = [prom EXCEPT ![f] = FALSE]
  /\ UNCHANGED <<inuse, type, bridge, headersonly, bits, nmaddr, open, nall, ref, known, mta,
                 flk, nlk, fd, at, asked>>

(* The loop over the addresses looks at the bit of the first one, whatever *)
(* the address: the others stay, and so do their bits.                     *)
closeMulti(p) ==
  LET f == fd[p] IN
  /\ pc[p] = "multi" /\ Go(p, "type")
  /\ nmaddr[f] # 0 => nlk = nil
  /\ nmaddr' = [nmaddr EXCEPT ![f] = 0]
  /\ IF nmaddr[f] # 0 /\ 1 \in bits[f] /\ ref[1] > 0
     THEN /\ ref' = [ref EXCEPT ![1] = @ - 1]
          /\ IF ref[1] = 1 THEN i82563multicast(1, FALSE) ELSE UNCHANGED mta
          /\ bits' = [bits EXCEPT ![f] = @ \ {1}]
     ELSE UNCHANGED <<ref, mta, bits>>
  /\ UNCHANGED <<inuse, type, prom, bridge, headersonly, open, nprom, nall, known, hwprom,
                 flk, nlk, fd, at, asked>>

closeType(p) ==
  LET f == fd[p] IN
  /\ pc[p] = "type" /\ Go(p, "idle")
  /\ type[f] < 0 => nlk = nil
  /\ nall' = IF type[f] < 0 THEN nall - 1 ELSE nall
  /\ type' = [type EXCEPT ![f] = 0] /\ bridge' = [bridge EXCEPT ![f] = FALSE]
  /\ headersonly' = [headersonly EXCEPT ![f] = FALSE] /\ open' = [open EXCEPT ![f] = FALSE]
  /\ flk' = [flk EXCEPT ![f] = nil] /\ fd' = [fd EXCEPT ![p] = nil]
  /\ UNCHANGED <<inuse, prom, bits, nmaddr, nprom, ref, known, hwprom, mta, nlk, at, asked>>
-----------------------------------------------------------------------------
(* A file wants a packet.                                                  *)
Wants(f, k) ==
  /\ type[f] = k.type \/ type[f] < 0
  /\ k.to = "other" => prom[f]
  /\ ~(bridge[f] /\ ~k.fromwire /\ ~k.fromme)

(* The files but the first get a copy, the first the packet itself if it   *)
(* comes from the wire.                                                    *)
firstFile(S) == IF S = {} THEN nil ELSE CHOOSE f \in S : \A g \in S : f <= g

(* Somebody asked for address a.                                           *)
activemulti(a) == ref[a] # 0

(* Fault seeded to test NetifSafe: the packet goes to the last of them.    *)
etheriqLast(k) ==
  LET to == {f \in Files : Wants(f, k)}
      whole == {f \in to : ~headersonly[f]}
      fx == IF k.fromwire /\ whole # {} THEN CHOOSE f \in whole : \A g \in whole : f >= g ELSE nil
  IN [copies |-> {f \in whole : f = firstFile(whole) /\ f # fx}, heads |-> to \cap {f \in Files : headersonly[f]},
      fx |-> fx, freed |-> k.fromwire /\ fx = nil, wanted |-> to]

etheriq(k) ==
  IF k.to = "multi" /\ nprom = 0 /\ ~activemulti(k.a)
  THEN [copies |-> {}, heads |-> {}, fx |-> nil, freed |-> k.fromwire, wanted |-> {}]
  ELSE LET to == {f \in Files : Wants(f, k)}
           whole == {f \in to : ~headersonly[f]}
           fx == IF k.fromwire THEN firstFile(whole) ELSE nil
       IN [copies |-> {f \in whole : f # fx}, heads |-> to \ whole, fx |-> fx,
           freed |-> k.fromwire /\ fx = nil, wanted |-> to]

Packets ==
  {k \in [type : {t \in Types : t > 0}, to : {"me", "bcast", "multi", "other"},
          a : Maddrs \cup {0}, fromwire : BOOLEAN, fromme : BOOLEAN] :
     k.a # 0 <=> k.to = "multi"}

(* The packets that are passed to the files: what the filter of the card   *)
(* lets through, more than what was asked for, and what is sent to the     *)
(* host itself, to all or, if the interface is promiscuous, to anybody.    *)
receive(k) ==
  /\ k.fromwire
  /\ k.to = "other" => hwprom
  /\ k.to = "multi" => Hash[k.a] \in mta \/ hwprom

etheroq(k) == ~k.fromwire /\ (k.to \in {"me", "bcast"} \/ nprom > 0)

Next ==
  \E p \in Proc :
    \/ openclone(p) \/ cloneNext(p) \/ promiscuous(p) \/ flags(p)
    \/ netifclose(p) \/ closeProm(p) \/ closeMulti(p) \/ closeType(p)
    \/ \E f \in Files : openfile(p, f)
    \/ \E t \in Types : connect(p, t)
    \/ \E a \in Maddrs : netmulti(p, a)

Spec == Init /\ [][Next]_vars
-----------------------------------------------------------------------------
(* The interface counts the files that are promiscuous, and the card is if *)
(* there is one; a file is in use as often as it is open; no two files     *)
(* have the same type.                                                     *)
CountsExact ==
  /\ nprom = Cardinality({f \in Files : prom[f]}) /\ hwprom = (nprom > 0)
  /\ \A f \in Files :
       /\ inuse[f] = Cardinality({p \in Proc : fd[p] = f /\ (pc[p] \in {"idle", "clone"})})
       /\ inuse[f] = 0 /\ flk[f] = nil => ~open[f] /\ type[f] = 0 /\ ~prom[f]
       /\ \A g \in Files \ {f} : type[f] > 0 => type[f] # type[g]

(* What a file asked for is received as long as it is open, whatever the   *)
(* other files give back.                                                  *)
FilterCovers ==
  /\ \A a \in Maddrs : activemulti(a) => Hash[a] \in mta
  /\ \A a \in Maddrs : ref[a] >= Cardinality({f \in Files : a \in asked[f]})

(* Every file that wants a packet gets it, once, and a packet from the     *)
(* wire is passed on to one file or freed.                                 *)
PacketsExact ==
  \A k \in Packets :
    receive(k) \/ etheroq(k) =>
      LET d == etheriq(k) IN
      /\ d.wanted = d.copies \cup d.heads \cup {f \in Files : f = d.fx}
      /\ \A f \in Files : f = d.fx => f \notin d.copies
      /\ d.copies \cap d.heads = {}
      /\ \A f \in Files :
           /\ type[f] = k.type /\ ~bridge[f]
           /\ k.to \in {"me", "bcast"} \/ (k.to = "multi" /\ activemulti(k.a))
           => f \in d.wanted
      /\ d.freed = (k.fromwire /\ d.fx = nil)
      /\ ~k.fromwire => d.fx = nil

NetifSafe == CountsExact /\ FilterCovers /\ PacketsExact
=============================================================================
