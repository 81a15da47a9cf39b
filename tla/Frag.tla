-------------------------------- MODULE Frag --------------------------------
(***************************************************************************)
(* IP fragments: ipoput4() and ipoput6() of ip/ip.c and ip/ipv6.c cut a     *)
(* packet for the medium it leaves by, once more where a router gates it;   *)
(* ip4reassemble() and ip6reassemble() put it together again.  The network  *)
(* delivers the fragments of all the paths that copies of a packet took,    *)
(* in any order, any number of times.  Offsets and lengths are in units of  *)
(* 8 bytes, the byte of a packet is its position.                           *)
(***************************************************************************)
EXTENDS Integers, Sequences, FiniteSets, SequencesExt

CONSTANTS
  Packets,   \* [v, id, len, df, paths]: the IP version, what identifies the packet
             \* (source, destination, id), its length, whether it says IP_DF, and the room
             \* for data on the media of its paths
  NFrag      \* the length of ip->fragfree4, and of ip->fragfree6

VARIABLES
  flist,     \* [v -> the reassembly queues in use, the newest first]
  got        \* the packet given to its protocol by the last step, if any: [packet, bytes]

fvars == <<flist, got>>

Init ==
  /\ flist = [v \in {4, 6} |-> <<>>]
  /\ got = <<>>
-----------------------------------------------------------------------------
(* The fragments of a packet, or of a fragment that is gated, on a medium   *)
(* with room for seglen.  MF of what is gated stays on all of its pieces.   *)
(* What must not be cut is thrown away.                                     *)
ipoput(pk, h, seglen) ==
  IF h.flen <= seglen THEN {h}
  ELSE IF pk.df THEN {}
  ELSE {[foff |-> h.foff + k * seglen,
         flen |-> IF (k + 1) * seglen >= h.flen THEN h.flen - k * seglen ELSE seglen,
         mf |-> h.mf \/ (k + 1) * seglen < h.flen] : k \in 0..((h.flen - 1) \div seglen)}

(* A router gates what it gets, as it is, to its next medium.               *)
ipiput(pk, hs, seglen) == UNION {ipoput(pk, h, seglen) : h \in hs}

(* What comes out of a path.                                                *)
Sent(pk, path) ==
  FoldLeft(LAMBDA hs, seglen : ipiput(pk, hs, seglen),
           {[foff |-> 0, flen |-> pk.len, mf |-> FALSE]}, path)

Bytes(b, n) == [i \in 1..n |-> b.foff + i - 1]

(* The queue of a packet.                                                   *)
Queue(pk) == {i \in DOMAIN flist[pk.v] : flist[pk.v][i].id = pk.id}

(* The queues that are too old and come before the one that is looked for   *)
(* are freed.                                                               *)
Young(pk) ==
  LET fl == flist[pk.v] q == Queue(pk) IN
  SelectSeq([i \in DOMAIN fl |-> [fl[i] EXCEPT !.old = @ /\ \A j \in q : i < j]],
            LAMBDA f : ~f.old)

(* The list with the queue of pk out of it.                                 *)
ipfragfree(pk, fl) == SelectSeq(fl, LAMBDA f : f.id # pk.id)

(* A queue for a new packet; the oldest is freed if there is no other.      *)
ipfragallo(pk, b, fl) ==
  <<[id |-> pk.id, old |-> FALSE, blist |-> <<b>>, arrived |-> {b}]>>
    \o (IF Len(fl) = NFrag THEN SubSeq(fl, 1, NFrag - 1) ELSE fl)
-----------------------------------------------------------------------------
(* A block of a queue also has the length that its header says.             *)
block(h) == [foff |-> h.foff, flen |-> h.flen, hlen |-> h.flen, mf |-> h.mf]

(* How many blocks come before b.                                           *)
Before(b, blist) == Len(SelectSeq(blist, LAMBDA x : b.foff > x.foff))

(* How much of b the one before it has.                                     *)
Ovlap(b, blist) ==
  LET n == Before(b, blist) IN
  IF n = 0 THEN 0 ELSE blist[n].foff + blist[n].flen - b.foff

Covered(b, blist) == Ovlap(b, blist) > 0 /\ Ovlap(b, blist) >= b.flen

(* The blocks before b: the last gives up what b has.                       *)
Head1(b, blist) ==
  LET n == Before(b, blist) IN
  [i \in 1..n |-> IF i = n /\ Ovlap(b, blist) > 0
                  THEN [blist[i] EXCEPT !.flen = @ - Ovlap(b, blist)] ELSE blist[i]]

(* Seeded fault, for NotWhole: a block is thrown away for a part of it.     *)
Tail1Greedy(v, b, blist) ==
  {SelectSeq(SubSeq(blist, Before(b, blist) + 1, Len(blist)),
             LAMBDA x : b.foff + b.flen - x.foff <= 0)}

(* ... and those after it: b's bytes are taken out of them.  In IPv6 the    *)
(* header that is moved up does not include the fragment header, and MF is  *)
(* then a bit of the data.                                                  *)
Tail1(v, b, blist) ==
  LET fend == b.foff + b.flen
      after == SubSeq(blist, Before(b, blist) + 1, Len(blist))
      left == SelectSeq(after, LAMBDA x : fend - x.foff <= 0 \/ fend - x.foff < x.flen)
  IN {[i \in DOMAIN left |->
         IF fend > left[i].foff
         THEN [left[i] EXCEPT !.foff = fend, !.flen = @ - (fend - left[i].foff), !.mf = mf]
         ELSE left[i]] :
      mf \in IF v = 6 /\ left # <<>> THEN BOOLEAN
             ELSE {left # <<>> /\ left[1].mf}}

(* Seeded fault, for PacketExact: the packet ends with what has come in.    *)
CompleteHoles(bl) == bl[1].foff = 0 /\ ~bl[Len(bl)].mf

(* There is no hole before the first block that is the last of its packet.  *)
Complete(bl) ==
  \E n \in DOMAIN bl :
    /\ ~bl[n].mf /\ \A i \in 1..(n - 1) : bl[i].mf
    /\ \A i \in 1..n : bl[i].foff = FoldLeft(LAMBDA s, x : s + x.flen, 0, SubSeq(bl, 1, i - 1))

(* The bytes of a packet: the length of the first block is in its header.   *)
Pullup(bl) ==
  Bytes(bl[1], bl[1].hlen)
    \o FlattenSeq([i \in 1..(Len(bl) - 1) |-> Bytes(bl[i + 1], bl[i + 1].flen)])

(* What ipiput4() or ipiput6() has reassembled.                             *)
fragmented(h) == h.mf \/ h.foff # 0

(* A fragment, or a packet that was not cut, comes in: ipiput4() has the    *)
(* latter looked at if any of the flags is set.                             *)
reassemble(pk, h) ==
  LET b == block(h)
      fl == Young(pk)
      mine == SelectSeq(fl, LAMBDA f : f.id = pk.id)
      put(l) == flist' = [flist EXCEPT ![pk.v] = l]
  IN
  \/ /\ ~fragmented(h)
     /\ IF pk.df THEN put(ipfragfree(pk, fl)) ELSE UNCHANGED flist
     /\ got' = <<[packet |-> pk, bytes |-> Bytes(b, b.flen)]>>
  \/ /\ fragmented(h)
     /\ mine = <<>>
     /\ put(ipfragallo(pk, b, fl)) /\ got' = <<>>
  \/ /\ fragmented(h)
     /\ mine # <<>> /\ Covered(b, mine[1].blist)
     /\ put(fl) /\ got' = <<>>
  \/ /\ fragmented(h)
     /\ mine # <<>> /\ ~Covered(b, mine[1].blist)
     /\ \E tl \in Tail1(pk.v, b, mine[1].blist) :
          LET bl == Head1(b, mine[1].blist) \o <<b>> \o tl IN
          \/ /\ Complete(bl) /\ put(ipfragfree(pk, fl))
             /\ got' = <<[packet |-> pk, bytes |-> Pullup(bl)]>>
          \/ /\ ~Complete(bl) /\ got' = <<>>
             /\ put([i \in DOMAIN fl |->
                       IF fl[i].id = pk.id
                       THEN [fl[i] EXCEPT !.blist = bl, !.arrived = @ \cup {b}] ELSE fl[i]])

(* Half a minute has gone by since a queue was allocated.                   *)
age(v, i) ==
  /\ i \in DOMAIN flist[v] /\ ~flist[v][i].old
  /\ \A j \in (i + 1)..Len(flist[v]) : flist[v][j].old
  /\ flist' = [flist EXCEPT ![v][i].old = TRUE]
  /\ got' = <<>>

Next ==
  \/ \E pk \in Packets : \E path \in pk.paths : \E h \in Sent(pk, path) : reassemble(pk, h)
  \/ \E v \in {4, 6}, i \in 1..NFrag : age(v, i)

Spec == Init /\ [][Next]_fvars
-----------------------------------------------------------------------------
(* A packet that is given to its protocol has the bytes that were sent, in  *)
(* their order.                                                             *)
PacketExact == \A i \in DOMAIN got : got[i].bytes = [n \in 1..got[i].packet.len |-> n - 1]

(* The fragments that came in since their queue was allocated are not all   *)
(* of a packet: it is given to its protocol as soon as they are.            *)
NotWhole ==
  \A v \in {4, 6} : \A i \in DOMAIN flist[v] :
    LET arrived == flist[v][i].arrived IN
    \A last \in {b \in arrived : ~b.mf} :
      ~(0..(last.foff + last.flen - 1) \subseteq
          UNION {b.foff..(b.foff + b.flen - 1) : b \in arrived})
=============================================================================
