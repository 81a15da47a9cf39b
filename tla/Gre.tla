-------------------------------- MODULE Gre ---------------------------------
(***************************************************************************)
(* The tunnels of GRE (src/ip/gre.c) and their hand-over to another base   *)
(* station.  Packets are received one at a time, with the protocol locked; *)
(* control messages are one at a time too.  A step is a critical section   *)
(* of grec->lock or what is done between two.  A receiver that finds the   *)
(* lock taken (canqlock) drops its packet; a control message may have it   *)
(* at any time.                                                            *)
(***************************************************************************)
EXTENDS Naturals, Sequences

CONSTANTS
  Nring,                        \* packets in a ring
  MaxDl, MaxUl, MaxSouth        \* bounds: packets per direction, base stations

VARIABLES
  hoa,                          \* a home address is set: packets are matched
  south,                        \* base station, by number; 0 is no address
  seq, nul,                     \* downlink and uplink packets so far
  dlsusp, ulsusp,
  dlpending, dlbuffered, ulbuffered,
  rx, pkt,                      \* step of the receiver and its packet
  ctl, hand,                    \* step of the control message and its packet
  sent,                         \* history: packet -> addresses it was sent to
  sentul,                       \* history: uplink packets, in the order sent
  lost,                         \* history: packets dropped
  handed,                       \* history: there was a hand-over
  stale                         \* history: a receiver put a packet in a ring after the tunnel
                                \* it was for was closed, suspended or handed over

tunnel == <<hoa, south, seq, nul>>
susp == <<dlsusp, ulsusp>>
rings == <<dlpending, dlbuffered, ulbuffered>>
receiver == <<rx, pkt>>
message == <<ctl, hand>>
history == <<sent, sentul, lost, handed, stale>>
vars == <<tunnel, susp, rings, receiver, message, history>>

NoPkt == 0
Dl == 1..MaxDl
Here == MaxSouth + 1            \* the address a packet came to
Toset(s) == {s[i] : i \in DOMAIN s}

Init ==
  /\ hoa = FALSE /\ south = 0 /\ seq = 0 /\ nul = 0 /\ dlsusp = FALSE /\ ulsusp = FALSE
  /\ dlpending = <<>> /\ dlbuffered = <<>> /\ ulbuffered = <<>>
  /\ rx = "idle" /\ pkt = NoPkt /\ ctl = "idle" /\ hand = NoPkt
  /\ sent = [k \in Dl |-> {}] /\ sentul = <<>> /\ lost = {} /\ handed = FALSE /\ stale = FALSE

(* The oldest packet makes room in a full ring.                            *)
Full(r) == Len(r) = Nring
addring(r, k) == Append(IF Full(r) THEN Tail(r) ELSE r, k)
Dropped(r) == IF Full(r) THEN {Head(r)} ELSE {}

Send(k, dst) == sent' = [sent EXCEPT ![k] = @ \cup {dst}]

Received == rx' = "idle" /\ pkt' = NoPkt

(* A packet for the home address gets the next sequence number.            *)
greiput ==
  /\ rx = "idle" /\ hoa /\ seq < MaxDl
  /\ seq' = seq + 1 /\ pkt' = seq + 1 /\ rx' = "restart"
  /\ UNCHANGED <<hoa, south, nul, susp, rings, message, history>>

(* The decision, without the lock.                                         *)
restart ==
  /\ rx = "restart"
  /\ IF dlsusp THEN rx' = "buffer" /\ UNCHANGED sent ELSE rx' = "pend" /\ Send(pkt, south)
  /\ UNCHANGED <<tunnel, susp, rings, pkt, message, sentul, lost, handed, stale>>

drop ==
  /\ rx \in {"buffer", "pend"} /\ Received /\ lost' = lost \cup {pkt}
  /\ UNCHANGED <<tunnel, susp, rings, message, sent, sentul, handed, stale>>

(* Fault seeded to test NetExact: the decision is not looked at again.     *)
bufferHasty ==
  /\ rx = "buffer" /\ Received
  /\ dlbuffered' = addring(dlbuffered, pkt) /\ lost' = lost \cup Dropped(dlbuffered)
  /\ stale' = (stale \/ ~hoa)
  /\ UNCHANGED <<tunnel, susp, dlpending, ulbuffered, message, sent, sentul, handed>>

(* The decision is taken again if it was wrong.                            *)
buffer ==
  /\ rx = "buffer"
  /\ IF dlsusp
     THEN /\ dlbuffered' = addring(dlbuffered, pkt) /\ lost' = lost \cup Dropped(dlbuffered)
          /\ stale' = (stale \/ ~hoa) /\ Received
     ELSE rx' = "restart" /\ UNCHANGED <<dlbuffered, lost, pkt, stale>>
  /\ UNCHANGED <<tunnel, susp, dlpending, ulbuffered, message, sent, sentul, handed>>

(* "We did the right thing" is not looked at.                              *)
pend ==
  /\ rx = "pend" /\ Received
  /\ dlpending' = addring(dlpending, pkt) /\ lost' = lost \cup Dropped(dlpending)
  /\ stale' = (stale \/ ~hoa \/ dlsusp \/ south \notin sent[pkt])
  /\ UNCHANGED <<tunnel, susp, dlbuffered, ulbuffered, message, sent, sentul, handed>>

(* A packet from the home address.                                         *)
greuplink ==
  /\ rx = "idle" /\ hoa /\ nul < MaxUl /\ nul' = nul + 1
  /\ \/ UNCHANGED <<ulbuffered, sentul>>
     \/ ulsusp /\ ulbuffered' = addring(ulbuffered, nul') /\ UNCHANGED sentul
     \/ ~ulsusp /\ sentul' = Append(sentul, nul') /\ UNCHANGED ulbuffered
  /\ UNCHANGED <<hoa, south, seq, susp, dlpending, dlbuffered, receiver, message, sent, lost, handed, stale>>
-----------------------------------------------------------------------------
Ctl(l) == ctl' = l

grectlretunnel ==
  /\ ctl = "idle" /\ ~hoa /\ hoa' = TRUE
  /\ \E to \in 1..MaxSouth : south' = to
  /\ ulsusp' = TRUE /\ dlsusp' = FALSE
  /\ UNCHANGED <<seq, nul, rings, receiver, message, history>>

grectldlsuspend ==
  /\ ctl = "idle" /\ ~dlsusp /\ dlsusp' = TRUE
  /\ UNCHANGED <<tunnel, ulsusp, rings, receiver, message, history>>

grectlulsuspend ==
  /\ ctl = "idle" /\ ~ulsusp /\ ulsusp' = TRUE
  /\ UNCHANGED <<tunnel, dlsusp, rings, receiver, message, history>>

(* The packets before k have arrived.                                      *)
grectlreport(k) ==
  /\ ctl = "idle" /\ dlpending # <<>> /\ Head(dlpending) < k
  /\ dlpending' =
       SubSeq(dlpending,
              CHOOSE i \in 1..Len(dlpending) + 1 :
                /\ i <= Len(dlpending) => dlpending[i] >= k
                /\ \A j \in 1..i - 1 : dlpending[j] < k,
              Len(dlpending))
  /\ UNCHANGED <<tunnel, susp, dlbuffered, ulbuffered, receiver, message, history>>

(* The lock is given up to send each packet: "dlresume" has it, "dlsend"   *)
(* has not.                                                                *)
grectldlresume ==
  /\ ctl = "idle" /\ dlsusp /\ Ctl("dlresume")
  /\ UNCHANGED <<tunnel, susp, rings, receiver, hand, history>>

dlresume ==
  LET add == hand # NoPkt IN
  /\ ctl = "dlresume"
  /\ dlpending' = IF add THEN addring(dlpending, hand) ELSE dlpending
  /\ lost' = IF add THEN lost \cup Dropped(dlpending) ELSE lost
  /\ IF dlbuffered # <<>>
     THEN hand' = Head(dlbuffered) /\ dlbuffered' = Tail(dlbuffered) /\ Ctl("dlsend") /\ UNCHANGED dlsusp
     ELSE dlsusp' = FALSE /\ hand' = NoPkt /\ Ctl("idle") /\ UNCHANGED dlbuffered
  /\ UNCHANGED <<tunnel, ulsusp, ulbuffered, receiver, sent, sentul, handed, stale>>

(* The addresses of the packet are still those it came with.               *)
dlsend ==
  /\ ctl = "dlsend" /\ Send(hand, Here) /\ Ctl("dlresume")
  /\ UNCHANGED <<tunnel, susp, rings, receiver, hand, sentul, lost, handed, stale>>

grectlulresume ==
  /\ ctl = "idle" /\ (ulsusp \/ ulbuffered # <<>>) /\ Ctl("ulresume")
  /\ UNCHANGED <<tunnel, susp, rings, receiver, hand, history>>

ulresume ==
  /\ ctl = "ulresume"
  /\ IF ulbuffered # <<>>
     THEN hand' = Head(ulbuffered) /\ ulbuffered' = Tail(ulbuffered) /\ Ctl("ulsend") /\ UNCHANGED ulsusp
     ELSE ulsusp' = FALSE /\ hand' = NoPkt /\ Ctl("idle") /\ UNCHANGED ulbuffered
  /\ UNCHANGED <<tunnel, dlsusp, dlpending, dlbuffered, receiver, history>>

ulsend ==
  /\ ctl \in {"ulsend", "fwdul"} /\ sentul' = Append(sentul, hand)
  /\ Ctl(IF ctl = "ulsend" THEN "ulresume" ELSE "fwd3")
  /\ UNCHANGED <<tunnel, susp, rings, receiver, hand, sent, lost, handed, stale>>

(* The hand-over: another base station, even if the message then fails.    *)
grectlforward ==
  /\ ctl = "idle" /\ \E to \in 1..MaxSouth : south' = to
  /\ Ctl("fwd0")
  /\ UNCHANGED <<hoa, seq, nul, susp, rings, receiver, hand, history>>

forward ==
  /\ ctl = "fwd0"
  /\ IF dlsusp THEN dlsusp' = FALSE /\ ulsusp' = FALSE /\ Ctl("fwd1") /\ handed' = TRUE
               ELSE Ctl("idle") /\ UNCHANGED <<susp, handed>>
  /\ UNCHANGED <<tunnel, rings, receiver, hand, sent, sentul, lost, stale>>

(* The pending packets go again, then those buffered in both directions.   *)
fwdpending ==
  /\ ctl = "fwd1"
  /\ IF dlpending # <<>> THEN hand' = Head(dlpending) /\ dlpending' = Tail(dlpending) /\ Ctl("fwdpend")
                         ELSE hand' = NoPkt /\ Ctl("fwd2") /\ UNCHANGED dlpending
  /\ UNCHANGED <<tunnel, susp, dlbuffered, ulbuffered, receiver, history>>

fwdbuffered ==
  /\ ctl = "fwd2"
  /\ IF dlbuffered # <<>> THEN hand' = Head(dlbuffered) /\ dlbuffered' = Tail(dlbuffered) /\ Ctl("fwdbuf")
                          ELSE hand' = NoPkt /\ Ctl("fwd3") /\ UNCHANGED dlbuffered
  /\ UNCHANGED <<tunnel, susp, dlpending, ulbuffered, receiver, history>>

fwduplink ==
  /\ ctl = "fwd3"
  /\ IF ulbuffered # <<>> THEN hand' = Head(ulbuffered) /\ ulbuffered' = Tail(ulbuffered) /\ Ctl("fwdul")
                          ELSE hand' = NoPkt /\ Ctl("idle") /\ UNCHANGED ulbuffered
  /\ UNCHANGED <<tunnel, susp, dlpending, dlbuffered, receiver, history>>

fwdsend ==
  /\ ctl \in {"fwdpend", "fwdbuf"} /\ Send(hand, south) /\ Ctl(IF ctl = "fwdpend" THEN "fwd1" ELSE "fwd2")
  /\ UNCHANGED <<tunnel, susp, rings, receiver, hand, sentul, lost, handed, stale>>

(* A receiver may have found the tunnel before.  Numbers are not used      *)
(* again here, where the code starts from 0.                               *)
greclose ==
  /\ ctl = "idle" /\ hoa /\ hoa' = FALSE /\ south' = 0 /\ Ctl("close")
  /\ UNCHANGED <<seq, nul, susp, rings, receiver, hand, history>>

closerings ==
  /\ ctl = "close" /\ Ctl("closed") /\ lost' = lost \cup Toset(dlbuffered)
  /\ dlpending' = <<>> /\ dlbuffered' = <<>> /\ ulbuffered' = <<>>
  /\ UNCHANGED <<tunnel, susp, receiver, hand, sent, sentul, handed, stale>>

closed ==
  /\ ctl = "closed" /\ Ctl("idle") /\ dlsusp' = TRUE /\ ulsusp' = TRUE
  /\ UNCHANGED <<tunnel, rings, receiver, hand, history>>

Next ==
  \/ greiput \/ restart \/ drop \/ buffer \/ pend \/ greuplink
  \/ grectlretunnel \/ grectldlsuspend \/ grectlulsuspend \/ \E k \in 1..MaxDl + 1 : grectlreport(k)
  \/ grectldlresume \/ dlresume \/ dlsend \/ grectlulresume \/ ulresume \/ ulsend
  \/ grectlforward \/ forward \/ fwdpending \/ fwdbuffered \/ fwduplink \/ fwdsend
  \/ greclose \/ closerings \/ closed

Spec == Init /\ [][Next]_vars
-----------------------------------------------------------------------------
Inhand == (IF rx \in {"restart", "buffer"} THEN {pkt} ELSE {}) \cup (IF ctl \in {"dlsend", "fwdbuf"} THEN {hand} ELSE {})
Handing == {"fwd1", "fwdpend", "fwd2", "fwdbuf"}
HandingUp == Handing \cup {"fwd3", "fwdul"}

(* A downlink packet is sent, on its way, buffered or was dropped.         *)
NoneForgotten ==
  \A k \in 1..seq : sent[k] # {} \/ k \in Inhand \cup Toset(dlbuffered) \cup lost

(* Packets are not left in a ring when the tunnel goes on: who decided to  *)
(* buffer one sees the tunnel resumed, and who resumes it sees the packet. *)
NoneStranded ==
  /\ ~stale /\ dlbuffered # <<>> => dlsusp \/ ctl \in Handing
  /\ ulbuffered # <<>> => ulsusp \/ ctl \in HandingUp

(* What is pending was sent, and is in order, so that a report frees the   *)
(* packets it is about and no others.                                      *)
PendingExact ==
  /\ \A k \in Toset(dlpending) : sent[k] # {}
  /\ ~stale => \A i \in 1..Len(dlpending) - 1 : dlpending[i] < dlpending[i + 1]

(* Once the pending packets were handed over, none is left that only the   *)
(* old base station got.                                                   *)
HandedOver ==
  ctl \in HandingUp \ {"fwd1", "fwdpend"} /\ ~stale => \A k \in Toset(dlpending) : south \in sent[k]

(* Uplink packets are sent once each, and in order before any hand-over.   *)
UplinkExact ==
  /\ \A i, j \in DOMAIN sentul : sentul[i] = sentul[j] => i = j
  /\ ~handed => \A i \in 1..Len(sentul) - 1 : sentul[i] < sentul[i + 1]

GreSafe == NoneForgotten /\ NoneStranded /\ PendingExact /\ HandedOver /\ UplinkExact
=============================================================================
