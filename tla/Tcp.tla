-------------------------------- MODULE Tcp ---------------------------------
(***************************************************************************)
(* TCP, src/ip/tcp.c: two ends of one connection, the caller and the       *)
(* called, over a network that loses, duplicates and reorders segments.    *)
(*                                                                         *)
(* A segment is a record; checksums, header conversion, options and urgent *)
(* data are left out.  The bytes of a stream are numbered from 1.  What    *)
(* runs with the conversation qlocked is one step, but for the loop of     *)
(* tcpiput() over adjacent segments and that of tcpoutput(): a step for    *)
(* each segment, with the lock held.  tcpoutput() lets go of the lock      *)
(* after the second segment; from then on it is free.  Round trip times are left   *)
(* out: a timer that is on may go off at any time, the acknowledgement     *)
(* forced by a second message included.  So is the size of the congestion  *)
(* window: tcpoutput() may stop once a segment is outstanding, and any     *)
(* repeated acknowledgement may be the one that makes it start again.      *)
(***************************************************************************)
EXTENDS Integers, SequencesExt, FiniteSetsExt

CONSTANTS
  Modulus,   \* sequence numbers are modulo this, 2^32 in the code
  mss,       \* tcb->mss
  Window,    \* tcb->window, QMAX in the code
  MaxNet,    \* bound: segments on the way to an end
  Uses       \* the uses of the connection: the initial sequence numbers (iss),
             \* what users and clocks do besides the transfer (ops), and the bounds on the bytes written by each end
             \* (data) and on losses, duplicates and early retransmissions (faults)

VARIABLES
  use,       \* the use of the connection
  tcb,       \* [A, B -> Tcpctl and the queues of the Conv]
  lp,        \* the call in limbo at B, or none
  incoming,  \* B's conversation was made
  net,       \* the segments on the way to each end
  pend,      \* where a process of the end is in tcpoutput(): "no", "out" and "out1"
             \* with the lock, "let" once it let go of it
  cur,       \* the segment in the loop of tcpiput()
  sent,      \* how many bytes each end wrote
  got,       \* the bytes put on the read queue of each end
  cut,       \* the connection was reset, timed out or hung up, or a reset that
             \* was not accepted was taken for an acknowledgement
  faults     \* how many segments were lost, duplicated or sent again too early

(* The initial sequence numbers of A, B and the listener, L.               *)
Iss == use.iss

End == {"A", "B"}
Peer(e) == IF e = "A" THEN "B" ELSE "A"
none == [flags |-> {}]
vars == <<use, tcb, lp, incoming, net, pend, cur, sent, got, cut, faults>>

(* inittcpctl().                                                           *)
inittcpctl ==
  [state |-> "Closed", iss |-> 0, una |-> 0, ptr |-> 0, nxt |-> 0, wnd |-> 0, wl2 |-> 0,
   rcvnxt |-> 0, rcvwnd |-> Window, blocked |-> FALSE, flgcnt |-> 0, flags |-> {},
   reseq |-> <<>>, timer |-> FALSE, acktimer |-> FALSE, wq |-> <<>>, rq |-> <<>>, rhup |-> FALSE]

Init ==
  /\ use \in Uses
  /\ tcb = [e \in End |-> inittcpctl]
  /\ lp = none /\ incoming = FALSE
  /\ net = [e \in End |-> {}]
  /\ pend = [e \in End |-> "no"]
  /\ cur = [e \in End |-> none]
  /\ sent = [e \in End |-> 0] /\ got = [e \in End |-> <<>>]
  /\ cut = FALSE /\ faults = 0
-----------------------------------------------------------------------------
(* Sequence numbers: unsigned, compared by the sign of the difference.     *)
Plus(x, k) == (x + k) % Modulus
Minus(x, y) == (x - y) % Modulus
seq_lt(x, y) == Minus(x, y) >= Modulus \div 2
seq_gt(x, y) == x # y /\ ~seq_lt(x, y)
seq_ge(x, y) == ~seq_lt(x, y)
seq_within(x, low, high) ==
  IF low <= high THEN low <= x /\ x <= high ELSE x >= low \/ x <= high

Set(t, f) == [t EXCEPT !.flags = @ \cup {f}]
Clear(t, f) == [t EXCEPT !.flags = @ \ {f}]
Has(s, f) == f \in s.flags

(* tcprcvwin().                                                            *)
tcprcvwin(t) ==
  LET w == Max({0, Window - Len(t.rq)})
  IN  [t EXCEPT !.rcvwnd = w, !.blocked = @ \/ w = 0]

(* localclose(): the queues are closed, what is on them is thrown away.    *)
localclose(t) ==
  [t EXCEPT !.state = "Closed", !.timer = FALSE, !.acktimer = FALSE,
            !.reseq = <<>>, !.rq = <<>>, !.wq = <<>>, !.rhup = TRUE]

(* tcprxmit(), short of its tcpoutput().                                   *)
tcprxmit(t) == [Set(t, "FORCE") EXCEPT !.ptr = t.una]

(* All that was written was acknowledged, the FIN included.                *)
AllAcked(t) == Len(t.wq) + t.flgcnt = 0

(* Time_wait, where the timer of the connection runs.                      *)
TimeWait(t) == [t EXCEPT !.state = "Time_wait", !.timer = TRUE, !.acktimer = FALSE]
-----------------------------------------------------------------------------
(* Segments sent to end e join those on the way, if there is room.         *)
Send(e, ss) == net' = [net EXCEPT ![e] = IF Cardinality(@ \cup ss) <= MaxNet THEN @ \cup ss ELSE @]

(* sndrst(): the answer to s, "convince the other end that this reset is   *)
(* in band"; none to a reset.                                              *)
sndrst(s) ==
  IF Has(s, "RST") THEN {}
  ELSE IF Has(s, "ACK")
       THEN {[seq |-> s.ack, ack |-> 0, flags |-> {"RST"}, wnd |-> 0, data |-> <<>>]}
       ELSE {[seq |-> 0, flags |-> {"RST", "ACK"}, wnd |-> 0, data |-> <<>>,
              ack |-> Plus(s.seq, Len(s.data) + Cardinality(s.flags \cap {"SYN", "FIN"}))]}

Fault == faults < use.faults /\ faults' = faults + 1

(* A timer that is longer than a round trip goes off after everything that *)
(* was under way settled; the others are too early, and bounded.           *)
Quiet ==
  \A e \in End : net[e] = {} /\ pend[e] = "no" /\ cur[e] = none /\ ~tcb[e].acktimer
Resends == IF Quiet THEN UNCHANGED faults ELSE Fault

(* Segment s, off the network or to be delivered once more, and ss go to   *)
(* the other end.                                                          *)
ArrivesAnd(e, s, ss) ==
  \E dup \in BOOLEAN :
    /\ IF dup THEN Fault ELSE UNCHANGED faults
    /\ net' = [net EXCEPT ![e] = IF dup THEN @ ELSE @ \ {s},
                          ![Peer(e)] = IF Cardinality(@ \cup ss) <= MaxNet THEN @ \cup ss ELSE @]
Arrives(e, s) == ArrivesAnd(e, s, {})

(* It goes, and starts a fast retransmission.                              *)
Repeats(e, s) == Fault /\ net' = [net EXCEPT ![e] = @ \ {s}]

(* The conversation of end e is in the hash table and its lock is free.    *)
Open(e) == tcb[e].state # "Closed"
Free(e) == cur[e] = none /\ pend[e] \in {"no", "let"}

(* End e changes its Tcpctl to t and goes on to tcpoutput().               *)
Output(e, t) == tcb' = [tcb EXCEPT ![e] = t] /\ pend' = [pend EXCEPT ![e] = "out"]

(* tcpkick(): push data, or hang up if the state is not one to send in.    *)
Pushing == {"Syn_sent", "Syn_received", "Established", "Close_wait"}
tcpkick(t) == IF t.state \in Pushing THEN tcprcvwin(t) ELSE localclose(t)
-----------------------------------------------------------------------------
(* tcpconnect(), tcpstart() and tcpsndsyn().                               *)
tcpconnect(e) ==
  /\ ~Open(e) /\ tcb[e].iss = 0
  /\ e = "B" => "connect" \in use.ops /\ lp = none
  /\ Output(e, [inittcpctl EXCEPT !.state = "Syn_sent", !.iss = Iss[e], !.una = Iss[e],
                  !.ptr = Iss[e], !.nxt = Iss[e], !.wl2 = Iss[e], !.flgcnt = 1,
                  !.flags = {"FORCE"}])
  /\ UNCHANGED <<use, lp, incoming, net, cur, sent, got, cut, faults>>

(* sndsynack().                                                            *)
sndsynack(irs) ==
  {[seq |-> Iss["L"], ack |-> Plus(irs, 1), flags |-> {"SYN", "ACK"}, wnd |-> Window, data |-> <<>>]}

(* limbo(): a SYN for the listener; "each new SYN restarts the             *)
(* retransmits".                                                           *)
limbo(s) ==
  /\ ~Open("B") /\ s \in net["B"] /\ Has(s, "SYN") /\ ~Has(s, "ACK") /\ ~Has(s, "RST")
  /\ lp' = [flags |-> {"limbo"}, irs |-> s.seq]
  /\ ArrivesAnd("B", s, sndsynack(s.seq))
  /\ UNCHANGED <<use, tcb, incoming, pend, cur, sent, got, cut>>

(* limborexmit(): another SYN ACK, or the call is forgotten.               *)
limborexmit ==
  /\ lp # none
  /\ \/ Send("A", sndsynack(lp.irs)) /\ Resends /\ UNCHANGED <<lp, cut>>
     \/ "giveup" \in use.ops /\ lp' = none /\ cut' = TRUE /\ UNCHANGED <<net, faults>>
  /\ UNCHANGED <<use, tcb, incoming, pend, cur, sent, got>>

(* limborst(): "RST can only follow the SYN".                              *)
limborst(s) ==
  /\ ~Open("B") /\ s \in net["B"] /\ Has(s, "RST")
  /\ lp' = IF lp # none /\ s.seq = Plus(lp.irs, 1) THEN none ELSE lp
  /\ cut' = (cut \/ lp' # lp)
  /\ Arrives("B", s)
  /\ UNCHANGED <<use, tcb, incoming, pend, cur, sent, got>>

(* A segment that answers the SYN ACK of the call in limbo.                *)
FromLimbo(s) ==
  /\ lp # none /\ ~Has(s, "SYN") /\ Has(s, "ACK")
  /\ s.seq = Plus(lp.irs, 1) /\ s.ack = Plus(Iss["L"], 1)

(* tcpincoming(): the conversation is made, Established, and the segment   *)
(* is its first input.  It is in sequence: tcptrim() leaves it alone.      *)
tcpincoming(s) ==
  LET iss1 == Plus(Iss["L"], 1)
  IN  /\ ~Open("B") /\ s \in net["B"] /\ ~Has(s, "RST") /\ FromLimbo(s) /\ ~incoming
      /\ lp' = none /\ incoming' = TRUE
      /\ tcb' = [tcb EXCEPT !["B"] =
           [inittcpctl EXCEPT !.state = "Established", !.iss = Iss["L"], !.una = iss1,
              !.ptr = iss1, !.nxt = iss1, !.wl2 = Iss["L"], !.flags = {"SYNACK"},
              !.rcvnxt = s.seq, !.wnd = s.wnd]]
      /\ cur' = [cur EXCEPT !["B"] = s]
      /\ Arrives("B", s)
      /\ UNCHANGED <<use, pend, sent, got, cut>>

(* "no conversation", nor a new one to be had, for a segment.              *)
noconversation(e, s) ==
  /\ ~Open(e) /\ s \in net[e]
  /\ e = "B" => ~Has(s, "RST") /\ (Has(s, "SYN") => Has(s, "ACK")) /\ (FromLimbo(s) => incoming)
  /\ lp' = IF e = "B" /\ FromLimbo(s) THEN none ELSE lp
  /\ ArrivesAnd(e, s, sndrst(s))
  /\ UNCHANGED <<use, tcb, incoming, pend, cur, sent, got, cut>>
-----------------------------------------------------------------------------
(* update(): a repeated acknowledgement, which may start a fast            *)
(* retransmission.                                                         *)
Dupack(t, s) == s.ack = t.una /\ t.una # t.nxt /\ s.data = <<>> /\ s.wnd = t.wnd

(* ... "update window".                                                    *)
WindowUpdate(t, s) ==
  IF seq_gt(s.ack, t.wl2) \/ (t.wl2 = s.ack /\ s.wnd > t.wnd)
  THEN [t EXCEPT !.wnd = s.wnd, !.wl2 = s.ack]
  ELSE t

(* ... what a new acknowledgement does: the SYN or the FIN, which count in *)
(* flgcnt, and data go; slow start opens the window.                       *)
Acked(t, s) ==
  LET syn == ~Has(t, "SYNACK")
      n == Minus(s.ack, t.una) - (IF syn THEN 1 ELSE 0)
      d == Min({n, Len(t.wq)})
  IN  [t EXCEPT !.flags = @ \cup {"SYNACK"},
                !.flgcnt = @ - (IF syn THEN 1 ELSE 0) - (IF d < n THEN 1 ELSE 0),
                !.wq = SubSeq(t.wq, d + 1, Len(t.wq)),
                !.una = s.ack,
                !.timer = (s.ack # t.nxt),
                !.ptr = IF seq_lt(@, s.ack) THEN s.ack ELSE @]

(* update(), with a fast retransmission or without.                        *)
update(t, s, fast) ==
  LET w == WindowUpdate(IF fast /\ Dupack(t, s) THEN tcprxmit(t) ELSE t, s)
  IN  IF seq_gt(s.ack, t.nxt) THEN Set(t, "FORCE")
      ELSE IF seq_gt(s.ack, t.una) THEN Acked(w, s)
      ELSE w
-----------------------------------------------------------------------------
(* The sequence space a segment takes.                                     *)
SegLen(s) == Len(s.data) + Cardinality(s.flags \cap {"SYN", "FIN"})

inwindow(t, x) == seq_within(x, t.rcvnxt, Plus(t.rcvnxt, t.rcvwnd - 1))

(* tcptrim(): "some part of the segment should be in the window".          *)
Acceptable(t, s) ==
  IF t.rcvwnd = 0
  THEN SegLen(s) = 0 /\ s.seq = t.rcvnxt
  ELSE \/ inwindow(t, s.seq)
       \/ /\ SegLen(s) # 0
          /\ \/ inwindow(t, Plus(s.seq, SegLen(s) - 1))
             \/ seq_within(t.rcvnxt, s.seq, Plus(s.seq, SegLen(s) - 1))

(* ... what was received already goes, a SYN first.                        *)
TrimFront(t, s) ==
  LET dup == Minus(t.rcvnxt, s.seq)
      syn == IF Has(s, "SYN") THEN 1 ELSE 0
  IN  IF dup = 0 \/ dup >= Modulus \div 2 THEN s
      ELSE [s EXCEPT !.seq = Plus(@, dup), !.flags = @ \ {"SYN"},
                     !.data = SubSeq(@, dup - syn + 1, Len(@))]

(* ... and what is beyond the window.                                      *)
TrimBack(t, s) ==
  LET room == Minus(Plus(t.rcvnxt, t.rcvwnd), s.seq)
  IN  IF Len(s.data) > room
      THEN [s EXCEPT !.data = SubSeq(@, 1, room), !.flags = @ \ {"FIN"}]
      ELSE s

tcptrim(t, s) == TrimBack(t, TrimFront(t, s))

(* addreseq(): sorted by sequence number.                                  *)
addreseq(t, s) ==
  LET i == SelectInSeq(t.reseq, LAMBDA x : seq_lt(s.seq, x.seq))
  IN  [t EXCEPT !.reseq = IF i = 0 THEN Append(@, s) ELSE InsertAt(@, i, s)]

(* tcpiput() may look at segment s of an open conversation.                *)
Input(e, s) == Open(e) /\ Free(e) /\ s \in net[e]

(* tcpiput() in Syn_sent: acceptable answers bring the connection up.      *)
synsent(e, s) ==
  LET t == tcb[e]
      bad == Has(s, "ACK") /\ ~seq_within(s.ack, Plus(t.iss, 1), t.nxt)
      syn == [Set(t, "FORCE") EXCEPT !.rcvnxt = Plus(s.seq, 1), !.wnd = s.wnd]
  IN  /\ Input(e, s) /\ t.state = "Syn_sent"
      /\ ArrivesAnd(e, s, IF bad THEN sndrst(s) ELSE {})
      /\ IF bad \/ (Has(s, "RST") /\ ~Has(s, "ACK")) THEN Output(e, tcprcvwin(t)) /\ UNCHANGED cut
         ELSE IF Has(s, "RST") THEN Output(e, localclose(t)) /\ cut' = TRUE
         ELSE IF Has(s, "SYN")
              THEN /\ Output(e, IF Has(s, "ACK")
                                THEN [update(syn, s, FALSE) EXCEPT !.state = "Established"]
                                ELSE [syn EXCEPT !.state = "Syn_received"])
                   /\ UNCHANGED cut
         ELSE UNCHANGED <<tcb, pend, cut>>
      /\ UNCHANGED <<use, lp, incoming, cur, sent, got>>

(* ... a segment out of the window: it is acknowledged again.  A reset of  *)
(* sndrst() without ACK is not, but update() takes the 0 in it for an      *)
(* acknowledgement, which may be one of data.                              *)
outofwindow(e, s, fast) ==
  LET u == update(tcb[e], s, fast)
      t == IF AllAcked(u) /\ u.state = "Closing" THEN TimeWait(u) ELSE u
  IN  /\ Input(e, s) /\ tcb[e].state # "Syn_sent" /\ ~Acceptable(tcb[e], s)
      /\ IF fast THEN Dupack(tcb[e], s) /\ Repeats(e, s) ELSE Arrives(e, s)
      /\ IF Has(s, "RST")
         THEN tcb' = [tcb EXCEPT ![e] = t] /\ UNCHANGED pend
         ELSE Output(e, Set(t, "FORCE"))
      /\ cut' = (cut \/ (~Has(s, "ACK") /\ t.una # tcb[e].una))
      /\ UNCHANGED <<use, lp, incoming, cur, sent, got>>

(* ... a segment beyond the receive pointer waits for those before it.     *)
outoforder(e, s, fast) ==
  LET x == tcptrim(tcb[e], s)
  IN  /\ Input(e, s) /\ tcb[e].state # "Syn_sent" /\ Acceptable(tcb[e], s)
      /\ x.seq # tcb[e].rcvnxt /\ SegLen(x) # 0
      /\ IF fast THEN Dupack(tcb[e], s) /\ Repeats(e, s) ELSE Arrives(e, s)
      /\ Output(e, Set(addreseq(update(tcb[e], x, fast), x), "FORCE"))
      /\ UNCHANGED <<use, lp, incoming, cur, sent, got, cut>>

(* Fault seeded to test StreamExact: the data of a segment is taken before *)
(* it is known to be in sequence.                                          *)
inorderAny(e, s) ==
  /\ Input(e, s) /\ tcb[e].state # "Syn_sent" /\ Acceptable(tcb[e], s)
  /\ Arrives(e, s)
  /\ cur' = [cur EXCEPT ![e] = tcptrim(tcb[e], s)]
  /\ UNCHANGED <<use, tcb, lp, incoming, pend, sent, got, cut>>

(* ... the others are processed, with what they were waited for.           *)
inorder(e, s) ==
  LET x == tcptrim(tcb[e], s)
  IN  /\ Input(e, s) /\ tcb[e].state # "Syn_sent" /\ Acceptable(tcb[e], s)
      /\ x.seq = tcb[e].rcvnxt \/ SegLen(x) = 0
      /\ Arrives(e, s)
      /\ cur' = [cur EXCEPT ![e] = x]
      /\ UNCHANGED <<use, tcb, lp, incoming, pend, sent, got, cut>>
-----------------------------------------------------------------------------
(* The loop of tcpiput(): what the acknowledgement of s does to a          *)
(* connection in each state.                                               *)
AckInput(t, s, fast) ==
  LET u == update(t, s, fast)
  IN  CASE t.state = "Syn_received" -> update([u EXCEPT !.state = "Established"], s, fast)
        [] t.state = "Finwait1" ->
             IF AllAcked(u) THEN [u EXCEPT !.state = "Finwait2", !.acktimer = FALSE] ELSE u
        [] t.state = "Closing" -> IF AllAcked(u) THEN TimeWait(u) ELSE u
        [] t.state = "Last_ack" ->
             IF AllAcked(u) THEN localclose(u) ELSE [Set(u, "FORCE") EXCEPT !.timer = TRUE]
        [] t.state = "Time_wait" -> [Set(t, "FORCE") EXCEPT !.timer = TRUE]
        [] OTHER -> u

(* ... its data goes to the read queue; a queue that was hung up takes no  *)
(* more.                                                                   *)
Receiving == {"Syn_received", "Established", "Finwait1"}
DataInput(t, s) ==
  IF s.data = <<>> \/ t.state \notin Receiving THEN t
  ELSE tcprcvwin([t EXCEPT !.rq = IF t.rhup THEN @ ELSE @ \o s.data, !.acktimer = TRUE,
                           !.rcvnxt = Plus(@, Len(s.data))])

(* ... its FIN.                                                            *)
FinInput(t, s) ==
  LET f == Set(t, "FORCE")
      n == [f EXCEPT !.rcvnxt = Plus(@, 1)]
  IN  IF ~Has(s, "FIN") THEN t
      ELSE CASE t.state \in {"Syn_received", "Established"} ->
                  [n EXCEPT !.state = "Close_wait", !.rhup = TRUE]
             [] t.state = "Finwait1" ->
                  IF AllAcked(n) THEN TimeWait(n) ELSE [n EXCEPT !.state = "Closing"]
             [] t.state = "Finwait2" -> TimeWait(n)
             [] t.state = "Time_wait" -> [f EXCEPT !.timer = TRUE]
             [] OTHER -> f

(* The first waiting segment that adds something, and those after it.      *)
NextReseq(t) ==
  LET ready == {i \in 1..Len(t.reseq) : seq_ge(t.rcvnxt, t.reseq[i].seq)}
      good == {i \in ready : Acceptable(t, t.reseq[i])}
      k == IF good # {} THEN Min(good) ELSE Cardinality(ready)
  IN  [seg |-> IF good # {} THEN tcptrim(t, t.reseq[k]) ELSE none,
       rest |-> SubSeq(t.reseq, k + 1, Len(t.reseq))]

(* A segment ends the loop at once: a reset, no acknowledgement, or one    *)
(* that a connection in Syn_received does not expect.                      *)
Raises(t, s) ==
  \/ Has(s, "RST") \/ ~Has(s, "ACK")
  \/ t.state = "Syn_received" /\ ~seq_within(s.ack, Plus(t.una, 1), t.nxt)

(* ... "raise", which ends in tcpkick().                                   *)
raise(e) ==
  LET t == tcb[e]
      s == cur[e]
      u == tcpkick(IF Has(s, "RST") THEN localclose(t) ELSE t)
  IN  /\ s # none /\ Raises(t, s)
      /\ Output(e, u)
      /\ cut' = (cut \/ u.state = "Closed")
      /\ IF Has(s, "ACK") /\ ~Has(s, "RST") THEN Send(Peer(e), sndrst(s)) ELSE UNCHANGED net
      /\ cur' = [cur EXCEPT ![e] = none]
      /\ UNCHANGED <<use, lp, incoming, sent, got, faults>>

(* ... one turn of the loop.  Data that arrives in Finwait2, where nobody  *)
(* reads, is answered by a reset.                                          *)
segment(e, fast) ==
  LET s == cur[e]
      a == AckInput(tcb[e], s, fast)
      f == FinInput(DataInput(a, s), s)
      n == NextReseq(f)
  IN  /\ s # none /\ ~Raises(tcb[e], s)
      /\ IF a.state = "Closed"
         THEN /\ Output(e, a) /\ cur' = [cur EXCEPT ![e] = none]
              /\ UNCHANGED <<net, got>>
         ELSE IF a.state = "Finwait2" /\ s.data # <<>>
         THEN /\ tcb' = [tcb EXCEPT ![e] = a] /\ cur' = [cur EXCEPT ![e] = none]
              /\ Send(Peer(e), sndrst(s))
              /\ UNCHANGED <<pend, got>>
         ELSE /\ Output(e, [f EXCEPT !.reseq = n.rest]) /\ cur' = [cur EXCEPT ![e] = n.seg]
              /\ got' = [got EXCEPT ![e] = @ \o SubSeq(f.rq, Len(a.rq) + 1, Len(f.rq))]
              /\ UNCHANGED net
      /\ IF fast THEN Dupack(tcb[e], s) /\ Fault ELSE UNCHANGED faults
      /\ UNCHANGED <<use, lp, incoming, sent, cut>>
-----------------------------------------------------------------------------
(* A window that has opened up forces an acknowledgement.                  *)
Unblocked(t) == IF t.blocked /\ t.rcvwnd > 0 THEN [Set(t, "FORCE") EXCEPT !.blocked = FALSE] ELSE t

(* What is left to send: in the code this difference, sndcnt - sent, is    *)
(* unsigned.                                                               *)
Unsent(t) == Len(t.wq) + t.flgcnt - Minus(t.ptr, t.una)

(* The size of the next segment: the offered window and the maximum size   *)
(* limit it; one byte probes a closed window.                              *)
Sendable(t) ==
  Min({Unsent(t), mss, IF t.wnd = 0 THEN 1 ELSE Max({0, t.wnd - Minus(t.ptr, t.una)})})

(* The loop of tcpoutput() goes on.                                        *)
Sends(t) ==
  /\ t.state \notin {"Closed", "Finwait2"}
  /\ t.ptr = t.iss \/ Has(t, "SYNACK")
  /\ t.wnd = 0 /\ t.ptr # t.una => Has(t, "FORCE")
  /\ Sendable(t) # 0 \/ Has(t, "FORCE")

(* ... or the congestion window closes it.                                 *)
Congested(t) == Minus(t.ptr, t.una) >= mss /\ ~Has(t, "FORCE")

(* The segment it sends, of n in sequence space: a SYN alone, or data from *)
(* the write queue and, past its end, a FIN.                               *)
SegmentOf(t, n) ==
  LET syn == t.state \in {"Syn_sent", "Syn_received"} /\ t.ptr = t.iss
      from == Minus(t.ptr, t.una)
      data == IF syn THEN <<>> ELSE SubSeq(t.wq, from + 1, Min({from + n, Len(t.wq)}))
  IN  [seq |-> t.ptr, ack |-> t.rcvnxt, wnd |-> t.rcvwnd, data |-> data,
       flags |-> (IF t.state = "Syn_sent" THEN {} ELSE {"ACK"})
                   \cup (IF syn THEN {"SYN"} ELSE {})
                   \cup (IF ~syn /\ Len(data) < n THEN {"FIN"} ELSE {})]

(* tcpoutput(): a segment, and the timers.                                 *)
tcpoutput(e) ==
  LET t == Unblocked(tcb[e])
      r == tcprcvwin(Clear(t, "FORCE"))
      syn == t.state = "Syn_received" /\ t.ptr = t.iss
      n == IF syn THEN 1 ELSE Sendable(t)
      end == Plus(t.ptr, n)
  IN  /\ pend[e] # "no" /\ cur[e] = none /\ Sends(t)
      /\ pend' = [pend EXCEPT ![e] = IF @ = "out" THEN "out1" ELSE "let"]
      /\ Send(Peer(e), {SegmentOf(r, n)})
      /\ tcb' = [tcb EXCEPT ![e] =
           [r EXCEPT !.acktimer = FALSE, !.ptr = end,
                     !.nxt = IF seq_gt(end, @) THEN end ELSE @,
                     !.timer = @ \/ n # 0]]
      /\ UNCHANGED <<use, lp, incoming, cur, sent, got, cut, faults>>

(* ... nothing more to send.                                               *)
tcpoutputEnds(e) ==
  LET t == Unblocked(tcb[e])
  IN  /\ pend[e] # "no" /\ cur[e] = none /\ (Sends(t) => Congested(t))
      /\ tcb' = [tcb EXCEPT ![e] = IF @.state \in {"Closed", "Finwait2"} THEN @ ELSE t]
      /\ pend' = [pend EXCEPT ![e] = "no"]
      /\ UNCHANGED <<use, lp, incoming, net, cur, sent, got, cut, faults>>
-----------------------------------------------------------------------------
(* The user writes a byte; the kick of the queue is tcpkick().             *)
write(e) ==
  /\ Free(e) /\ sent[e] < use.data[e] /\ tcb[e].state \in {"Established", "Close_wait"}
  /\ Output(e, tcprcvwin([tcb[e] EXCEPT !.wq = Append(@, sent[e] + 1)]))
  /\ sent' = [sent EXCEPT ![e] = @ + 1]
  /\ UNCHANGED <<use, lp, incoming, net, cur, got, cut, faults>>

(* The user reads all there is: the queue, which had gone half full, asks  *)
(* for its kick, tcpacktimer().                                            *)
read(e) ==
  /\ Free(e) /\ tcb[e].rq # <<>>
  /\ LET t == [tcb[e] EXCEPT !.rq = <<>>]
     IN  IF Len(tcb[e].rq) >= Window \div 2
         THEN Output(e, tcprcvwin(Set(t, "FORCE")))
         ELSE tcb' = [tcb EXCEPT ![e] = t] /\ UNCHANGED pend
  /\ UNCHANGED <<use, lp, incoming, net, cur, sent, got, cut, faults>>

(* Fault seeded to test Reliable: the FIN does not wait for the data.      *)
tcpcloseNow(e) ==
  LET t == [tcb[e] EXCEPT !.rhup = TRUE, !.rq = <<>>]
      fin == [t EXCEPT !.flgcnt = @ + 1, !.nxt = Plus(@, 1), !.wq = <<>>, !.ptr = t.nxt]
  IN  /\ Free(e) /\ tcb[e].state \in {"Established", "Close_wait"}
      /\ sent[e] = use.data[e]
      /\ Output(e, [fin EXCEPT !.state = IF @ = "Close_wait" THEN "Last_ack" ELSE "Finwait1"])
      /\ UNCHANGED <<use, lp, incoming, net, cur, sent, got, cut, faults>>

(* tcpclose(): what was received is flushed, a FIN follows what was        *)
(* written.                                                                *)
tcpclose(e) ==
  LET t == [tcb[e] EXCEPT !.rhup = TRUE, !.rq = <<>>]
      fin == [t EXCEPT !.flgcnt = @ + 1, !.nxt = Plus(@, 1)]
  IN  /\ Free(e) /\ tcb[e].state \in Pushing
      /\ sent[e] = use.data[e] \/ t.state = "Syn_sent"
      /\ "close" \in use.ops \/ e = "A" \/ t.state = "Close_wait"
      /\ CASE t.state = "Close_wait" -> Output(e, [fin EXCEPT !.state = "Last_ack"])
           [] t.state \in {"Syn_received", "Established"} ->
                Output(e, [fin EXCEPT !.state = "Finwait1"])
           [] OTHER -> Output(e, localclose(t))
      /\ cut' = (cut \/ t.state = "Syn_sent")
      /\ UNCHANGED <<use, lp, incoming, net, cur, sent, got, faults>>

(* tcphangup(), the ctl message.                                           *)
tcphangup(e) ==
  /\ "hangup" \in use.ops /\ Free(e) /\ Open(e)
  /\ Send(Peer(e), {[seq |-> tcb[e].ptr, ack |-> tcb[e].rcvnxt, flags |-> {"RST", "ACK"},
                     wnd |-> 0, data |-> <<>>]})
  /\ tcb' = [tcb EXCEPT ![e] = localclose(@)]
  /\ cut' = TRUE
  /\ UNCHANGED <<use, lp, incoming, pend, cur, sent, got, faults>>

(* Fault seeded to test Finishes: the timer goes off once.                 *)
tcptimeoutOnce(e) ==
  LET t == tcb[e]
  IN  /\ Free(e) /\ t.timer
      /\ IF t.state = "Time_wait" THEN Output(e, localclose(t))
         ELSE Output(e, [Clear(t, "FORCE") EXCEPT !.timer = FALSE])
      /\ UNCHANGED <<use, lp, incoming, net, cur, sent, got, cut, faults>>

(* tcptimeout(): retransmission, or the end of Time_wait; a connection is  *)
(* given up after too many.                                                *)
tcptimeout(e) ==
  LET t == [tcb[e] EXCEPT !.timer = FALSE]
  IN  /\ Free(e) /\ tcb[e].timer
      /\ \/ t.state = "Time_wait" /\ Output(e, localclose(t)) /\ UNCHANGED <<cut, faults>>
         \/ /\ t.state # "Time_wait"
            /\ Output(e, tcprxmit(t)) /\ Resends /\ UNCHANGED cut
         \/ /\ t.state # "Time_wait" /\ "giveup" \in use.ops
            /\ Output(e, localclose(t)) /\ cut' = TRUE /\ UNCHANGED faults
      /\ UNCHANGED <<use, lp, incoming, net, cur, sent, got>>

(* tcpacktimer(): the delayed acknowledgement.                             *)
tcpacktimer(e) ==
  /\ Free(e) /\ tcb[e].acktimer
  /\ Output(e, tcprcvwin([Set(tcb[e], "FORCE") EXCEPT !.acktimer = FALSE]))
  /\ UNCHANGED <<use, lp, incoming, net, cur, sent, got, cut, faults>>

(* tcpkeepalive() and tcpsendka(): the last byte acknowledged is sent      *)
(* again, in Finwait2 a FIN; a silent connection is given up.              *)
tcpkeepalive(e) ==
  LET t == tcb[e]
      fin == t.state = "Finwait2"
  IN  /\ Free(e) /\ Open(e)
      /\ \/ /\ "keepalive" \in use.ops
            /\ Resends
            /\ Send(Peer(e), {[seq |-> Minus(t.una, 1), ack |-> t.rcvnxt, wnd |-> t.rcvwnd,
                               flags |-> {"ACK"} \cup (IF fin THEN {"FIN"} ELSE {}),
                               data |-> IF fin THEN <<>> ELSE <<0>>]})
            /\ UNCHANGED <<tcb, cut>>
         \/ /\ "giveup" \in use.ops
            /\ tcb' = [tcb EXCEPT ![e] = localclose(t)] /\ cut' = TRUE
            /\ UNCHANGED <<net, faults>>
      /\ UNCHANGED <<use, lp, incoming, pend, cur, sent, got>>

(* The network loses a segment.                                            *)
lose(e, s) ==
  /\ s \in net[e]
  /\ net' = [net EXCEPT ![e] = @ \ {s}]
  /\ Fault
  /\ UNCHANGED <<use, tcb, lp, incoming, pend, cur, sent, got, cut>>
-----------------------------------------------------------------------------
Arrival(e) ==
  \E s \in net[e] :
    \/ synsent(e, s) \/ inorder(e, s) \/ noconversation(e, s)
    \/ \E fast \in BOOLEAN : outofwindow(e, s, fast) \/ outoforder(e, s, fast)
    \/ e = "B" /\ (limbo(s) \/ limborst(s) \/ tcpincoming(s))
Kernel(e) == tcpoutput(e) \/ tcpoutputEnds(e) \/ raise(e) \/ \E fast \in BOOLEAN : segment(e, fast)
Clock(e) == tcptimeout(e) \/ tcpacktimer(e)

Next ==
  \/ \E e \in End :
       \/ Arrival(e) \/ Kernel(e) \/ Clock(e) \/ tcpkeepalive(e)
       \/ tcpconnect(e) \/ write(e) \/ read(e) \/ tcpclose(e) \/ tcphangup(e)
       \/ \E s \in net[e] : lose(e, s)
  \/ limborexmit

Spec == Init /\ [][Next]_vars

(* The network delivers, kernel processes run, timers go off, and a user   *)
(* that was given data reads it.                                           *)
System == limborexmit \/ \E e \in End : Arrival(e) \/ Kernel(e) \/ Clock(e) \/ read(e)
FairSpec == Spec /\ WF_vars(System)
-----------------------------------------------------------------------------
States == {"Closed", "Syn_sent", "Syn_received", "Established", "Finwait1", "Finwait2",
           "Close_wait", "Closing", "Last_ack", "Time_wait"}
TypeOK ==
  \A e \in End :
    LET t == tcb[e]
    IN  /\ t.state \in States
        /\ {t.una, t.ptr, t.nxt, t.rcvnxt} \subseteq 0..(Modulus - 1)
        /\ t.flgcnt \in 0..2 /\ t.rcvwnd \in 0..Window

(* A byte leaves the write queue only when the other end has it, if that   *)
(* end still takes data; what is sent is within what there is to send: the *)
(* unsigned sndcnt - sent of tcpoutput() does not wrap around.             *)
Reliable ==
  TypeOK /\ \A e \in End :
    LET t == tcb[e]
        o == tcb[Peer(e)]
    IN  /\ Open(e) /\ Open(Peer(e)) /\ o.state \notin {"Syn_sent"} /\ ~cut
             => sent[e] - Len(t.wq) <= Minus(o.rcvnxt, Plus(t.iss, 1))
        /\ Open(e) => Minus(t.ptr, t.una) <= Len(t.wq) + t.flgcnt

(* What one end reads is what the other one wrote, from the first byte on, *)
(* in order, without gaps or repetitions, and all of it if it comes to the *)
(* FIN of the other one.                                                   *)
StreamExact ==
  \A e \in End :
    /\ got[e] = [i \in 1..Len(got[e]) |-> i] /\ Len(got[e]) <= sent[Peer(e)]
    /\ tcb[e].state = "Close_wait" /\ ~cut => Len(got[e]) = sent[Peer(e)]

(* What was written is delivered in the end, unless the reader closed or   *)
(* the connection broke, whatever segments were lost.                      *)
Finishes ==
  []<>(\A e \in End : Len(got[Peer(e)]) = sent[e] \/ tcb[Peer(e)].rhup \/ cut)
=============================================================================
