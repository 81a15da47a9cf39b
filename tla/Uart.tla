-------------------------------- MODULE Uart --------------------------------
(***************************************************************************)
(* A serial line: devuart (src/port/devuart.c) over an i8250               *)
(* (src/386/uarti8250.c) without a FIFO.  The queues iq and oq are         *)
(* abstracted to their bytes and to whether the consumer found oq empty    *)
(* (Qstarve), for only then does a write kick the output.                  *)
(*                                                                         *)
(* Bytes written are numbered, and so are characters received, which are   *)
(* data, CTLS or CTLQ.                                                     *)
(***************************************************************************)
EXTENDS Integers, Sequences, FiniteSets

CONSTANTS
  Proc,
  Msgs,         \* control messages, see Ctls
  Chars,        \* characters that come in: "data", "CTLS", "CTLQ"
  Limit, Stagesize, \* of the queues and of the stages
  MaxOut, MaxIn, MaxOpen, \* bounds
  nil

VARIABLES
  opens, enabled, holder, \* who has the QLock of the Uart
  iq, iqopen, istage, rts, \* input: queue, stage, our RTS
  oq, oqstate, starve, ostage, \* output: queue, "open", "hung" or "closed", stage
  thr, tint, rbr, \* the chip: its holding registers, an interrupt is pending
  line, linects,  \* bytes sent, and the CTS of the other end
  cts, modem, xonoff, blocked, ctsbackoff, hup, dohup,
  drain,        \* p->drain
  pc, arg, fd,  \* process -> its step, its message, whether it has the line open
  nout, nin, nopen,
  dropped,      \* history: bytes flushed, or left when the line was closed
  read, missed, \* history: characters read and characters not kept
  deaf,         \* history: an end of output that found the line blocked
  stuck         \* history: modem control was turned off while CTS was low

in == <<iq, iqopen, istage, rts, rbr>>
out == <<oq, oqstate, starve, ostage, thr, tint, line>>
flow == <<linects, cts, modem, xonoff, blocked, ctsbackoff, hup, dohup>>
procs == <<pc, arg, fd>>
count == <<nout, nin, nopen>>
vars == <<opens, enabled, holder, in, out, flow, drain, procs, count, dropped, read, missed, deaf, stuck>>

Init ==
  /\ opens = 0 /\ enabled = FALSE /\ holder = nil
  /\ iq = <<>> /\ iqopen = FALSE /\ istage = <<>> /\ rts = FALSE
  /\ oq = <<>> /\ oqstate = "closed" /\ starve = TRUE /\ ostage = <<>>
  /\ thr = 0 /\ tint = FALSE /\ rbr = nil /\ line = <<>> /\ linects = TRUE
  /\ cts = TRUE /\ modem = FALSE /\ xonoff = FALSE /\ blocked = FALSE /\ ctsbackoff = 0
  /\ hup = FALSE /\ dohup = FALSE /\ drain = FALSE
  /\ pc = [p \in Proc |-> "idle"] /\ arg = [p \in Proc |-> nil] /\ fd = [p \in Proc |-> FALSE]
  /\ nout = 0 /\ nin = 0 /\ nopen = 0
  /\ dropped = {} /\ read = <<>> /\ missed = {} /\ deaf = FALSE /\ stuck = FALSE

Go(p, l) == pc' = [pc EXCEPT ![p] = l]
ToSet(s) == {s[k] : k \in DOMAIN s}
qlock(p) == holder = nil /\ holder' = p
-----------------------------------------------------------------------------
uartstageoutput == SubSeq(oq, 1, IF Len(oq) < Stagesize THEN Len(oq) ELSE Stagesize)

(* i8250kick(): the next byte goes to the chip if it can take one.         *)
i8250kick ==
  LET may == cts /\ ~blocked /\ thr = 0
      stage == IF ostage = <<>> THEN uartstageoutput ELSE ostage
      staged == IF ostage = <<>> THEN Len(stage) ELSE 0
  IN IF ~may \/ stage = <<>>
     THEN /\ starve' = (starve \/ (may /\ ostage = <<>>))
          /\ UNCHANGED <<oq, ostage, thr>>
     ELSE /\ thr' = Head(stage) /\ ostage' = Tail(stage)
          /\ oq' = SubSeq(oq, staged + 1, Len(oq)) /\ UNCHANGED starve

uartdrained == oq = <<>> /\ ostage = <<>>

(* Fault seeded to test UartSafe: the process that waits for the output to *)
(* drain is not woken up.                                                  *)
uartkickSilent ==
  IF blocked
  THEN deaf' = (deaf \/ uartdrained) /\ UNCHANGED <<oq, ostage, starve, thr, drain>>
  ELSE i8250kick /\ UNCHANGED <<drain, deaf>>

(* Restart output.  Whoever waits for it to drain is woken up, unless the  *)
(* line is blocked.                                                        *)
uartkick ==
  IF blocked
  THEN deaf' = (deaf \/ uartdrained) /\ UNCHANGED <<oq, ostage, starve, thr, drain>>
  ELSE /\ i8250kick
       /\ drain' = (drain /\ ~(oq' = <<>> /\ ostage' = <<>>))
       /\ UNCHANGED deaf
-----------------------------------------------------------------------------
(* RTS goes up; an interrupt that was pending is taken or ignored.         *)
i8250enable == rts' = TRUE /\ tint' = FALSE
i8250disable == rts' = FALSE /\ tint' = FALSE

(* uartenable() makes everything new but blocked, xonoff and modem.        *)
uartenable ==
  /\ iqopen' = TRUE /\ iq' = <<>> /\ istage' = <<>> /\ missed' = missed \cup ToSet(istage)
  /\ oqstate' = "open" /\ starve' = TRUE
  /\ ostage' = <<>> /\ dropped' = dropped \cup ToSet(ostage)
  /\ cts' = TRUE /\ ctsbackoff' = 0 /\ hup' = FALSE
  /\ i8250enable /\ enabled' = TRUE
  /\ UNCHANGED <<oq, thr, rbr, line, linects, modem, xonoff, blocked, dohup>>

uartopen(p) ==
  /\ ~fd[p] /\ pc[p] = "idle" /\ holder = nil /\ nopen < MaxOpen
  /\ nopen' = nopen + 1 /\ opens' = opens + 1 /\ fd' = [fd EXCEPT ![p] = TRUE]
  /\ IF opens = 0 THEN uartenable ELSE UNCHANGED <<enabled, in, out, flow, dropped, missed>>
  /\ UNCHANGED <<holder, drain, pc, arg, nout, nin, read, deaf, stuck>>

(* The last close: input is discarded, output may drain.                   *)
uartclose(p) ==
  /\ fd[p] /\ pc[p] = "idle" /\ qlock(p)
  /\ opens' = opens - 1 /\ fd' = [fd EXCEPT ![p] = FALSE]
  /\ IF opens > 1 THEN Go(p, "unlock") /\ UNCHANGED <<in, out, drain, missed>>
     ELSE /\ iqopen' = FALSE /\ iq' = <<>> /\ istage' = <<>>
          /\ missed' = missed \cup ToSet(iq) \cup ToSet(istage)
          /\ oqstate' = "hung" /\ drain' = TRUE /\ Go(p, "drain")
          /\ UNCHANGED <<rts, rbr, oq, starve, ostage, thr, tint, line>>
  /\ arg' = [arg EXCEPT ![p] = "close"]
  /\ UNCHANGED <<enabled, flow, count, dropped, read, deaf, stuck>>

(* uartdrainoutput(): sleep() returns at once if the output has drained,   *)
(* and p->drain stays.  A note clears it.                                  *)
drained(p) ==
  /\ pc[p] = "drain" /\ uartdrained /\ Go(p, "do")
  /\ UNCHANGED <<opens, enabled, holder, in, out, flow, drain, arg, fd, count, dropped, read, missed, deaf, stuck>>

noted(p) ==
  /\ pc[p] \in {"drain", "asleep"} /\ drain' = FALSE
  /\ Go(p, IF arg[p] = "close" THEN "do" ELSE "unlock")
  /\ UNCHANGED <<opens, enabled, holder, in, out, flow, arg, fd, count, dropped, read, missed, deaf, stuck>>

sleep(p) ==
  /\ pc[p] = "drain" /\ ~uartdrained /\ Go(p, "asleep")
  /\ UNCHANGED <<opens, enabled, holder, in, out, flow, drain, arg, fd, count, dropped, read, missed, deaf, stuck>>

wakeup(p) ==
  /\ pc[p] = "asleep" /\ ~drain /\ Go(p, "do")
  /\ UNCHANGED <<opens, enabled, holder, in, out, flow, drain, arg, fd, count, dropped, read, missed, deaf, stuck>>

qunlock(p) ==
  /\ pc[p] = "unlock" /\ holder' = nil /\ Go(p, "idle") /\ arg' = [arg EXCEPT ![p] = nil]
  /\ UNCHANGED <<opens, enabled, in, out, flow, drain, fd, count, dropped, read, missed, deaf, stuck>>

uartdisable(p) ==
  /\ pc[p] = "do" /\ arg[p] = "close" /\ Go(p, "unlock")
  /\ oq' = <<>> /\ dropped' = dropped \cup ToSet(oq) /\ oqstate' = "closed"
  /\ i8250disable /\ enabled' = FALSE /\ dohup' = FALSE
  /\ UNCHANGED <<opens, holder, iq, iqopen, istage, rbr, starve, ostage, thr, line,
                 linects, cts, modem, xonoff, blocked, ctsbackoff, hup, drain, arg, fd, count, read, missed, deaf, stuck>>
-----------------------------------------------------------------------------
(* Control messages that wait for the output to drain, and others.         *)
Drains == {"b", "m0", "m1", "r0", "r1"}
Ctls == Drains \cup {"c1", "f", "h", "x0", "x1"}

uartctl(p, m) ==
  /\ fd[p] /\ pc[p] = "idle" /\ m \in Ctls /\ qlock(p)
  /\ arg' = [arg EXCEPT ![p] = m]
  /\ IF m \in Drains THEN drain' = TRUE /\ Go(p, "drain") ELSE drain' = drain /\ Go(p, "do")
  /\ UNCHANGED <<opens, enabled, in, out, flow, fd, count, dropped, read, missed, deaf, stuck>>

i8250modemctl(m) ==
  /\ modem' = (IF m \in {"m0", "m1"} THEN m = "m1" ELSE modem)
  /\ cts' = (CASE m = "m1" -> linects [] m = "m0" -> TRUE [] OTHER -> cts)
i8250rts(m) == rts' = (IF m \in {"r0", "r1"} THEN m = "r1" ELSE rts)

ctlDone(p) ==
  LET m == arg[p] IN
  /\ pc[p] = "do" /\ m # "close" /\ Go(p, "unlock")
  /\ i8250modemctl(m) /\ i8250rts(m)
  /\ hup' = (hup \/ m = "c1")
  /\ xonoff' = (IF m \in {"x0", "x1"} THEN m = "x1" ELSE xonoff)
  /\ oq' = (IF m = "f" THEN <<>> ELSE oq) /\ dropped' = (IF m = "f" THEN dropped \cup ToSet(oq) ELSE dropped)
  /\ oqstate' = (IF m = "h" /\ oqstate = "open" THEN "hung" ELSE oqstate)
  /\ iqopen' = (iqopen /\ m # "h")
  /\ stuck' = (stuck \/ (m = "m0" /\ ~cts))
  /\ UNCHANGED <<opens, enabled, holder, iq, istage, rbr, starve, ostage, thr, tint, line,
                 linects, blocked, ctsbackoff, dohup, drain, arg, fd, count, read, missed, deaf>>

(* Writing, with the Uart locked; the write kicks the output if the chip   *)
(* had found the queue empty, and waits while the queue is full.           *)
uartwrite(p) ==
  /\ fd[p] /\ pc[p] = "idle" /\ nout < MaxOut /\ qlock(p)
  /\ IF oqstate = "open"
     THEN /\ oq' = Append(oq, nout + 1) /\ nout' = nout + 1 /\ starve' = FALSE
          /\ Go(p, IF starve THEN "kick" ELSE "full")
     ELSE Go(p, "unlock") /\ UNCHANGED <<oq, nout, starve>>
  /\ UNCHANGED <<opens, enabled, in, oqstate, ostage, thr, tint, line, flow, drain, arg, fd,
                 nin, nopen, dropped, read, missed, deaf, stuck>>

kick(p) ==
  /\ pc[p] = "kick" /\ uartkick /\ Go(p, "full")
  /\ UNCHANGED <<opens, enabled, holder, in, oqstate, tint, line, flow, arg, fd, count, dropped, read, missed, stuck>>

notfull(p) ==
  /\ pc[p] = "full" /\ Len(oq) < Limit /\ Go(p, "unlock")
  /\ UNCHANGED <<opens, enabled, holder, in, out, flow, drain, arg, fd, count, dropped, read, missed, deaf, stuck>>

(* RTS comes back when the reader has made room, but only with modem       *)
(* control.                                                                *)
uartflow == rts' = (rts \/ (modem /\ Len(iq) = Limit))

uartread(p) ==
  /\ fd[p] /\ pc[p] = "idle" /\ iq # <<>>
  /\ iq' = Tail(iq) /\ read' = Append(read, Head(iq))
  /\ uartflow
  /\ UNCHANGED <<opens, enabled, holder, iqopen, istage, rbr, out, flow, drain, procs, count, dropped, missed, deaf, stuck>>
-----------------------------------------------------------------------------
(* Interrupts.  The chip has sent a byte, or one came in.                  *)
txdone ==
  /\ thr # 0 /\ thr' = 0 /\ line' = Append(line, thr) /\ tint' = enabled
  /\ UNCHANGED <<opens, enabled, holder, in, oq, oqstate, starve, ostage, flow, drain, procs, count, dropped, read, missed, deaf, stuck>>

thre ==
  /\ tint /\ tint' = FALSE /\ uartkick
  /\ UNCHANGED <<opens, enabled, holder, in, oqstate, line, flow, procs, count, dropped, read, missed, stuck>>

rxdone ==
  /\ nin < MaxIn /\ rbr = nil /\ enabled
  /\ \E c \in Chars : rbr' = [k |-> nin + 1, c |-> c]
  /\ nin' = nin + 1
  /\ UNCHANGED <<opens, enabled, holder, iq, iqopen, istage, rts, out, flow, drain, procs, nout, nopen, dropped, read, missed, deaf, stuck>>

(* What is in the stage goes to the queue, all of it or, if the queue is   *)
(* full, nothing: then it is lost and RTS goes down.                       *)
uartstageinput ==
  LET keep == iqopen /\ Len(iq) < Limit IN
  /\ iq' = (IF keep THEN iq \o istage ELSE iq)
  /\ missed' = (IF keep THEN missed ELSE missed \cup ToSet(istage))
  /\ rts' = (rts /\ (keep \/ ~iqopen))

(* XON and XOFF are also input.  A full stage is emptied first.            *)
uartrecv ==
  /\ rbr # nil /\ enabled /\ rbr' = nil
  /\ blocked' = (IF xonoff /\ rbr.c # "data" THEN rbr.c = "CTLS" ELSE blocked)
  /\ ctsbackoff' = (IF xonoff /\ rbr.c = "CTLQ" THEN 2 ELSE ctsbackoff)
  /\ IF Len(istage) + 1 = Stagesize
     THEN uartstageinput /\ istage' = <<rbr>>
     ELSE istage' = Append(istage, rbr) /\ UNCHANGED <<iq, missed, rts>>
  /\ UNCHANGED <<opens, enabled, holder, iqopen, out, linects, cts, modem, xonoff, hup, dohup,
                 drain, procs, count, dropped, read, deaf, stuck>>

(* The other end raises or lowers CTS, or drops the carrier.               *)
ctschange ==
  /\ "m1" \in Msgs /\ linects' = ~linects
  /\ cts' = (IF modem THEN linects' ELSE cts)
  /\ ctsbackoff' = (IF modem /\ ~cts /\ linects' THEN 2 ELSE ctsbackoff)
  /\ UNCHANGED <<opens, enabled, holder, in, out, modem, xonoff, blocked, hup, dohup, drain, procs, count, dropped, read, missed, deaf, stuck>>

dcdchange ==
  /\ hup /\ enabled /\ ~dohup /\ dohup' = TRUE
  /\ UNCHANGED <<opens, enabled, holder, in, out, linects, cts, modem, xonoff, blocked, ctsbackoff, hup,
                 drain, procs, count, dropped, read, missed, deaf, stuck>>

(* The clock moves input, hangs up and, two ticks after the other end let  *)
(* us go on, restarts output.                                              *)
uartclock ==
  /\ enabled /\ (istage # <<>> \/ dohup \/ ctsbackoff > 0)
  /\ IF istage # <<>> THEN uartstageinput /\ istage' = <<>> ELSE UNCHANGED <<iq, istage, rts, missed>>
  /\ iqopen' = (iqopen /\ ~dohup)
  /\ oqstate' = (IF dohup /\ oqstate = "open" THEN "hung" ELSE oqstate) /\ dohup' = FALSE
  /\ ctsbackoff' = (IF ctsbackoff > 0 THEN ctsbackoff - 1 ELSE 0)
  /\ IF ctsbackoff = 1 THEN i8250kick ELSE UNCHANGED <<oq, ostage, starve, thr>>
  /\ UNCHANGED <<opens, enabled, holder, rbr, tint, line, linects, cts, modem, xonoff, blocked, hup,
                 drain, procs, count, dropped, read, deaf, stuck>>

Next ==
  \/ \E p \in Proc :
       \/ uartopen(p) \/ uartclose(p) \/ drained(p) \/ noted(p) \/ sleep(p) \/ wakeup(p)
       \/ qunlock(p) \/ uartdisable(p) \/ ctlDone(p) \/ uartwrite(p) \/ kick(p) \/ notfull(p) \/ uartread(p)
       \/ \E m \in Msgs : uartctl(p, m)
  \/ txdone \/ thre \/ rxdone \/ uartrecv \/ ctschange \/ dcdchange \/ uartclock

Spec == Init /\ [][Next]_vars
-----------------------------------------------------------------------------
(* What is sent is what was written, in order, but for what was flushed or *)
(* left when the line was closed.                                          *)
OutExact ==
  LET all == line \o (IF thr = 0 THEN <<>> ELSE <<thr>>) \o ostage \o oq IN
  /\ \A i, j \in DOMAIN all : i < j => all[i] < all[j]
  /\ ToSet(all) \cup dropped = 1..nout /\ ToSet(all) \cap dropped = {}

(* What is read is what came in, in order, but for what did not fit.       *)
InExact ==
  LET all == read \o iq \o istage \o (IF rbr = nil THEN <<>> ELSE <<rbr>>) IN
  /\ \A i, j \in DOMAIN all : i < j => all[i].k < all[j].k
  /\ {c.k : c \in ToSet(all) \cup missed} = 1..nin

(* Output goes on while there is any and the other end lets it: somebody   *)
(* is to kick it.  The exception: if modem control is turned off while CTS *)
(* is low nobody kicks, then or when more is written, for the chip did not *)
(* find the queue empty.                                                   *)
OutGoesOn ==
  ~stuck /\ ~uartdrained /\ enabled /\ cts /\ ~blocked /\ thr = 0 =>
    tint \/ ctsbackoff > 0 \/ \E p \in Proc : pc[p] = "kick"

(* A process that waits for the output to drain is woken up when it has,   *)
(* unless the last byte was sent with the line blocked.                    *)
DrainEnds ==
  \A p \in Proc : pc[p] = "asleep" /\ drain /\ uartdrained /\ thr = 0 /\ ~deaf => tint

UartSafe == OutExact /\ InExact /\ OutGoesOn /\ DrainEnds
=============================================================================
