-------------------------------- MODULE Tls --------------------------------
(***************************************************************************)
(* The record layer of TLS (port/devtls.c): two ends, each a TlsRec over a *)
(* reliable channel to the other, with several processes at work on it.    *)
(*                                                                         *)
(* in.io and out.io serialise the readers and the writers of an end; the   *)
(* state has its own lock, and is looked at and changed by both.  What is  *)
(* done with seclock, statelk or hqlock held is one step.  A record is its *)
(* type and what it was encrypted with: the secret and the sequence number *)
(* that go into its mac.  Secrets are numbered, the same at both ends: the *)
(* handshake proper is a user's (external); the connection has had its     *)
(* "fd" and "version".                                                     *)
(***************************************************************************)
EXTENDS Integers, Sequences, FiniteSets

CONSTANTS
  Proc,       \* processes: pairs of an end and a number
  Does,       \* what a process does: a set of calls, ctl messages and types
  MaxWrites,  \* writes and alerts that the users of an end do
  MaxSecret,  \* secrets
  nil

VARIABLES
  tr,         \* the TlsRec of an end
  wire,       \* what an end has sent, and the other has not consumed
  sent,       \* the type of the last record that an end sent
  pc,
  loc         \* locals of a process

vars == <<tr, wire, sent, pc, loc>>

Ends == {1, 2}
peer(e) == 3 - e
E(p) == p[1]

(* The locals of a call: what is read, the record that is written and the  *)
(* pc after that, the error, the pc after a write that failed, and whether *)
(* there is a header to give back.                                         *)
Fresh == [kind |-> nil, rec |-> nil, ret |-> nil, msg |-> nil, wret |-> nil, hdr |-> FALSE]

Init ==
  /\ tr = [e \in Ends |->
       [state |-> "handshake", opened |-> FALSE, err |-> nil, open |-> TRUE,
        in |-> [sec |-> 0, new |-> nil, seq |-> 0],
        out |-> [sec |-> 0, new |-> nil, seq |-> 0],
        processed |-> 0, handq |-> <<>>, hqref |-> 1, hand |-> TRUE,
        inio |-> nil, outio |-> nil, writes |-> 0]]
  /\ wire = [e \in Ends |-> <<>>]
  /\ sent = [e \in Ends |-> nil]
  /\ pc = [p \in Proc |-> "idle"]
  /\ loc = [p \in Proc |-> Fresh]

goto(p, l) == pc' = [pc EXCEPT ![p] = l]
(* A call returns: its locals are gone.                                    *)
back(p, l) == goto(p, l) /\ loc' = [loc EXCEPT ![p] = IF l = "idle" THEN Fresh ELSE @]
set(p, l) == loc' = [loc EXCEPT ![p] = l]
(* Somebody sets opened, with in.seclock and out.seclock held.             *)
seclocked(e) == \E p \in Proc : E(p) = e /\ pc[p] = "opened"
idle(p, call) == pc[p] = "idle" /\ tr[E(p)].open /\ call \in Does[p]

(* checkstate()                                                            *)
checkstate(t, ok) == t.state \in ok
(* tlsSetState()                                                           *)
tlsSetState(t, new, old) == IF t.state \in old THEN [t EXCEPT !.state = new] ELSE t

(* dechandq()                                                              *)
dechandq(t) ==
  IF t.hqref > 1 THEN [t EXCEPT !.hqref = @ - 1]
                 ELSE [t EXCEPT !.hqref = 0, !.handq = nil]
-----------------------------------------------------------------------------
(* tlsrecwrite() of a record, then on to pc ret, error or not: an error is *)
(* the end of a user's write, and what sendAlert() catches.                *)
write(p, rec, ret, msg) ==
  /\ set(p, [loc[p] EXCEPT !.rec = rec, !.ret = ret, !.msg = msg])
  /\ goto(p, "wlock")

(* The states that let a record of a type out.                             *)
Alerts == {"fatal", "close", "warn"}
may(rec) == {"handshake", "open", "rclose"} \cup IF rec \in Alerts THEN {"alert"} ELSE {}

wlock(p) ==
  /\ pc[p] = "wlock" /\ tr[E(p)].outio = nil
  /\ tr' = [tr EXCEPT ![E(p)].outio = p]
  /\ goto(p, "wcheck")
  /\ UNCHANGED <<wire, sent, loc>>

(* Fault seeded to test AlertLast: the state is not looked at again.       *)
wcheckNot(p) ==
  /\ pc[p] = "wcheck"
  /\ goto(p, "wenc") /\ UNCHANGED tr
  /\ UNCHANGED <<wire, sent, loc>>

wcheck(p) ==
  /\ pc[p] = "wcheck"
  /\ IF checkstate(tr[E(p)], may(loc[p].rec))
     THEN goto(p, "wenc") /\ UNCHANGED <<tr, loc>>
     ELSE tr' = [tr EXCEPT ![E(p)].outio = nil] /\ back(p, loc[p].ret)
  /\ UNCHANGED <<wire, sent>>

(* The mac and the cipher, with seclock held; the record that changes the  *)
(* cipher is the last that is sent with the old one.                       *)
wenc(p) ==
  /\ pc[p] = "wenc" /\ ~seclocked(E(p))
  /\ LET o == tr[E(p)].out
         r == [type |-> loc[p].rec, sec |-> o.sec, seq |-> o.seq, hdr |-> TRUE]
     IN IF loc[p].rec = "ccs" /\ o.new = nil
        THEN /\ tr' = [tr EXCEPT ![E(p)].outio = nil]
             /\ back(p, loc[p].ret)
        ELSE /\ tr' = [tr EXCEPT ![E(p)].out =
                         CASE loc[p].rec = "ccs" -> [sec |-> o.new, new |-> nil, seq |-> 0]
                           [] loc[p].rec # "ccs" /\ o.sec = 0 -> o
                           [] OTHER -> [o EXCEPT !.seq = @ + 1]]
             /\ loc' = [loc EXCEPT ![p].rec = r]
             /\ goto(p, "wput")
  /\ UNCHANGED <<wire, sent>>

(* The device's bwrite: interrupted or not, the block is queued ...        *)
wput(p) ==
  /\ pc[p] = "wput"
  /\ wire' = [wire EXCEPT ![E(p)] = Append(@, loc[p].rec)]
  /\ sent' = [sent EXCEPT ![E(p)] = loc[p].rec.type]
  /\ tr' = [tr EXCEPT ![E(p)].outio = nil]
  /\ back(p, loc[p].ret)

(* The other end has closed the channel.                                   *)
gone(e) == ~tr[peer(e)].open /\ tr[peer(e)].state = "closed"

(* ... another error ends the connection, with out.io still held.          *)
wfails(p) ==
  /\ pc[p] = "wput" /\ gone(E(p))
  /\ loc' = [loc EXCEPT ![p].msg = "channel error", ![p].wret = loc[p].ret]
  /\ goto(p, "tlsError")
  /\ UNCHANGED <<tr, wire, sent>>

(* sendAlert(): a fatal one first keeps all but alerts from being written, *)
(* and is an error afterwards.  t is the TlsRec.                           *)
sendAlert(p, t, rec, ret, msg) ==
  /\ tr' = [tr EXCEPT ![E(p)] =
              IF rec = "fatal" THEN tlsSetState(t, "alert", {"open", "handshake", "rclose"}) ELSE t]
  /\ write(p, rec, IF rec = "fatal" THEN "tlsError" ELSE ret, msg)

(* tlsError(): the first error is kept, and told to the handshaker.        *)
tlsError(p) ==
  /\ pc[p] = "tlsError"
  /\ LET t == tr[E(p)] IN
     IF t.state = "error"
     THEN goto(p, "out") /\ UNCHANGED <<tr, loc>>
     ELSE /\ tr' = [tr EXCEPT ![E(p)].state = "error", ![E(p)].err = loc[p].msg]
          /\ loc' = [loc EXCEPT ![p].ret = "out"]
          /\ goto(p, "alertHand")
  /\ UNCHANGED <<wire, sent>>

(* alertHand(), and the end of a handshake record: a reference to handq is *)
(* held for the write to it, which may block.                              *)
hqtake(p, l) ==
  /\ tr' = [tr EXCEPT ![E(p)].hqref = @ + 1]
  /\ goto(p, l)
alertHand(p) ==
  /\ pc[p] = "alertHand"
  /\ IF tr[E(p)].handq = nil THEN goto(p, loc[p].ret) /\ UNCHANGED tr
                             ELSE hqtake(p, "hqput")
  /\ loc' = [loc EXCEPT ![p].rec = "alert"]
  /\ UNCHANGED <<wire, sent>>

(* Fault seeded to test HandExact: the reference is not put back.          *)
hqputKeeps(p) ==
  /\ pc[p] = "hqput"
  /\ tr' = [tr EXCEPT ![E(p)].handq = Append(@, loc[p].rec)]
  /\ goto(p, loc[p].ret)
  /\ UNCHANGED <<wire, sent, loc>>

hqput(p) ==
  /\ pc[p] = "hqput"
  /\ tr' = [tr EXCEPT ![E(p)] = dechandq([@ EXCEPT !.handq = Append(@, loc[p].rec)])]
  /\ goto(p, loc[p].ret)
  /\ UNCHANGED <<wire, sent, loc>>

(* ... interrupted in flow control, when the block is queued already: a    *)
(* handshake record is freed nevertheless.  An error in tlsrecread() is a  *)
(* channel error; one in tlsError() is the caller's.                       *)
hqnoted(p) ==
  /\ pc[p] = "hqput" /\ tr[E(p)].handq # <<>>
  /\ tr' = [tr EXCEPT ![E(p)] = dechandq([@ EXCEPT
              !.handq = Append(@, IF loc[p].rec = "hand" THEN "freed" ELSE loc[p].rec)])]
  /\ IF loc[p].ret = "out"
     THEN goto(p, "out") /\ UNCHANGED loc
     ELSE goto(p, "tlsError") /\ loc' = [loc EXCEPT ![p].msg = "channel error"]
  /\ UNCHANGED <<wire, sent>>
-----------------------------------------------------------------------------
(* tlsbread(): of data, or of the handshake's messages.                    *)
tlsbread(p, kind) ==
  /\ idle(p, kind) /\ tr[E(p)].inio = nil
  /\ IF kind = "data" THEN checkstate(tr[E(p)], {"open"})
     ELSE tr[E(p)].hand /\ checkstate(tr[E(p)], {"open", "handshake", "lclose"})
  /\ tr' = [tr EXCEPT ![E(p)].inio = p]
  /\ set(p, [Fresh EXCEPT !.kind = kind])
  /\ goto(p, "rec")
  /\ UNCHANGED <<wire, sent>>

(* The condition of the loops of tlsbread().                               *)
enough(p) ==
  LET t == tr[E(p)] IN
  IF loc[p].kind = "data" THEN t.processed > 0 ELSE t.opened \/ t.handq # <<>>

bread(p) ==
  /\ pc[p] = "rec" /\ enough(p)
  /\ tr' = [tr EXCEPT ![E(p)].inio = nil,
                      ![E(p)].processed = IF loc[p].kind = "data" THEN @ - 1 ELSE @]
  /\ back(p, IF loc[p].kind = "data" THEN "idle" ELSE "hread")
  /\ UNCHANGED <<wire, sent>>

(* qbread() of handq: a message or an alert, or a note.                    *)
hread(p) ==
  /\ pc[p] = "hread"
  /\ \/ tr[E(p)].handq # <<>> /\ tr' = [tr EXCEPT ![E(p)].handq = Tail(@)]
     \/ UNCHANGED tr
  /\ back(p, "idle")
  /\ UNCHANGED <<wire, sent>>

(* tlsrecread(): the header is consumed ...                                *)
header(p) ==
  /\ pc[p] = "rec" /\ ~enough(p) /\ wire[peer(E(p))] # <<>>
  /\ wire' = [wire EXCEPT ![peer(E(p))][1].hdr = FALSE]
  /\ loc' = [loc EXCEPT ![p].hdr = wire[peer(E(p))][1].hdr]
  /\ goto(p, "body")
  /\ UNCHANGED <<tr, sent>>

(* Fault seeded to test InSync: the header is not given back.              *)
regurgitateNot(p) == UNCHANGED wire

(* ... and given back if a note comes before the rest does.                *)
regurgitate(p) == wire' = [wire EXCEPT ![peer(E(p))][1].hdr = loc[p].hdr]

interrupted(p) ==
  /\ \/ pc[p] = "rec" /\ ~enough(p) /\ UNCHANGED wire
     \/ pc[p] = "body" /\ regurgitate(p)
  /\ goto(p, "out")
  /\ UNCHANGED <<tr, sent, loc>>

hungup(p) ==
  /\ pc[p] = "rec" /\ ~enough(p)
  /\ wire[peer(E(p))] = <<>> /\ gone(E(p))
  /\ loc' = [loc EXCEPT ![p].msg = "channel error"]
  /\ goto(p, "tlsError")
  /\ UNCHANGED <<tr, wire, sent>>

(* A reader goes on to l, and then to ret.                                 *)
on(p, l, ret, msg) ==
  /\ set(p, [Fresh EXCEPT !.kind = loc[p].kind, !.rec = "hand", !.ret = ret, !.msg = msg])
  /\ goto(p, l)
rcvError(p, msg, t) == sendAlert(p, t, "fatal", nil, msg)

(* tlsclosed(), to alertHand().  The error that follows in tlsrecread() is *)
(* caught there as a "channel error", so that SRClose becomes SError.      *)
tlsclosed(t, new) ==
  CASE t.state \in {"open", "handshake"} -> [t EXCEPT !.state = new]
    [] {new, t.state} = {"rclose", "lclose"} -> [t EXCEPT !.state = "closed"]
    [] OTHER -> t

(* The rest of tlsrecread(): nothing sleeps until the record is decoded.   *)
body(p) ==
  /\ pc[p] = "body" /\ ~seclocked(E(p))
  /\ LET e == E(p)
         r == Head(wire[peer(e)])
         i == tr[e].in
         t == IF i.sec = 0 THEN tr[e] ELSE [tr[e] EXCEPT !.in.seq = @ + 1]
     IN /\ wire' = [wire EXCEPT ![peer(e)] = Tail(@)]
        /\ CASE ~loc[p].hdr -> rcvError(p, "protocol version", tr[e])
             [] loc[p].hdr /\ <<r.sec, IF i.sec = 0 THEN 0 ELSE r.seq>> # <<i.sec, i.seq>> ->
                  rcvError(p, "bad record mac", t)
             [] OTHER ->
                CASE r.type = "ccs" /\ i.new = nil -> rcvError(p, "unexpected message", t)
                  [] r.type = "ccs" /\ i.new # nil ->
                       /\ tr' = [tr EXCEPT ![e].in = [sec |-> i.new, new |-> nil, seq |-> 0]]
                       /\ on(p, "rec", nil, nil)
                  [] r.type = "fatal" ->
                       tr' = [tr EXCEPT ![e] = t] /\ on(p, "tlsError", "out", "alert")
                  [] r.type = "close" ->
                       /\ tr' = [tr EXCEPT ![e] = tlsclosed(t, "rclose")]
                       /\ on(p, "alertHand", "tlsError", "channel error")
                  [] r.type = "warn" -> tr' = [tr EXCEPT ![e] = t] /\ on(p, "alertHand", "rec", nil)
                  [] r.type = "hand" -> tr' = [tr EXCEPT ![e] = t] /\ on(p, "gothand", "rec", nil)
                  [] r.type = "app" /\ ~t.opened -> rcvError(p, "unexpected message", t)
                  [] r.type = "app" /\ t.opened ->
                       /\ tr' = [tr EXCEPT ![e] = [t EXCEPT !.processed = 1]]
                       /\ on(p, "rec", nil, nil)
  /\ UNCHANGED sent

(* A handshake message: to handq, or turned down if nobody has it open.    *)
gothand(p) ==
  /\ pc[p] = "gothand"
  /\ IF tr[E(p)].handq # nil
     THEN hqtake(p, "hqput") /\ UNCHANGED loc
     ELSE /\ loc' = [loc EXCEPT ![p].rec = "warn"]
          /\ goto(p, "wlock") /\ UNCHANGED tr
  /\ UNCHANGED <<wire, sent>>

(* An error out of tlsrecwrite(): out.io is let go.  One out of tlsbread() *)
(* or tlswrite(): in.io is.                                                *)
out(p) ==
  /\ pc[p] = "out"
  /\ IF tr[E(p)].outio = p
     THEN tr' = [tr EXCEPT ![E(p)].outio = nil] /\ back(p, loc[p].wret)
     ELSE /\ tr' = [tr EXCEPT ![E(p)].inio = IF @ = p THEN nil ELSE @]
          /\ back(p, "idle")
  /\ UNCHANGED <<wire, sent>>
-----------------------------------------------------------------------------
writes(p, rec) ==
  /\ idle(p, rec) /\ tr[E(p)].writes < MaxWrites[E(p)]
  /\ tr' = [tr EXCEPT ![E(p)].writes = @ + 1]

(* tlsbwrite()                                                             *)
tlsbwrite(p, rec) ==
  /\ writes(p, rec)
  /\ rec = "app" => checkstate(tr[E(p)], {"open"})
  /\ rec = "hand" => tr[E(p)].hand
  /\ write(p, rec, "idle", nil)
  /\ UNCHANGED <<wire, sent>>

(* tlswrite() of ctl messages: secret (the handshaker sets one when it has *)
(* seen both sides change to the last), changecipher, opened, alert.       *)
secret(p) ==
  LET t == tr[E(p)] IN
  /\ idle(p, "secret") /\ ~seclocked(E(p)) /\ t.in.new = nil /\ t.out.new = nil
  /\ t.in.sec = t.out.sec /\ t.in.sec < MaxSecret
  /\ tr' = [tr EXCEPT ![E(p)].in.new = t.in.sec + 1, ![E(p)].out.new = t.in.sec + 1]
  /\ UNCHANGED <<wire, sent, pc, loc>>
changecipher(p) ==
  /\ idle(p, "changecipher") /\ ~seclocked(E(p)) /\ tr[E(p)].out.new # nil
  /\ write(p, "ccs", "idle", nil)
  /\ UNCHANGED <<tr, wire, sent>>
opened(p) ==
  /\ \/ /\ idle(p, "opened") /\ tr[E(p)].in.sec # 0 /\ tr[E(p)].out.sec # 0
        /\ tr[E(p)].state \in {"handshake", "open"} /\ ~seclocked(E(p))
        /\ tr' = [tr EXCEPT ![E(p)].state = "open"]
        /\ goto(p, "opened")
     \/ /\ pc[p] = "opened"
        /\ tr' = [tr EXCEPT ![E(p)].opened = TRUE]
        /\ goto(p, "idle")
  /\ UNCHANGED <<wire, sent, loc>>

(* After a close notify the code tests m, the processor, where it means    *)
(* the alert: the state never becomes SLClose.                             *)
alert(p, rec) ==
  /\ idle(p, rec) /\ ~seclocked(E(p)) /\ tr[E(p)].writes < MaxWrites[E(p)]
  /\ sendAlert(p, [tr[E(p)] EXCEPT !.writes = @ + 1], rec, "idle", "alert")
  /\ UNCHANGED <<wire, sent>>

(* tlsopen() and tlsclose() of the handshake's file.                       *)
openhand(p) ==
  /\ idle(p, "openhand") /\ tr[E(p)].handq = nil
  /\ tr' = [tr EXCEPT ![E(p)].handq = <<>>, ![E(p)].hqref = 1, ![E(p)].hand = TRUE]
  /\ UNCHANGED <<wire, sent, pc, loc>>
closehand(p) ==
  /\ idle(p, "closehand") /\ tr[E(p)].hand
  /\ \A q \in Proc : E(q) = E(p) => pc[q] # "hread" /\ (tr[E(p)].inio = q => loc[q].kind = "data")
  /\ tr' = [tr EXCEPT ![E(p)] = dechandq([@ EXCEPT !.hand = FALSE])]
  /\ UNCHANGED <<wire, sent, pc, loc>>

(* tlsclose() of the last file: a close notify, then tlshangup().          *)
tlsclose(p) ==
  /\ idle(p, "tlsclose") /\ ~tr[E(p)].hand
  /\ \A q \in Proc : E(q) = E(p) => pc[q] = "idle"
  /\ tr' = [tr EXCEPT ![E(p)].open = FALSE]
  /\ IF checkstate(tr[E(p)], {"open", "handshake", "rclose"})
     THEN write(p, "close", "hangup", nil)
     ELSE goto(p, "hangup") /\ UNCHANGED loc
  /\ UNCHANGED <<wire, sent>>
tlshangup(p) ==
  /\ pc[p] = "hangup"
  /\ tr' = [tr EXCEPT ![E(p)].processed = 0, ![E(p)].state = "closed"]
  /\ goto(p, "done")
  /\ UNCHANGED <<wire, sent, loc>>

Step(p) ==
  \/ wlock(p) \/ wcheck(p) \/ wenc(p) \/ wput(p) \/ wfails(p)
  \/ tlsError(p) \/ alertHand(p) \/ hqput(p) \/ hqnoted(p) \/ out(p)
  \/ bread(p) \/ hread(p) \/ header(p) \/ interrupted(p) \/ hungup(p) \/ body(p) \/ gothand(p)
  \/ \E kind \in {"data", "handshake"} : tlsbread(p, kind)
  \/ \E rec \in {"app", "hand"} : tlsbwrite(p, rec)
  \/ \E rec \in {"fatal", "close"} : alert(p, rec)
  \/ secret(p) \/ changecipher(p) \/ opened(p)
  \/ openhand(p) \/ closehand(p) \/ tlsclose(p) \/ tlshangup(p)
Next == \E p \in Proc : Step(p)

Spec == Init /\ [][Next]_vars
-----------------------------------------------------------------------------
(* Whatever the readers and writers of both ends do, and wherever a note   *)
(* interrupts a read, the ends never lose step: every record is decrypted  *)
(* with the secret and the number that it was encrypted with ("We can't    *)
(* let Eintrs lose data, since doing so will get us out of sync").         *)
InSync == \A e \in Ends : tr[e].err \notin {"bad record mac", "protocol version"}

(* Nothing but alerts follows a fatal alert.                               *)
AlertLast ==
  \A e \in Ends : sent[e] = "fatal" /\ sent'[e] # sent[e] => sent'[e] \in Alerts

(* handq is there as long as somebody has the file open or is about to     *)
(* write to it, each with one reference.                                   *)
HandExact == \A e \in Ends :
  LET t == tr[e]
      users == {p \in Proc : E(p) = e /\ pc[p] = "hqput"}
  IN /\ t.hqref = Cardinality(users) + (IF t.hand THEN 1 ELSE 0)
     /\ (t.handq # nil) <=> (t.hqref > 0)
=============================================================================
