-------------------------------- MODULE Mnt ---------------------------------
(***************************************************************************)
(* The multiplexing of 9P calls over one connection by the mount driver,   *)
(* src/port/devmnt.c: series of requests that share a tag (9P2000.ix),     *)
(* one reader at a time that gives the others their replies, tags kept     *)
(* with free Mntrpcs, notes, flushes and the loss of the connection.       *)
(*                                                                         *)
(* What runs under lock(mnt) or lock(&mntalloc) is one step; a Mntrpc is   *)
(* private between mntralloc() and mountrpcreq(), which are one step.      *)
(* sleep() and wakeup() are atomic here (module Rendez).  Requests are     *)
(* numbered; the server is external: it answers each once, those of one    *)
(* tag in order, and forgets what it is told to flush.  A panic ends the   *)
(* behaviour, as does setting free a Mntrpc that is queued: its links then *)
(* are those of two lists.                                                 *)
(***************************************************************************)
EXTENDS Naturals, SequencesExt, FiniteSetsExt

CONSTANTS
  Proc,
  nil,
  MaxSeries,   \* bound: requests in one series of calls
  Callers,     \* bound: who may make the first, the second ... request
  NRpc,        \* bound: Mntrpcs
  sharedtags,  \* mnt->sharedtags
  MaxNotes,    \* bound: notes in a behaviour
  May          \* what may happen: "hangup" of the connection, "Rerror"s of
               \* the server, "version" of another connection and notes
               \* that find a process in "write", "sleep" or "read"

VARIABLES
  queue,     \* mnt->queuehd .. mnt->queuetl
  rip,       \* mnt->rip, the process that reads replies
  free,      \* mntalloc.rpcfreehd .. rpcfreetl
  nrpc,      \* how many Mntrpcs were ever allocated
  tagmask,   \* mntalloc.tagmask, as the set of tags taken
  rpc,       \* the Mntrpcs
  series,    \* the Mntrpcs of each process, linked by tagnext
  pos,       \* ... the one it is at
  flush,     \* ... the Tflush it sent, if any
  err,       \* ... the error that made it abort
  pc,
  srv,       \* requests the server has not answered
  wire,      \* replies that were not read
  hungup,    \* the connection is gone
  nreq,      \* how many requests were made,
  nflush,    \* ... and how many Tflushes
  notes,     \* how many notes came
  unled,     \* history: a note met the process that was woken to be reader
  unflushed  \* history: the tags of requests that notes made their callers
             \* give up without the answer to a Tflush

Rpc == 1..NRpc
Tag == 0..(NRpc - 1)

mnt == <<queue, rip>>
alloc == <<free, nrpc, tagmask>>
call == <<series, pos, flush, err>>
conn == <<srv, wire, hungup, nreq, nflush>>
history == <<notes, unled, unflushed>>
vars == <<mnt, alloc, rpc, call, pc, conn, history>>

(* A Mntrpc fresh from malloc().                                           *)
Fresh == [tag |-> 0, owntag |-> FALSE, done |-> FALSE, id |-> 0, reply |-> nil]

Init ==
  /\ queue = <<>> /\ rip = nil
  /\ free = <<>> /\ nrpc = 0 /\ tagmask = {}
  /\ rpc = [r \in Rpc |-> Fresh]
  /\ series = [p \in Proc |-> <<>>] /\ pos = [p \in Proc |-> 1]
  /\ flush = [p \in Proc |-> nil] /\ err = [p \in Proc |-> "none"]
  /\ pc = [p \in Proc |-> "idle"]
  /\ srv = <<>> /\ wire = <<>> /\ hungup = FALSE /\ nreq = 0 /\ nflush = 0
  /\ unflushed = {} /\ notes = 0 /\ unled = FALSE

At(p, here) == pc[p] = here
Go(p, there) == pc' = [pc EXCEPT ![p] = there]

(* The Mntrpc that process p sends or waits for.                           *)
Cur(p) == IF flush[p] # nil THEN flush[p] ELSE series[p][pos[p]]
-----------------------------------------------------------------------------
(* alloctag(): the lowest bit that is clear.                               *)
alloctag == Min(Tag \ tagmask)

(* The first free Mntrpc, or a new one.                                    *)
NextRpc == IF free # <<>> THEN Head(free) ELSE nrpc + 1

(* What mntralloc() makes of rr, to be the request number id: it shares    *)
(* the tag of prev, keeps the tag it owned or gets a new one.              *)
Tagged(rr, prev, id) ==
  LET shares == prev # nil /\ sharedtags
      tag == IF shares THEN rpc[prev].tag ELSE IF rr.owntag THEN rr.tag ELSE alloctag
  IN  [tag |-> tag, owntag |-> ~shares, done |-> FALSE, id |-> id, reply |-> nil]

(* Fault seeded to test RepliesMatch: the tag of a free Mntrpc is given    *)
(* to others.                                                              *)
mntrallocFreesTag(prev) ==
  LET rr == rpc[NextRpc]
      new == Tagged(rr, prev, nreq + nflush + 1)
  IN  /\ nrpc' = IF free # <<>> THEN nrpc ELSE nrpc + 1
      /\ free' = IF free # <<>> THEN Tail(free) ELSE free
      /\ tagmask' = tagmask \ {new.tag}
      /\ rpc' = [rpc EXCEPT ![NextRpc] = new]

(* mntralloc(), for the next request.                                      *)
mntralloc(prev) ==
  LET rr == rpc[NextRpc]
      new == Tagged(rr, prev, nreq + nflush + 1)
  IN  /\ nrpc' = IF free # <<>> THEN nrpc ELSE nrpc + 1
      /\ free' = IF free # <<>> THEN Tail(free) ELSE free
      /\ tagmask' = IF new.owntag THEN tagmask \cup {new.tag}
                    ELSE IF rr.owntag THEN tagmask \ {rr.tag} ELSE tagmask
      /\ rpc' = [rpc EXCEPT ![NextRpc] = new]

(* mntfree(), of a series whose Mntrpcs are now as rs has them: tagnext's  *)
(* go first; an Mntrpc keeps the tag it owns.                              *)
mntfree(s, rs) ==
  /\ free' = free \o (IF s = <<>> THEN s ELSE Append(Tail(s), Head(s)))
  /\ rpc' = [r \in Rpc |-> IF r \in ToSet(s)
                           THEN [Fresh EXCEPT !.tag = rs[r].tag, !.owntag = rs[r].owntag]
                           ELSE rs[r]]

(* mntqrm(): done, one way or the other.                                   *)
mntqrm(s) == queue' = SelectSeq(queue, LAMBDA r : r \notin s)
Done(s) == [r \in Rpc |-> IF r \in s THEN [rpc[r] EXCEPT !.done = TRUE] ELSE rpc[r]]
-----------------------------------------------------------------------------
(* mntwalking(), mntstating(), mntrdwring() ...: another request of a      *)
(* series, mntralloc() and the part of mountrpcreq() under lock(mnt).      *)
request(p) ==
  /\ pc[p] \in {"idle", "sent"} /\ Len(series[p]) < MaxSeries
  /\ nreq < Len(Callers) /\ p \in Callers[nreq + 1]
  /\ nreq' = nreq + 1
  /\ mntralloc(IF series[p] = <<>> THEN nil ELSE Last(series[p]))
  /\ queue' = Append(queue, NextRpc)
  /\ series' = [series EXCEPT ![p] = Append(@, NextRpc)]
  /\ pos' = [pos EXCEPT ![p] = Len(series[p]) + 1]
  /\ Go(p, "write")
  /\ UNCHANGED <<rip, flush, err, srv, wire, hungup, nflush>>

Sent(p) == IF flush[p] = nil THEN "sent" ELSE "gate"

(* ... the request goes out.  qbwrite() puts it on the queue of the        *)
(* connection and may then sleep until that is no longer full.             *)
mountrpcreq(p) ==
  /\ At(p, "write") /\ ~hungup
  /\ srv' = Append(srv, [tag |-> rpc[Cur(p)].tag, id |-> rpc[Cur(p)].id,
                         old |-> IF flush[p] = nil THEN nil ELSE rpc[series[p][pos[p]]].tag])
  /\ \/ Go(p, Sent(p))
     \/ "write" \in May /\ Go(p, "flow")
  /\ UNCHANGED <<mnt, alloc, rpc, call, wire, hungup, nreq, nflush>>

(* ... the queue has room again.                                           *)
flowed(p) ==
  /\ At(p, "flow")
  /\ Go(p, Sent(p))
  /\ UNCHANGED <<mnt, alloc, rpc, call, conn>>

(* The write failed: off the queue, where mntqrm() panics if somebody was  *)
(* given a reply for it, and mntreqing() frees it.  The rest of the series *)
(* is aborted; a flush that fails is ignored.                              *)
WriteError(p, e) ==
  IF rpc[Cur(p)].done
  THEN Go(p, "panic") /\ UNCHANGED <<queue, rpc, free, call>>
  ELSE /\ mntqrm({Cur(p)})
       /\ mntfree(<<Cur(p)>>, Done({Cur(p)}))
       /\ IF flush[p] # nil
          THEN /\ flush' = [flush EXCEPT ![p] = nil]
               /\ pos' = [pos EXCEPT ![p] = @ + 1]
               /\ Go(p, "abort")
               /\ UNCHANGED <<series, err>>
          ELSE /\ series' = [series EXCEPT ![p] = Front(@)]
               /\ pos' = [pos EXCEPT ![p] = 1]
               /\ err' = [err EXCEPT ![p] = IF Len(series[p]) = 1 THEN "none" ELSE e]
               /\ Go(p, IF Len(series[p]) = 1 THEN "idle" ELSE "abort")
               /\ UNCHANGED flush

(* ... because the connection is gone.                                     *)
mountrpcreqFails(p) ==
  /\ At(p, "write") /\ hungup
  /\ WriteError(p, "Emountrpc")
  /\ UNCHANGED <<rip, nrpc, tagmask, conn>>

(* The tags process p was waiting for: of its request and, if that is a    *)
(* Tflush, of the one that it flushes.                                     *)
Awaited(p) == {rpc[Cur(p)].tag, rpc[series[p][pos[p]]].tag}

(* ... because of a note, although the server will see the request.        *)
writeNoted(p) ==
  /\ At(p, "flow")
  /\ WriteError(p, "Eintr")
  /\ unflushed' = unflushed \cup Awaited(p)
  /\ UNCHANGED <<rip, nrpc, tagmask, conn>>

-----------------------------------------------------------------------------
(* mntwalked(), mntstated() ...: mountrpcrep() for the series, from its    *)
(* first request: "gate readers onto the mount point one at a time".       *)
gate(p) ==
  /\ pc[p] \in {"sent", "gate"} \/ (At(p, "woken") /\ ~rpc[Cur(p)].done)
  /\ pos' = [pos EXCEPT ![p] = IF At(p, "sent") THEN 1 ELSE @]
  /\ rip' = IF rip = nil THEN p ELSE rip
  /\ Go(p, IF rip = nil THEN "read" ELSE "sleep")
  /\ UNCHANGED <<queue, alloc, rpc, series, flush, err, conn>>

rpcattn(r) == rpc[r].done \/ rip = nil

(* ... sleep(&r->r, rpcattn, r).                                           *)
sleep(p) ==
  /\ At(p, "sleep")
  /\ Go(p, IF rpcattn(Cur(p)) THEN "woken" ELSE "asleep")
  /\ UNCHANGED <<mnt, alloc, rpc, call, conn>>

Sleepers(r) == {p \in Proc : At(p, "asleep") /\ Cur(p) = r}
Wake(s) == pc' = [p \in Proc |-> IF p \in s THEN "woken" ELSE pc[p]]

(* Fault seeded to test GoesOn: whoever gets a reply is not told.          *)
mountmuxSilent(p) ==
  LET rep == Head(wire)
      q == SelectInSeq(queue, LAMBDA r : rpc[r].tag = rep.tag)
  IN  /\ At(p, "read") /\ ~rpc[Cur(p)].done /\ wire # <<>>
      /\ wire' = Tail(wire)
      /\ IF q = 0
         THEN UNCHANGED <<queue, rpc>>
         ELSE /\ mntqrm({queue[q]})
              /\ rpc' = [rpc EXCEPT ![queue[q]].done = TRUE, ![queue[q]].reply = rep]
      /\ UNCHANGED <<rip, alloc, call, srv, hungup, nreq, nflush, pc>>

(* Fault seeded to test RepliesMatch: the last request with the tag of the *)
(* reply is taken to be the one that is answered.                          *)
mountmuxLast(p) ==
  LET rep == Head(wire)
      q == SelectLastInSeq(queue, LAMBDA r : rpc[r].tag = rep.tag)
  IN  /\ At(p, "read") /\ ~rpc[Cur(p)].done /\ wire # <<>>
      /\ wire' = Tail(wire)
      /\ IF q = 0
         THEN UNCHANGED <<queue, rpc, pc>>
         ELSE /\ mntqrm({queue[q]})
              /\ rpc' = [rpc EXCEPT ![queue[q]].done = TRUE, ![queue[q]].reply = rep]
              /\ Wake(Sleepers(queue[q]))
      /\ UNCHANGED <<rip, alloc, call, srv, hungup, nreq, nflush>>

(* ... the reader reads a reply, mntrpcread(), and gives it to the first   *)
(* request on the queue with its tag, mountmux(); it goes on until it got  *)
(* its own.                                                                *)
mountmux(p) ==
  LET rep == Head(wire)
      q == SelectInSeq(queue, LAMBDA r : rpc[r].tag = rep.tag)
  IN  /\ At(p, "read") /\ ~rpc[Cur(p)].done /\ wire # <<>>
      /\ wire' = Tail(wire)
      /\ IF q = 0
         THEN UNCHANGED <<queue, rpc, pc>>
         ELSE /\ mntqrm({queue[q]})
              /\ rpc' = [rpc EXCEPT ![queue[q]].done = TRUE, ![queue[q]].reply = rep]
              /\ Wake(Sleepers(queue[q]))
      /\ UNCHANGED <<rip, alloc, call, srv, hungup, nreq, nflush>>

(* An error raised in mountrpcrep() brings the process to mntabort() for   *)
(* its whole series; there it is ignored and the next member follows.      *)
Error(p, e) ==
  /\ err' = [err EXCEPT ![p] = IF @ = "none" THEN e ELSE @]
  /\ pos' = [pos EXCEPT ![p] = IF flush[p] # nil THEN @ ELSE IF err[p] = "none" THEN 1 ELSE @ + 1]
AfterError(p) == IF flush[p] # nil THEN "flushed" ELSE "abort"

(* ... an error takes the reader out.  "Callers assume upon errors or      *)
(* returns that the rpc is no longer in the queue; make it so."            *)
ReadError(p, e) ==
  /\ At(p, "read") /\ ~rpc[Cur(p)].done
  /\ Error(p, e)
  /\ mntqrm({Cur(p)})
  /\ rpc' = Done({Cur(p)})
  /\ Go(p, "fail")
  /\ UNCHANGED <<rip, alloc, series, flush, conn>>

(* ... the connection is gone.                                             *)
readFails(p) == hungup /\ wire = <<>> /\ ReadError(p, "Emountrpc")

(* ... a note: done is set, so that mntabort() will not flush the request. *)
readNoted(p) ==
  /\ "read" \in May
  /\ ReadError(p, "Eintr")
  /\ unflushed' = unflushed \cup Awaited(p)

(* Fault seeded to test GoesOn: the reading is not handed over.            *)
mntgateQuiet(p) ==
  /\ At(p, "fail") \/ (At(p, "read") /\ rpc[Cur(p)].done)
  /\ rip' = nil
  /\ Go(p, IF At(p, "read") THEN "done" ELSE AfterError(p))
  /\ UNCHANGED <<queue, alloc, rpc, call, conn>>

(* mntgate(): the first on the queue whose process is asleep will read.    *)
mntgate(p) ==
  LET i == SelectInSeq(queue, LAMBDA r : Sleepers(r) # {})
      s == IF i = 0 THEN {} ELSE Sleepers(queue[i])
  IN  /\ At(p, "fail") \/ (At(p, "read") /\ rpc[Cur(p)].done)
      /\ rip' = nil
      /\ pc' = [o \in Proc |-> IF o = p THEN (IF At(p, "read") THEN "done" ELSE AfterError(p))
                               ELSE IF o \in s THEN "woken" ELSE pc[o]]
      /\ UNCHANGED <<queue, alloc, rpc, call, conn>>

(* A note while waiting in sleep(), or after wakeup() and before the       *)
(* process ran: the request stays on the queue, and if it was to be the    *)
(* next reader nobody is told.  In mntabort() the note ends the wait.      *)
interrupted(p) ==
  /\ pc[p] \in {"sleep", "asleep", "woken"} /\ "sleep" \in May
  /\ Error(p, "Eintr")
  /\ Go(p, AfterError(p))
  /\ unflushed' = IF err[p] = "none" \/ rpc[Cur(p)].done THEN unflushed
                  ELSE unflushed \cup Awaited(p)
  /\ UNCHANGED <<mnt, alloc, rpc, series, flush, conn>>
-----------------------------------------------------------------------------
(* Done: the process woke up with the reply there or read it itself.       *)
Replied(p) == At(p, "done") \/ (At(p, "woken") /\ rpc[Cur(p)].done)

(* "if there's another with the same tag, pass the tag ownership to it".   *)
PassTag(p) ==
  IF /\ flush[p] = nil /\ pos[p] < Len(series[p])
     /\ rpc[Cur(p)].owntag
     /\ rpc[series[p][pos[p] + 1]].tag = rpc[Cur(p)].tag
  THEN [rpc EXCEPT ![Cur(p)].owntag = FALSE, ![series[p][pos[p] + 1]].owntag = TRUE]
  ELSE rpc

(* The end of mountrpcrep() and its caller: on to the next reply of the    *)
(* series, or all is set free, or an error aborts the series.              *)
replied(p) ==
  /\ Replied(p) /\ flush[p] = nil /\ err[p] = "none"
  /\ IF rpc[Cur(p)].reply.ok
     THEN IF pos[p] < Len(series[p])
          THEN /\ rpc' = PassTag(p)
               /\ pos' = [pos EXCEPT ![p] = @ + 1]
               /\ Go(p, "gate")
               /\ UNCHANGED <<free, series, err>>
          ELSE /\ mntfree(series[p], PassTag(p))
               /\ series' = [series EXCEPT ![p] = <<>>]
               /\ pos' = [pos EXCEPT ![p] = 1]
               /\ Go(p, "idle")
               /\ UNCHANGED err
     ELSE /\ rpc' = PassTag(p)
          /\ Error(p, "Rerror")
          /\ Go(p, "abort")
          /\ UNCHANGED <<free, series>>
  /\ UNCHANGED <<mnt, nrpc, tagmask, flush, conn>>

(* mntabort(), the wait for one of the series is over.                     *)
waited(p) ==
  /\ Replied(p) /\ flush[p] = nil /\ err[p] # "none"
  /\ rpc' = PassTag(p)
  /\ pos' = [pos EXCEPT ![p] = @ + 1]
  /\ Go(p, "abort")
  /\ UNCHANGED <<mnt, alloc, series, flush, err, conn>>

(* mntabort(), the wait for a flush failed, and fr->done is looked at      *)
(* before mntqrm() has the lock.                                           *)
flushFails(p) ==
  /\ At(p, "flushed")
  /\ Go(p, IF rpc[flush[p]].done THEN "done" ELSE "unqueue")
  /\ UNCHANGED <<mnt, alloc, rpc, call, conn>>

(* ... a flush was answered or failed.                                     *)
flushed(p) ==
  /\ flush[p] # nil
  /\ \/ Replied(p) /\ UNCHANGED queue
     \/ At(p, "unqueue") /\ ~rpc[flush[p]].done /\ mntqrm({flush[p]})
  /\ mntfree(<<flush[p]>>, rpc)
  /\ flush' = [flush EXCEPT ![p] = nil]
  /\ pos' = [pos EXCEPT ![p] = @ + 1]
  /\ Go(p, "abort")
  /\ UNCHANGED <<rip, nrpc, tagmask, series, err, conn>>

(* ... "mntqrm: already done".                                             *)
flushedLate(p) ==
  /\ At(p, "unqueue") /\ rpc[flush[p]].done
  /\ Go(p, "panic")
  /\ UNCHANGED <<mnt, alloc, rpc, call, conn>>

(* The members of the series from the current one on that are not done.    *)
Undone(p) == {i \in pos[p]..Len(series[p]) : ~rpc[series[p][i]].done}

(* mntabort(): "we must wait for any RPC not yet done".                    *)
abortWait(p) ==
  /\ At(p, "abort") /\ Undone(p) # {} /\ err[p] # "Eintr"
  /\ pos' = [pos EXCEPT ![p] = Min(Undone(p))]
  /\ Go(p, "gate")
  /\ UNCHANGED <<mnt, alloc, rpc, series, flush, err, conn>>

(* mntabort(), interrupted: a Tflush, mntflushalloc() and mountrpcreq().   *)
mntflushalloc(p) ==
  /\ At(p, "abort") /\ Undone(p) # {} /\ err[p] = "Eintr"
  /\ mntralloc(nil)
  /\ nflush' = nflush + 1
  /\ queue' = Append(queue, NextRpc)
  /\ flush' = [flush EXCEPT ![p] = NextRpc]
  /\ pos' = [pos EXCEPT ![p] = Min(Undone(p))]
  /\ Go(p, "write")
  /\ UNCHANGED <<rip, series, err, srv, wire, hungup, nreq>>

(* Fault seeded to test QueueExact: what was not answered stays queued.    *)
mntabortKeeps(p) ==
  /\ At(p, "abort") /\ Undone(p) = {}
  /\ mntfree(series[p], rpc)
  /\ series' = [series EXCEPT ![p] = <<>>]
  /\ pos' = [pos EXCEPT ![p] = 1]
  /\ err' = [err EXCEPT ![p] = "none"]
  /\ Go(p, "idle")
  /\ UNCHANGED <<mnt, nrpc, tagmask, flush, conn>>

(* A member of the series is queued and will not be taken off the queue:   *)
(* setting it free is a panic, or a Mntrpc that is free and queued.        *)
Abandons(p) == err[p] # "Eintr" /\ \E i \in 1..Len(series[p]) : ~rpc[series[p][i]].done

mntabortQueued(p) ==
  /\ At(p, "abort") /\ Undone(p) = {} /\ Abandons(p)
  /\ Go(p, "panic")
  /\ UNCHANGED <<mnt, alloc, rpc, call, conn>>

(* mntabort(): "either flushed everything or failed: game over".           *)
mntabort(p) ==
  /\ At(p, "abort") /\ Undone(p) = {} /\ ~Abandons(p)
  /\ mntqrm({r \in ToSet(series[p]) : ~rpc[r].done})
  /\ mntfree(series[p], rpc)
  /\ series' = [series EXCEPT ![p] = <<>>]
  /\ pos' = [pos EXCEPT ![p] = 1]
  /\ err' = [err EXCEPT ![p] = "none"]
  /\ Go(p, "idle")
  /\ UNCHANGED <<rip, nrpc, tagmask, flush, conn>>

(* mntversion() of another connection borrows an Mntrpc without a tag.     *)
mntversion ==
  /\ "version" \in May /\ free # <<>> /\ nreq < Len(Callers)
  /\ rpc' = [rpc EXCEPT ![Head(free)].owntag = FALSE]
  /\ free' = Append(Tail(free), Head(free))
  /\ UNCHANGED <<mnt, nrpc, tagmask, call, pc, conn>>
-----------------------------------------------------------------------------
(* The server answers a request, well or with Rerror, or a flush.          *)
serve ==
  \E i \in 1..Len(srv) :
    LET m == srv[i]
    IN  /\ \A j \in 1..(i - 1) : srv[j].tag # m.tag
        /\ srv' = IF m.old = nil THEN RemoveAt(srv, i)
                  ELSE SelectSeq(SubSeq(srv, 1, i - 1), LAMBDA x : x.tag # m.old)
                         \o SubSeq(srv, i + 1, Len(srv))
        /\ \E ok \in (IF m.old = nil /\ "Rerror" \in May THEN BOOLEAN ELSE {TRUE}) :
             wire' = Append(wire, [tag |-> m.tag, id |-> m.id, ok |-> ok])
        /\ UNCHANGED <<mnt, alloc, rpc, call, pc, hungup, nreq, nflush>>

(* The connection breaks.                                                  *)
hangup ==
  /\ "hangup" \in May /\ ~hungup /\ hungup' = TRUE
  /\ srv' = <<>>
  /\ UNCHANGED <<mnt, alloc, rpc, call, pc, wire, nreq, nflush>>
-----------------------------------------------------------------------------
(* What a process does by itself once it made a request.                   *)
Step(p) ==
  \/ mountrpcreq(p) \/ mountrpcreqFails(p) \/ flowed(p)
  \/ gate(p) \/ sleep(p) \/ mountmux(p) \/ readFails(p) \/ mntgate(p)
  \/ replied(p) \/ waited(p) \/ flushFails(p) \/ flushed(p) \/ flushedLate(p)
  \/ abortWait(p) \/ mntflushalloc(p) \/ mntabortQueued(p) \/ mntabort(p)

Noted(p) ==
  /\ notes < MaxNotes /\ notes' = notes + 1
  /\ writeNoted(p) \/ readNoted(p) \/ interrupted(p)
  /\ unled' = (unled \/ (At(p, "woken") /\ rip = nil /\ ~rpc[Cur(p)].done))

Panicked == \E p \in Proc : At(p, "panic")
Goes(p) == ~Panicked /\ Step(p) /\ UNCHANGED history
Serves == ~Panicked /\ serve /\ UNCHANGED history

Next ==
  \/ \E p \in Proc : Goes(p)
  \/ Serves
  \/ ~Panicked /\ \E p \in Proc : Noted(p)
  \/ /\ ~Panicked /\ (mntversion \/ hangup \/ \E p \in Proc : request(p))
     /\ UNCHANGED history

Spec == Init /\ [][Next]_vars
-----------------------------------------------------------------------------
TypeOK ==
  /\ queue \in Seq(Rpc) /\ free \in Seq(Rpc)
  /\ rip \in Proc \cup {nil}
  /\ nrpc \in 0..NRpc /\ tagmask \subseteq Tag
  /\ \A r \in Rpc : rpc[r].tag \in Tag
  /\ \A p \in Proc : series[p] \in Seq(Rpc) /\ pos[p] \in 1..(MaxSeries + 1)

(* The Mntrpcs in use.                                                     *)
InUse == UNION {ToSet(series[p]) : p \in Proc} \cup ({flush[p] : p \in Proc} \ {nil})

(* The reply a caller goes on with answers its request, although one       *)
(* process reads for the others and tags are shared by a series, passed on *)
(* in it, kept with free Mntrpcs and used again after flushes.  Only on a  *)
(* tag whose request a note made its caller give up without a flush -      *)
(* while it wrote, while it read for the others, or once more while it     *)
(* waited in mntabort() - can the reply be that of an earlier request with *)
(* the tag.  Notes that meet a process asleep, the first time, do no harm. *)
RepliesMatch ==
  \A p \in Proc :
    LET r == rpc[Cur(p)]
    IN  Replied(p) /\ r.reply # nil =>
          \/ r.reply.id = r.id
          \/ r.reply.id < r.id /\ r.tag \in unflushed

(* The queue holds the requests without a reply and no others, each once,  *)
(* and none that was set free; no tag has two owners.  The panics of       *)
(* mountrpcreq() and mntralloc() are out of reach, those of mntqrm() and   *)
(* mntfree() ("already done", still linked) are not: it takes a request    *)
(* that was given up as above or, once the connection is gone, a late      *)
(* reply to one whose flush could not be sent.                             *)
QueueExact ==
  /\ IsInjective(queue) /\ IsInjective(free)
  /\ ToSet(queue) = {r \in InUse : ~rpc[r].done}
  /\ ToSet(free) = (1..nrpc) \ InUse
  /\ \A r, s \in 1..nrpc : rpc[r].owntag /\ rpc[s].owntag /\ rpc[r].tag = rpc[s].tag => r = s
  /\ Panicked => unflushed # {} \/ hungup

(* Callers sleep and nobody reads: the process that mntgate() woke to read *)
(* took a note instead, and left without reading.                          *)
Unread == unled /\ rip = nil /\ \A p \in Proc : pc[p] \in {"idle", "asleep"}

(* A call has not ended.                                                   *)
Stuck == ~Panicked /\ ~Unread /\ \E p \in Proc : ~At(p, "idle")
=============================================================================
