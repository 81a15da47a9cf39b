-------------------------------- MODULE Qio ---------------------------------
(***************************************************************************)
(* The I/O queues of src/port/qio.c: blocking writers and readers with     *)
(* flow control, the operations used at interrupt level, hang-up, close,   *)
(* reopening and flushing.                                                 *)
(*                                                                         *)
(* What runs between ilock(q) and iunlock(q) is one step.  sleep() and     *)
(* wakeup() are atomic here; module Rendez is about them.  A byte is the   *)
(* number it was given when it was written; a block is a sequence of       *)
(* bytes, and every block counts 1 in q->len (BALLOC), however few bytes   *)
(* it has.  A driver's kick routine is outside: it uses the interrupt      *)
(* level operations, which may happen at any time.                         *)
(***************************************************************************)
EXTENDS Naturals, SequencesExt, FiniteSetsExt

CONSTANTS
  Reader, Writer,   \* processes
  Agent,            \* drivers, protocols, ctl writers: they take neither qlock
  nil,
  inilim,           \* q->inilim, in blocks
  Limits,           \* what qsetlimit() is called with
  PrintLimit,       \* qiwrite()'s own limit, in bytes
  Uses              \* the uses of a queue: by whom (who), the operations (ops), what
                    \* qopen() is given, sets of "Qmsg" and "Qcoalesce" (modes), the
                    \* sizes of writes and reads, and the bound on blocks written (max)

ASSUME ConstantsOK ==
  /\ {inilim, PrintLimit} \subseteq Nat
  /\ Limits \subseteq Nat
  /\ \A u \in Uses :
       /\ u.writes \subseteq Nat /\ u.reads \subseteq Nat \ {0} /\ u.max \in Nat
       /\ u.modes \subseteq SUBSET {"Qmsg", "Qcoalesce"}
  /\ nil \notin Reader \cup Writer \cup Agent
  /\ Reader \cap Writer = {} /\ Reader \cap Agent = {} /\ Writer \cap Agent = {}

(* No queue of the kernel is both read by processes and emptied by a       *)
(* driver or a protocol.                                                   *)
ASSUME ReadOneWay ==
  \A u \in Uses : "qread" \in u.ops => u.ops \cap {"qget", "qconsume", "qdiscard"} = {}

VARIABLES
  use,      \* the use of this queue
  q,        \* the blocks q->bfirst .. q->blast
  len,      \* q->len
  dlen,     \* q->dlen
  limit,    \* q->limit
  qstate,   \* q->state: those of Qstarve, Qflow and Qclosed that are set
  noblock,  \* q->noblock
  mode,     \* q->state: those of Qmsg and Qcoalesce that are set
  rlock,    \* the holder of q->rlock
  wlock,    \* the holder of q->wlock
  rr,       \* the process asleep on q->rr
  wr,       \* the process asleep on q->wr
  pc,       \* where each actor is
  hand,     \* the bytes qread() took off the queue and is copying out
  left,     \* ... and those it took that do not fit in the read
  sent,     \* how many bytes were written
  msgs,     \* the blocks written
  recv      \* the bytes delivered

Actor == Reader \cup Writer \cup Agent
buf == <<q, len, dlen, qstate>>
conf == <<use, limit, noblock, mode>>
locks == <<rlock, wlock>>
sleepers == <<rr, wr>>
copy == <<hand, left>>
written == <<sent, msgs>>
vars == <<buf, conf, locks, sleepers, pc, copy, written, recv>>

(* qopen().                                                                *)
Init ==
  /\ use \in Uses
  /\ q = <<>> /\ len = 0 /\ dlen = 0
  /\ qstate = {"Qstarve"}
  /\ limit = inilim /\ noblock = FALSE /\ mode \in use.modes
  /\ rlock = nil /\ wlock = nil
  /\ rr = nil /\ wr = nil
  /\ pc = [a \in Actor |-> "idle"]
  /\ hand = <<>> /\ left = <<>>
  /\ sent = 0 /\ msgs = <<>> /\ recv = <<>>

At(a, here) == pc[a] = here
Go(a, there) == pc' = [pc EXCEPT ![a] = there]
Calls(a, op) == At(a, "idle") /\ a \in use.who /\ op \in use.ops
Closed == "Qclosed" \in qstate
notempty == Closed \/ q # <<>>
qnotfull == len < limit \/ Closed
Bytes(s) == FlattenSeq(s)
First(s, k) == SubSeq(s, 1, k)
After(s, k) == SubSeq(s, k + 1, Len(s))
-----------------------------------------------------------------------------
(* A new block of n bytes is linked at the end.                            *)
Enqueue(n) ==
  LET b == [i \in 1..n |-> sent + i]
  IN  /\ Len(msgs) < use.max
      /\ q' = Append(q, b)
      /\ len' = len + 1
      /\ dlen' = dlen + n
      /\ sent' = sent + n
      /\ msgs' = Append(msgs, b)

(* "if writer flow controlled, restart", when the operation leaves l in    *)
(* the queue.                                                              *)
Restarts(l) == "Qflow" \in qstate /\ l < limit \div 2

(* s is left on the queue, k blocks and n bytes less than before; the      *)
(* operation goes on to wake the writer up, or to done.                    *)
Dequeue(a, s, k, n, done) ==
  /\ q' = s
  /\ len' = len - k
  /\ dlen' = dlen - n
  /\ qstate' = IF Restarts(len - k) THEN qstate \ {"Qflow"} ELSE qstate
  /\ Go(a, IF Restarts(len - k) THEN "wakeW" ELSE done)

(* Where an actor goes after wakeup(&q->rr): a writer is in its flow       *)
(* control loop, qclose() and qhangup() have q->wr to wake up.             *)
AfterWakeR(a) == IF a \in Writer THEN "flow" ELSE IF At(a, "wakeRW") THEN "wakeW" ELSE "idle"

(* wakeup(&q->rr): the sleeper, if any, is back in the loop of qwait().    *)
wakeupR(a) ==
  /\ pc[a] \in {"wakeR", "wakeRW"}
  /\ rr' = nil
  /\ pc' = [b \in Actor |-> IF b = a THEN AfterWakeR(a) ELSE IF b = rr THEN "qwait" ELSE pc[b]]
  /\ UNCHANGED <<buf, conf, locks, wr, copy, written, recv>>

(* wakeup(&q->wr), the last thing its callers do; a reader, which comes    *)
(* from qwakeup_iunlock(), has its qlock to give up.                       *)
wakeupW(a) ==
  /\ At(a, "wakeW")
  /\ wr' = nil
  /\ pc' = [b \in Actor |-> IF b = a THEN "idle" ELSE IF b = wr THEN "flow" ELSE pc[b]]
  /\ rlock' = IF a \in Reader THEN nil ELSE rlock
  /\ UNCHANGED <<buf, conf, wlock, rr, copy, written, recv>>
-----------------------------------------------------------------------------
(* qwrite() of one block, qbwrite(): qlock(&q->wlock).                     *)
qbwrite(w) ==
  /\ Calls(w, "qwrite")
  /\ wlock = nil /\ wlock' = w
  /\ Go(w, "write")
  /\ UNCHANGED <<buf, conf, rlock, sleepers, copy, written, recv>>

(* Fault seeded to test NoLostReader: Qstarve, a request to be woken up,   *)
(* is left for the next write.                                             *)
qbwriteBlockLazy(w) ==
  /\ At(w, "write")
  /\ \/ /\ Closed \/ (len >= limit /\ noblock)
        /\ wlock' = nil /\ Go(w, "idle")
        /\ UNCHANGED <<buf, written>>
     \/ /\ ~Closed /\ ~(len >= limit /\ noblock)
        /\ \E n \in use.writes : Enqueue(n)
        /\ qstate' = IF q = <<>> THEN qstate ELSE qstate \ {"Qstarve"}
        /\ Go(w, IF qstate' # qstate THEN "wakeR" ELSE "flow")
        /\ UNCHANGED wlock
  /\ UNCHANGED <<conf, rlock, sleepers, copy, recv>>

(* ... under ilock: fail, drop the block or queue it.                      *)
qbwriteBlock(w) ==
  /\ At(w, "write")
  /\ \/ /\ Closed \/ (len >= limit /\ noblock)
        /\ wlock' = nil /\ Go(w, "idle")
        /\ UNCHANGED <<buf, written>>
     \/ /\ ~Closed /\ ~(len >= limit /\ noblock)
        /\ \E n \in use.writes : Enqueue(n)
        /\ qstate' = qstate \ {"Qstarve"}
        /\ Go(w, IF "Qstarve" \in qstate THEN "wakeR" ELSE "flow")
        /\ UNCHANGED wlock
  /\ UNCHANGED <<conf, rlock, sleepers, copy, recv>>

(* ... the test of the flow control loop, made without the lock.           *)
qbwriteTest(w) ==
  /\ At(w, "flow")
  /\ \/ /\ noblock \/ qnotfull
        /\ wlock' = nil /\ Go(w, "idle")
     \/ /\ ~noblock /\ ~qnotfull
        /\ Go(w, "setflow") /\ UNCHANGED wlock
  /\ UNCHANGED <<buf, conf, rlock, sleepers, copy, written, recv>>

(* Fault seeded to test NoStall: the writer sleeps without saying so.      *)
qbwriteFlowSilent(w) ==
  /\ At(w, "setflow")
  /\ Go(w, "sleep")
  /\ UNCHANGED <<buf, conf, locks, sleepers, copy, written, recv>>

(* ... q->state |= Qflow, under ilock.                                     *)
qbwriteFlow(w) ==
  /\ At(w, "setflow")
  /\ qstate' = qstate \cup {"Qflow"}
  /\ Go(w, "sleep")
  /\ UNCHANGED <<q, len, dlen, conf, locks, sleepers, copy, written, recv>>

(* ... sleep(&q->wr, qnotfull, q).                                         *)
qbwriteSleep(w) ==
  /\ At(w, "sleep")
  /\ \/ qnotfull /\ Go(w, "flow") /\ UNCHANGED wr
     \/ ~qnotfull /\ wr' = w /\ Go(w, "asleep")
  /\ UNCHANGED <<buf, conf, locks, rr, copy, written, recv>>

(* A note takes the writer out of sleep(), "after the data has been        *)
(* queued": qbwrite() gives its lock up and fails.                         *)
qbwriteIntr(w) ==
  /\ "note" \in use.ops /\ pc[w] \in {"sleep", "asleep"}
  /\ wr' = IF wr = w THEN nil ELSE wr
  /\ wlock' = nil /\ Go(w, "idle")
  /\ UNCHANGED <<buf, conf, rlock, rr, copy, written, recv>>
-----------------------------------------------------------------------------
(* qread() and qbread(): qlock(&q->rlock).                                 *)
qread(r) ==
  /\ Calls(r, "qread")
  /\ rlock = nil /\ rlock' = r
  /\ Go(r, "qwait")
  /\ UNCHANGED <<buf, conf, wlock, sleepers, copy, written, recv>>

(* The number of leading blocks of length 0.                               *)
Zeros == Min({i \in 1..(Len(q) + 1) : i <= Len(q) => q[i] # <<>>}) - 1

(* "when coalescing, 0 length blocks just go away".                        *)
Skipped == IF "Qcoalesce" \in mode THEN Zeros ELSE 0

(* How many of the blocks s a read of n bytes takes: the first one and, if *)
(* coalescing, as many following ones as completely fit in the read.       *)
Taken(s, n) ==
  IF "Qcoalesce" \in mode
  THEN Max({1} \cup {k \in 1..Len(s) : Len(Bytes(First(s, k))) <= n})
  ELSE 1

(* qwait(), with nothing left to read: end of file or error if the queue   *)
(* is closed, else ask to be woken up and get ready to sleep.              *)
qwait(r) ==
  /\ At(r, "qwait") /\ Len(q) = Skipped
  /\ q' = <<>> /\ len' = len - Skipped /\ UNCHANGED dlen
  /\ \/ /\ Closed
        /\ rlock' = nil /\ Go(r, "idle")
        /\ UNCHANGED qstate
     \/ /\ ~Closed
        /\ qstate' = qstate \cup {"Qstarve"}
        /\ Go(r, "sleep")
        /\ UNCHANGED rlock
  /\ UNCHANGED <<conf, wlock, sleepers, copy, written, recv>>

(* Fault seeded to test Delivered: the condition is tested before the      *)
(* sleep, not in it.                                                       *)
qwaitSleepBlind(r) ==
  /\ At(r, "sleep")
  /\ rr' = r /\ Go(r, "asleep")
  /\ UNCHANGED <<buf, conf, locks, wr, copy, written, recv>>

(* ... sleep(&q->rr, notempty, q).                                         *)
qwaitSleep(r) ==
  /\ At(r, "sleep")
  /\ \/ notempty /\ Go(r, "qwait") /\ UNCHANGED rr
     \/ ~notempty /\ rr' = r /\ Go(r, "asleep")
  /\ UNCHANGED <<buf, conf, locks, wr, copy, written, recv>>

(* A note takes the reader out of sleep(): its lock is given up.           *)
qwaitIntr(r) ==
  /\ "note" \in use.ops /\ pc[r] \in {"sleep", "asleep"}
  /\ rr' = IF rr = r THEN nil ELSE rr
  /\ rlock' = nil /\ Go(r, "idle")
  /\ UNCHANGED <<buf, conf, wlock, wr, copy, written, recv>>

(* qread(), first part under ilock: blocks are removed.  bl2mem() copies   *)
(* what fits "outside of the ilock".                                       *)
qreadRemove(r) ==
  /\ At(r, "qwait") /\ Len(q) > Skipped
  /\ \E n \in use.reads :
       LET s == After(q, Skipped)
           k == Taken(s, n)
           b == Bytes(First(s, k))
       IN  /\ hand' = First(b, Min({n, Len(b)}))
           /\ left' = After(b, n)
           /\ q' = After(s, k)
           /\ len' = len - Skipped - k
           /\ dlen' = dlen - Len(b)
  /\ Go(r, "copied")
  /\ UNCHANGED <<qstate, conf, locks, sleepers, written, recv>>

(* Fault seeded to test Accounting: the bytes put back are not counted.    *)
qreadDoneUncounted(r) ==
  LET back == left # <<>> /\ "Qmsg" \notin mode
  IN  /\ At(r, "copied")
      /\ q' = IF back THEN <<left>> \o q ELSE q
      /\ len' = IF back THEN len + 1 ELSE len
      /\ dlen' = dlen
      /\ qstate' = IF Restarts(len') THEN qstate \ {"Qflow"} ELSE qstate
      /\ Go(r, IF Restarts(len') THEN "wakeW" ELSE "idle")
      /\ rlock' = IF Restarts(len') THEN rlock ELSE nil
      /\ recv' = recv \o hand /\ hand' = <<>> /\ left' = <<>>
      /\ UNCHANGED <<conf, wlock, sleepers, written>>

(* Fault seeded to test WholeMessages: what is left of a message is read   *)
(* next.                                                                   *)
qreadDoneResumes(r) ==
  LET back == left # <<>>
  IN  /\ At(r, "copied")
      /\ q' = IF back THEN <<left>> \o q ELSE q
      /\ len' = IF back THEN len + 1 ELSE len
      /\ dlen' = IF back THEN dlen + Len(left) ELSE dlen
      /\ qstate' = IF Restarts(len') THEN qstate \ {"Qflow"} ELSE qstate
      /\ Go(r, IF Restarts(len') THEN "wakeW" ELSE "idle")
      /\ rlock' = IF Restarts(len') THEN rlock ELSE nil
      /\ recv' = recv \o hand /\ hand' = <<>> /\ left' = <<>>
      /\ UNCHANGED <<conf, wlock, sleepers, written>>

(* ... second part under ilock, qputback() and qwakeup_iunlock(): "take    *)
(* care of any left over partial block", "restart producer".  What the     *)
(* queue became in between is not looked at.                               *)
qreadDone(r) ==
  LET back == left # <<>> /\ "Qmsg" \notin mode
  IN  /\ At(r, "copied")
      /\ q' = IF back THEN <<left>> \o q ELSE q
      /\ len' = IF back THEN len + 1 ELSE len
      /\ dlen' = IF back THEN dlen + Len(left) ELSE dlen
      /\ qstate' = IF Restarts(len') THEN qstate \ {"Qflow"} ELSE qstate
      /\ Go(r, IF Restarts(len') THEN "wakeW" ELSE "idle")
      /\ rlock' = IF Restarts(len') THEN rlock ELSE nil
      /\ recv' = recv \o hand /\ hand' = <<>> /\ left' = <<>>
      /\ UNCHANGED <<conf, wlock, sleepers, written>>

(* Fault seeded to test Stream: a message that is too long for the read    *)
(* stays on the queue.                                                     *)
qbreadRepeats(r) ==
  /\ At(r, "qwait") /\ q # <<>> /\ "qbread" \in use.ops
  /\ \E n \in use.reads :
       LET b == Head(q)
           k == IF Len(b) > n THEN 0 ELSE 1
       IN  /\ Dequeue(r, IF Len(b) > n THEN q ELSE Tail(q),
                      k, IF Len(b) > n THEN 0 ELSE Len(b), "idle")
           /\ recv' = recv \o First(b, Min({n, Len(b)}))
           /\ rlock' = IF Restarts(len - k) THEN rlock ELSE nil
  /\ UNCHANGED <<conf, wlock, sleepers, copy, written>>

(* qbread(): one block, split if it is too big, all under ilock.           *)
qbread(r) ==
  /\ At(r, "qwait") /\ q # <<>> /\ "qbread" \in use.ops
  /\ \E n \in use.reads :
       LET b == Head(q)
           split == Len(b) > n /\ "Qmsg" \notin mode
           k == IF split THEN 0 ELSE 1
       IN  /\ Dequeue(r, IF split THEN <<After(b, n)>> \o Tail(q) ELSE Tail(q),
                      k, IF split THEN n ELSE Len(b), "idle")
           /\ recv' = recv \o First(b, Min({n, Len(b)}))
           /\ rlock' = IF Restarts(len - k) THEN rlock ELSE nil
  /\ UNCHANGED <<conf, wlock, sleepers, copy, written>>
-----------------------------------------------------------------------------
(* A driver or a protocol put a block in: the reader is woken up if it     *)
(* asked for it, and Qflow is set above a threshold.                       *)
Produce(a, flowat) ==
  /\ \E n \in use.writes : Enqueue(n)
  /\ qstate' = (qstate \ {"Qstarve"}) \cup (IF len + 1 >= flowat THEN {"Qflow"} ELSE {})
  /\ Go(a, IF "Qstarve" \in qstate THEN "wakeR" ELSE "idle")
  /\ UNCHANGED <<conf, locks, sleepers, copy, recv>>

(* qproduce() queues even if the queue is closed.                          *)
qproduce(a) == Calls(a, "qproduce") /\ len < limit /\ Produce(a, limit)

qproduceFull(a) ==
  /\ Calls(a, "qproduce") /\ len >= limit
  /\ qstate' = qstate \cup {"Qflow"}
  /\ UNCHANGED <<q, len, dlen, conf, locks, sleepers, pc, copy, written, recv>>

(* qpass() and qpassnolim(); a block that is refused is freed.             *)
qpass(a) == Calls(a, "qpass") /\ len < limit /\ ~Closed /\ Produce(a, limit \div 2)
qpassnolim(a) == Calls(a, "qpassnolim") /\ ~Closed /\ Produce(a, limit \div 2)

(* qiwrite(), print()'s: only its own limit counts.                        *)
qiwrite(a) ==
  /\ Calls(a, "qiwrite") /\ dlen < PrintLimit
  /\ \E n \in use.writes : Enqueue(n)
  /\ qstate' = qstate \ {"Qstarve"}
  /\ Go(a, IF "Qstarve" \in qstate THEN "wakeR" ELSE "idle")
  /\ UNCHANGED <<conf, locks, sleepers, copy, recv>>

(* qget() and qconsume() of an empty queue leave a request behind.         *)
Starve(a) ==
  /\ q' = <<>> /\ len' = len - Len(q) /\ UNCHANGED dlen
  /\ qstate' = qstate \cup {"Qstarve"}
  /\ UNCHANGED <<conf, locks, sleepers, pc, copy, written, recv>>

qget(a) ==
  /\ Calls(a, "qget")
  /\ \/ q = <<>> /\ Starve(a)
     \/ /\ q # <<>>
        /\ Dequeue(a, Tail(q), 1, Len(Head(q)), "idle")
        /\ recv' = recv \o Head(q)
        /\ UNCHANGED <<conf, locks, sleepers, copy, written>>

(* qconsume(): blocks of length 0 go away; if nothing else was there, it   *)
(* returns there and then.                                                 *)
qconsume(a) ==
  /\ Calls(a, "qconsume")
  /\ \/ Len(q) = Zeros /\ Starve(a)
     \/ /\ Len(q) > Zeros
        /\ \E n \in use.reads :
             LET s == After(q, Zeros)
                 b == Head(s)
                 whole == n >= Len(b) \/ "Qmsg" \in mode
             IN  /\ Dequeue(a, IF whole THEN Tail(s) ELSE <<After(b, n)>> \o Tail(s),
                            IF whole THEN Zeros + 1 ELSE Zeros,
                            IF whole THEN Len(b) ELSE n, "idle")
                 /\ recv' = recv \o First(b, Min({n, Len(b)}))
        /\ UNCHANGED <<conf, locks, sleepers, copy, written>>

(* qdiscard(): n bytes off the front, in whole blocks and part of one.     *)
(* Its users, TCP and the mount driver, have no message queues.            *)
qdiscard(a) ==
  /\ Calls(a, "qdiscard") /\ q # <<>> /\ "Qmsg" \notin mode
  /\ \E n \in use.reads :
       LET upto(i) == Len(Bytes(First(q, i)))
           k == Cardinality({i \in 1..Len(q) : upto(i - 1) < n /\ upto(i) <= n})
           s == After(q, k)
           m == Min({n, dlen})
       IN  /\ Dequeue(a, IF s # <<>> /\ upto(k) < m THEN <<After(Head(s), m - upto(k))>> \o Tail(s)
                         ELSE s, k, m, "idle")
           /\ recv' = recv \o First(Bytes(q), m)
  /\ UNCHANGED <<conf, locks, sleepers, copy, written>>
-----------------------------------------------------------------------------
Empty == q' = <<>> /\ len' = 0 /\ dlen' = 0

(* qclose(); both ends are woken up next.                                  *)
qclose(a) ==
  /\ Calls(a, "qclose")
  /\ Empty
  /\ qstate' = {"Qclosed"}
  /\ noblock' = FALSE
  /\ Go(a, "wakeRW")
  /\ UNCHANGED <<use, limit, mode, locks, sleepers, copy, written, recv>>

(* qhangup(): the queued blocks stay.                                      *)
qhangup(a) ==
  /\ Calls(a, "qhangup")
  /\ qstate' = qstate \cup {"Qclosed"}
  /\ Go(a, "wakeRW")
  /\ UNCHANGED <<q, len, dlen, conf, locks, sleepers, copy, written, recv>>

(* qreopen(); a reader or a writer may still be on its way out.            *)
qreopen(a) ==
  /\ Calls(a, "qreopen") /\ Closed
  /\ qstate' = (qstate \ {"Qclosed"}) \cup {"Qstarve"}
  /\ limit' = inilim
  /\ UNCHANGED <<use, q, len, dlen, noblock, mode, locks, sleepers, pc, copy, written, recv>>

(* qflush(): only the writer is woken up.  Its callers flush a queue that  *)
(* is hung up (tcpclose()) or read at interrupt level (a UART's output).   *)
qflush(a) ==
  /\ Calls(a, "qflush") /\ ("qread" \in use.ops => Closed)
  /\ Empty
  /\ Go(a, "wakeW")
  /\ UNCHANGED <<qstate, conf, locks, sleepers, copy, written, recv>>

(* qsetlimit() and qnoblock() are plain assignments: nobody is woken up.   *)
qsetlimit(a) ==
  /\ Calls(a, "qsetlimit")
  /\ limit' \in Limits
  /\ UNCHANGED <<use, buf, noblock, mode, locks, sleepers, pc, copy, written, recv>>

qnoblock(a) ==
  /\ Calls(a, "qnoblock")
  /\ noblock' \in BOOLEAN
  /\ UNCHANGED <<use, buf, limit, mode, locks, sleepers, pc, copy, written, recv>>
-----------------------------------------------------------------------------
WriterStep(w) ==
  \/ qbwrite(w) \/ qbwriteBlock(w) \/ qbwriteTest(w) \/ qbwriteFlow(w) \/ qbwriteSleep(w)
ReaderStep(r) ==
  \/ qread(r) \/ qwait(r) \/ qwaitSleep(r)
  \/ qreadRemove(r) \/ qreadDone(r) \/ qbread(r)
Interrupted(p) ==
  \/ p \in Writer /\ qbwriteIntr(p)
  \/ p \in Reader /\ qwaitIntr(p)
AgentStep(a) ==
  \/ qproduce(a) \/ qproduceFull(a) \/ qpass(a) \/ qpassnolim(a) \/ qiwrite(a)
  \/ qget(a) \/ qconsume(a) \/ qdiscard(a)
  \/ qclose(a) \/ qhangup(a) \/ qreopen(a) \/ qflush(a) \/ qsetlimit(a) \/ qnoblock(a)

Next ==
  \/ \E w \in Writer : WriterStep(w)
  \/ \E r \in Reader : ReaderStep(r)
  \/ \E p \in Reader \cup Writer : Interrupted(p)
  \/ \E a \in Agent : AgentStep(a)
  \/ \E a \in Actor : wakeupR(a) \/ wakeupW(a)

Spec == Init /\ [][Next]_vars

(* Processes and interrupt handlers run; the reading end keeps reading and *)
(* a writer finishes what it began.                                        *)
Fairness ==
  /\ \A w \in Writer : WF_vars(~At(w, "idle") /\ WriterStep(w))
  /\ \A r \in Reader : WF_vars(ReaderStep(r))
  /\ \A a \in Actor : WF_vars(wakeupR(a) \/ wakeupW(a))

FairSpec == Spec /\ Fairness
-----------------------------------------------------------------------------
(* Every variable has its type, and a process is registered as asleep on   *)
(* q->rr or q->wr just when it is asleep, with the qlock of its end held   *)
(* from entry to return.                                                   *)
TypeOK ==
  /\ q \in Seq(Seq(1..sent))
  /\ len \in Nat /\ dlen \in Nat /\ limit \in Nat
  /\ qstate \subseteq {"Qstarve", "Qflow", "Qclosed"}
  /\ noblock \in BOOLEAN /\ mode \in use.modes
  /\ \A r \in Reader : (rlock = r) = ~At(r, "idle") /\ (rr = r) = At(r, "asleep")
  /\ \A w \in Writer : (wlock = w) = ~At(w, "idle") /\ (wr = w) = At(w, "asleep")

(* q->len and q->dlen, which flow control, qlen(), qwindow() and the TCP   *)
(* window go by, are those of the blocks on the queue.                     *)
Accounting == len = Len(q) /\ dlen = Len(Bytes(q))

Waking(where) == \E a \in Actor : pc[a] \in where

(* Whoever reads sleeps only while there is nothing to read, unless a      *)
(* wakeup(&q->rr) is on its way.                                           *)
NoLostReader == rr # nil /\ notempty => Waking({"wakeR", "wakeRW"})

(* Flow control does not leave a writer asleep before an empty queue, with *)
(* nobody on the way to restart it: a reader still copying will.           *)
NoStall == wr # nil /\ q = <<>> => Waking({"wakeRW", "wakeW", "copied"})

chan == hand \o left \o Bytes(q)

(* In a message queue a read returns the beginning of a message and what   *)
(* does not fit is gone: no block on the queue is the rest of one.         *)
WholeMessages == "Qmsg" \in mode => \A i \in 1..Len(q) : q[i] \in ToSet(msgs)

(* The queue is a byte stream: in order, without duplicates, lossless      *)
(* unless it is flushed or closed or a message is cut short.               *)
Abs == INSTANCE Fifo WITH
  truncates <- "Qmsg" \in mode, drops <- use.ops \cap {"qclose", "qflush"} # {}
Stream == Abs!Spec

(* What is written is eventually read, and a writer that was stopped by    *)
(* flow control eventually goes on, if the other end keeps reading.        *)
Delivered ==
  "qread" \in use.ops =>
    /\ q # <<>> ~> q = <<>>
    /\ \A w \in Writer : At(w, "asleep") ~> At(w, "idle")
=============================================================================
