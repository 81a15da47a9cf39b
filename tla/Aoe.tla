-------------------------------- MODULE Aoe --------------------------------
(***************************************************************************)
(* The requests of the ATA-over-Ethernet driver (port/devaoe.c): one unit, *)
(* its frames, and processes that read from it.  Lengths are in sectors.   *)
(* Answers may be lost, duplicated, late and out of order; a frame with no *)
(* answer is sent again, with a new tag, by aoesweepproc.  A Srb belongs   *)
(* to the process that waits for it.  All is done with the unit locked.    *)
(***************************************************************************)
EXTENDS Integers, Sequences, FiniteSets, SequencesExt

CONSTANTS
  Proc,
  Offs,      \* the sectors at which a process reads
  Length,    \* how many it reads
  Maxframes, \* frames of the unit
  Maxbcnt,   \* sectors that a frame may ask for, at first ...
  Dbcnt,     \* ... and once jumbo frames have been lost
  MaxTag,    \* bound: tags used
  May,       \* faults: "ata" an error of the disk, "timeout" of a request,
             \* "failio" a ctl message, "jumbo" loss of large frames
  nil

VARIABLES
  d,         \* the Aoedev
  frames,    \* d->frames
  srb,       \* the Srb of each process, nil if it has none
  sent       \* the requests sent: their answers may come at any time

vars == <<d, frames, srb, sent>>

Tfree == 0
Frames == 1..Maxframes
Idle == [tag |-> Tfree, srb |-> nil, pos |-> 0, bcnt |-> 0, lba |-> 0, scnt |-> 0]

(* sent is the last component of a state of the driver: s is such a state. *)
State == [d |-> d, frames |-> frames, srb |-> srb, sent |-> sent]
becomes(s) == d' = s.d /\ frames' = s.frames /\ srb' = s.srb /\ sent' = s.sent

Init ==
  /\ d = [maxbcnt |-> Maxbcnt, maxout |-> Maxframes, nout |-> 0, up |-> TRUE,
          queue |-> <<>>, inprocess |-> nil, lasttag |-> 0]
  /\ frames = [f \in Frames |-> Idle]
  /\ srb = [p \in Proc |-> nil]
  /\ sent = {}

least(a, b) == IF a < b THEN a ELSE b

(* frameerror() and srberror()                                             *)
frameerror(s, f, e) ==
  LET p == s.frames[f].srb IN
  IF s.frames[f].tag = Tfree \/ p = nil THEN s
  ELSE [s EXCEPT !.frames[f].srb = nil, !.frames[f].tag = Tfree,
                 !.srb[p].error = e, !.srb[p].nout = @ - 1, !.d.nout = @ - 1]

(* Fault seeded to test DataExact: the tag is the number of the frame.     *)
newtagFrame(s, f) == f

newtag(s, f) == s.d.lasttag + 1

(* hset() and the bwrite of atarw() and resend(): the header of a frame.   *)
transmit(s, f) ==
  LET t == newtag(s, f)
      h == s.frames[f]
  IN [s EXCEPT !.frames[f].tag = t, !.d.lasttag = t,
               !.sent = @ \cup {[tag |-> t, lba |-> h.lba, scnt |-> h.scnt]}]

(* resend(): the header keeps its sector, whatever was answered already.   *)
resend(s, f) ==
  transmit([s EXCEPT !.frames[f].scnt = least(s.frames[f].bcnt, s.d.maxbcnt)], f)

(* atarw(): the next part of the request in process.                       *)
atarw(s, f) ==
  LET p == s.d.inprocess
      n == least(s.d.maxbcnt, s.srb[p].len)
      g == [s.frames[f] EXCEPT !.pos = s.srb[p].next, !.lba = s.srb[p].off + s.srb[p].next,
                               !.bcnt = n, !.scnt = n, !.srb = p]
  IN transmit([s EXCEPT !.frames[f] = g, !.srb[p].nout = @ + 1, !.d.nout = @ + 1,
                        !.srb[p].next = @ + n, !.srb[p].len = @ - n,
                        !.d.inprocess = IF n = s.srb[p].len THEN nil ELSE p], f)

(* freeframe() and work(): as many frames as there are and may be out.     *)
freeframes(s) == {f \in Frames : s.frames[f].tag = Tfree /\ s.d.nout < s.d.maxout}
RECURSIVE work(_)
work(s) ==
  LET f == CHOOSE f \in freeframes(s) : \A g \in freeframes(s) : f <= g IN
  CASE freeframes(s) = {} \/ (s.d.inprocess = nil /\ s.d.queue = <<>>) -> s
    [] freeframes(s) # {} /\ s.d.inprocess # nil -> work(atarw(s, f))
    [] OTHER -> work(atarw([s EXCEPT !.d.inprocess = Head(s.d.queue), !.d.queue = Tail(@)], f))

TagsLeft == d.lasttag + Maxframes <= MaxTag
-----------------------------------------------------------------------------
(* rw() and strategy()                                                     *)
rw(p, off) ==
  /\ srb[p] = nil /\ d.up /\ TagsLeft
  /\ becomes(work([State EXCEPT
       !.srb[p] = [off |-> off, len |-> Length, next |-> 0, nout |-> 0, error |-> nil,
                   data |-> [i \in 0..(Length - 1) |-> nil]],
       !.d.queue = Append(@, p)]))

(* Fault seeded to test NoDangling: what is out is not waited for.         *)
srbreadyEarly(p) == srb[p] # nil /\ (srb[p].error # nil \/ srb[p].len = 0)

(* srbready(), looked at by the sleeping process when it is woken and when *)
(* a note interrupts it; then the Srb is freed.                            *)
srbready(p) == srb[p] # nil /\ (srb[p].error # nil \/ (srb[p].nout = 0 /\ srb[p].len = 0))
done(p) ==
  /\ srbready(p)
  /\ srb' = [srb EXCEPT ![p] = nil]
  /\ UNCHANGED <<d, frames, sent>>

(* aoesweepproc(), of a frame that is out for too long.                    *)
aoesweepproc(f) ==
  /\ d.up /\ frames[f].tag # Tfree /\ TagsLeft
  /\ \E lost \in IF "jumbo" \in May /\ frames[f].scnt > Dbcnt THEN BOOLEAN ELSE {FALSE},
        old \in IF "timeout" \in May THEN BOOLEAN ELSE {FALSE} :
       LET s == [State EXCEPT
                   !.d.maxout = IF d.nout = d.maxout /\ d.maxout > 1 THEN @ - 1 ELSE @,
                   !.d.maxbcnt = IF lost THEN Dbcnt ELSE @]
       IN becomes(IF old THEN frameerror(s, f, "timed out") ELSE resend(s, f))
(* Its end: the window opens again.                                        *)
opens ==
  /\ d.up /\ d.nout = d.maxout /\ d.maxout < Maxframes
  /\ d' = [d EXCEPT !.maxout = @ + 1]
  /\ UNCHANGED <<frames, srb, sent>>

(* atarsp(), of the answer to m; err, an error of the disk.                *)
complete(s, f) ==
  LET p == s.frames[f].srb IN
  work([s EXCEPT !.frames[f] = [@ EXCEPT !.srb = nil, !.tag = Tfree],
                 !.d.nout = @ - 1, !.srb[p].nout = @ - 1])
received(s, f, m) ==
  LET h == s.frames[f] IN
  [s EXCEPT !.srb[h.srb].data =
     [i \in DOMAIN @ |-> IF i \in h.pos..(h.pos + h.scnt - 1) THEN m.lba + (i - h.pos) ELSE @[i]]]
atarsp(m, err) ==
  /\ TagsLeft
  /\ \E f \in Frames :
       /\ frames[f].tag = m.tag
       /\ LET h == frames[f]
              s == received(State, f, m)
          IN CASE err -> becomes(complete([State EXCEPT !.srb[h.srb].error = "io"], f))
               [] ~err /\ h.bcnt > h.scnt ->
                    becomes(resend([s EXCEPT !.frames[f].bcnt = @ - h.scnt,
                                             !.frames[f].pos = @ + h.scnt], f))
               [] ~err /\ h.bcnt = h.scnt -> becomes(complete(s, f))

(* errrsp(): an error of the protocol.                                     *)
errrsp(m) ==
  /\ "ata" \in May
  /\ \E f \in Frames : frames[f].tag = m.tag /\ becomes(frameerror(State, f, "aoe"))

(* Fault seeded to test OutExact: the frames are freed, and not counted.   *)
downdevFrees(s) ==
  [s EXCEPT !.d.up = FALSE, !.d.inprocess = nil, !.frames = [f \in Frames |-> Idle]]

(* downdev(), by "failio".                                                 *)
downdev(s) ==
  LET t == FoldLeft(LAMBDA u, f : frameerror(u, f, "down"), s, SetToSeq(Frames))
  IN [t EXCEPT !.d.up = FALSE, !.d.inprocess = nil]
failio ==
  /\ "failio" \in May /\ d.up
  /\ becomes(downdev(State))
(* The unit comes up again with the answer to an identify, whose frame is  *)
(* left out.                                                               *)
aoeidentify ==
  /\ ~d.up /\ TagsLeft
  /\ becomes(work([State EXCEPT !.d.up = TRUE]))

Next ==
  \/ \E p \in Proc : done(p) \/ \E off \in Offs : rw(p, off)
  \/ \E f \in Frames : aoesweepproc(f)
  \/ \E m \in sent : atarsp(m, FALSE) \/ ("ata" \in May /\ atarsp(m, TRUE)) \/ errrsp(m)
  \/ opens \/ failio \/ aoeidentify

Spec == Init /\ [][Next]_vars
-----------------------------------------------------------------------------
(* nout, which opens and shuts the window, counts the frames that are out, *)
(* a request's, those that are out for it; no two of them have one tag.    *)
OutExact ==
  LET Out == {f \in Frames : frames[f].tag # Tfree} IN
  /\ d.nout = Cardinality(Out)
  /\ \A p \in Proc : srb[p] # nil => srb[p].nout = Cardinality({f \in Out : frames[f].srb = p})
  /\ \A f, g \in Out : frames[f].tag = frames[g].tag => f = g

(* No frame, and no queue, holds a request that its process has freed.     *)
NoDangling ==
  /\ \A f \in Frames : frames[f].srb # nil => srb[frames[f].srb] # nil
  /\ d.inprocess # nil => srb[d.inprocess] # nil
  /\ \A i \in 1..Len(d.queue) : srb[d.queue[i]] # nil

(* A process gets the sectors that it asked for: late answers, to a tag    *)
(* that was given up, are not taken for those to what was sent since.      *)
Right(p) == srb[p].error = nil =>
  \A i \in 0..(Length - 1) : srb[p].data[i] = srb[p].off + i
DataExact == \A p \in Proc : srbready(p) => Right(p)
=============================================================================
