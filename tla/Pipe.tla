-------------------------------- MODULE Pipe --------------------------------
(***************************************************************************)
(* Pipes #| (src/port/devpipe.c).  End s of a pipe reads q[s] and writes   *)
(* q[Other(s)].  What is done with the pipe locked is one step.  Of the    *)
(* queues (src/port/qio.c, see Qio) only what pipes rely on is kept: a     *)
(* reader waits for data, a writer for room after it has put its block,    *)
(* and both give up when the queue is closed.                              *)
(***************************************************************************)
EXTENDS Naturals, Sequences, FiniteSets

CONSTANTS
  Proc,     \* each has at most one channel
  Limit,    \* blocks a queue holds before writers wait (PIPEQSIZE)
  MaxMsg    \* bound on the blocks written

VARIABLES
  ch,        \* process -> its channel: "none", "dir", "walked" or "open", and end
  pref, qref,\* Pipe.ref, Pipe.qref
  q, closed, \* end -> blocks queued; Qclosed
  pc,        \* process -> "idle", or "read" or "write" when it waits
  n,         \* blocks written
  sent, got, \* history: end -> blocks put in and read from its queue since
             \* it was last closed
  used       \* history: ends opened since both were closed

vars == <<ch, pref, qref, q, closed, pc, n, sent, got, used>>

Ends == {0, 1}
Other(s) == 1 - s
Chan(kind, s) == [kind |-> kind, end |-> s]
None == Chan("none", 0)
Both(x) == [s \in Ends |-> x]

(* pipeattach(): the process has the directory.                            *)
Init ==
  \E p \in Proc :
    /\ ch = [x \in Proc |-> IF x = p THEN Chan("dir", 0) ELSE None]
    /\ pref = 1 /\ qref = Both(0) /\ q = Both(<<>>) /\ closed = Both(FALSE)
    /\ pc = [x \in Proc |-> "idle"] /\ n = 0
    /\ sent = Both(<<>>) /\ got = Both(<<>>) /\ used = {}

(* A walk from a channel of p gives x one of its own.                      *)
pipewalk(p, x, s) ==
  /\ ch[p].kind = "dir" /\ ch[x].kind = "none"
  /\ ch' = [ch EXCEPT ![x] = Chan("walked", s)] /\ pref' = pref + 1
  /\ UNCHANGED <<qref, q, closed, pc, n, sent, got, used>>

pipeopen(p) ==
  LET s == ch[p].end IN
  /\ ch[p].kind = "walked" /\ ch' = [ch EXCEPT ![p].kind = "open"]
  /\ qref' = [qref EXCEPT ![s] = @ + 1] /\ used' = used \cup {s}
  /\ UNCHANGED <<pref, q, closed, pc, n, sent, got>>

(* Fault seeded to test FilesSafe: the queues are mistaken.                *)
LastCloseSwapped(s) ==
  /\ closed' = [closed EXCEPT ![s] = TRUE, ![Other(s)] = TRUE]
  /\ q' = [q EXCEPT ![Other(s)] = <<>>]

(* qhangup() the queue of the other end, which may still read what it has, *)
(* and qclose() this one.                                                  *)
LastClose(s) ==
  /\ closed' = [closed EXCEPT ![s] = TRUE, ![Other(s)] = TRUE]
  /\ q' = [q EXCEPT ![s] = <<>>]

(* With both ends closed the queues are opened again, with what they hold. *)
pipeclose(p) ==
  LET s == ch[p].end
      open == ch[p].kind = "open"
      refs == IF open THEN [qref EXCEPT ![s] = @ - 1] ELSE qref
      both == \A e \in Ends : refs[e] = 0
      last == open /\ refs[s] = 0 IN
  /\ ch[p].kind # "none" /\ pc[p] = "idle"
  /\ ch' = [ch EXCEPT ![p] = None] /\ pref' = pref - 1 /\ qref' = refs
  /\ IF both THEN /\ closed' = Both(FALSE)
                  /\ q' = IF last THEN [q EXCEPT ![s] = <<>>] ELSE q
             ELSE IF last THEN LastClose(s) ELSE UNCHANGED <<q, closed>>
  /\ sent' = IF last THEN [sent EXCEPT ![s] = <<>>] ELSE sent
  /\ got' = IF last THEN [got EXCEPT ![s] = <<>>] ELSE got
  /\ used' = IF both THEN {} ELSE used
  /\ UNCHANGED <<pc, n>>

(* The reader takes a block, gets end of file, or waits.                   *)
piperead(p) ==
  LET s == ch[p].end IN
  /\ ch[p].kind = "open" /\ pc[p] \in {"idle", "read"}
  /\ \/ /\ q[s] # <<>> /\ q' = [q EXCEPT ![s] = Tail(@)]
        /\ got' = [got EXCEPT ![s] = Append(@, Head(q[s]))] /\ pc' = [pc EXCEPT ![p] = "idle"]
     \/ /\ q[s] = <<>> /\ closed[s] /\ pc[p] = "read" /\ pc' = [pc EXCEPT ![p] = "idle"]
        /\ UNCHANGED <<q, got>>
     \/ /\ q[s] = <<>> /\ ~closed[s] /\ pc[p] = "idle" /\ pc' = [pc EXCEPT ![p] = "read"]
        /\ UNCHANGED <<q, got>>
  /\ UNCHANGED <<ch, pref, qref, closed, n, sent, used>>

(* A write on a closed queue posts a note and fails.                       *)
pipewrite(p) ==
  LET d == Other(ch[p].end) IN
  /\ ch[p].kind = "open" /\ pc[p] = "idle" /\ n < MaxMsg /\ ~closed[d]
  /\ q' = [q EXCEPT ![d] = Append(@, n + 1)] /\ n' = n + 1
  /\ sent' = [sent EXCEPT ![d] = Append(@, n + 1)]
  /\ pc' = IF Len(q[d]) >= Limit THEN [pc EXCEPT ![p] = "write"] ELSE pc
  /\ UNCHANGED <<ch, pref, qref, closed, got, used>>

flowed(p) ==
  LET d == Other(ch[p].end) IN
  /\ pc[p] = "write" /\ (Len(q[d]) < Limit \/ closed[d])
  /\ pc' = [pc EXCEPT ![p] = "idle"]
  /\ UNCHANGED <<ch, pref, qref, q, closed, n, sent, got, used>>

Next ==
  \E p \in Proc :
    \/ pipeopen(p) \/ pipeclose(p) \/ piperead(p) \/ pipewrite(p) \/ flowed(p)
    \/ \E x \in Proc, s \in Ends : pipewalk(p, x, s)

Spec == Init /\ [][Next]_vars
-----------------------------------------------------------------------------
(* The pipe is kept while there is a channel, and an end is open while a   *)
(* channel to it is.                                                       *)
RefsExact ==
  /\ pref = Cardinality({p \in Proc : ch[p].kind # "none"})
  /\ \A s \in Ends : qref[s] = Cardinality({p \in Proc : ch[p] = Chan("open", s)})

(* Nothing written is lost, repeated or misplaced before the end that      *)
(* reads it is closed, whatever happens to the one that wrote it.          *)
BlocksExact == \A s \in Ends : sent[s] = got[s] \o q[s]

(* A reader waits only if somebody may write, a writer only if somebody    *)
(* may read: the last close of an end lets those of the other one go on.   *)
NobodyStuck ==
  \A p \in Proc :
    LET s == ch[p].end  o == Other(s) IN
    \/ pc[p] = "read" /\ q[s] = <<>> /\ ~closed[s]
    \/ pc[p] = "write" /\ Len(q[o]) >= Limit /\ ~closed[o]
    => qref[o] > 0 \/ o \notin used

PipeSafe == RefsExact /\ BlocksExact /\ NobodyStuck
=============================================================================
