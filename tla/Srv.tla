-------------------------------- MODULE Srv ---------------------------------
(***************************************************************************)
(* The registry of services #s (src/port/devsrv.c).  What is done with     *)
(* srvlk held is a step; what create, open and remove do after it is       *)
(* another.  A Srv is known by its path, which is never used again.        *)
(***************************************************************************)
EXTENDS Naturals, Sequences, FiniteSets

CONSTANTS Proc, Names, Chans, MaxSrv, nil

VARIABLES
  srv,          \* paths on the list
  ent,          \* path -> the Srv: name, owned (owner is set), chan, freed
  cref,         \* channel -> references that #s and those who opened it have
  fd,           \* process -> what it has open: a Srv or a posted channel
  pc, at,       \* process -> its step and the path of its Srv
  late,         \* history: channels of Srvs used after they were freed
  renamed       \* history: Srvs whose name was changed

vars == <<srv, ent, cref, fd, pc, at, late, renamed>>

Paths == DOMAIN ent

Init ==
  /\ srv = {} /\ ent = <<>> /\ cref = [c \in Chans |-> 0]
  /\ fd = [p \in Proc |-> nil] /\ pc = [p \in Proc |-> "idle"] /\ at = [p \in Proc |-> 0]
  /\ late = {} /\ renamed = {}

Go(p, l, s) == pc' = [pc EXCEPT ![p] = l] /\ at' = [at EXCEPT ![p] = s]

srvlookup(n) == {s \in srv : ent[s].name = n}

(* The Srv is on the list before it has an owner.                          *)
srvcreate(p, n, rclose) ==
  LET s == Len(ent) + 1 IN
  /\ pc[p] = "idle" /\ fd[p] = nil /\ s <= MaxSrv /\ srvlookup(n) = {}
  /\ ent' = Append(ent, [name |-> n, owned |-> FALSE, chan |-> nil, freed |-> FALSE])
  /\ srv' = srv \cup {s}
  /\ fd' = [fd EXCEPT ![p] = [kind |-> "srv", s |-> s, chan |-> nil, rclose |-> rclose]]
  /\ Go(p, "own", s)
  /\ UNCHANGED <<cref, late, renamed>>

setowner(p) ==
  /\ pc[p] = "own"
  /\ ent' = [ent EXCEPT ![at[p]].owned = TRUE]
  /\ Go(p, "idle", 0)
  /\ UNCHANGED <<srv, cref, fd, late, renamed>>

(* Posting a channel: once, and not after the Srv was removed.             *)
srvwrite(p, c) ==
  LET s == fd[p].s IN
  /\ pc[p] = "idle" /\ fd[p] # nil /\ fd[p].kind = "srv" /\ s \in srv /\ ent[s].chan = nil
  /\ ent' = [ent EXCEPT ![s].chan = c] /\ cref' = [cref EXCEPT ![c] = @ + 1]
  /\ UNCHANGED <<srv, fd, pc, at, late, renamed>>

(* Fault seeded to test FilesSafe: the reference is left out.              *)
srvopenUncounted(p, s) ==
  /\ pc[p] = "idle" /\ fd[p] = nil /\ s \in srv /\ ent[s].chan # nil
  /\ fd' = [fd EXCEPT ![p] = [kind |-> "chan", s |-> s, chan |-> ent[s].chan, rclose |-> FALSE]]
  /\ Go(p, "return", s)
  /\ UNCHANGED <<srv, ent, cref, late, renamed>>

(* A walk may have found the Srv before it was removed.                    *)
srvopen(p, s) ==
  /\ pc[p] = "idle" /\ fd[p] = nil /\ s \in srv /\ ent[s].chan # nil
  /\ cref' = [cref EXCEPT ![ent[s].chan] = @ + 1]
  /\ fd' = [fd EXCEPT ![p] = [kind |-> "chan", s |-> s, chan |-> ent[s].chan, rclose |-> FALSE]]
  /\ Go(p, "return", s)
  /\ UNCHANGED <<srv, ent, late, renamed>>

(* return sp->chan, with srvlk released: the Srv may be gone.              *)
srvopened(p) ==
  LET s == at[p] IN
  /\ pc[p] = "return" /\ Go(p, "idle", 0)
  /\ \E c \in IF ent[s].freed THEN Chans ELSE {ent[s].chan} :
       /\ fd' = [fd EXCEPT ![p].chan = c]
       /\ late' = IF c = fd[p].chan THEN late ELSE late \cup {c, fd[p].chan}
  /\ UNCHANGED <<srv, ent, cref, renamed>>

(* Whoever removes a Srv or changes it compares its owner with a name: the *)
(* kernel faults, and is gone, if it has none yet.                         *)
Unlink(p, s) ==
  /\ ent[s].owned /\ srv' = srv \ {s}
  /\ Go(p, "free", s)

srvremove(p, s) ==
  /\ pc[p] = "idle" /\ s \in srv /\ Unlink(p, s)
  /\ UNCHANGED <<ent, cref, fd, late, renamed>>

srvfree(p) ==
  LET s == at[p]  c == ent[s].chan IN
  /\ pc[p] = "free" /\ Go(p, "idle", 0)
  /\ cref' = IF c = nil THEN cref ELSE [cref EXCEPT ![c] = @ - 1]
  /\ ent' = [ent EXCEPT ![s].freed = TRUE]
  /\ UNCHANGED <<srv, fd, late, renamed>>

(* wstat does not look if there is a Srv of that name.                     *)
srvwstat(p, s, n) ==
  /\ pc[p] = "idle" /\ s \in srv /\ ent[s].owned /\ ent[s].name # n
  /\ ent' = [ent EXCEPT ![s].name = n] /\ renamed' = renamed \cup {s}
  /\ UNCHANGED <<srv, cref, fd, pc, at, late>>

srvclose(p) ==
  LET f == fd[p] IN
  /\ pc[p] = "idle" /\ f # nil /\ fd' = [fd EXCEPT ![p] = nil]
  /\ IF f.kind = "srv" /\ f.rclose /\ f.s \in srv
     THEN Unlink(p, f.s) ELSE UNCHANGED <<srv, pc, at>>
  /\ cref' = IF f.kind = "chan" THEN [cref EXCEPT ![f.chan] = @ - 1] ELSE cref
  /\ UNCHANGED <<ent, late, renamed>>

Next ==
  \E p \in Proc :
    \/ setowner(p) \/ srvopened(p) \/ srvfree(p) \/ srvclose(p)
    \/ \E n \in Names, r \in BOOLEAN : srvcreate(p, n, r)
    \/ \E c \in Chans : srvwrite(p, c)
    \/ \E s \in Paths : srvopen(p, s) \/ srvremove(p, s) \/ \E n \in Names : srvwstat(p, s, n)

Spec == Init /\ [][Next]_vars
-----------------------------------------------------------------------------
(* A channel is kept by the Srvs it is posted in and by those who opened   *)
(* them, and by nobody twice, whatever was removed meanwhile.  srvopen()   *)
(* may return another channel than the one it counted when the Srv is      *)
(* freed before it returns (devsrv.c:134-136): of these two nothing is     *)
(* said.                                                                   *)
ChansKept ==
  \A c \in Chans \ late :
    cref[c] = Cardinality({s \in Paths : ent[s].chan = c /\ ~ent[s].freed})
              + Cardinality({p \in Proc : fd[p] # nil /\ fd[p].chan = c})

(* Nothing on the list has been freed, and two Srvs have one name only if  *)
(* one of them was given it by wstat.                                      *)
ListExact ==
  /\ \A s \in srv : ~ent[s].freed
  /\ \A s, t \in srv \ renamed : ent[s].name = ent[t].name => s = t

SrvSafe == ChansKept /\ ListExact
=============================================================================
