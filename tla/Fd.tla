--------------------------------- MODULE Fd ---------------------------------
(***************************************************************************)
(* File descriptors and the channels behind them (port/sysfile.c, the file *)
(* descriptor groups of port/pgrp.c, the references and the deferred close *)
(* of port/chan.c), and the files of the device "dup" (port/devdup.c).     *)
(*                                                                         *)
(* A system call takes the chan of a descriptor with a reference of its    *)
(* own and works on it without a lock, while others that share the group   *)
(* close, dup and open.  What is done with the group locked is one step;   *)
(* the device's close, which may sleep, is a step of its own.              *)
(***************************************************************************)
EXTENDS Integers, FiniteSets, Sequences

CONSTANTS
  Proc, Chans,
  NFgrp,     \* groups of file descriptors
  DELTAFD,   \* growth of a group
  MaxFd,     \* descriptors a group may have, 5000
  Cexec,     \* chans opened with OCEXEC
  First,     \* the process that is there at first
  nil

VARIABLES
  fgrp,      \* up->fgrp
  fd,        \* f->fd: the chans of a group
  nfd,       \* f->nfd
  maxfd,     \* f->maxfd
  fref,      \* f->ref
  ref,       \* c->ref
  cstate,    \* "free", "open", or "closing": being closed by its device
  ccexec,    \* chans with CCEXEC in c->flag
  clunkq,    \* chans to be closed by a closeproc
  pc,
  hold,      \* the chan that a process has in hand
  other,     \* c[1], the other chan of a pipe that it makes
  n          \* the descriptor that it works on

fdvars == <<fd, nfd, maxfd>>
vars == <<fgrp, fd, nfd, maxfd, fref, ref, cstate, ccexec, clunkq, pc, hold, other, n>>

Fgrps == 1..NFgrp
Fds == 0..(MaxFd - 1)

(* A group that is in use, or being closed by the last of its processes.   *)
Alive == {f \in Fgrps : \E p \in Proc : fgrp[p] = f}

Init ==
  /\ fgrp = [p \in Proc |-> IF p = First THEN 1 ELSE nil]
  /\ fd = [f \in Fgrps |-> [i \in Fds |-> nil]]
  /\ nfd = [f \in Fgrps |-> DELTAFD]
  /\ maxfd = [f \in Fgrps |-> 0]
  /\ fref = [f \in Fgrps |-> IF f = 1 THEN 1 ELSE 0]
  /\ ref = [c \in Chans |-> 0]
  /\ cstate = [c \in Chans |-> "free"]
  /\ ccexec = {}
  /\ clunkq = <<>>
  /\ pc = [p \in Proc |-> IF p = First THEN "user" ELSE "dead"]
  /\ hold = [p \in Proc |-> nil]
  /\ other = [p \in Proc |-> nil]
  /\ n = [p \in Proc |-> 0]

goto(p, l) == pc' = [pc EXCEPT ![p] = l]
largest(a, b) == IF a > b THEN a ELSE b
-----------------------------------------------------------------------------
(* growfd() of a group with sz: -1 if the descriptor is out of range, else *)
(* the new size.                                                           *)
growfd(sz, i) ==
  CASE i < sz -> sz
    [] i >= sz + DELTAFD \/ sz >= MaxFd -> -1
    [] OTHER -> sz + DELTAFD

(* findfreefd(): the first free descriptor, maybe one past the end.        *)
findfreefd(f, sz, start) ==
  CHOOSE i \in start..sz :
    /\ i < sz => fd[f][i] = nil
    /\ \A j \in start..(i - 1) : fd[f][j] # nil

(* Sets a descriptor, with the group locked.                               *)
setfd(f, i, c) ==
  /\ nfd' = [nfd EXCEPT ![f] = growfd(nfd[f], i)]
  /\ maxfd' = [maxfd EXCEPT ![f] = largest(@, i)]
  /\ fd' = [fd EXCEPT ![f][i] = c]

(* namec() returns chans that nobody else has, the first free ones.        *)
Fresh(S) ==
  /\ \A c \in S : cstate[c] = "free"
  /\ \A c \in S, d \in Chans \ S : cstate[d] = "free" => c < d
opened(S) ==
  /\ Fresh(S)
  /\ cstate' = [c \in Chans |-> IF c \in S THEN "open" ELSE cstate[c]]
  /\ ref' = [c \in Chans |-> IF c \in S THEN 1 ELSE ref[c]]
  /\ ccexec' = (ccexec \ S) \cup (S \cap Cexec)

(* sysopen(), syscreate().                                                 *)
sysopen(p) ==
  /\ pc[p] = "user"
  /\ \E c \in Chans : opened({c}) /\ hold' = [hold EXCEPT ![p] = c]
  /\ goto(p, "newfd")
  /\ UNCHANGED <<fgrp, fdvars, fref, clunkq, other, n>>

(* newfd(): the chan goes to the first free descriptor, or is closed.      *)
newfd(p) ==
  /\ pc[p] = "newfd"
  /\ LET f == fgrp[p]
         i == findfreefd(f, nfd[f], 0)
     IN IF growfd(nfd[f], i) < 0
        THEN goto(p, "cclose") /\ UNCHANGED <<fdvars, hold>>
        ELSE /\ setfd(f, i, hold[p])
             /\ hold' = [hold EXCEPT ![p] = nil]
             /\ goto(p, "user")
  /\ UNCHANGED <<fgrp, fref, ref, cstate, ccexec, clunkq, other, n>>

(* syspipe(): the two ends are opened, or one cannot be and both closed.   *)
(* The chan c0 that they were walked to from comes and goes meanwhile.     *)
syspipe(p) ==
  /\ pc[p] = "user"
  /\ \E c, d \in Chans :
       /\ c < d /\ opened({c, d})
       /\ hold' = [hold EXCEPT ![p] = c] /\ other' = [other EXCEPT ![p] = d]
  /\ \E l \in {"newfd2", "cclose"} : goto(p, l)
  /\ UNCHANGED <<fgrp, fdvars, fref, clunkq, n>>

(* newfd2(): two descriptors or none; the group may have grown even so.    *)
newfd2(p) ==
  /\ pc[p] = "newfd2"
  /\ LET f == fgrp[p]
         i == findfreefd(f, nfd[f], 0)
         sz == growfd(nfd[f], i)
         j == findfreefd(f, sz, i + 1)
     IN CASE sz < 0 ->
               goto(p, "cclose") /\ UNCHANGED <<fdvars, hold, other>>
          [] sz >= 0 /\ growfd(sz, j) < 0 ->
               /\ nfd' = [nfd EXCEPT ![f] = sz]
               /\ maxfd' = [maxfd EXCEPT ![f] = IF sz > nfd[f] THEN largest(@, i) ELSE @]
               /\ goto(p, "cclose")
               /\ UNCHANGED <<fd, hold, other>>
          [] OTHER ->
               /\ nfd' = [nfd EXCEPT ![f] = growfd(sz, j)]
               /\ maxfd' = [maxfd EXCEPT ![f] = largest(@, j)]
               /\ fd' = [fd EXCEPT ![f][i] = hold[p], ![f][j] = other[p]]
               /\ hold' = [hold EXCEPT ![p] = nil] /\ other' = [other EXCEPT ![p] = nil]
               /\ goto(p, "user")
  /\ UNCHANGED <<fgrp, fref, ref, cstate, ccexec, clunkq, n>>

(* fdtochan(), with a reference: for a read or write, to dup it, or to     *)
(* mount it.                                                               *)
fdtochan(p, i, then) ==
  /\ pc[p] = "user" /\ i < nfd[fgrp[p]] /\ fd[fgrp[p]][i] # nil
  /\ ref' = [ref EXCEPT ![fd[fgrp[p]][i]] = @ + 1]
  /\ hold' = [hold EXCEPT ![p] = fd[fgrp[p]][i]]
  /\ n' = [n EXCEPT ![p] = IF then = "mount" THEN i ELSE 0]
  /\ goto(p, then)
  /\ UNCHANGED <<fgrp, fdvars, fref, cstate, clunkq, other>>

(* Opening #d/i: the new descriptor has the chan of the old one, which     *)
(* gets CCEXEC for all that have it if the open says so.                   *)
dupopen(p, i) ==
  /\ fdtochan(p, i, "newfd")
  /\ ccexec' \in {ccexec, ccexec \cup {fd[fgrp[p]][i]}}

(* The device has read or written; an error comes here too.                *)
rdwr(p) ==
  /\ pc[p] = "rdwr"
  /\ goto(p, "cclose")
  /\ UNCHANGED <<fgrp, fdvars, fref, ref, cstate, ccexec, clunkq, hold, n, other>>

(* sysdup() to a given descriptor: the old chan of it is closed after.     *)
sysdup(p, i) ==
  /\ pc[p] = "dup"
  /\ LET f == fgrp[p] IN
     IF growfd(nfd[f], i) < 0
     THEN goto(p, "cclose") /\ UNCHANGED <<fdvars, hold>>
     ELSE /\ setfd(f, i, hold[p])
          /\ hold' = [hold EXCEPT ![p] = fd[f][i]]
          /\ goto(p, IF fd[f][i] = nil THEN "user" ELSE "cclose")
  /\ UNCHANGED <<fgrp, fref, ref, cstate, ccexec, clunkq, n, other>>

(* sysdup() to any descriptor.                                             *)
sysdupAny(p) ==
  /\ pc[p] = "dup"
  /\ goto(p, "newfd")
  /\ UNCHANGED <<fgrp, fdvars, fref, ref, cstate, ccexec, clunkq, hold, n, other>>

(* bindmount(): the chan is put, and the descriptor closed, whatever is in *)
(* it by then.                                                             *)
sysmount(p) ==
  /\ pc[p] = "mount"
  /\ ref' = [ref EXCEPT ![hold[p]] = @ - 1]
  /\ IF ref[hold[p]] = 1
     THEN /\ cstate' = [cstate EXCEPT ![hold[p]] = "closing"]
          /\ goto(p, "devclosem") /\ UNCHANGED hold
     ELSE /\ hold' = [hold EXCEPT ![p] = nil]
          /\ goto(p, "fdclose") /\ UNCHANGED cstate
  /\ UNCHANGED <<fgrp, fdvars, fref, ccexec, clunkq, n, other>>

(* sysclose(): looks first, without a reference.                           *)
sysclose(p, i) ==
  /\ pc[p] = "user" /\ i < nfd[fgrp[p]] /\ fd[fgrp[p]][i] # nil
  /\ n' = [n EXCEPT ![p] = i]
  /\ goto(p, "fdclose")
  /\ UNCHANGED <<fgrp, fdvars, fref, ref, cstate, ccexec, clunkq, hold, other>>

(* Fault seeded to test FdsExact: also when i is not the highest.          *)
shrinkToo(f, i) == largest(0, i - 1)

(* The f->maxfd of fdclose(): down over the free descriptors below, and    *)
(* never below the highest that is in use.                                 *)
shrink(f, i) ==
  IF i # maxfd[f] THEN maxfd[f]
  ELSE CHOOSE m \in 0..i : /\ \A k \in m..(i - 1) : fd[f][k] = nil
                           /\ m = 0 \/ fd[f][m - 1] # nil

(* Takes descriptor i out of the group.                                    *)
outfd(f, i) ==
  /\ fd' = [fd EXCEPT ![f][i] = nil]
  /\ maxfd' = [maxfd EXCEPT ![f] = shrink(f, i)]
  /\ UNCHANGED nfd

(* fdclose(), of a descriptor; another process may have closed it.         *)
fdclose(p) ==
  /\ pc[p] = "fdclose"
  /\ LET f == fgrp[p]
         c == fd[f][n[p]]
     IN IF c = nil
        THEN goto(p, "user") /\ UNCHANGED <<fdvars, hold>>
        ELSE /\ outfd(f, n[p])
             /\ hold' = [hold EXCEPT ![p] = c]
             /\ goto(p, "cclose")
  /\ n' = [n EXCEPT ![p] = 0]
  /\ UNCHANGED <<fgrp, fref, ref, cstate, ccexec, clunkq, other>>

(* sysexec(): closes the descriptors of chans with CCEXEC, one at a time.  *)
sysexec(p) ==
  /\ pc[p] = "user"
  /\ goto(p, "exec")
  /\ UNCHANGED <<fgrp, fdvars, fref, ref, cstate, ccexec, clunkq, hold, n, other>>

fdcloseExec(p) ==
  /\ pc[p] = "exec"
  /\ LET f == fgrp[p]
         c == fd[f][n[p]]
     IN CASE n[p] > maxfd[f] ->
               /\ goto(p, "user") /\ n' = [n EXCEPT ![p] = 0]
               /\ UNCHANGED <<fdvars, hold>>
          [] n[p] <= maxfd[f] /\ c \in ccexec ->
               /\ outfd(f, n[p])
               /\ hold' = [hold EXCEPT ![p] = c]
               /\ n' = [n EXCEPT ![p] = @ + 1]
               /\ goto(p, "cclosee")
          [] OTHER ->
               /\ n' = [n EXCEPT ![p] = @ + 1]
               /\ UNCHANGED <<fdvars, hold, pc>>
  /\ UNCHANGED <<fgrp, fref, ref, cstate, ccexec, clunkq, other>>

(* Where a process goes on after cclose(): in the loop of exec, in that of *)
(* closefgrp(), to the other chan of a pipe, or out of the system call.    *)
Ret(l) == CASE l \in {"cclosee", "devclosee"} -> "exec"
            [] l \in {"cclosef", "devclosef"} -> "closefgrp"
            [] l = "devclosem" -> "fdclose"
            [] OTHER -> "user"
goon(p) ==
  /\ hold' = [hold EXCEPT ![p] = other[p]] /\ other' = [other EXCEPT ![p] = nil]
  /\ goto(p, IF other[p] = nil THEN Ret(pc[p]) ELSE "cclose")
Dev(l) == CASE l = "cclosee" -> "devclosee" [] l = "cclosef" -> "devclosef" [] OTHER -> "devclose"

(* cclose(): the last reference closes the device's file.                  *)
cclose(p) ==
  /\ pc[p] \in {"cclose", "cclosee", "cclosef"}
  /\ ref' = [ref EXCEPT ![hold[p]] = @ - 1]
  /\ IF ref[hold[p]] = 1
     THEN /\ cstate' = [cstate EXCEPT ![hold[p]] = "closing"]
          /\ goto(p, Dev(pc[p])) /\ UNCHANGED <<hold, other>>
     ELSE goon(p) /\ UNCHANGED cstate
  /\ UNCHANGED <<fgrp, fdvars, fref, ccexec, clunkq, n>>

(* c->dev->close() is done, or failed; chanfree().                         *)
chanfree(p) ==
  /\ pc[p] \in {"devclose", "devclosee", "devclosef", "devclosem"}
  /\ cstate' = [cstate EXCEPT ![hold[p]] = "free"]
  /\ goon(p)
  /\ UNCHANGED <<fgrp, fdvars, fref, ref, ccexec, clunkq, n>>

(* closeproc(): closes the first chan of the queue.                        *)
closeproc ==
  /\ clunkq # <<>>
  /\ clunkq' = Tail(clunkq)
  /\ cstate' = [cstate EXCEPT ![Head(clunkq)] = "free"]
  /\ UNCHANGED <<fgrp, fdvars, fref, ref, pc, hold, n, ccexec, other>>
-----------------------------------------------------------------------------
Forks(p, q) == pc[p] = "user" /\ pc[q] = "dead"

(* sysrfork(), the child shares the descriptors.                           *)
rforkShare(p, q) ==
  /\ Forks(p, q)
  /\ fref' = [fref EXCEPT ![fgrp[p]] = @ + 1]
  /\ fgrp' = [fgrp EXCEPT ![q] = fgrp[p]]
  /\ goto(q, "user")
  /\ UNCHANGED <<fdvars, ref, cstate, ccexec, clunkq, hold, n, other>>

(* Fault seeded to test RefsExact: the copy of a group does not count.     *)
dupRefsNot(f) == ref

(* The references of the chans of a group, and of a copy of it.            *)
dupRefs(f) ==
  [c \in Chans |-> ref[c] + Cardinality({i \in 0..maxfd[f] : fd[f][i] = c})]

(* dupfgrp() of f, or of nil.  The copy is shorter if it can.              *)
dupfgrp(f, g) ==
  /\ g \notin Alive /\ \A h \in Fgrps \ Alive : g <= h
  /\ IF f = nil
     THEN /\ fd' = [fd EXCEPT ![g] = [i \in Fds |-> nil]]
          /\ nfd' = [nfd EXCEPT ![g] = DELTAFD]
          /\ maxfd' = [maxfd EXCEPT ![g] = 0]
          /\ UNCHANGED ref
     ELSE /\ fd' = [fd EXCEPT ![g] = [i \in Fds |-> IF i <= maxfd[f] THEN fd[f][i] ELSE nil]]
          /\ nfd' = [nfd EXCEPT ![g] = ((maxfd[f] + DELTAFD) \div DELTAFD) * DELTAFD]
          /\ maxfd' = [maxfd EXCEPT ![g] = maxfd[f]]
          /\ ref' = dupRefs(f)

(* sysrfork(), with RFFDG or RFCFDG.                                       *)
rforkCopy(p, q, f, g) ==
  /\ Forks(p, q) /\ f \in {fgrp[p], nil}
  /\ dupfgrp(f, g)
  /\ fref' = [fref EXCEPT ![g] = 1]
  /\ fgrp' = [fgrp EXCEPT ![q] = g]
  /\ goto(q, "user")
  /\ UNCHANGED <<cstate, ccexec, clunkq, hold, n, other>>

(* pexit() and closefgrp(): the last process of the group closes all.      *)
pexit(p) ==
  /\ pc[p] = "user"
  /\ fref' = [fref EXCEPT ![fgrp[p]] = @ - 1]
  /\ IF fref[fgrp[p]] = 1
     THEN goto(p, "closefgrp") /\ UNCHANGED fgrp
     ELSE goto(p, "dead") /\ fgrp' = [fgrp EXCEPT ![p] = nil]
  /\ UNCHANGED <<fdvars, ref, cstate, ccexec, clunkq, hold, n, other>>

closefgrp(p) ==
  /\ pc[p] = "closefgrp"
  /\ LET f == fgrp[p]
         used == {i \in 0..maxfd[f] : fd[f][i] # nil}
     IN IF used = {}
        THEN /\ goto(p, "dead") /\ fgrp' = [fgrp EXCEPT ![p] = nil]
             /\ UNCHANGED <<fd, hold>>
        ELSE LET i == CHOOSE i \in used : \A j \in used : i <= j IN
             /\ hold' = [hold EXCEPT ![p] = fd[f][i]]
             /\ fd' = [fd EXCEPT ![f][i] = nil]
             /\ goto(p, "cclosef") /\ UNCHANGED fgrp
  /\ UNCHANGED <<nfd, maxfd, fref, ref, cstate, ccexec, clunkq, n, other>>

(* forceclosefgrp() and ccloseq(): the process is killed while a device's  *)
(* close sleeps; the rest of its chans go to the close queue.              *)
forceclosefgrp(p) ==
  /\ pc[p] = "devclosef"
  /\ LET f == fgrp[p]
         left(c) == Cardinality({i \in 0..maxfd[f] : fd[f][i] = c})
         last == {c \in Chans : left(c) > 0 /\ ref[c] = left(c)}
     IN /\ \E i \in 0..maxfd[f] : fd[f][i] # nil
        /\ fd' = [fd EXCEPT ![f] = [i \in Fds |-> IF i <= maxfd[f] THEN nil ELSE @[i]]]
        /\ ref' = [c \in Chans |-> ref[c] - left(c)]
        /\ cstate' = [c \in Chans |-> IF c \in last THEN "closing" ELSE cstate[c]]
        /\ \E s \in [1..Cardinality(last) -> last] :
             /\ \A c \in last : \E k \in DOMAIN s : s[k] = c
             /\ clunkq' = clunkq \o s
  /\ UNCHANGED <<fgrp, nfd, maxfd, fref, pc, hold, n, ccexec, other>>

Step(p) ==
  \/ sysopen(p) \/ newfd(p) \/ rdwr(p) \/ sysdupAny(p) \/ sysmount(p)
  \/ syspipe(p) \/ newfd2(p)
  \/ \E i \in Fds : \/ dupopen(p, i)
                    \/ \E then \in {"rdwr", "dup", "mount"} :
                         fdtochan(p, i, then) /\ UNCHANGED ccexec
                    \/ sysdup(p, i) \/ sysclose(p, i)
  \/ fdclose(p) \/ sysexec(p) \/ fdcloseExec(p) \/ cclose(p) \/ chanfree(p)
  \/ pexit(p) \/ closefgrp(p) \/ forceclosefgrp(p)
  \/ \E q \in Proc : \/ rforkShare(p, q)
                     \/ \E f \in Fgrps \cup {nil}, g \in Fgrps : rforkCopy(p, q, f, g)

Next == closeproc \/ \E p \in Proc : Step(p)

Spec == Init /\ [][Next]_vars
-----------------------------------------------------------------------------
(* The references of a chan are the descriptors and the processes that     *)
(* have it: none of them ever sees a chan that is closed or used again     *)
(* ("cclose %#p", panic of cclose()), and a chan that nobody has is closed.*)
RefsExact ==
  /\ \A c \in Chans :
       /\ ref[c] = Cardinality({x \in Alive \X Fds : fd[x[1]][x[2]] = c})
                   + Cardinality({p \in Proc : c \in {hold[p], other[p]} /\ cstate[c] = "open"})
       /\ cstate[c] = "open" <=> ref[c] > 0
  /\ \A f \in Alive : fref[f] = Cardinality({p \in Proc : fgrp[p] = f})
                      \/ \E p \in Proc : fgrp[p] = f /\ fref[f] = 0

(* Beyond f->maxfd and f->nfd a group has no descriptors: copying and      *)
(* closing it up to there forgets none.                                    *)
FdsExact ==
  \A f \in Alive, i \in Fds : fd[f][i] # nil => i <= maxfd[f] /\ i < nfd[f]
=============================================================================
