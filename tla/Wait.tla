-------------------------------- MODULE Wait --------------------------------
(***************************************************************************)
(* Exit and wait, src/port/proc.c: pexit() leaves a wait record with the   *)
(* parent, pwait() and reads of /proc/n/wait take them, broken processes   *)
(* are kept for debuggers, and the slots of the process table are used     *)
(* again.                                                                  *)
(*                                                                         *)
(* What runs under lock(&p->exl) or qlock(&broken) is one step.  sleep()   *)
(* and wakeup() are atomic here (module Rendez).  Stages of a slot:        *)
(*   "free"    on procalloc.free                                           *)
(*   "new"     newproc() has cleared it and given it no pid yet            *)
(*   "run"     the process runs                                            *)
(*   "wait"    about to sleep for a record; "asleep"; "awake"              *)
(*   "exit"    in pexit(), no record left yet; "left"                      *)
(*   "break"   on the list of broken processes, not Broken yet             *)
(*   "broken"  waiting in addbroken()                                      *)
(*   "gone"    the memory is to be freed; "zombie" no pid any more         *)
(***************************************************************************)
EXTENDS Integers, SequencesExt, FiniteSetsExt

CONSTANTS
  Proc,       \* the process table
  nil,
  NBROKEN,
  MaxWait,    \* the wait records a process may have, 128
  MaxPid,     \* bound: processes made in a behaviour
  MayNowait   \* some are made with RFNOWAIT

VARIABLES
  stage,      \* see above
  proc,       \* pid, parent, parentpid, nchild and waitq of each slot; a record is
              \* the pid of the child and that of the one that made it
  state,      \* p->state, "Broken" or not
  readied,    \* the processes in addbroken() that ready() was called for
  maker,      \* who made the process, its pid: none is owed a record if 0
  qwaitr,     \* who holds p->qwaitr
  target,     \* whose records a process waits for, and the pid it saw
  broken,     \* broken.p[0 .. n-1]
  npid        \* pidalloc

vars == <<stage, proc, state, readied, maker, qwaitr, target, broken, npid>>

Unborn == [pid |-> 0, parent |-> nil, parentpid |-> 0, nchild |-> 0, waitq |-> <<>>]

(* The boot process, which has no parent and may not exit.                 *)
Init ==
  \E boot \in Proc :
    /\ stage = [p \in Proc |-> IF p = boot THEN "run" ELSE "free"]
    /\ proc = [p \in Proc |-> [Unborn EXCEPT !.pid = IF p = boot THEN 1 ELSE 0]]
    /\ state = [p \in Proc |-> "Running"] /\ readied = {}
    /\ maker = [p \in Proc |-> 0] /\ qwaitr = [p \in Proc |-> nil]
    /\ target = [p \in Proc |-> [of |-> nil, pid |-> 0]]
    /\ broken = <<>> /\ npid = 1

At(p, here) == stage[p] = here
Go(p, there) == stage' = [stage EXCEPT ![p] = there]
-----------------------------------------------------------------------------
(* psalloc() and newproc(): a slot is cleared before it gets a pid.        *)
newproc(p, c) ==
  /\ At(p, "run") /\ At(c, "free") /\ npid < MaxPid
  /\ \A o \in Proc : At(o, "new") => proc[o].parent # p
  /\ Go(c, "new")
  /\ proc' = [proc EXCEPT ![c].nchild = 0, ![c].waitq = <<>>, ![c].parent = p]
  /\ state' = [state EXCEPT ![c] = "Running"]
  /\ UNCHANGED <<readied, maker, qwaitr, target, broken, npid>>

(* ... and sysrfork(); a child made with RFNOWAIT has no parentpid.        *)
sysrfork(p, c) ==
  /\ At(p, "run") /\ At(c, "new") /\ proc[c].parent = p
  /\ npid' = npid + 1
  /\ \E nowait \in {FALSE, MayNowait} :
       /\ maker' = [maker EXCEPT ![c] = IF nowait THEN 0 ELSE proc[p].pid]
       /\ proc' = [proc EXCEPT ![c].pid = npid + 1,
                     ![c].parentpid = IF nowait THEN 0 ELSE proc[p].pid,
                     ![p].nchild = IF nowait THEN @ ELSE @ + 1]
  /\ Go(c, "run")
  /\ UNCHANGED <<state, readied, qwaitr, target, broken>>
-----------------------------------------------------------------------------
(* pwait(): the lock of the waiter, and is there anything to wait for?     *)
pwait(p) ==
  /\ At(p, "run") /\ qwaitr[p] = nil
  /\ proc[p].nchild # 0 \/ proc[p].waitq # <<>>
  /\ qwaitr' = [qwaitr EXCEPT ![p] = p]
  /\ target' = [target EXCEPT ![p] = [of |-> p, pid |-> proc[p].pid]]
  /\ Go(p, "wait")
  /\ UNCHANGED <<proc, state, readied, maker, broken, npid>>

(* procread() of the wait file of another process.                         *)
procread(p, t) ==
  /\ At(p, "run") /\ p # t /\ proc[t].pid # 0 /\ qwaitr[t] = nil
  /\ qwaitr' = [qwaitr EXCEPT ![t] = p]
  /\ target' = [target EXCEPT ![p] = [of |-> t, pid |-> proc[t].pid]]
  /\ Go(p, IF proc[t].waitq = <<>> THEN "wait" ELSE "awake")
  /\ UNCHANGED <<proc, state, readied, maker, broken, npid>>

(* sleep(&p->waitr, haswaitq, p).                                          *)
haswaitq(t) == proc[t].waitq # <<>>
sleep(p) ==
  /\ At(p, "wait")
  /\ Go(p, IF haswaitq(target[p].of) THEN "awake" ELSE "asleep")
  /\ UNCHANGED <<proc, state, readied, maker, qwaitr, target, broken, npid>>

Leave(p) ==
  /\ qwaitr' = [qwaitr EXCEPT ![target[p].of] = nil]
  /\ target' = [target EXCEPT ![p] = [of |-> nil, pid |-> 0]]
  /\ Go(p, "run")

(* A record is taken.  A reader of /proc looks whether the process is      *)
(* still the same one and has a record; pwait() does neither.              *)
taken(p) ==
  LET t == target[p].of
  IN  /\ At(p, "awake")
      /\ IF t # p /\ proc[t].pid # target[p].pid
         THEN Leave(p) /\ UNCHANGED proc
         ELSE IF t # p /\ ~haswaitq(t)
         THEN Go(p, "wait") /\ UNCHANGED <<proc, qwaitr, target>>
         ELSE Leave(p) /\ proc' = [proc EXCEPT ![t].waitq = Tail(@)]
      /\ UNCHANGED <<state, readied, maker, broken, npid>>

(* A note ends the wait.                                                   *)
interrupted(p) ==
  /\ stage[p] \in {"wait", "asleep"}
  /\ Leave(p)
  /\ UNCHANGED <<proc, state, readied, maker, broken, npid>>

(* wakeup(&t->waitr): who sleeps for a record of t.                        *)
Woken(t) == {p \in Proc : At(p, "asleep") /\ target[p].of = t}
-----------------------------------------------------------------------------
pexit(p) ==
  /\ At(p, "run") /\ proc[p].parent # nil
  /\ Go(p, "exit")
  /\ UNCHANGED <<proc, state, readied, maker, qwaitr, target, broken, npid>>

(* Fault seeded to test RecordsExact: the parent's slot is taken for the   *)
(* parent.                                                                 *)
recordAnyPid(p) ==
  LET t == proc[p].parent
      leaves == Len(proc[t].waitq) < MaxWait
  IN  /\ At(p, "exit")
      /\ proc' = [proc EXCEPT ![t].nchild = @ - 1,
                    ![t].waitq = IF leaves THEN <<[pid |-> proc[p].pid, by |-> maker[p]]>> \o @ ELSE @]
      /\ stage' = [o \in Proc |-> IF o = p THEN "left"
                                  ELSE IF leaves /\ o \in Woken(t) THEN "awake" ELSE stage[o]]
      /\ UNCHANGED <<state, readied, maker, qwaitr, target, broken, npid>>

(* ... the wait record: "check that parent is still alive".                *)
record(p) ==
  LET t == proc[p].parent
      alive == proc[t].pid = proc[p].parentpid /\ state[t] # "Broken"
      leaves == alive /\ Len(proc[t].waitq) < MaxWait
  IN  /\ At(p, "exit")
      /\ proc' = [proc EXCEPT ![t].nchild = IF alive THEN @ - 1 ELSE @,
                    ![t].waitq = IF leaves THEN <<[pid |-> proc[p].pid, by |-> maker[p]]>> \o @ ELSE @]
      /\ stage' = [o \in Proc |-> IF o = p THEN "left"
                                  ELSE IF leaves /\ o \in Woken(t) THEN "awake" ELSE stage[o]]
      /\ UNCHANGED <<state, readied, maker, qwaitr, target, broken, npid>>

(* ... without freemem, addbroken(): "keep at most NBROKEN around".        *)
addbroken(p) ==
  LET full == Len(broken) = NBROKEN
  IN  /\ At(p, "left")
      /\ broken' = Append(IF full THEN Tail(broken) ELSE broken, p)
      /\ readied' = IF full THEN readied \cup {Head(broken)} ELSE readied
      /\ Go(p, "break")
      /\ UNCHANGED <<proc, state, maker, qwaitr, target, npid>>

(* ... p->state = Broken and sched(), after the list was unlocked.         *)
breaks(p) ==
  /\ At(p, "break")
  /\ state' = [state EXCEPT ![p] = "Broken"]
  /\ Go(p, "broken")
  /\ UNCHANGED <<proc, readied, maker, qwaitr, target, broken, npid>>

(* Fault seeded to test BrokenListed: the process is not readied.          *)
unbreakForgets(p) ==
  /\ state[p] = "Broken" /\ p \in ToSet(broken)
  /\ broken' = SelectSeq(broken, LAMBDA o : o # p)
  /\ UNCHANGED <<stage, proc, state, readied, maker, qwaitr, target, npid>>

(* unbreak(), when a broken process is killed.                             *)
unbreak(p) ==
  /\ state[p] = "Broken" /\ p \in ToSet(broken)
  /\ broken' = SelectSeq(broken, LAMBDA o : o # p)
  /\ readied' = readied \cup {p}
  /\ UNCHANGED <<stage, proc, state, maker, qwaitr, target, npid>>

(* freebroken(), when memory or processes are short.                       *)
freebroken ==
  /\ broken # <<>> /\ broken' = <<>>
  /\ readied' = readied \cup ToSet(broken)
  /\ UNCHANGED <<stage, proc, state, maker, qwaitr, target, npid>>

(* The scheduler runs a process that was readied in addbroken().           *)
resume(p) ==
  /\ At(p, "broken") /\ p \in readied
  /\ readied' = readied \ {p}
  /\ state' = [state EXCEPT ![p] = "Running"]
  /\ Go(p, "gone")
  /\ UNCHANGED <<proc, maker, qwaitr, target, broken, npid>>

(* pexit() with freemem.                                                   *)
freemem(p) ==
  /\ At(p, "left")
  /\ Go(p, "gone")
  /\ UNCHANGED <<proc, state, readied, maker, qwaitr, target, broken, npid>>

(* ... "prevent my children from leaving waits".                           *)
nomore(p) ==
  /\ At(p, "gone")
  /\ proc' = [proc EXCEPT ![p].pid = 0]
  /\ stage' = [o \in Proc |-> IF o = p THEN "zombie" ELSE IF o \in Woken(p) THEN "awake" ELSE stage[o]]
  /\ UNCHANGED <<state, readied, maker, qwaitr, target, broken, npid>>

(* ... the records nobody took are freed; schedinit() frees the slot.      *)
dead(p) ==
  /\ At(p, "zombie")
  /\ proc' = [proc EXCEPT ![p].waitq = <<>>]
  /\ Go(p, "free")
  /\ UNCHANGED <<state, readied, maker, qwaitr, target, broken, npid>>
-----------------------------------------------------------------------------
Next ==
  \/ \E p \in Proc :
       \/ pwait(p) \/ sleep(p) \/ taken(p) \/ interrupted(p)
       \/ pexit(p) \/ record(p) \/ addbroken(p) \/ breaks(p) \/ unbreak(p) \/ resume(p)
       \/ freemem(p) \/ nomore(p) \/ dead(p)
       \/ \E o \in Proc : newproc(p, o) \/ sysrfork(p, o) \/ procread(p, o)
  \/ freebroken

Spec == Init /\ [][Next]_vars
-----------------------------------------------------------------------------
(* The processes that owe one to p a record.                               *)
Owing(p) ==
  {c \in Proc : stage[c] \in {"run", "wait", "asleep", "awake", "exit"} /\ maker[c] = proc[p].pid}

(* The wait records of a process are of children that it made and is to    *)
(* wait for, and nchild counts those that will leave one, although slots   *)
(* and their locks are used again: pwait() does not sleep for a record     *)
(* that will not come, and finds one when it wakes up.                     *)
RecordsExact ==
  \A p \in Proc :
    /\ \A i \in 1..Len(proc[p].waitq) : proc[p].waitq[i].by = proc[p].pid \/ At(p, "zombie")
    /\ proc[p].pid # 0 /\ state[p] # "Broken" /\ ~At(p, "gone")
         => proc[p].nchild = Cardinality(Owing(p))
    /\ At(p, "awake") /\ target[p].of = p => haswaitq(p)

(* A broken process can be found and released: it is on the list, once,    *)
(* unless it was readied, even if that came before it was Broken.          *)
BrokenListed ==
  /\ Len(broken) <= NBROKEN /\ IsInjective(broken)
  /\ \A p \in Proc : stage[p] \in {"break", "broken"} => (p \in ToSet(broken)) # (p \in readied)
  /\ \A p \in ToSet(broken) \cup readied : stage[p] \in {"break", "broken"}
=============================================================================
