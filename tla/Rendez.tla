------------------------------- MODULE Rendez -------------------------------
(***************************************************************************)
(* Sleep and wakeup, timed sleeps, notes and rendezvous(2): sleep, tsleep, *)
(* wakeup, twakeup and postnote of src/port/proc.c, timerintr of           *)
(* src/port/portclock.c and sysrendezvous of src/port/sysproc.c.           *)
(*                                                                         *)
(* r->p and p->r are kept consistent under two spin locks, lock(r) and     *)
(* p->rlock, that sleep() and wakeup() take in one order and postnote() in *)
(* the other.  Every acquisition of one of them is a step.  What is done   *)
(* between the last acquisition and the releases is part of that step, but *)
(* for sleep(), where the test of the condition, which others make true    *)
(* with no lock held, is a step before the one that commits the sleep.     *)
(*                                                                         *)
(* The actors are the processes, that sleep; wakers, that make a condition *)
(* true and call wakeup() (other processes and interrupt handlers);        *)
(* posters, that post notes; and the clock interrupt.  The processor a     *)
(* process runs on is the subject of module Sched.                         *)
(***************************************************************************)
EXTENDS Naturals, FiniteSets

CONSTANTS
  Proc, Rendezs, Waker, Poster, Clock, nil,
  MayRendezvous   \* the processes that call rendezvous(2) in this instance

Actor == Proc \cup Waker \cup Poster \cup {Clock}

VARIABLES
  rlock,        \* [Rendezs -> the actor that holds lock(r)]
  plock,        \* [Proc -> the actor that holds p->rlock]
  rp,           \* r->p
  pr,           \* p->r
  state,        \* p->state
  notepending,  \* p->notepending
  cond,         \* [Rendezs -> the condition (*f)(arg) of who sleeps there]
  tt,           \* p->tt # nil: the timer is on the list of a processor
  trend,        \* p->trend
  timed,        \* is p in tsleep() ?
  due,          \* has the timer p armed last expired ?  (not in the code)
  rend,         \* the processes in the hash table of the rgrp
  pc,           \* [Actor -> where it is]
  ar,           \* the Rendez an actor works on
  ap            \* the process an actor works on

lockvars == <<rlock, plock>>
timervars == <<tt, trend, timed, due>>
vars == <<rlock, plock, rp, pr, state, notepending, cond, tt, trend, timed, due,
          rend, pc, ar, ap>>

Init ==
  /\ rlock = [r \in Rendezs |-> nil]
  /\ plock = [p \in Proc |-> nil]
  /\ rp = [r \in Rendezs |-> nil]
  /\ pr = [p \in Proc |-> nil]
  /\ state = [p \in Proc |-> "Running"]
  /\ notepending = [p \in Proc |-> FALSE]
  /\ cond = [r \in Rendezs |-> FALSE]
  /\ tt = [p \in Proc |-> FALSE]
  /\ trend = [p \in Proc |-> nil]
  /\ timed = [p \in Proc |-> FALSE]
  /\ due = [p \in Proc |-> FALSE]
  /\ rend = {}
  /\ pc = [a \in Actor |-> "idle"]
  /\ ar = [a \in Actor |-> nil]
  /\ ap = [a \in Actor |-> nil]

At(a, here) == pc[a] = here
Go(a, there) == pc' = [pc EXCEPT ![a] = there]
-----------------------------------------------------------------------------
(* The callers see to it that one process at a time sleeps on a Rendez.    *)
Unused(r) == \A p \in Proc : ar[p] # r

sleep(p, r) ==
  /\ At(p, "idle") /\ Unused(r)
  /\ ar' = [ar EXCEPT ![p] = r]
  /\ Go(p, "lockr")
  /\ UNCHANGED <<lockvars, rp, pr, state, notepending, cond, timervars, rend, ap>>

(* tsleep(): timeradd(), then sleep() with tfn() as the condition.         *)
tsleep(p, r) ==
  /\ At(p, "idle") /\ Unused(r)
  /\ ar' = [ar EXCEPT ![p] = r]
  /\ trend' = [trend EXCEPT ![p] = r]
  /\ tt' = [tt EXCEPT ![p] = TRUE]
  /\ timed' = [timed EXCEPT ![p] = TRUE]
  /\ due' = [due EXCEPT ![p] = FALSE]
  /\ Go(p, "lockr")
  /\ UNCHANGED <<lockvars, rp, pr, state, notepending, cond, rend, ap>>

(* lock(r) in sleep().                                                     *)
sleepLock(p) ==
  /\ At(p, "lockr") /\ rlock[ar[p]] = nil
  /\ rlock' = [rlock EXCEPT ![ar[p]] = p]
  /\ Go(p, "lockp")
  /\ UNCHANGED <<plock, rp, pr, state, notepending, cond, timervars, rend, ar, ap>>

(* The condition of sleep(), which is tfn() in a timed sleep.              *)
Happened(p) == cond[ar[p]] \/ (timed[p] /\ trend[p] = nil)

(* Fault seeded to test NoLostNote: sleep() ignores a pending note.        *)
sleepTestDeaf(p) ==
  /\ At(p, "lockp") /\ plock[p] = nil
  /\ \/ /\ Happened(p)
        /\ rlock' = [rlock EXCEPT ![ar[p]] = nil]
        /\ Go(p, "woke")
        /\ UNCHANGED <<plock, rp>>
     \/ /\ ~Happened(p)
        /\ plock' = [plock EXCEPT ![p] = p]
        /\ rp' = [rp EXCEPT ![ar[p]] = p]
        /\ Go(p, "commit")
        /\ UNCHANGED rlock
  /\ UNCHANGED <<pr, state, notepending, cond, timervars, rend, ar, ap>>

(* lock(&up->rlock), r->p = up and the test: "if condition happened or a   *)
(* note is pending never mind".                                            *)
sleepTest(p) ==
  /\ At(p, "lockp") /\ plock[p] = nil
  /\ \/ /\ Happened(p) \/ notepending[p]
        /\ rlock' = [rlock EXCEPT ![ar[p]] = nil]
        /\ Go(p, "woke")
        /\ UNCHANGED <<plock, rp>>
     \/ /\ ~Happened(p) /\ ~notepending[p]
        /\ plock' = [plock EXCEPT ![p] = p]
        /\ rp' = [rp EXCEPT ![ar[p]] = p]
        /\ Go(p, "commit")
        /\ UNCHANGED rlock
  /\ UNCHANGED <<pr, state, notepending, cond, timervars, rend, ar, ap>>

(* "Now we are committed": what the test looked at may have changed since, *)
(* but whoever changed it has to wait for a lock.  Both are released.      *)
sleepCommit(p) ==
  /\ At(p, "commit")
  /\ state' = [state EXCEPT ![p] = "Wakeme"]
  /\ pr' = [pr EXCEPT ![p] = ar[p]]
  /\ rlock' = [rlock EXCEPT ![ar[p]] = nil]
  /\ plock' = [plock EXCEPT ![p] = nil]
  /\ Go(p, "asleep")
  /\ UNCHANGED <<rp, notepending, cond, timervars, rend, ar, ap>>

(* The scheduler runs a process that was readied.                          *)
resume(p) ==
  /\ state[p] = "Ready"
  /\ state' = [state EXCEPT ![p] = "Running"]
  /\ Go(p, IF At(p, "asleep") THEN "woke" ELSE "idle")
  /\ UNCHANGED <<lockvars, rp, pr, notepending, cond, timervars, rend, ar, ap>>

(* The end of sleep(), with error(Eintr) if a note is pending, and of      *)
(* tsleep(), with timerdel() on both paths.  The caller consumes what it   *)
(* waited for.                                                             *)
sleepReturn(p) ==
  /\ At(p, "woke")
  /\ notepending' = [notepending EXCEPT ![p] = FALSE]
  /\ \/ notepending[p] /\ UNCHANGED cond
     \/ ~notepending[p] /\ cond' = [cond EXCEPT ![ar[p]] = FALSE]
  /\ tt' = [tt EXCEPT ![p] = FALSE]
  /\ timed' = [timed EXCEPT ![p] = FALSE]
  /\ ar' = [ar EXCEPT ![p] = nil]
  /\ Go(p, "idle")
  /\ UNCHANGED <<lockvars, rp, pr, state, trend, due, rend, ap>>
-----------------------------------------------------------------------------
(* A waker makes the condition of a Rendez true, then calls wakeup(r).     *)
happen(w, r) ==
  /\ At(w, "idle")
  /\ cond' = [cond EXCEPT ![r] = TRUE]
  /\ ar' = [ar EXCEPT ![w] = r]
  /\ Go(w, "wakeup")
  /\ UNCHANGED <<lockvars, rp, pr, state, notepending, timervars, rend, ap>>

(* Fault seeded to test NoLostWakeup: if r is locked, somebody else is     *)
(* supposed to take care of it.                                            *)
wakeupTries(a) ==
  /\ At(a, "wakeup")
  /\ \/ /\ rlock[ar[a]] # nil \/ rp[ar[a]] = nil
        /\ Go(a, "idle")
        /\ ar' = [ar EXCEPT ![a] = nil]
        /\ ap' = [ap EXCEPT ![a] = nil]
        /\ UNCHANGED rlock
     \/ /\ rlock[ar[a]] = nil /\ rp[ar[a]] # nil
        /\ rlock' = [rlock EXCEPT ![ar[a]] = a]
        /\ ap' = [ap EXCEPT ![a] = rp[ar[a]]]
        /\ Go(a, "wakeupP")
        /\ UNCHANGED ar
  /\ UNCHANGED <<plock, rp, pr, state, notepending, cond, timervars, rend>>

(* wakeup(r): lock(r) and look at r->p.                                    *)
wakeup(a) ==
  /\ At(a, "wakeup") /\ rlock[ar[a]] = nil
  /\ \/ /\ rp[ar[a]] = nil
        /\ Go(a, "idle")
        /\ ar' = [ar EXCEPT ![a] = nil]
        /\ ap' = [ap EXCEPT ![a] = nil]
        /\ UNCHANGED rlock
     \/ /\ rp[ar[a]] # nil
        /\ rlock' = [rlock EXCEPT ![ar[a]] = a]
        /\ ap' = [ap EXCEPT ![a] = rp[ar[a]]]
        /\ Go(a, "wakeupP")
        /\ UNCHANGED ar
  /\ UNCHANGED <<plock, rp, pr, state, notepending, cond, timervars, rend>>

(* ... lock(&p->rlock), the check, ready(p).                               *)
wakeupP(a) ==
  LET p == ap[a]
  IN  /\ At(a, "wakeupP") /\ plock[p] = nil
      /\ state[p] = "Wakeme" /\ pr[p] = ar[a]         \* or panic("wakeup: state")
      /\ rp' = [rp EXCEPT ![ar[a]] = nil]
      /\ pr' = [pr EXCEPT ![p] = nil]
      /\ state' = [state EXCEPT ![p] = "Ready"]
      /\ rlock' = [rlock EXCEPT ![ar[a]] = nil]
      /\ ar' = [ar EXCEPT ![a] = nil]
      /\ ap' = [ap EXCEPT ![a] = nil]
      /\ Go(a, "idle")
      /\ UNCHANGED <<plock, notepending, cond, timervars, rend>>
-----------------------------------------------------------------------------
(* postnote(p): p->notepending = 1, under p->debug.                        *)
postnote(n, p) ==
  /\ At(n, "idle")
  /\ notepending' = [notepending EXCEPT ![p] = TRUE]
  /\ ap' = [ap EXCEPT ![n] = p]
  /\ Go(n, "noteP")
  /\ UNCHANGED <<lockvars, rp, pr, state, cond, timervars, rend, ar>>

(* ... lock(&p->rlock) and look at p->r.                                   *)
noteLock(n) ==
  LET p == ap[n]
  IN  /\ At(n, "noteP") /\ plock[p] = nil
      /\ \/ pr[p] = nil /\ Go(n, "noteR") /\ UNCHANGED <<plock, ar>>
         \/ /\ pr[p] # nil
            /\ plock' = [plock EXCEPT ![p] = n]
            /\ ar' = [ar EXCEPT ![n] = pr[p]]
            /\ Go(n, "noteTry")
      /\ UNCHANGED <<rlock, rp, pr, state, notepending, cond, timervars, rend, ap>>

(* Fault seeded to test NoPanic: the note is delivered without lock(r).    *)
noteTryUnlocked(n) ==
  LET p == ap[n]
  IN  /\ At(n, "noteTry")
      /\ plock' = [plock EXCEPT ![p] = nil]
      /\ rp' = [rp EXCEPT ![ar[n]] = nil]
      /\ pr' = [pr EXCEPT ![p] = nil]
      /\ state' = [state EXCEPT ![p] = "Ready"]
      /\ ar' = [ar EXCEPT ![n] = nil]
      /\ Go(n, "noteR")
      /\ UNCHANGED <<rlock, notepending, cond, timervars, rend, ap>>

(* ... canlock(r): ready(p), or give up p->rlock and try again.            *)
noteTry(n) ==
  LET p == ap[n]
  IN  /\ At(n, "noteTry")
      /\ plock' = [plock EXCEPT ![p] = nil]
      /\ \/ /\ rlock[ar[n]] = nil
            /\ state[p] = "Wakeme" /\ rp[ar[n]] = p     \* or panic("postnote: state")
            /\ rp' = [rp EXCEPT ![ar[n]] = nil]
            /\ pr' = [pr EXCEPT ![p] = nil]
            /\ state' = [state EXCEPT ![p] = "Ready"]
            /\ Go(n, "noteR")
         \/ /\ rlock[ar[n]] # nil
            /\ Go(n, "noteP")
            /\ UNCHANGED <<rp, pr, state>>
      /\ ar' = [ar EXCEPT ![n] = nil]
      /\ UNCHANGED <<rlock, notepending, cond, timervars, rend, ap>>

(* ... "Try and pull out of a rendezvous", under lock(p->rgrp).            *)
noteRend(n) ==
  LET p == ap[n]
  IN  /\ At(n, "noteR")
      /\ \/ /\ state[p] = "Rendezvous"
            /\ rend' = rend \ {p}
            /\ state' = [state EXCEPT ![p] = "Ready"]
         \/ state[p] # "Rendezvous" /\ UNCHANGED <<rend, state>>
      /\ ap' = [ap EXCEPT ![n] = nil]
      /\ Go(n, "idle")
      /\ UNCHANGED <<lockvars, rp, pr, notepending, cond, timervars, ar>>

(* sysrendezvous(), under lock(up->rgrp): meet one that waits, or wait.    *)
rendezvous(p) ==
  /\ At(p, "idle") /\ p \in MayRendezvous /\ state[p] = "Running"
  /\ \/ \E q \in rend : /\ rend' = rend \ {q}
                        /\ state' = [state EXCEPT ![q] = "Ready"]
                        /\ UNCHANGED pc
     \/ /\ rend = {}
        /\ rend' = {p}
        /\ state' = [state EXCEPT ![p] = "Rendezvous"]
        /\ Go(p, "rendezvous")
  /\ UNCHANGED <<lockvars, rp, pr, notepending, cond, timervars, ar, ap>>
-----------------------------------------------------------------------------
(* timerintr(): an expired timer leaves the list and the lock of the list  *)
(* is released before its function, twakeup(), is called.                  *)
timerintr(p) ==
  /\ At(Clock, "idle") /\ tt[p]
  /\ tt' = [tt EXCEPT ![p] = FALSE]
  /\ due' = [due EXCEPT ![p] = TRUE]
  /\ ap' = [ap EXCEPT ![Clock] = p]
  /\ Go(Clock, "twakeup")
  /\ UNCHANGED <<lockvars, rp, pr, state, notepending, cond, trend, timed, rend, ar>>

(* Fault seeded to test NoLostTimeout: p->trend is cleared too late to be  *)
(* seen by tfn(), that is, not at all.                                     *)
twakeupKeepsTrend ==
  /\ At(Clock, "twakeup")
  /\ ar' = [ar EXCEPT ![Clock] = trend[ap[Clock]]]
  /\ ap' = [ap EXCEPT ![Clock] = nil]
  /\ Go(Clock, IF trend[ap[Clock]] = nil THEN "idle" ELSE "wakeup")
  /\ UNCHANGED <<lockvars, rp, pr, state, notepending, cond, tt, timed, due, rend, trend>>

(* Fault seeded to test GoesOn: nobody is woken up.                        *)
twakeupSilent ==
  /\ At(Clock, "twakeup")
  /\ trend' = [trend EXCEPT ![ap[Clock]] = nil]
  /\ ap' = [ap EXCEPT ![Clock] = nil]
  /\ Go(Clock, "idle")
  /\ UNCHANGED <<lockvars, rp, pr, state, notepending, cond, tt, timed, due, rend, ar>>

(* twakeup(): the timed sleep is over, wake up who is in it.               *)
twakeup ==
  /\ At(Clock, "twakeup")
  /\ trend' = [trend EXCEPT ![ap[Clock]] = nil]
  /\ ar' = [ar EXCEPT ![Clock] = trend[ap[Clock]]]
  /\ ap' = [ap EXCEPT ![Clock] = nil]
  /\ Go(Clock, IF trend[ap[Clock]] = nil THEN "idle" ELSE "wakeup")
  /\ UNCHANGED <<lockvars, rp, pr, state, notepending, cond, tt, timed, due, rend>>

Next ==
  \/ \E p \in Proc : \/ \E r \in Rendezs : sleep(p, r) \/ tsleep(p, r)
                     \/ sleepLock(p) \/ sleepTest(p) \/ sleepCommit(p) \/ resume(p) \/ sleepReturn(p)
                     \/ rendezvous(p) \/ timerintr(p)
  \/ \E w \in Waker, r \in Rendezs : happen(w, r)
  \/ \E a \in Waker \cup {Clock} : wakeup(a) \/ wakeupP(a)
  \/ \E n \in Poster : \/ \E p \in Proc : postnote(n, p)
                       \/ noteLock(n) \/ noteTry(n) \/ noteRend(n)
  \/ twakeup

(* What an actor does once it is in sleep(), wakeup() or postnote().       *)
Step(a) ==
  \/ a \in Proc /\ (sleepLock(a) \/ sleepTest(a) \/ sleepCommit(a) \/ resume(a) \/ sleepReturn(a))
  \/ a \in Waker \cup {Clock} /\ (wakeup(a) \/ wakeupP(a))
  \/ a \in Poster /\ (noteLock(a) \/ noteTry(a) \/ noteRend(a))
  \/ a = Clock /\ (twakeup \/ \E p \in Proc : timerintr(p))

Spec == Init /\ [][Next]_vars
-----------------------------------------------------------------------------
States == {"Running", "Wakeme", "Rendezvous", "Ready"}

(* Every variable has its type, and whoever is in wakeup() has a Rendez.   *)
TypeOK ==
  /\ rlock \in [Rendezs -> Actor \cup {nil}]
  /\ plock \in [Proc -> Actor \cup {nil}]
  /\ rp \in [Rendezs -> Proc \cup {nil}]
  /\ pr \in [Proc -> Rendezs \cup {nil}]
  /\ state \in [Proc -> States]
  /\ notepending \in [Proc -> BOOLEAN] /\ cond \in [Rendezs -> BOOLEAN]
  /\ tt \in [Proc -> BOOLEAN] /\ timed \in [Proc -> BOOLEAN]
  /\ due \in [Proc -> BOOLEAN]
  /\ trend \in [Proc -> Rendezs \cup {nil}]
  /\ rend \subseteq Proc
  /\ pc \in [Actor -> {"idle", "lockr", "lockp", "commit", "asleep", "woke", "rendezvous",
                       "wakeup", "wakeupP", "noteP", "noteTry", "noteR", "twakeup"}]
  /\ ar \in [Actor -> Rendezs \cup {nil}]
  /\ ap \in [Actor -> Proc \cup {nil}]
  /\ \A a \in Actor : pc[a] \in {"wakeup", "wakeupP"} => ar[a] # nil

(* panic("wakeup: state") and panic("postnote: state") are out of reach:   *)
(* whoever holds one lock and waits for the other finds r->p and p->r      *)
(* agreeing when it has both, although a note and a wakeup may race.       *)
NoPanic ==
  /\ \A a \in Waker \cup {Clock} :
       At(a, "wakeupP") /\ plock[ap[a]] = nil =>
         state[ap[a]] = "Wakeme" /\ pr[ap[a]] = ar[a]
  /\ \A n \in Poster :
       At(n, "noteTry") /\ rlock[ar[n]] = nil =>
         state[ap[n]] = "Wakeme" /\ rp[ar[n]] = ap[n]

(* A process that sleeps although its condition holds is about to be woken *)
(* up: whoever made it true has not finished wakeup() yet.                 *)
NoLostWakeup == \A p \in Proc :
  (At(p, "asleep") /\ state[p] = "Wakeme" /\ cond[ar[p]]) =>
     \E a \in Waker \cup {Clock} : pc[a] \in {"wakeup", "wakeupP"} /\ ar[a] = ar[p]

(* A process never sleeps on a Rendez with a note pending, unless postnote *)
(* is still on its way to wake it up.                                      *)
NoLostNote == \A p \in Proc :
  (state[p] = "Wakeme" /\ notepending[p]) =>
     \E n \in Poster : pc[n] \in {"noteP", "noteTry"} /\ ap[n] = p

(* A timed sleep always has its way out: the timer is armed, or the clock  *)
(* is between taking it off its list and waking the process up.            *)
NoLostTimeout == \A p \in Proc :
  (state[p] = "Wakeme" /\ timed[p]) =>
     \/ tt[p]
     \/ At(Clock, "twakeup") /\ ap[Clock] = p
     \/ pc[Clock] \in {"wakeup", "wakeupP"} /\ ar[Clock] = ar[p]

(* A timed sleep times out only if its own timer expired.  timerintr()     *)
(* says that tdel() waits until it is done with an expired timer.          *)
OwnTimeout == \A p \in Proc : (timed[p] /\ trend[p] = nil) => due[p]

(* Somebody sleeps and has a reason to return: the condition holds, a note *)
(* is pending, or the sleep is timed.                                      *)
Stuck == \E p \in Proc :
  At(p, "asleep") /\ (cond[ar[p]] \/ notepending[p] \/ timed[p])
=============================================================================
