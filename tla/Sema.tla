-------------------------------- MODULE Sema --------------------------------
(***************************************************************************)
(* The semaphores of src/port/sysproc.c: semacquire(2), tsemacquire(2) and *)
(* semrelease(2).  The value lives in user memory and is changed only with *)
(* compare and swap; the list of waiters of a segment has a spin lock; the *)
(* flag Sema.waiting is read and written outside of it.  So every access   *)
(* to one of the three is a step.  sleep() and wakeup() are atomic here;   *)
(* module Rendez is about them.                                            *)
(*                                                                         *)
(* A process is in semacquire:                                             *)
(*   "queue" "announce" "try" "sleep" "asleep" "dequeue" "check"           *)
(* or in semwakeup, from semrelease or to pass a wakeup on:                *)
(*   "lock" "scan" "wakeup"                                                *)
(***************************************************************************)
EXTENDS Naturals, SequencesExt, FiniteSets

CONSTANTS
  Proc, nil,
  Addr,           \* the semaphores of the segment
  Initial,        \* their initial value
  Deltas,         \* what semrelease() adds
  Timed,          \* the processes that call tsemacquire()
  Noted,          \* the processes that get notes
  MaxReleased     \* bound: what all releases add

VARIABLES
  value,      \* *addr
  list,       \* the Semas of s->sema.next .. s->sema.prev, by process
  lock,       \* the holder of the lock of the list
  waiting,    \* Sema.waiting of who is in semacquire
  addr,       \* the semaphore each process works on
  pc,
  n,          \* semwakeup(): wakeups left to issue
  cur,        \* semwakeup(): the position in the list
  released    \* what releases have added so far

own == <<addr, n, cur>>
vars == <<value, list, lock, waiting, own, pc, released>>

Init ==
  /\ value = [a \in Addr |-> Initial]
  /\ list = <<>>
  /\ lock = nil
  /\ waiting = [p \in Proc |-> FALSE]
  /\ addr \in [Proc -> {CHOOSE a \in Addr : TRUE}]
  /\ pc = [p \in Proc |-> "idle"]
  /\ n = [p \in Proc |-> 0]
  /\ cur = [p \in Proc |-> 0]
  /\ released = 0

At(p, here) == pc[p] = here
Go(p, there) == pc' = [pc EXCEPT ![p] = there]
Set(f, p, v) == [f EXCEPT ![p] = v]
-----------------------------------------------------------------------------
(* canacquire(), in one compare and swap that succeeds.                    *)
canacquire(p, a) == value[a] > 0 /\ value' = [value EXCEPT ![a] = @ - 1]

(* The first canacquire() of semacquire().  One that does not block just   *)
(* returns 0.                                                              *)
semacquire(p) ==
  /\ At(p, "idle")
  /\ \E a \in Addr :
       /\ addr' = Set(addr, p, a)
       /\ \/ canacquire(p, a) /\ UNCHANGED pc
          \/ value[a] = 0 /\ Go(p, "queue") /\ UNCHANGED value
  /\ UNCHANGED <<list, lock, waiting, n, cur, released>>

(* The Sema, cleared, is put at the end of the list.                       *)
semqueue(p) ==
  /\ At(p, "queue") /\ lock = nil
  /\ list' = Append(list, p)
  /\ waiting' = Set(waiting, p, FALSE)
  /\ Go(p, "announce")
  /\ UNCHANGED <<value, lock, own, released>>

(* phore.waiting = 1; coherence().                                         *)
announce(p) ==
  /\ At(p, "announce")
  /\ waiting' = Set(waiting, p, TRUE)
  /\ Go(p, "try")
  /\ UNCHANGED <<value, list, lock, own, released>>

(* "one last check of semaphore".                                          *)
try(p) ==
  /\ At(p, "try")
  /\ \/ canacquire(p, addr[p]) /\ Go(p, "dequeue")
     \/ value[addr[p]] = 0 /\ Go(p, "sleep") /\ UNCHANGED value
  /\ UNCHANGED <<list, lock, waiting, own, released>>

(* sleep(&phore, semawoke, &phore).                                        *)
sleep(p) ==
  /\ At(p, "sleep")
  /\ Go(p, IF waiting[p] THEN "asleep" ELSE "announce")
  /\ UNCHANGED <<value, list, lock, waiting, own, released>>

(* Fault seeded to test ListExact: an error leaves with the Sema, that is  *)
(* on the stack, still on the list.                                        *)
interruptedEscapes(p) ==
  /\ p \in Noted \cup Timed /\ pc[p] \in {"sleep", "asleep"}
  /\ Go(p, "check")
  /\ UNCHANGED <<value, list, lock, waiting, own, released>>

(* A note or the end of the time of tsemacquire() breaks the loop.         *)
interrupted(p) ==
  /\ p \in Noted \cup Timed /\ pc[p] \in {"sleep", "asleep"}
  /\ Go(p, "dequeue")
  /\ UNCHANGED <<value, list, lock, waiting, own, released>>

semdequeue(p) ==
  /\ At(p, "dequeue") /\ lock = nil
  /\ \E i \in 1..Len(list) : list[i] = p /\ list' = RemoveAt(list, i)
  /\ Go(p, "check")
  /\ UNCHANGED <<value, lock, waiting, own, released>>

(* Fault seeded to test NoForgottenWaiter: the wakeup is not passed on.    *)
passOnForgets(p) ==
  /\ At(p, "check")
  /\ Go(p, "idle")
  /\ waiting' = Set(waiting, p, FALSE)
  /\ UNCHANGED <<value, list, lock, own, released>>

(* if(!phore.waiting) semwakeup(s, addr, 1).  The Sema is gone.            *)
passOn(p) ==
  /\ At(p, "check")
  /\ \/ waiting[p] /\ Go(p, "idle") /\ UNCHANGED n
     \/ ~waiting[p] /\ Go(p, "lock") /\ n' = Set(n, p, 1)
  /\ waiting' = Set(waiting, p, FALSE)
  /\ UNCHANGED <<value, list, lock, addr, cur, released>>
-----------------------------------------------------------------------------
(* semrelease(): add delta, then semwakeup(s, addr, delta).                *)
semrelease(p) ==
  /\ At(p, "idle")
  /\ \E a \in Addr, delta \in Deltas :
       /\ released + delta <= MaxReleased
       /\ value' = [value EXCEPT ![a] = @ + delta]
       /\ released' = released + delta
       /\ addr' = Set(addr, p, a)
       /\ n' = Set(n, p, delta)
  /\ Go(p, "lock")
  /\ UNCHANGED <<list, lock, waiting, cur>>

semwakeup(p) ==
  /\ At(p, "lock") /\ lock = nil
  /\ lock' = p
  /\ cur' = Set(cur, p, 1)
  /\ Go(p, "scan")
  /\ UNCHANGED <<value, list, waiting, addr, n, released>>

Here(p) == list[cur[p]]

(* Fault seeded to test NoForgottenWaiter: any waiter of the segment will  *)
(* do.                                                                     *)
scanAnyAddr(p) ==
  /\ At(p, "scan")
  /\ \/ /\ cur[p] > Len(list) \/ n[p] = 0
        /\ lock' = nil
        /\ Go(p, "idle")
        /\ n' = Set(n, p, 0) /\ cur' = Set(cur, p, 0)
        /\ UNCHANGED waiting
     \/ /\ cur[p] <= Len(list) /\ n[p] > 0
        /\ IF waiting[Here(p)]
           THEN /\ waiting' = Set(waiting, Here(p), FALSE)
                /\ n' = Set(n, p, n[p] - 1)
                /\ Go(p, "wakeup")
                /\ UNCHANGED cur
           ELSE cur' = Set(cur, p, cur[p] + 1) /\ UNCHANGED <<waiting, n, pc>>
        /\ UNCHANGED lock
  /\ UNCHANGED <<value, list, addr, released>>

(* ... one iteration of the loop, or its end.                              *)
scan(p) ==
  /\ At(p, "scan")
  /\ \/ /\ cur[p] > Len(list) \/ n[p] = 0
        /\ lock' = nil
        /\ Go(p, "idle")
        /\ n' = Set(n, p, 0) /\ cur' = Set(cur, p, 0)
        /\ UNCHANGED waiting
     \/ /\ cur[p] <= Len(list) /\ n[p] > 0
        /\ IF addr[Here(p)] = addr[p] /\ waiting[Here(p)]
           THEN /\ waiting' = Set(waiting, Here(p), FALSE)
                /\ n' = Set(n, p, n[p] - 1)
                /\ Go(p, "wakeup")
                /\ UNCHANGED cur
           ELSE cur' = Set(cur, p, cur[p] + 1) /\ UNCHANGED <<waiting, n, pc>>
        /\ UNCHANGED lock
  /\ UNCHANGED <<value, list, addr, released>>

(* ... wakeup(p): it may find the process in a sleep() it began after its  *)
(* flag was cleared.                                                       *)
wakeup(p) ==
  /\ At(p, "wakeup")
  /\ pc' = [q \in Proc |-> IF q = p THEN "scan"
                           ELSE IF q = Here(p) /\ At(q, "asleep") THEN "announce" ELSE pc[q]]
  /\ cur' = Set(cur, p, cur[p] + 1)
  /\ UNCHANGED <<value, list, lock, waiting, addr, n, released>>
-----------------------------------------------------------------------------
Step(p) ==
  \/ semqueue(p) \/ announce(p) \/ try(p) \/ sleep(p) \/ semdequeue(p) \/ passOn(p)
  \/ semwakeup(p) \/ scan(p) \/ wakeup(p)

Next == \E p \in Proc : semacquire(p) \/ semrelease(p) \/ interrupted(p) \/ Step(p)

Spec == Init /\ [][Next]_vars

-----------------------------------------------------------------------------
OnList == {"announce", "try", "sleep", "asleep", "dequeue"}

(* Every variable has its type, and the lock is held just by who scans.    *)
TypeOK ==
  /\ value \in [Addr -> Nat]
  /\ list \in Seq(Proc)
  /\ waiting \in [Proc -> BOOLEAN]
  /\ addr \in [Proc -> Addr]
  /\ n \in [Proc -> Nat] /\ cur \in [Proc -> Nat]
  /\ \A p \in Proc : lock = p <=> pc[p] \in {"scan", "wakeup"}

(* A Sema, which is on the kernel stack of its process, is on the list     *)
(* once while semacquire() is between semqueue() and semdequeue(), and     *)
(* never after it returned.                                                *)
ListExact ==
  /\ IsInjective(list)
  /\ ToSet(list) = {p \in Proc : pc[p] \in OnList}

(* Whoever sleeps has its flag set, or is about to get the wakeup of who   *)
(* cleared it.                                                             *)
NoLostWakeup == \A p \in Proc :
  At(p, "asleep") /\ ~waiting[p] => \E q \in Proc : At(q, "wakeup") /\ Here(q) = p

Busy(p) == pc[p] \notin {"idle", "asleep"}

(* When everybody came to rest, nobody sleeps before a semaphore that has  *)
(* something to give: the n wakeups of release(n) are used or passed on,   *)
(* and none is missed between canacquire() and sleep().                    *)
NoForgottenWaiter == \A p \in Proc :
  At(p, "asleep") /\ value[addr[p]] > 0 => \E q \in Proc : Busy(q)

(* Somebody sleeps before a positive semaphore.                            *)
Stuck == \E p \in Proc : At(p, "asleep") /\ value[addr[p]] > 0
=============================================================================
