-------------------------------- MODULE Timer -------------------------------
(***************************************************************************)
(* The timer lists of src/port/portclock.c: one list per processor, kept   *)
(* in the order of expiry, the interrupt that runs what is due, one-shot   *)
(* timers that processes add and delete from any processor, periodic ones  *)
(* that put themselves back.                                               *)
(*                                                                         *)
(* What runs under ilock(tt) is one step; ilock(nt) excludes two           *)
(* operations on one timer, but not the interrupt.  Times are relative to  *)
(* now: 0 is due.  fastticks, ns2fastticks and the APIC are abstracted to  *)
(* a tick that brings every time nearer.                                   *)
(***************************************************************************)
EXTENDS Naturals, SequencesExt

CONSTANTS
  Machs,      \* processors; 0 is one of them
  OneShot,    \* timers of processes, Trelative
  Periodic,   \* timers of addclock0link(), and the HZ clock
  nil,
  Period      \* the longest time, in ticks

VARIABLES
  timers,     \* [processor -> the list]
  ttof,       \* t->tt
  twhen,      \* t->twhen, from now
  running,    \* the timer whose function the processor's timerintr() runs
  inintr,     \* the processor is in timerintr()
  adding,     \* who is between tdel() and tadd() in timeradd(), on which processor
  apic        \* the ticks to the next interrupt of each processor

Timers == OneShot \cup Periodic
tvars == <<timers, ttof, twhen, running, inintr, adding, apic>>

Init ==
  /\ timers = [m \in Machs |-> <<>>] /\ ttof = [t \in Timers |-> nil]
  /\ twhen = [t \in Timers |-> 0]
  /\ running = [m \in Machs |-> nil] /\ inintr = [m \in Machs |-> FALSE]
  /\ adding = [t \in Timers |-> nil] /\ apic = [m \in Machs |-> Period]
-----------------------------------------------------------------------------
(* tadd(): after those that are due before it or with it.                  *)
Inserted(l, t, when) ==
  LET i == SelectInSeq(l, LAMBDA x : twhen[x] > when)
  IN  IF i = 0 THEN Append(l, t) ELSE InsertAt(l, i, t)

(* ... on the list of processor m; its caller, on processor here, sets its *)
(* own APIC if the timer comes first.                                      *)
tadd(here, m, t, when) ==
  LET l == Inserted(timers[m], t, when)
  IN  /\ timers' = [timers EXCEPT ![m] = l]
      /\ ttof' = [ttof EXCEPT ![t] = m]
      /\ twhen' = [twhen EXCEPT ![t] = when]
      /\ apic' = IF Head(l) = t /\ ~inintr[here] THEN [apic EXCEPT ![here] = when] ELSE apic

(* Fault seeded to test TimersExact: the list is not searched.             *)
tdelHead(t) ==
  /\ timers' = [m \in Machs |-> IF m = ttof[t] THEN Tail(timers[m]) ELSE timers[m]]
  /\ ttof' = [ttof EXCEPT ![t] = nil]

(* tdel(), of a timer that is on a list or not.                            *)
tdel(t) ==
  /\ timers' = [m \in Machs |-> SelectSeq(timers[m], LAMBDA x : x # t)]
  /\ ttof' = [ttof EXCEPT ![t] = nil]

(* A process on processor m may take ilock(): no interrupt, no other such  *)
(* process there, interrupts being off while it has the lock.              *)
Free(m) == ~inintr[m] /\ \A t \in Timers : adding[t] # m

(* timeradd() by a process on processor m: off the list it is on, ...      *)
timeradd(m, t) ==
  /\ t \in OneShot /\ adding[t] = nil /\ Free(m)
  /\ tdel(t)
  /\ adding' = [adding EXCEPT ![t] = m]
  /\ UNCHANGED <<twhen, running, inintr, apic>>

(* ... and on to that of the processor.                                    *)
timeraddList(t) ==
  /\ adding[t] # nil
  /\ \E when \in 1..Period : tadd(adding[t], adding[t], t, when)
  /\ adding' = [adding EXCEPT ![t] = nil]
  /\ UNCHANGED <<running, inintr>>

(* timerdel(): the processor's own APIC is set to what comes first now.    *)
timerdel(m, t) ==
  /\ t \in OneShot /\ adding[t] = nil /\ ttof[t] # nil /\ Free(m)
  /\ tdel(t)
  /\ apic' = IF ttof[t] = m /\ Head(timers[m]) = t /\ Len(timers[m]) > 1
             THEN [apic EXCEPT ![m] = twhen[timers[m][2]]] ELSE apic
  /\ UNCHANGED <<twhen, running, inintr, adding>>

(* addclock0link() and timersinit(): a periodic timer, on the list of      *)
(* processor 0 whoever makes it.                                           *)
addclock0link(m, t) ==
  /\ t \in Periodic /\ ttof[t] = nil /\ \A o \in Machs : running[o] # t
  /\ Free(m)
  /\ tadd(m, 0, t, Period)
  /\ UNCHANGED <<running, inintr, adding>>
-----------------------------------------------------------------------------
(* Time goes on.                                                           *)
tick ==
  LET less(n) == IF n = 0 THEN 0 ELSE n - 1
  IN  /\ \A m \in Machs : ~inintr[m] /\ apic[m] # 0
      /\ twhen' = [t \in Timers |-> less(twhen[t])]
      /\ apic' = [m \in Machs |-> less(apic[m])]
      /\ UNCHANGED <<timers, ttof, running, inintr, adding>>

(* The APIC, which is periodic, interrupts.                                *)
interrupt(m) ==
  /\ Free(m) /\ apic[m] = 0
  /\ inintr' = [inintr EXCEPT ![m] = TRUE]
  /\ apic' = [apic EXCEPT ![m] = Period]
  /\ UNCHANGED <<timers, ttof, twhen, running, adding>>

(* Fault seeded to test GoesOn: the APIC is not set to the next timer.     *)
timerintrDeaf(m) ==
  LET l == timers[m]
  IN  /\ inintr[m] /\ running[m] = nil
      /\ inintr' = [inintr EXCEPT ![m] = FALSE]
      /\ UNCHANGED <<timers, ttof, twhen, running, adding, apic>>

(* timerintr(): the first timer that is due is taken off, its function is  *)
(* called without the lock, or the interrupt ends.                         *)
timerintr(m) ==
  LET l == timers[m]
  IN  /\ inintr[m] /\ running[m] = nil
      /\ IF l # <<>> /\ twhen[Head(l)] = 0
         THEN /\ timers' = [timers EXCEPT ![m] = Tail(@)]
              /\ ttof' = [ttof EXCEPT ![Head(l)] = nil]
              /\ running' = [running EXCEPT ![m] = Head(l)]
              /\ UNCHANGED <<inintr, apic>>
         ELSE /\ inintr' = [inintr EXCEPT ![m] = FALSE]
              /\ apic' = [apic EXCEPT ![m] = IF l # <<>> THEN twhen[Head(l)] ELSE @]
              /\ UNCHANGED <<timers, ttof, running>>
      /\ UNCHANGED <<twhen, adding>>

(* ... the function returned: a periodic timer goes back, whatever was     *)
(* done to it meanwhile.                                                   *)
called(m) ==
  LET t == running[m]
  IN  /\ t # nil
      /\ running' = [running EXCEPT ![m] = nil]
      /\ IF t \in Periodic THEN \E when \in 1..Period : tadd(m, m, t, when)
         ELSE UNCHANGED <<timers, ttof, twhen, apic>>
      /\ UNCHANGED <<inintr, adding>>
-----------------------------------------------------------------------------
Next ==
  \/ \E m \in Machs : \/ interrupt(m) \/ timerintr(m) \/ called(m)
                      \/ \E t \in Timers : timeradd(m, t) \/ timerdel(m, t) \/ addclock0link(m, t)
  \/ \E t \in Timers : timeraddList(t)
  \/ tick

Spec == Init /\ [][Next]_tvars

(* The clock: interrupts are taken and end, time passes; and whoever is in *)
(* timeradd().                                                             *)
Step(t) ==
  \/ t \in Periodic /\ (tick \/ \E m \in Machs : interrupt(m) \/ timerintr(m) \/ called(m))
  \/ t \in OneShot /\ timeraddList(t)
-----------------------------------------------------------------------------
(* A timer is on the list its t->tt names and nowhere else, no list has it *)
(* twice or out of order, and tadd() finds it on none, as it asserts:      *)
(* neither an interrupt on another processor nor timeradd() from a third   *)
(* one breaks the lists.                                                   *)
TimersExact ==
  /\ \A m \in Machs :
       LET l == timers[m]
       IN  /\ IsInjective(l)
           /\ \A t \in Timers : (t \in ToSet(l)) = (ttof[t] = m)
           /\ \A i, j \in 1..Len(l) : i < j => twhen[l[i]] <= twhen[l[j]]
           /\ running[m] \in Periodic => ttof[running[m]] = nil
  /\ \A t \in Timers : adding[t] # nil => ttof[t] = nil

(* A timer is due and has not been run.                                    *)
Stuck == \E t \in Timers : ttof[t] # nil /\ twhen[t] = 0
=============================================================================
