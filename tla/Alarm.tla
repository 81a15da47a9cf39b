-------------------------------- MODULE Alarm -------------------------------
(***************************************************************************)
(* alarm(2), src/port/alarm.c: the list of the processes that asked for a  *)
(* note, in the order of their times, and alarmkproc(), which the clock    *)
(* wakes up to post it.                                                    *)
(*                                                                         *)
(* A process that cancels its alarm, or exits, stays on the list until it  *)
(* is its head; its slot may be used again meanwhile.  Times are from now; *)
(* nil is p->alarm == 0.  procalarm() under qlock(&alarms) is one step.    *)
(***************************************************************************)
EXTENDS Integers, SequencesExt

CONSTANTS
  Proc, nil,
  Patient,     \* processes that wait for an alarm they asked for
  MaxTime,     \* the longest alarm, in ticks
  MaxDebug     \* bound: how often others take the debug lock of a process

VARIABLES
  alarms,      \* alarms.head and what p->palarm links
  alarm,       \* p->alarm, from now; 0 is due
  kpc,         \* where alarmkproc() is
  due,         \* the alarms that are due at the time it read
  debug,       \* the processes whose p->debug others hold
  ndebug       \* how often they took one

avars == <<alarms, alarm, kpc, due, debug, ndebug>>

Init ==
  /\ alarms = <<>> /\ alarm = [p \in Proc |-> nil]
  /\ kpc = "read" /\ due = {} /\ debug = {} /\ ndebug = 0

Locked == kpc \in {"scan", "post"}
Due(p) == alarm[p] = nil \/ alarm[p] = 0
-----------------------------------------------------------------------------
(* Fault seeded to test AlarmsExact: a process that is on the list is not  *)
(* looked for.                                                             *)
procalarmTwice(p) ==
  /\ ~Locked
  /\ \E when \in 0..MaxTime :
       LET i == SelectInSeq(alarms, LAMBDA q : alarm[q] # nil /\ alarm[q] > when)
       IN  /\ alarms' = IF i = 0 THEN Append(alarms, p) ELSE InsertAt(alarms, i, p)
           /\ alarm' = [alarm EXCEPT ![p] = when]
           /\ due' = due \ {p}
  /\ UNCHANGED <<kpc, debug, ndebug>>

(* procalarm(): off the list if it is there, and before the first alarm    *)
(* that is later.  The time was read before the lock was taken: it may be  *)
(* over, and alarmkproc() may see it.                                      *)
procalarm(p) ==
  /\ ~Locked /\ (p \in Patient => alarm[p] = nil)
  /\ \E when \in 0..MaxTime :
       LET l == Remove(alarms, p)
           i == SelectInSeq(l, LAMBDA q : alarm[q] # nil /\ alarm[q] > when)
       IN  /\ alarms' = IF i = 0 THEN Append(l, p) ELSE InsertAt(l, i, p)
           /\ alarm' = [alarm EXCEPT ![p] = when]
           /\ \/ due' = due \ {p}
              \/ when = 0 /\ kpc = "lock" /\ due' = due \cup {p}
  /\ UNCHANGED <<kpc, debug, ndebug>>

(* alarm(0), and pexit(): without the lock.                                *)
cancel(p) ==
  /\ alarm[p] # nil /\ p \notin Patient
  /\ alarm' = [alarm EXCEPT ![p] = nil]
  /\ UNCHANGED <<alarms, kpc, due, debug, ndebug>>

(* Others hold its debug lock: /proc, pexit() ...                          *)
qlockDebug(p) ==
  /\ p \notin debug /\ ndebug < MaxDebug
  /\ debug' = debug \cup {p} /\ ndebug' = ndebug + 1
  /\ UNCHANGED <<alarms, alarm, kpc, due>>

qunlockDebug(p) ==
  /\ p \in debug
  /\ debug' = debug \ {p}
  /\ UNCHANGED <<alarms, alarm, kpc, due, ndebug>>
-----------------------------------------------------------------------------
(* Fault seeded to test GoesOn: it is not woken up for an alarm it has not *)
(* been able to post.                                                      *)
tickOnce ==
  /\ alarm' = [p \in Proc |-> IF Due(p) THEN alarm[p] ELSE alarm[p] - 1]
  /\ kpc' = IF kpc = "asleep" /\ alarms # <<>> /\ alarm[Head(alarms)] = 1
            THEN "read" ELSE kpc
  /\ UNCHANGED <<alarms, due, debug, ndebug>>

(* A tick of the clock, and checkalarms(), which looks without the lock;   *)
(* a wakeup() that finds alarmkproc() awake is lost.                       *)
tick ==
  /\ alarm' = [p \in Proc |-> IF Due(p) THEN alarm[p] ELSE alarm[p] - 1]
  /\ kpc' = IF kpc = "asleep" /\ alarms # <<>> /\ alarm'[Head(alarms)] \in {nil, 0}
            THEN "read" ELSE kpc
  /\ UNCHANGED <<alarms, due, debug, ndebug>>

(* alarmkproc() reads the time, ...                                        *)
readtime ==
  /\ kpc = "read" /\ kpc' = "lock"
  /\ due' = {p \in Proc : alarm[p] = 0}
  /\ UNCHANGED <<alarms, alarm, debug, ndebug>>

(* ... takes the lock, ...                                                 *)
qlockAlarms ==
  /\ kpc = "lock" /\ kpc' = "scan"
  /\ UNCHANGED <<alarms, alarm, due, debug, ndebug>>

(* ... looks at the first on the list: one without alarm is taken off it,  *)
(* one whose time has not come ends the round, ...                         *)
scan ==
  /\ kpc = "scan"
  /\ IF alarms # <<>> /\ alarm[Head(alarms)] = nil
     THEN alarms' = Tail(alarms) /\ UNCHANGED kpc
     ELSE /\ kpc' = IF alarms # <<>> /\ Head(alarms) \in due THEN "post" ELSE "sleep"
          /\ UNCHANGED alarms
  /\ UNCHANGED <<alarm, due, debug, ndebug>>

(* ... and one whose time has come gets a note, postnote(), although it    *)
(* may have cancelled it or exited just now, unless somebody has its debug *)
(* lock, which ends the round.                                             *)
post ==
  LET rp == Head(alarms)
  IN  /\ kpc = "post"
      /\ IF rp \in debug
         THEN kpc' = "sleep" /\ UNCHANGED <<alarms, alarm>>
         ELSE /\ alarm' = [alarm EXCEPT ![rp] = nil]
              /\ alarms' = Tail(alarms)
              /\ kpc' = "scan"
      /\ UNCHANGED <<due, debug, ndebug>>

(* The lock is let go and alarmkproc() sleeps for the next tick.           *)
sleep ==
  /\ kpc = "sleep" /\ kpc' = "asleep"
  /\ UNCHANGED <<alarms, alarm, due, debug, ndebug>>

alarmkproc == readtime \/ qlockAlarms \/ scan \/ post \/ sleep

Next ==
  \/ tick \/ alarmkproc
  \/ \E p \in Proc : procalarm(p) \/ cancel(p) \/ qlockDebug(p) \/ qunlockDebug(p)

Spec == Init /\ [][Next]_avars

(* The clock, alarmkproc(), and who holds a debug lock.                    *)
Step(k) ==
  \/ k = 1 /\ tick
  \/ k = 2 /\ alarmkproc
  \/ k = 3 /\ \E p \in Proc : qunlockDebug(p)
-----------------------------------------------------------------------------
(* Whoever has an alarm is on the list, once and in its place, although    *)
(* processes cancel, exit and come back through fields of a process that   *)
(* is linked: none is passed over, and none is linked twice, which would   *)
(* make the list a circle.                                                 *)
AlarmsExact ==
  /\ IsInjective(alarms)
  /\ \A p \in Proc : alarm[p] # nil => p \in ToSet(alarms)
  /\ \A i, j \in 1..Len(alarms) :
       i < j /\ alarm[alarms[i]] # nil /\ alarm[alarms[j]] # nil
         => alarm[alarms[i]] <= alarm[alarms[j]]

(* An alarm that its process waits for is due and not posted.              *)
Stuck == \E p \in Patient : alarm[p] = 0
=============================================================================
