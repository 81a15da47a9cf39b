------------------------------ MODULE MCKernel ------------------------------
(***************************************************************************)
(* Model checking of small components of the kernel that do not interact,  *)
(* one per behaviour: "on" says which.  Components share the names of      *)
(* variables they both have.                                               *)
(***************************************************************************)
EXTENDS Naturals, TLC

CONSTANTS p1, p2, p3, a, b, r1, w1, n1, clock, t1, t2, hz, nil

VARIABLES
  on,      \* the component the behaviour is of
  value, list, lock, waiting, addr, pc, n, cur, released, rlock, plock, rp,
  pr, state, notepending, cond, tt, trend, timed, due, rend, ar, ap, timers,
  ttof, twhen, running, inintr, adding, apic, alarms, alarm, kpc, debug,
  ndebug, queue, rip, free, nrpc, tagmask, rpc, series, pos, flush, err, srv,
  wire, hungup, nreq, nflush, notes, unled, unflushed

vars == <<on, value, list, lock, waiting, addr, pc, n, cur, released, rlock,
          plock, rp, pr, state, notepending, cond, tt, trend, timed, due,
          rend, ar, ap, timers, ttof, twhen, running, inintr, adding, apic,
          alarms, alarm, kpc, debug, ndebug, queue, rip, free, nrpc, tagmask,
          rpc, series, pos, flush, err, srv, wire, hungup, nreq, nflush,
          notes, unled, unflushed>>

(* Who makes the first, the second ... 9P request.                         *)
MntCallers == <<{p1}, {p1, p2}, {p1, p2}>>
SeriesCallers == <<{p1}, {p1, p2}>>
ReadersCallers == <<{p1}, {p2}, {p3}>>

Sema == INSTANCE Sema WITH
  Proc <- {p1, p2, p3}, Addr <- {a}, Initial <- 0, Deltas <- {1, 2},
  Timed <- {p2}, Noted <- {p2}, MaxReleased <- 2
Semas == INSTANCE Sema WITH
  Proc <- {p1, p2, p3}, Addr <- {a, b}, Initial <- 0, Deltas <- {1},
  Timed <- {p2}, Noted <- {p2}, MaxReleased <- 1
Rendez == INSTANCE Rendez WITH
  Proc <- {p1}, Rendezs <- {r1}, Waker <- {w1}, Poster <- {n1},
  Clock <- clock, MayRendezvous <- {}
Timer == INSTANCE Timer WITH
  Machs <- {0, 1}, OneShot <- {t1, t2}, Periodic <- {hz}, Period <- 2
Alarm == INSTANCE Alarm WITH
  Proc <- {p1, p2, p3}, Patient <- {p1}, MaxTime <- 2, MaxDebug <- 1
Mnt == INSTANCE Mnt WITH
  Proc <- {p1, p2}, MaxSeries <- 1, Callers <- MntCallers, NRpc <- 6,
  sharedtags <- TRUE, MaxNotes <- 1, May <- {"sleep", "write", "read"}
Series == INSTANCE Mnt WITH
  Proc <- {p1, p2}, MaxSeries <- 2, Callers <- SeriesCallers, NRpc <- 6,
  sharedtags <- TRUE, MaxNotes <- 2, May <- {"sleep", "Rerror", "hangup"}
Readers == INSTANCE Mnt WITH
  Proc <- {p1, p2, p3}, MaxSeries <- 1, Callers <- ReadersCallers, NRpc <- 6,
  sharedtags <- TRUE, MaxNotes <- 1, May <- {"sleep", "hangup"}
-----------------------------------------------------------------------------
(* The variables that a component does not have.                           *)
semaRest == <<rlock, plock, rp, pr, state, notepending, cond, tt, trend,
              timed, due, rend, ar, ap, timers, ttof, twhen, running, inintr,
              adding, apic, alarms, alarm, kpc, debug, ndebug, queue, rip,
              free, nrpc, tagmask, rpc, series, pos, flush, err, srv, wire,
              hungup, nreq, nflush, notes, unled, unflushed>>
semasRest == <<rlock, plock, rp, pr, state, notepending, cond, tt, trend,
               timed, due, rend, ar, ap, timers, ttof, twhen, running,
               inintr, adding, apic, alarms, alarm, kpc, debug, ndebug,
               queue, rip, free, nrpc, tagmask, rpc, series, pos, flush, err,
               srv, wire, hungup, nreq, nflush, notes, unled, unflushed>>
rendezRest == <<value, list, lock, waiting, addr, n, cur, released, timers,
                ttof, twhen, running, inintr, adding, apic, alarms, alarm,
                kpc, debug, ndebug, queue, rip, free, nrpc, tagmask, rpc,
                series, pos, flush, err, srv, wire, hungup, nreq, nflush,
                notes, unled, unflushed>>
timerRest == <<value, list, lock, waiting, addr, pc, n, cur, released, rlock,
               plock, rp, pr, state, notepending, cond, tt, trend, timed,
               due, rend, ar, ap, alarms, alarm, kpc, debug, ndebug, queue,
               rip, free, nrpc, tagmask, rpc, series, pos, flush, err, srv,
               wire, hungup, nreq, nflush, notes, unled, unflushed>>
alarmRest == <<value, list, lock, waiting, addr, pc, n, cur, released, rlock,
               plock, rp, pr, state, notepending, cond, tt, trend, timed,
               rend, ar, ap, timers, ttof, twhen, running, inintr, adding,
               apic, queue, rip, free, nrpc, tagmask, rpc, series, pos,
               flush, err, srv, wire, hungup, nreq, nflush, notes, unled,
               unflushed>>
mntRest == <<value, list, lock, waiting, addr, n, cur, released, rlock,
             plock, rp, pr, state, notepending, cond, tt, trend, timed, due,
             rend, ar, ap, timers, ttof, twhen, running, inintr, adding,
             apic, alarms, alarm, kpc, debug, ndebug>>
serRest == <<value, list, lock, waiting, addr, n, cur, released, rlock,
             plock, rp, pr, state, notepending, cond, tt, trend, timed, due,
             rend, ar, ap, timers, ttof, twhen, running, inintr, adding,
             apic, alarms, alarm, kpc, debug, ndebug>>
readersRest == <<value, list, lock, waiting, addr, n, cur, released, rlock,
                 plock, rp, pr, state, notepending, cond, tt, trend, timed,
                 due, rend, ar, ap, timers, ttof, twhen, running, inintr,
                 adding, apic, alarms, alarm, kpc, debug, ndebug>>

Init ==
  \/ /\ on = "sema" /\ Sema!Init
     /\ rlock = nil /\ plock = nil /\ rp = nil /\ pr = nil /\ state = nil /\
        notepending = nil /\ cond = nil /\ tt = nil /\ trend = nil /\
        timed = nil /\ due = nil /\ rend = nil /\ ar = nil /\ ap = nil /\
        timers = nil /\ ttof = nil /\ twhen = nil /\ running = nil /\
        inintr = nil /\ adding = nil /\ apic = nil /\ alarms = nil /\
        alarm = nil /\ kpc = nil /\ debug = nil /\ ndebug = nil /\
        queue = nil /\ rip = nil /\ free = nil /\ nrpc = nil /\
        tagmask = nil /\ rpc = nil /\ series = nil /\ pos = nil /\
        flush = nil /\ err = nil /\ srv = nil /\ wire = nil /\
        hungup = nil /\ nreq = nil /\ nflush = nil /\ notes = nil /\
        unled = nil /\ unflushed = nil
  \/ /\ on = "semas" /\ Semas!Init
     /\ rlock = nil /\ plock = nil /\ rp = nil /\ pr = nil /\ state = nil /\
        notepending = nil /\ cond = nil /\ tt = nil /\ trend = nil /\
        timed = nil /\ due = nil /\ rend = nil /\ ar = nil /\ ap = nil /\
        timers = nil /\ ttof = nil /\ twhen = nil /\ running = nil /\
        inintr = nil /\ adding = nil /\ apic = nil /\ alarms = nil /\
        alarm = nil /\ kpc = nil /\ debug = nil /\ ndebug = nil /\
        queue = nil /\ rip = nil /\ free = nil /\ nrpc = nil /\
        tagmask = nil /\ rpc = nil /\ series = nil /\ pos = nil /\
        flush = nil /\ err = nil /\ srv = nil /\ wire = nil /\
        hungup = nil /\ nreq = nil /\ nflush = nil /\ notes = nil /\
        unled = nil /\ unflushed = nil
  \/ /\ on = "rendez" /\ Rendez!Init
     /\ value = nil /\ list = nil /\ lock = nil /\ waiting = nil /\
        addr = nil /\ n = nil /\ cur = nil /\ released = nil /\
        timers = nil /\ ttof = nil /\ twhen = nil /\ running = nil /\
        inintr = nil /\ adding = nil /\ apic = nil /\ alarms = nil /\
        alarm = nil /\ kpc = nil /\ debug = nil /\ ndebug = nil /\
        queue = nil /\ rip = nil /\ free = nil /\ nrpc = nil /\
        tagmask = nil /\ rpc = nil /\ series = nil /\ pos = nil /\
        flush = nil /\ err = nil /\ srv = nil /\ wire = nil /\
        hungup = nil /\ nreq = nil /\ nflush = nil /\ notes = nil /\
        unled = nil /\ unflushed = nil
  \/ /\ on = "timer" /\ Timer!Init
     /\ value = nil /\ list = nil /\ lock = nil /\ waiting = nil /\
        addr = nil /\ pc = nil /\ n = nil /\ cur = nil /\ released = nil /\
        rlock = nil /\ plock = nil /\ rp = nil /\ pr = nil /\ state = nil /\
        notepending = nil /\ cond = nil /\ tt = nil /\ trend = nil /\
        timed = nil /\ due = nil /\ rend = nil /\ ar = nil /\ ap = nil /\
        alarms = nil /\ alarm = nil /\ kpc = nil /\ debug = nil /\
        ndebug = nil /\ queue = nil /\ rip = nil /\ free = nil /\
        nrpc = nil /\ tagmask = nil /\ rpc = nil /\ series = nil /\
        pos = nil /\ flush = nil /\ err = nil /\ srv = nil /\ wire = nil /\
        hungup = nil /\ nreq = nil /\ nflush = nil /\ notes = nil /\
        unled = nil /\ unflushed = nil
  \/ /\ on = "alarm" /\ Alarm!Init
     /\ value = nil /\ list = nil /\ lock = nil /\ waiting = nil /\
        addr = nil /\ pc = nil /\ n = nil /\ cur = nil /\ released = nil /\
        rlock = nil /\ plock = nil /\ rp = nil /\ pr = nil /\ state = nil /\
        notepending = nil /\ cond = nil /\ tt = nil /\ trend = nil /\
        timed = nil /\ rend = nil /\ ar = nil /\ ap = nil /\ timers = nil /\
        ttof = nil /\ twhen = nil /\ running = nil /\ inintr = nil /\
        adding = nil /\ apic = nil /\ queue = nil /\ rip = nil /\
        free = nil /\ nrpc = nil /\ tagmask = nil /\ rpc = nil /\
        series = nil /\ pos = nil /\ flush = nil /\ err = nil /\ srv = nil /\
        wire = nil /\ hungup = nil /\ nreq = nil /\ nflush = nil /\
        notes = nil /\ unled = nil /\ unflushed = nil
  \/ /\ on = "mnt" /\ Mnt!Init
     /\ value = nil /\ list = nil /\ lock = nil /\ waiting = nil /\
        addr = nil /\ n = nil /\ cur = nil /\ released = nil /\
        rlock = nil /\ plock = nil /\ rp = nil /\ pr = nil /\ state = nil /\
        notepending = nil /\ cond = nil /\ tt = nil /\ trend = nil /\
        timed = nil /\ due = nil /\ rend = nil /\ ar = nil /\ ap = nil /\
        timers = nil /\ ttof = nil /\ twhen = nil /\ running = nil /\
        inintr = nil /\ adding = nil /\ apic = nil /\ alarms = nil /\
        alarm = nil /\ kpc = nil /\ debug = nil /\ ndebug = nil
  \/ /\ on = "ser" /\ Series!Init
     /\ value = nil /\ list = nil /\ lock = nil /\ waiting = nil /\
        addr = nil /\ n = nil /\ cur = nil /\ released = nil /\
        rlock = nil /\ plock = nil /\ rp = nil /\ pr = nil /\ state = nil /\
        notepending = nil /\ cond = nil /\ tt = nil /\ trend = nil /\
        timed = nil /\ due = nil /\ rend = nil /\ ar = nil /\ ap = nil /\
        timers = nil /\ ttof = nil /\ twhen = nil /\ running = nil /\
        inintr = nil /\ adding = nil /\ apic = nil /\ alarms = nil /\
        alarm = nil /\ kpc = nil /\ debug = nil /\ ndebug = nil
  \/ /\ on = "readers" /\ Readers!Init
     /\ value = nil /\ list = nil /\ lock = nil /\ waiting = nil /\
        addr = nil /\ n = nil /\ cur = nil /\ released = nil /\
        rlock = nil /\ plock = nil /\ rp = nil /\ pr = nil /\ state = nil /\
        notepending = nil /\ cond = nil /\ tt = nil /\ trend = nil /\
        timed = nil /\ due = nil /\ rend = nil /\ ar = nil /\ ap = nil /\
        timers = nil /\ ttof = nil /\ twhen = nil /\ running = nil /\
        inintr = nil /\ adding = nil /\ apic = nil /\ alarms = nil /\
        alarm = nil /\ kpc = nil /\ debug = nil /\ ndebug = nil

Next ==
  /\ UNCHANGED on
  /\ \/ on = "sema" /\ Sema!Next /\ UNCHANGED semaRest
     \/ on = "semas" /\ Semas!Next /\ UNCHANGED semasRest
     \/ on = "rendez" /\ Rendez!Next /\ UNCHANGED rendezRest
     \/ on = "timer" /\ Timer!Next /\ UNCHANGED timerRest
     \/ on = "alarm" /\ Alarm!Next /\ UNCHANGED alarmRest
     \/ on = "mnt" /\ Mnt!Next /\ UNCHANGED mntRest
     \/ on = "ser" /\ Series!Next /\ UNCHANGED serRest
     \/ on = "readers" /\ Readers!Next /\ UNCHANGED readersRest

Spec == Init /\ [][Next]_vars

(* The threads of control of a component that keep running.                *)
Thread(k) ==
  \/ on = "sema" /\ k < 4 /\ Sema!Step(<<p1, p2, p3>>[k]) /\ UNCHANGED semaRest
  \/ on = "semas" /\ k < 4 /\ Semas!Step(<<p1, p2, p3>>[k]) /\ UNCHANGED semasRest
  \/ on = "rendez" /\ Rendez!Step(<<p1, w1, n1, clock>>[k]) /\ UNCHANGED rendezRest
  \/ on = "timer" /\ k < 4 /\ Timer!Step(<<hz, t1, t2>>[k]) /\ UNCHANGED timerRest
  \/ on = "alarm" /\ k < 4 /\ Alarm!Step(k) /\ UNCHANGED alarmRest

(* The callers and the server of the mount driver, which do not compete    *)
(* for spin locks.                                                         *)
Caller(k) ==
  \/ on = "mnt" /\ k < 4 /\ UNCHANGED mntRest
       /\ IF k = 3 THEN Mnt!Serves ELSE Mnt!Goes(<<p1, p2>>[k])
  \/ on = "ser" /\ k < 4 /\ UNCHANGED serRest
       /\ IF k = 3 THEN Series!Serves ELSE Series!Goes(<<p1, p2>>[k])
  \/ on = "readers" /\ UNCHANGED readersRest
       /\ IF k = 4 THEN Readers!Serves ELSE Readers!Goes(<<p1, p2, p3>>[k])

FairSpec ==
  /\ Spec
  /\ \A k \in 1..4 : SF_vars(on' = on /\ Thread(k))
  /\ \A k \in 1..4 : WF_vars(on' = on /\ Caller(k))
-----------------------------------------------------------------------------
(* What is on a list belongs there, once and in its place: the Sema of a   *)
(* semacquire(), which is on a kernel stack, while the call lasts and      *)
(* never after; a timer while it is set and its function does not run; a   *)
(* process while it has an alarm.                                          *)
ListsExact ==
  CASE on = "sema" -> Sema!TypeOK /\ Sema!ListExact /\ Sema!NoLostWakeup
    [] on = "semas" -> Semas!TypeOK /\ Semas!ListExact /\ Semas!NoLostWakeup
    [] on = "timer" -> Timer!TimersExact
    [] on = "alarm" -> Alarm!AlarmsExact [] OTHER -> TRUE

(* A semaphore that is worth waiting for has a waiter awake, or somebody   *)
(* on the way to rouse one.                                                *)
NoForgottenWaiter ==
  CASE on = "sema" -> Sema!NoForgottenWaiter [] on = "semas" -> Semas!NoForgottenWaiter
    [] OTHER -> TRUE

(* Whoever waits for what has come goes on: an acquirer for a semaphore    *)
(* that is up, a sleeper that was called, noted or timed out, a timer or   *)
(* an alarm whose time has come, a 9P call whose reply comes, also after   *)
(* notes to callers and to whoever reads for the others.  Two things stop  *)
(* 9P calls for good: a panic of the mount driver, and a note to the       *)
(* process that mntgate() has just woken to be the next reader, which      *)
(* leaves without telling another (Mnt!Unread).                            *)
GoesOn == []<>CASE on = "sema" -> ~Sema!Stuck
              [] on = "semas" -> ~Semas!Stuck
              [] on = "rendez" -> ~Rendez!Stuck
              [] on = "timer" -> ~Timer!Stuck
              [] on = "alarm" -> ~Alarm!Stuck
              [] on = "mnt" -> ~Mnt!Stuck
              [] on = "ser" -> ~Series!Stuck
              [] on = "readers" -> ~Readers!Stuck
=============================================================================
