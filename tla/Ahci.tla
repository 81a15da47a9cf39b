-------------------------------- MODULE Ahci --------------------------------
(***************************************************************************)
(* A drive of the AHCI driver (src/386/sdiahci.c): requests, the interrupt *)
(* and the kernel process that checks the drive every Nms and resets or    *)
(* identifies it.                                                          *)
(*                                                                         *)
(* A command is a record of who gave it, its block and its place in the    *)
(* buffer; ci is the one the device has, nil if bit 0 of p->ci is clear.   *)
(* "sst" is what p->sstatus says: "none", "present" (no phy), "comm",      *)
(* "offline".  The masks of d->wait and the times are choices.             *)
(***************************************************************************)
EXTENDS Naturals, Sequences, FiniteSets

CONSTANTS
  Proc,         \* processes with requests
  K,            \* satakproc
  Atapi,        \* d->portm.feat & Datapi
  Ops,          \* the requests made, of "rw" and "flush"
  Blocks,       \* commands a request takes
  MaxTry,       \* tries of a request; 10
  MaxReq,       \* bound: requests
  MaxPlug,      \* bound: changes of what is plugged in
  nil

VARIABLES
  state,        \* d->state
  flag,         \* d->portm.flag
  ci, ctab,     \* the command the device has; the one that ahcibuild() made
  err,          \* p->task says error
  ast,          \* p->cmd & Ast
  sst,          \* p->sstatus
  disk,         \* which disk is plugged in
  isr,          \* p->isr, causes of interrupts
  portm,        \* who holds d->portm
  active,       \* d->active
  serial,       \* d->sectors and d->serial: the disk identified, 0 if none
  usectors,     \* u->sectors, the same
  mediachange,  \* d->mediachange
  pc,           \* where each process, and satakproc, is
  req,          \* its request
  buf,          \* its buffer: the block read into each place
  nreq, nplug,
  late          \* a command timed out while the device still had it

vars == <<state, flag, ci, ctab, err, ast, sst, disk, isr, portm, active, serial,
          usectors, mediachange, pc, req, buf, nreq, nplug, late>>
media == <<serial, usectors, mediachange>>
device == <<sst, disk, nplug>>

All == Proc \cup {K}
Cmd(p, lba, at) == [p |-> p, lba |-> lba, at |-> at]
New == [lba |-> 1, at |-> 1, try |-> 0, fl |-> {}, slip |-> FALSE, busy |-> FALSE,
        stale |-> FALSE, op |-> "rw"]

(* A drive after ahciconfigdrive() at boot.                                *)
Init ==
  /\ state = "missing" /\ flag = {} /\ ci = nil /\ ctab = nil /\ err = FALSE
  /\ ast = TRUE /\ sst = "comm" /\ disk = 1 /\ isr = {"prcs"}
  /\ portm = nil /\ active = 0
  /\ serial = 0 /\ usectors = 0 /\ mediachange = FALSE
  /\ pc = [p \in All |-> "idle"]
  /\ req = [p \in Proc |-> New]
  /\ buf = [p \in Proc |-> [i \in 1..Blocks |-> 0]]
  /\ nreq = 0 /\ nplug = 0 /\ late = FALSE

Go(p, l) == pc' = [pc EXCEPT ![p] = l]

(* wakeup(&d->portm): sleep() returns whatever the condition is by then.   *)
Woken(f) == [p \in All |-> IF f[p] = "asleep" THEN "awake"
                           ELSE IF f[p] = "waits" THEN "waited" ELSE f[p]]
-----------------------------------------------------------------------------
(* The device.                                                             *)
DoneCommand ==
  /\ ci # nil /\ ast /\ sst = "comm"
  /\ ci' = nil /\ err' = FALSE /\ isr' = isr \cup {"dhrs"}
  /\ buf' = IF ci.lba = 0 THEN buf ELSE [buf EXCEPT ![ci.p][ci.at] = ci.lba]
  /\ late' = FALSE
  /\ UNCHANGED <<state, flag, ctab, ast, portm, active, pc, req, nreq, media, device>>

FailCommand ==
  /\ ci # nil /\ ast /\ sst = "comm" /\ ~err
  /\ err' = TRUE /\ isr' = isr \cup {"dhrs", "fatal"}
  /\ UNCHANGED <<state, flag, ci, ctab, ast, portm, active, pc, req, buf, nreq, late, media, device>>

Plug ==
  /\ nplug < MaxPlug /\ nplug' = nplug + 1
  /\ \E s \in {"none", "present", "comm", "offline"} \ {sst} :
       /\ sst' = s
       /\ disk' \in IF s = "comm" /\ sst = "none" THEN {1, 2} ELSE {disk}
  /\ isr' = isr \cup {"prcs"}
  /\ UNCHANGED <<state, flag, ci, ctab, err, ast, portm, active, pc, req, buf, nreq, late, media>>
-----------------------------------------------------------------------------
(* clearci(): turning Ast off and on makes the device forget the command.  *)
clearci == ci' = (IF ast THEN nil ELSE ci) /\ late' = (IF ast THEN FALSE ELSE late)

updatedrive ==
  LET lost == "prcs" \in isr
      bad == "dhrs" \in isr /\ err
      ewake == "fatal" \in isr \/ bad \/ lost
  IN /\ isr' = {}
     /\ flag' = flag \cup (IF ci = nil THEN {"done"} ELSE {})
                     \cup (IF bad \/ lost THEN {"error"} ELSE {})
     /\ state' = IF lost THEN CASE sst = "none" -> "missing"
                                [] sst = "present" -> "error"
                                [] sst = "comm" -> "reset"
                                [] sst = "offline" -> "offline"
                 ELSE state
     /\ IF ewake THEN clearci ELSE UNCHANGED <<ci, late>>
     /\ pc' = IF ewake \/ ci = nil THEN Woken(pc) ELSE pc
  /\ UNCHANGED <<ctab, err, ast, portm, active, req, buf, nreq, media, device>>

(* The drive's bit is set in the controller's.                             *)
iainterrupt == isr # {} /\ updatedrive
-----------------------------------------------------------------------------
(* iario() and iariopkt(): a request for Blocks commands, or a flush of    *)
(* the drive's cache.                                                      *)
iario(p) ==
  /\ pc[p] \in {"idle", "ok", "eio"} /\ nreq < MaxReq
  /\ nreq' = nreq + 1
  /\ \E o \in Ops : req' = [req EXCEPT ![p] = [New EXCEPT !.op = o]]
  /\ buf' = [buf EXCEPT ![p] = [i \in 1..Blocks |-> 0]]
  /\ Go(p, "build")
  /\ UNCHANGED <<state, flag, ci, ctab, err, ast, isr, portm, active, late, media, device>>

(* ahcibuild(), ahcibuildpkt(): with d->portm, which lockready() takes too.*)
ahcibuild(p) ==
  /\ pc[p] = "build" /\ portm = nil
  /\ portm' = p
  /\ ctab' = IF req[p].op = "flush" THEN Cmd(p, 0, 0) ELSE Cmd(p, req[p].lba, req[p].at)
  /\ Go(p, "ready")
  /\ UNCHANGED <<state, flag, ci, err, ast, isr, active, req, buf, nreq, late, media, device>>

(* goto retry: data = r->data, though lba and count have moved on.         *)
Retry(p, r) == [r EXCEPT !.at = 1, !.slip = @ \/ (r.op = "rw" /\ r.lba # 1)]

(* waitready() returns 1: d->portm is let go of and the request starts     *)
(* again.                                                                  *)
waitreadyAgain(p) ==
  /\ pc[p] = "ready" /\ state \in {"reset", "portreset", "new"}
  /\ portm' = nil
  /\ req' = [req EXCEPT ![p] = Retry(p, @)]
  /\ Go(p, "build")
  /\ UNCHANGED <<state, flag, ci, ctab, err, ast, isr, active, buf, nreq, late, media, device>>

(* waitready() returns -1: there is no drive, or it has not been ready for *)
(* 15 seconds.                                                             *)
waitreadyFails(p) ==
  /\ pc[p] = "ready" /\ state \notin {"reset", "portreset", "new"}
  /\ \/ state = "null" /\ UNCHANGED state
     \/ sst \notin {"comm"} /\ UNCHANGED state
     \/ state # "ready" /\ state' = "offline"
  /\ portm' = nil
  /\ Go(p, "eio")
  /\ UNCHANGED <<flag, ci, ctab, err, ast, isr, active, req, buf, nreq, late, media, device>>

(* waitready() returns 0.                                                  *)
waitready(p) ==
  /\ pc[p] = "ready" /\ state = "ready" /\ sst = "comm"
  /\ Go(p, "issue")
  /\ UNCHANGED <<state, flag, ci, ctab, err, ast, isr, portm, active, req, buf, nreq, late, media, device>>

(* p->ci = 1: the device takes what is in the table, unless it is still at *)
(* a command.                                                              *)
Issue(c) == ci' = IF ci = nil THEN c ELSE ci

issue(p) ==
  /\ pc[p] = "issue" /\ req[p].op = "rw"
  /\ flag' = {}
  /\ Issue(ctab)
  /\ req' = [req EXCEPT ![p].busy = @ \/ late, ![p].stale = state # "ready"]
  /\ active' = active + 1
  /\ Go(p, "sleep")
  /\ UNCHANGED <<state, ctab, err, ast, isr, portm, buf, nreq, late, media, device>>

sleep(p) ==
  /\ pc[p] = "sleep"
  /\ Go(p, IF ci = nil THEN "awake" ELSE "asleep")
  /\ UNCHANGED <<state, flag, ci, ctab, err, ast, isr, portm, active, req, buf, nreq, late, media, device>>

(* With a packet device an error leaves nothing done.                      *)
iariopkt(f) == IF err /\ Atapi THEN f \ {"done"} ELSE f

(* After sleep(): an error that is fatal calls for ahcirecover().          *)
awake(p) ==
  /\ pc[p] = "awake"
  /\ active' = active - 1
  /\ req' = [req EXCEPT ![p].fl = iariopkt(flag)]
  /\ Go(p, IF err THEN "recover" ELSE "unlock")
  /\ UNCHANGED <<state, flag, ci, ctab, err, ast, isr, portm, buf, nreq, late, media, device>>

(* Commands of the driver itself, setudmamode() here: ahciwait() sleeps    *)
(* with a timeout.                                                         *)
Control(p, l) ==
  /\ ctab' = Cmd(p, 0, 0)
  /\ Issue(Cmd(p, 0, 0))
  /\ Go(p, l)

(* ahcirecover(): the port is stopped and started again.                   *)
ahcirecover(p) ==
  /\ pc[p] = "recover"
  /\ ast' = TRUE /\ err' = FALSE /\ late' = FALSE
  /\ ctab' = Cmd(p, 0, 0) /\ ci' = Cmd(p, 0, 0)
  /\ Go(p, "waits")
  /\ UNCHANGED <<state, flag, isr, portm, active, req, buf, nreq, media, device>>

ahciflushcache(p) ==
  /\ pc[p] = "issue" /\ req[p].op = "flush"
  /\ Control(p, "waits")
  /\ UNCHANGED <<state, flag, err, ast, isr, portm, active, req, buf, nreq, late, media, device>>

(* ahciwait(): -1 if the command is still there or has failed.             *)
ahciwait(p) ==
  /\ pc[p] = "waits" \/ pc[p] = "waited"
  /\ IF req[p].op = "flush"
     THEN Go(p, IF ci = nil /\ ~err THEN "flushed" ELSE "failed")
     ELSE Go(p, "unlock")
  /\ late' = (late \/ ci # nil)
  /\ UNCHANGED <<state, flag, ci, ctab, err, ast, isr, portm, active, req, buf, nreq, media, device>>

flushcache(p) ==
  /\ pc[p] \in {"flushed", "failed"}
  /\ portm' = nil
  /\ Go(p, IF pc[p] = "flushed" THEN "ok" ELSE "eio")
  /\ UNCHANGED <<state, flag, ci, ctab, err, ast, isr, active, req, buf, nreq, late, media, device>>

(* The end of a command of iario().                                        *)
unlock(p) ==
  LET r == req[p]
  IN /\ pc[p] = "unlock"
     /\ portm' = nil
     /\ CASE r.fl = {} ->
               /\ req' = [req EXCEPT ![p] = Retry(p, [r EXCEPT !.try = @ + 1])]
               /\ Go(p, IF r.try + 1 = MaxTry THEN "eio" ELSE "build")
          [] "error" \in r.fl -> Go(p, "eio") /\ UNCHANGED req
          [] OTHER -> /\ req' = [req EXCEPT ![p].lba = @ + 1, ![p].at = @ + 1]
                      /\ Go(p, IF r.lba = Blocks THEN "ok" ELSE "build")
     /\ UNCHANGED <<state, flag, ci, ctab, err, ast, isr, active, buf, nreq, late, media, device>>
-----------------------------------------------------------------------------
(* Fault seeded to test DriveSafe: resetdisk() takes d->portm before it    *)
(* ends the command of whoever holds it.                                   *)
resetdiskLocks ==
  /\ state' = IF sst = "comm" THEN "error" ELSE "portreset"
  /\ Go(K, IF sst = "comm" THEN "reset" ELSE "idle")
  /\ UNCHANGED <<flag, ci, late>>

(* resetdisk(): whoever sleeps is told of the error before d->portm is     *)
(* taken.                                                                  *)
resetdisk ==
  /\ flag' = flag \cup {"error"}
  /\ clearci
  /\ state' = IF sst = "comm" THEN "error" ELSE "portreset"
  /\ pc' = [Woken(pc) EXCEPT ![K] = IF sst = "comm" THEN "reset" ELSE "idle"]

(* The drive is not there, or gave up: the unit is told.                   *)
statechange ==
  IF state' \in {"null", "offline"} /\ usectors # 0
  THEN serial' = 0 /\ mediachange' = TRUE /\ UNCHANGED usectors
  ELSE UNCHANGED media

portreset ==
  /\ flag' = flag \cup {"error"}
  /\ clearci
  /\ state' = IF sst = "none" THEN "missing" ELSE "portreset"
  /\ pc' = [Woken(pc) EXCEPT ![K] = IF sst = "none" THEN "idle" ELSE "portreset"]

(* westerndigitalhung(): nothing has come for five seconds.                *)
westerndigitalhung ==
  /\ ~Atapi /\ active > 0
  /\ resetdisk
  /\ UNCHANGED media

(* checkdrive(), up to where it lets go of the drive's lock.               *)
checkdrive ==
  /\ pc[K] = "idle"
  /\ \/ westerndigitalhung
     \/ state \in {"error", "reset", "offline"} /\ resetdisk /\ statechange
     \/ state \in {"missing", "new"} /\ sst \in {"comm", "offline"} /\ resetdisk /\ statechange
     \/ state \in {"missing", "new"} /\ sst \in {"comm", "offline"} /\ portreset /\ UNCHANGED media
     \/ state = "portreset" /\ portreset /\ UNCHANGED media
     \/ /\ state \in {"missing", "new"} /\ sst = "comm"
        /\ Go(K, "newdrive") /\ UNCHANGED <<state, flag, ci, late, media>>
     \/ /\ state \in {"null", "offline"} /\ usectors # 0 /\ serial # 0
        /\ UNCHANGED <<state, flag, ci, late, pc>> /\ statechange
  /\ UNCHANGED <<ctab, err, ast, isr, portm, active, req, buf, nreq, device>>

(* resetdisk() with d->portm: ahciswreset() works, or a bigger stick is    *)
(* called for.                                                             *)
ahciswreset ==
  /\ pc[K] = "reset" /\ portm = nil
  /\ \/ ast /\ state' = "portreset" /\ Go(K, "idle") /\ UNCHANGED portm
     \/ state' = "missing" /\ portm' = K /\ Go(K, "config")
  /\ UNCHANGED <<flag, ci, ctab, err, ast, isr, active, req, buf, nreq, late, media, device>>

(* configdrive() and pstatus().                                            *)
configdrive ==
  /\ pc[K] = "config"
  /\ ast' = TRUE
  /\ state' = CASE sst = "none" -> "missing" [] sst = "present" -> state
                [] sst = "comm" -> "new" [] sst = "offline" -> "offline"
  /\ portm' = nil /\ Go(K, "idle")
  /\ UNCHANGED <<flag, ci, ctab, err, isr, active, req, buf, nreq, late, media, device>>

(* doportreset(): Ast stays off until the next configdrive().              *)
doportreset ==
  /\ pc[K] = "portreset" /\ portm = nil
  /\ ast' = FALSE /\ ci' = nil /\ late' = FALSE /\ err' = FALSE
  /\ Go(K, "idle")
  /\ UNCHANGED <<state, flag, ctab, isr, portm, active, req, buf, nreq, media, device>>

(* newdrive(): setudmamode(), unless it is a packet device, and identify().*)
newdrive ==
  /\ pc[K] = "newdrive" /\ portm = nil
  /\ portm' = K
  /\ Control(K, "waits")
  /\ UNCHANGED <<state, flag, err, ast, isr, active, req, buf, nreq, late, media, device>>

(* What comes of ahciidentify(): a command that clearci() ended looks as   *)
(* one that was done, and leaves an identity of zeros.                     *)
identify ==
  LET id == IF sst = "comm" THEN disk ELSE 0
      ok == ci = nil /\ ~err
  IN /\ pc[K] \in {"waits", "waited"}
     /\ state' = IF ok THEN "ready" ELSE "null"
     /\ IF ok /\ id # serial
        THEN serial' = id /\ mediachange' = TRUE /\ usectors' = 0
        ELSE UNCHANGED media
     /\ late' = (late \/ ci # nil)
     /\ portm' = nil /\ Go(K, "idle")
     /\ UNCHANGED <<flag, ci, ctab, err, ast, isr, active, req, buf, nreq, device>>
-----------------------------------------------------------------------------
(* iaonline(), and "change" written to the ctl file.                       *)
iaonline ==
  /\ mediachange
  /\ mediachange' = FALSE /\ usectors' = serial /\ UNCHANGED serial
  /\ UNCHANGED <<state, flag, ci, ctab, err, ast, isr, portm, active, pc, req, buf, nreq, late, device>>

changemedia ==
  /\ ~mediachange
  /\ mediachange' = TRUE /\ usectors' = 0 /\ UNCHANGED serial
  /\ UNCHANGED <<state, flag, ci, ctab, err, ast, isr, portm, active, pc, req, buf, nreq, late, device>>

Request(p) ==
  \/ iario(p) \/ ahcibuild(p) \/ waitreadyAgain(p) \/ waitreadyFails(p) \/ waitready(p)
  \/ issue(p) \/ sleep(p) \/ awake(p) \/ ahcirecover(p) \/ ahciflushcache(p)
  \/ ahciwait(p) \/ flushcache(p) \/ unlock(p)

Next ==
  \/ DoneCommand \/ FailCommand \/ Plug \/ iainterrupt
  \/ \E p \in Proc : Request(p)
  \/ checkdrive \/ ahciswreset \/ configdrive \/ doportreset \/ newdrive \/ identify
  \/ iaonline \/ changemedia

Spec == Init /\ [][Next]_vars
-----------------------------------------------------------------------------
(* The place of a buffer gets a block of the request that belongs there or *)
(* in a later place, or nothing; a request that ended well has its blocks  *)
(* where they belong.  If it was started again after its first command     *)
(* (slip) only its last block is there for certain, anywhere.  If one of   *)
(* its commands was given to a device still at a command that had timed    *)
(* out (busy) the end of that one was taken for its own, and none is.      *)
DataExact ==
  \A p \in Proc : pc[p] = "ok" /\ req[p].op = "rw" =>
    LET at(k) == {i \in 1..Blocks : buf[p][i] = k} IN
    /\ \A i \in 1..Blocks : buf[p][i] = 0 \/ buf[p][i] \in i..Blocks
    /\ ~req[p].busy => at(Blocks) # {}
    /\ ~req[p].busy /\ ~req[p].slip => \A k \in 1..Blocks : at(k) = {k}

(* The device has no command of a request that ended, whose buffer is no   *)
(* longer the driver's, unless the command timed out (late).               *)
NoLateDma ==
  ci # nil /\ ci.lba # 0 /\ ~late => pc[ci.p] \notin {"idle", "ok", "eio"}

(* Whoever sleeps on a command that is over is about to be woken up, and   *)
(* satakproc, which alone can help if the device hangs, never waits for    *)
(* the lock of one that sleeps; but if the drive went out of order between *)
(* waitready() and p->ci = 1 it may, and then all wait for the device.     *)
NotWedged ==
  \A p \in Proc : pc[p] = "asleep" =>
    /\ ci = nil => isr # {}
    /\ isr = {} /\ ~req[p].stale => pc[K] = "idle"

(* The unit believes what the drive told of itself, or will be told.       *)
MediaExact == mediachange \/ usectors = serial

DriveSafe == DataExact /\ NoLateDma /\ NotWedged /\ MediaExact
=============================================================================
