------------------------------- MODULE Ether --------------------------------
(***************************************************************************)
(* The rings of the Ethernet drivers: etherigbe.c, ether82563.c,           *)
(* ether82598.c, ether8169.c, ether82557.c and ether8139.c (src/386), the  *)
(* last with a descriptor for each frame of the memory it receives into.   *)
(* A behaviour is of one driver, "drv".                                    *)
(*                                                                         *)
(* Packets are numbers, in the order in which they are queued, or arrive.  *)
(* A descriptor has a block and a state: "dev" the device may use it,      *)
(* "done" it has used it, "none" neither.  The devices are not in the      *)
(* repository: SendPacket and ReceivePacket do what the drivers expect.    *)
(* Registers other than the ring's indices and the interrupts' are left    *)
(* out, and so are link state and statistics.                              *)
(***************************************************************************)
EXTENDS Integers, Sequences, FiniteSets, SequencesExt

CONSTANTS
  Drivers,      \* the drivers of this instance
  Ntd, Nrd,     \* descriptors
  Nrb,          \* buffers to receive into
  Batch,        \* descriptors used after which 82563 and 82598 replenish
  MaxTx, MaxRx, \* bounds: packets sent and received
  nil

VARIABLES
  drv,
  oq,           \* edev->oq
  ntx,          \* packets queued so far
  wire,         \* packets sent by the device
  td,           \* descriptors to send
  tdh, tdt,     \* ctlr->tdh, ctlr->tdt (82557: cbtail, cbhead; 8139: tdi, tdh)
  ntq,          \* ctlr->ntq (82557: cbq; 8139: ntd)
  hwtd,         \* the next descriptor the device sends
  calls,        \* calls of transmit() that are to come
  tlock,        \* ctlr->tlock of 82598
  rd,           \* descriptors to receive into; pkt is what the device stored
  rdh, rdt,     \* ctlr->rdh, ctlr->rdt (82557: rfdhead, rfdtail)
  lrdh,         \* rdh of the loop that receives
  rdfree,       \* ctlr->rdfree
  hwrd,         \* the next descriptor the device stores into
  nrx,          \* packets that came in so far
  pool,         \* free buffers
  held,         \* buffers passed up to etheriq() and not yet freed
  got,          \* the packets passed up
  im,           \* ctlr->im, the interrupts that are enabled
  icr,          \* the causes of interrupts that the device has pending
  rim,          \* ctlr->rim
  rpc           \* where rproc is: "off", "arm", "sleep", "loop", "panic", "hung"

txvars == <<oq, ntx, wire, td, tdh, tdt, ntq, hwtd, calls, tlock>>
rxvars == <<rd, rdh, rdt, lrdh, rdfree, hwrd, nrx, pool, held, got>>
ivars == <<im, icr, rim, rpc>>
vars == <<drv, txvars, rxvars, ivars>>

Intel == {"igbe", "82563", "82598"}
Tds == 0..(Ntd - 1)
Rds == 0..(Nrd - 1)
NEXT(i, n) == (i + 1) % n
PREV(i, n) == (i + n - 1) % n
Dist(i, j, n) == (j + n - i) % n
least(a, b) == IF a < b THEN a ELSE b

Idle == [bp |-> nil, st |-> "none", pkt |-> 0]

(* The rings are empty.  With the Intel ones tdh is the last descriptor    *)
(* that was tidied.                                                        *)
Empty(d, h) ==
  /\ drv = d /\ d \in Drivers
  /\ td = [i \in Tds |-> Idle] /\ tdh = h /\ tdt = 0 /\ hwtd = 0

igbetxinit == Empty("igbe", PREV(0, Ntd))
i82563txinit == Empty("82563", PREV(0, Ntd))
i82598txinit == Empty("82598", PREV(0, Ntd))
rtl8169init == Empty("8169", 0)
rtl8139init == Empty("8139", 0)

(* ctlrinit() of ether82557.c: cbtail is complete before anything was      *)
(* sent, and the first Cb used is the one after cbhead, tdt here.          *)
ctlrinit ==
  /\ drv = "82557" /\ drv \in Drivers
  /\ td = [i \in Tds |-> IF i = 0 THEN [Idle EXCEPT !.st = "done"] ELSE Idle]
  /\ tdh = 0 /\ tdt = 1 /\ hwtd = 1

Init ==
  /\ \/ igbetxinit \/ i82563txinit \/ i82598txinit
     \/ rtl8169init \/ rtl8139init \/ ctlrinit
  /\ oq = <<>> /\ ntx = 0 /\ wire = <<>> /\ ntq = 0 /\ calls = 0 /\ tlock = FALSE
  /\ rd = [i \in Rds |-> Idle]
  /\ rdh = 0 /\ rdt = 0 /\ lrdh = 0 /\ rdfree = 0 /\ hwrd = 0 /\ nrx = 0
  /\ pool = 1..Nrb /\ held = {} /\ got = <<>>
  /\ im = {} /\ icr = {} /\ rim = {} /\ rpc = "off"
-----------------------------------------------------------------------------
(* etheroq() queues a packet and then calls edev->transmit().              *)
etheroq ==
  /\ ntx < MaxTx
  /\ ntx' = ntx + 1 /\ oq' = Append(oq, ntx + 1) /\ calls' = calls + 1
  /\ UNCHANGED <<drv, wire, td, tdh, tdt, ntq, hwtd, tlock, rxvars, ivars>>

(* The Intel cards have the descriptors from their head register up to the *)
(* one before the tail register, which the driver sets to tdt or rdt: with *)
(* both equal they have none.                                              *)
Sees(h, t) == drv \in Intel => h # t

(* The device sends the packet of the next descriptor.  82598 and 82563    *)
(* ask for a report on each, igbe on the one that fills the ring; 8169 has *)
(* these interrupts turned off.                                            *)
SendPacket ==
  /\ td[hwtd].st = "dev" /\ Sees(hwtd, tdt)
  /\ wire' = Append(wire, td[hwtd].bp)
  /\ td' = [td EXCEPT ![hwtd].st = "done"]
  /\ hwtd' = NEXT(hwtd, Ntd)
  /\ icr' = IF drv # "igbe" \/ td[hwtd].pkt = 1 THEN icr \cup {"tx"} ELSE icr
  /\ UNCHANGED <<drv, oq, ntx, tdh, tdt, ntq, calls, tlock, rxvars, im, rim, rpc>>

(* The first k descriptors from i on are tidied and their blocks freed; n  *)
(* packets are put in those from tdt on.  rs marks the one to report.      *)
Ring(i, k, n, rs) ==
  [j \in Tds |->
     IF Dist(tdt, j, Ntd) < n
     THEN [bp |-> oq[Dist(tdt, j, Ntd) + 1], st |-> "dev",
           pkt |-> IF rs /\ Dist(tdt, j, Ntd) = n - 1 THEN 1 ELSE 0]
     ELSE IF Dist(i, j, Ntd) < k THEN Idle ELSE td[j]]

Takes(n) == oq' = SubSeq(oq, n + 1, Len(oq)) /\ tdt' = (tdt + n) % Ntd

(* Fault seeded to test RingsExact: the one at Tdh is tidied as well.      *)
igbetransmitTidies ==
  LET k == Dist(tdh, hwtd, Ntd)
      n == least(Len(oq), Dist(NEXT(tdt, Ntd), hwtd, Ntd))
  IN /\ td' = Ring(NEXT(tdh, Ntd), k, n, TRUE) /\ tdh' = hwtd /\ Takes(n)
     /\ im' = im \cup {"tx"} /\ UNCHANGED ntq

(* Descriptors are tidied up to the one before the device's Tdh register;  *)
(* whoever fills the ring asks for an interrupt when that is sent.         *)
igbetransmit ==
  LET k == Dist(tdh, PREV(hwtd, Ntd), Ntd)
      h == (tdh + k) % Ntd
      space == Dist(NEXT(tdt, Ntd), h, Ntd)
      n == least(Len(oq), space)
      full == n = space /\ n > 0
  IN /\ td' = Ring(tdh, k, n, full)
     /\ tdh' = h
     /\ Takes(n)
     /\ im' = IF full THEN im \cup {"tx"} ELSE im
     /\ UNCHANGED ntq

(* The descriptors after tdh that are done; cleanup() of ether82598.c does *)
(* the same.                                                               *)
i82563cleanup == CHOOSE k \in 0..Ntd :
  /\ \A j \in 1..k : td[(tdh + j) % Ntd].st = "done"
  /\ k = Ntd \/ td[(tdh + k + 1) % Ntd].st # "done"

i82563transmit ==
  LET h == (tdh + i82563cleanup) % Ntd
      space == Dist(NEXT(tdt, Ntd), h, Ntd)
      n == least(Len(oq), space)
  IN /\ td' = Ring(NEXT(tdh, Ntd), i82563cleanup, n, FALSE)
     /\ tdh' = h
     /\ Takes(n)
     /\ im' = IF n = space THEN im \cup {"tx"} ELSE im
     /\ UNCHANGED ntq

(* transmit() of ether82598.c, which also wants to hear of what it sent.   *)
i82598transmit ==
  LET h == (tdh + i82563cleanup) % Ntd
      space == Dist(NEXT(tdt, Ntd), h, Ntd)
      n == least(Len(oq), space)
  IN /\ td' = Ring(NEXT(tdh, Ntd), i82563cleanup, n, FALSE)
     /\ tdh' = h
     /\ Takes(n)
     /\ im' = IF n > 0 \/ n = space THEN im \cup {"tx"} ELSE im
     /\ UNCHANGED ntq

(* The first ntq descriptors from tdh on, as far as they are done.         *)
Tidy == CHOOSE k \in 0..ntq :
  /\ \A j \in 0..(k - 1) : td[(tdh + j) % Ntd].st = "done"
  /\ k = ntq \/ td[(tdh + k) % Ntd].st # "done"

Counted(k, n) ==
  /\ td' = Ring(tdh, k, n, FALSE)
  /\ tdh' = (tdh + k) % Ntd
  /\ Takes(n)
  /\ ntq' = ntq - k + n
  /\ UNCHANGED im

rtl8169transmit == Counted(Tidy, least(Len(oq), Ntd - 1 - (ntq - Tidy)))

(* txstart() of ether82557.c, with no action to do; one Cb stays unused.   *)
i82557txstart(k) == Counted(k, least(Len(oq), Ntd - 1 - (ntq - k)))

rtl8139txstart(k) == Counted(k, least(Len(oq), Ntd - (ntq - k)))

(* What edev->transmit() of the drivers does under its lock.               *)
Transmits ==
  CASE drv = "igbe" -> igbetransmit
    [] drv = "82563" -> i82563transmit
    [] drv = "82598" -> i82598transmit
    [] drv = "8169" -> rtl8169transmit
    [] drv = "82557" -> i82557txstart(0)
    [] drv = "8139" -> rtl8139txstart(0)

transmit ==
  /\ calls > 0
  /\ drv # "82598"
  /\ Transmits
  /\ calls' = calls - 1
  /\ UNCHANGED <<drv, ntx, wire, hwtd, tlock, rxvars, icr, rim, rpc>>

(* transmit() of ether82598.c: if(!canqlock(&c->tlock)) leave it to tproc. *)
transmitTry ==
  /\ calls > 0 /\ drv = "82598"
  /\ calls' = calls - 1 /\ tlock' = TRUE
  /\ im' = IF tlock THEN im \cup {"tx"} ELSE im
  /\ UNCHANGED <<drv, oq, ntx, wire, td, tdh, tdt, ntq, hwtd, rxvars, icr, rim, rpc>>

transmitLocked ==
  /\ tlock
  /\ Transmits
  /\ tlock' = FALSE
  /\ UNCHANGED <<drv, ntx, wire, hwtd, calls, rxvars, icr, rim, rpc>>
-----------------------------------------------------------------------------
(* Buffers for the descriptors from t up to the one before h, as long as   *)
(* there are any.                                                          *)
Filled(r, t, h, free) ==
  LET n == least(Dist(NEXT(t, Nrd), h, Nrd), Cardinality(free))
      bufs == SetToSeq(free)
  IN [rd |-> [j \in Rds |-> IF Dist(t, j, Nrd) < n
                            THEN [bp |-> bufs[Dist(t, j, Nrd) + 1], st |-> "dev", pkt |-> 0]
                            ELSE r[j]],
      rdt |-> (t + n) % Nrd, n |-> n,
      pool |-> free \ {bufs[j] : j \in 1..n}]

igbereplenish(r, t, h, free) == Filled(r, t, h, free)

(* Fault seeded to test RingsExact: every descriptor without a block gets  *)
(* one, up to rdh.                                                         *)
FilledFull(r, t, h, free) ==
  LET n == least(Cardinality({j \in Rds : r[j].bp = nil}), Cardinality(free))
      bufs == SetToSeq(free)
  IN [rd |-> [j \in Rds |-> IF Dist(t, j, Nrd) < n
                            THEN [bp |-> bufs[Dist(t, j, Nrd) + 1], st |-> "dev", pkt |-> 0]
                            ELSE r[j]],
      rdt |-> (t + n) % Nrd, n |-> n,
      pool |-> free \ {bufs[j] : j \in 1..n}]

(* A descriptor at rdt that has a block is an overrun, and ends it.        *)
i82563replenish(r, t, h, free) ==
  IF r[t].bp # nil THEN [rd |-> r, rdt |-> t, n |-> 0, pool |-> free]
  ELSE Filled(r, t, h, free)

(* replenish() of ether82598.c.                                            *)
i82598replenish(r, t, h, free) == Filled(r, t, h, free)

rtl8169replenish(r, t, h, free) == Filled(r, t, h, free)

becomes(new, f) ==
  rd' = new.rd /\ rdt' = new.rdt /\ pool' = new.pool /\ rdfree' = f + new.n

(* A packet comes in.  With no descriptor to put it in it is lost.         *)
ReceivePacket ==
  /\ rpc # "off"
  /\ nrx < MaxRx
  /\ rd[hwrd].st = "dev" /\ Sees(hwrd, rdt)
  /\ nrx' = nrx + 1
  /\ rd' = [rd EXCEPT ![hwrd].st = "done", ![hwrd].pkt = nrx + 1]
  /\ hwrd' = NEXT(hwrd, Nrd)
  /\ icr' = icr \cup {"rx"}
  /\ UNCHANGED <<drv, txvars, rdh, rdt, lrdh, rdfree, pool, held, got, im, rim, rpc>>

(* The rxinit of the Intel drivers, when rproc starts: the device gets     *)
(* what buffers there are.                                                 *)
igberxinit == drv = "igbe" /\ becomes(igbereplenish(rd, rdt, rdh, pool), rdfree)
i82563rxinit == drv = "82563" /\ becomes(i82563replenish(rd, rdt, rdh, pool), rdfree)

(* rxinit() of ether82598.c: rproc replenishes when it begins its loop.    *)
i82598rxinit == drv = "82598" /\ becomes(i82598replenish(rd, rdt, rdh, pool), 0)

(* The attach of the Intel drivers, once: the buffers are allocated, the   *)
(* rings made and rproc started.  That of ether82598.c makes the ring to   *)
(* receive itself, in the others rproc does so when it starts.             *)
igbeattach == igberxinit /\ rpc' = "arm"
i82563attach == i82563rxinit /\ rpc' = "arm"
i82598attach == i82598rxinit /\ rpc' = "arm"

attach ==
  /\ rpc = "off"
  /\ igbeattach \/ i82563attach \/ i82598attach
  /\ UNCHANGED <<drv, txvars, rdh, lrdh, hwrd, nrx, held, got, im, icr, rim>>

(* rtl8169attach(): frames are received at interrupt level.                *)
rtl8169attach ==
  /\ rpc = "off" /\ drv = "8169"
  /\ becomes(rtl8169replenish(rd, rdt, rdh, pool), rdfree)
  /\ rpc' = "sleep" /\ im' = {"rx"}
  /\ UNCHANGED <<drv, txvars, rdh, lrdh, hwrd, nrx, held, got, icr, rim>>

(* attach() of ether82557.c and the ring that ctlrinit() made: all have a  *)
(* block, the device may fill them up to the tail, and one is left between *)
(* the tail and the head.                                                  *)
attach82557 ==
  /\ rpc = "off" /\ drv = "82557"
  /\ rd' = [j \in Rds |-> [bp |-> j + 1, st |-> IF j = Nrd - 1 THEN "none" ELSE "dev",
                           pkt |-> 0]]
  /\ rdt' = Nrd - 2 /\ pool' = pool \ (1..Nrd)
  /\ rpc' = "sleep"
  /\ im' = {"rx", "tx"} /\ UNCHANGED rdfree
  /\ UNCHANGED <<drv, txvars, rdh, lrdh, hwrd, nrx, held, got, icr, rim>>

(* rtl8139attach() and the receiver that rtl8139init() turns on.           *)
rtl8139attach ==
  /\ rpc = "off" /\ drv = "8139"
  /\ rd' = [j \in Rds |-> [bp |-> j + 1, st |-> "dev", pkt |-> 0]]
  /\ pool' = pool \ (1..Nrd)
  /\ rpc' = "sleep" /\ im' = {"rx", "tx"}
  /\ UNCHANGED <<drv, txvars, rdh, rdt, lrdh, rdfree, hwrd, nrx, held, got, icr, rim>>

(* igberproc(), i82563rproc(), rproc(): interrupts on, then sleep().       *)
rprocArm ==
  /\ rpc = "arm"
  /\ rim' = IF drv = "igbe" THEN {} ELSE rim
  /\ im' = im \cup {"rx"}
  /\ rpc' = "sleep"
  /\ UNCHANGED <<drv, txvars, rxvars, icr>>

rprocWake ==
  /\ rpc = "sleep" /\ rim # {}
  /\ rpc' = "loop" /\ lrdh' = rdh
  /\ UNCHANGED <<drv, txvars, rd, rdh, rdt, rdfree, hwrd, nrx, pool, held, got, im, icr, rim>>

(* The buffer of the descriptor at lrdh goes up, or, if the packet had an  *)
(* error, back to the pool.                                                *)
Passed(ok) ==
  LET d == rd[lrdh]
  IN /\ held' = IF ok THEN held \cup {d.bp} ELSE held
     /\ got' = IF ok THEN Append(got, d.pkt) ELSE got

Emptied == [rd EXCEPT ![lrdh] = Idle]

igberprocOne ==
  /\ drv = "igbe" /\ rpc = "loop" /\ rd[lrdh].st = "done"
  /\ \E ok \in BOOLEAN :
       Passed(ok) /\ pool' = IF ok THEN pool ELSE pool \cup {rd[lrdh].bp}
  /\ rd' = Emptied
  /\ rdfree' = rdfree - 1
  /\ lrdh' = NEXT(lrdh, Nrd)
  /\ UNCHANGED <<drv, txvars, rdh, rdt, hwrd, nrx, ivars>>

(* The end of igberproc()'s loop: only now does ctlr->rdh change.          *)
igberprocEnd ==
  /\ drv = "igbe" /\ rpc = "loop" /\ rd[lrdh].st # "done"
  /\ rdh' = lrdh
  /\ IF rdfree < Nrd \div 2 \/ "dmt" \in rim THEN becomes(igbereplenish(rd, rdt, lrdh, pool), rdfree)
     ELSE UNCHANGED <<rd, rdt, pool, rdfree>>
  /\ rpc' = "arm"
  /\ UNCHANGED <<drv, txvars, lrdh, hwrd, nrx, held, got, im, icr, rim>>

i82563rproc ==
  /\ drv = "82563" /\ rpc = "loop"
  /\ rim' = {}
  /\ IF rd[lrdh].st # "done"
     THEN /\ rpc' = "arm"
          /\ UNCHANGED <<rd, rdh, rdt, lrdh, rdfree, pool, held, got>>
     ELSE /\ \E ok \in BOOLEAN :
               /\ Passed(ok)
               /\ LET free == IF ok THEN pool ELSE pool \cup {rd[lrdh].bp}
                      new == i82563replenish(Emptied, rdt, NEXT(lrdh, Nrd), free)
                  IN IF Nrd - (rdfree - 1) >= Batch \/ "dmt" \in rim
                     THEN becomes(new, rdfree - 1)
                     ELSE rd' = Emptied /\ rdfree' = rdfree - 1 /\ pool' = free /\ UNCHANGED rdt
          /\ lrdh' = NEXT(lrdh, Nrd) /\ rdh' = NEXT(lrdh, Nrd)
          /\ UNCHANGED rpc
  /\ UNCHANGED <<drv, txvars, hwrd, nrx, im, icr>>

(* rproc() of ether82598.c does not clear the status of a descriptor:      *)
(* replenish() does.  One that could get no buffer still looks full, and   *)
(* rproc() takes its nil Block.                                            *)
i82598rproc ==
  /\ drv = "82598" /\ rpc = "loop"
  /\ rim' = {}
  /\ CASE rd[lrdh].st # "done" ->
            /\ rpc' = "arm" /\ rdh' = lrdh
            /\ becomes(i82598replenish(rd, rdt, lrdh, pool), rdfree)
            /\ UNCHANGED <<lrdh, held, got>>
       [] rd[lrdh].st = "done" /\ rd[lrdh].bp = nil ->
            rpc' = "panic" /\ UNCHANGED <<rd, rdh, rdt, lrdh, rdfree, pool, held, got>>
       [] OTHER ->
            /\ Passed(TRUE)
            /\ lrdh' = NEXT(lrdh, Nrd) /\ rdh' = NEXT(lrdh, Nrd)
            /\ LET used == [rd EXCEPT ![lrdh].bp = nil]
               IN IF rdfree - 1 <= Nrd - Batch
                  THEN becomes(i82598replenish(used, rdt, NEXT(lrdh, Nrd), pool), rdfree - 1)
                  ELSE rd' = used /\ rdfree' = rdfree - 1 /\ UNCHANGED <<rdt, pool>>
            /\ UNCHANGED rpc
  /\ UNCHANGED <<drv, txvars, hwrd, nrx, im, icr>>

(* Whoever got a packet frees its buffer.                                  *)
freeb ==
  /\ \E b \in held : held' = held \ {b} /\ pool' = pool \cup {b}
  /\ UNCHANGED <<drv, txvars, rd, rdh, rdt, lrdh, rdfree, hwrd, nrx, got, ivars>>
-----------------------------------------------------------------------------
(* igbeinterrupt(): reading Icr clears it, what is masked too.             *)
igbeinterrupt ==
  /\ drv = "igbe"
  /\ IF "rx" \in icr \cap im
     THEN \E dmt \in SUBSET {"dmt"} : rim' = {"rx"} \cup dmt
     ELSE UNCHANGED rim
  /\ calls' = IF "tx" \in icr \cap im THEN calls + 1 ELSE calls

(* tproc is woken up, and calls transmit().                                *)
i82563interrupt ==
  /\ drv = "82563"
  /\ IF "rx" \in icr \cap im
     THEN \E dmt \in SUBSET {"dmt"} : rim' = {"rx"} \cup dmt
     ELSE UNCHANGED rim
  /\ calls' = IF "tx" \in icr \cap im THEN calls + 1 ELSE calls

(* interrupt() of ether82598.c.                                            *)
i82598interrupt ==
  /\ drv = "82598"
  /\ rim' = IF "rx" \in icr \cap im THEN {"rx"} ELSE rim
  /\ calls' = IF "tx" \in icr \cap im THEN calls + 1 ELSE calls

interrupt ==
  /\ icr \cap im # {}
  /\ igbeinterrupt \/ i82563interrupt \/ i82598interrupt
  /\ icr' = {} /\ im' = im \ icr
  /\ UNCHANGED <<drv, oq, ntx, wire, td, tdh, tdt, ntq, hwtd, tlock, rxvars, rpc>>

(* rtl8169receive(): all that the device is done with.  ctlr->rdh changes  *)
(* at the end, and replenish() goes by it: when all that the device had is *)
(* done the loop finds no descriptor that is the device's, and goes on for *)
(* ever, "hung".                                                           *)
rtl8169receive ==
  LET n == CHOOSE k \in 0..(Nrd - 1) :
             /\ \A j \in 0..(k - 1) : rd[(rdh + j) % Nrd].st = "done"
             /\ rd[(rdh + k) % Nrd].st # "done"
      at(j) == (rdh + j) % Nrd
      used == [j \in Rds |-> IF Dist(rdh, j, Nrd) < n THEN Idle ELSE rd[j]]
  IN /\ rd[at(n)].st = "dev"
     /\ \E bad \in SUBSET (0..(n - 1)) :
          /\ held' = held \cup {rd[at(j)].bp : j \in (0..(n - 1)) \ bad}
          /\ got' = got \o SetToSortSeq({rd[at(j)].pkt : j \in (0..(n - 1)) \ bad}, <)
          /\ LET free == pool \cup {rd[at(j)].bp : j \in bad}
                 new == rtl8169replenish(used, rdt, rdh, free)
             IN IF rdfree - n < Nrd \div 2
                THEN becomes(new, rdfree - n)
                ELSE rd' = used /\ rdfree' = rdfree - n /\ pool' = free /\ UNCHANGED rdt
     /\ rdh' = at(n)
     /\ UNCHANGED rpc

rtl8169loops ==
  /\ \A j \in Rds : rd[j].st # "dev"
  /\ rpc' = "hung"
  /\ UNCHANGED <<rd, rdh, rdt, rdfree, pool, held, got>>

rtl8169interrupt ==
  /\ drv = "8169" /\ rpc # "hung"
  /\ icr # {}
  /\ icr' = {}
  /\ IF "rx" \in icr THEN rtl8169receive \/ rtl8169loops
     ELSE UNCHANGED <<rd, rdh, rdt, rdfree, pool, held, got, rpc>>
  /\ IF "rx" \in icr /\ "tx" \in icr /\ rpc' # "hung" THEN rtl8169transmit
     ELSE UNCHANGED <<oq, td, tdh, tdt, ntq, im>>
  /\ UNCHANGED <<drv, ntx, wire, hwtd, calls, tlock, lrdh, hwrd, nrx, rim>>

(* interrupt() of ether82557.c, for the transmitter.                       *)
txinterrupt ==
  /\ drv = "82557" /\ "tx" \in icr
  /\ icr' = icr \ {"tx"}
  /\ i82557txstart(Tidy)
  /\ UNCHANGED <<drv, ntx, wire, hwtd, calls, tlock, rxvars, rim, rpc>>

(* rtl8139receive(), one frame: copied, if there is memory for it.  A bad  *)
(* one resets the receiver, and what came after it is gone.                *)
rtl8139receive ==
  /\ drv = "8139" /\ rd[rdh].st = "done"
  /\ \/ /\ rd' = [rd EXCEPT ![rdh].st = "dev", ![rdh].pkt = 0]
        /\ rdh' = NEXT(rdh, Nrd)
        /\ \/ \E b \in pool :
                pool' = pool \ {b} /\ held' = held \cup {b} /\ got' = Append(got, rd[rdh].pkt)
           \/ UNCHANGED <<pool, held, got>>
        /\ UNCHANGED hwrd
     \/ /\ rd' = [j \in Rds |-> [rd[j] EXCEPT !.st = "dev", !.pkt = 0]]
        /\ rdh' = 0 /\ hwrd' = 0
        /\ UNCHANGED <<pool, held, got>>
  /\ icr' = icr \ {"rx"}
  /\ UNCHANGED <<drv, txvars, rdt, lrdh, rdfree, nrx, im, rim, rpc>>

rtl8139interrupt ==
  /\ drv = "8139" /\ "tx" \in icr
  /\ icr' = icr \ {"tx"}
  /\ rtl8139txstart(Tidy)
  /\ UNCHANGED <<drv, ntx, wire, hwtd, calls, tlock, rxvars, rim, rpc>>

(* receive() of ether82557.c, one frame: a small one is copied, or a new   *)
(* block takes the place of the big one, or, with no memory, it is lost.   *)
(* The tail, which the device may not pass, moves on.                      *)
i82557receive ==
  /\ drv = "82557"
  /\ rd[rdh].st = "done"
  /\ LET t == NEXT(rdt, Nrd)
         ring(b) == [rd EXCEPT ![rdh] = [bp |-> b, st |-> "none", pkt |-> 0], ![t].st = "dev"]
     IN /\ rdt' = t
        /\ \/ /\ rd' = ring(rd[rdh].bp) /\ UNCHANGED <<pool, held>>
              /\ got' \in {got, Append(got, rd[rdh].pkt)}
           \/ \E b \in pool :
                /\ rd' = ring(b)
                /\ pool' = pool \ {b} /\ held' = held \cup {rd[rdh].bp}
                /\ got' = Append(got, rd[rdh].pkt)
  /\ rdh' = NEXT(rdh, Nrd)
  /\ icr' = icr \ {"rx"}
  /\ UNCHANGED <<drv, txvars, lrdh, rdfree, hwrd, nrx, im, rim, rpc>>

Next ==
  \/ etheroq \/ SendPacket \/ transmit \/ transmitTry \/ transmitLocked
  \/ attach \/ rtl8169attach \/ rtl8139attach \/ attach82557 \/ ReceivePacket \/ rprocArm \/ rprocWake
  \/ igberprocOne \/ igberprocEnd \/ i82563rproc \/ i82598rproc \/ freeb
  \/ interrupt \/ rtl8169interrupt \/ txinterrupt \/ i82557receive
  \/ rtl8139receive \/ rtl8139interrupt

Spec == Init /\ [][Next]_vars
-----------------------------------------------------------------------------
(* The packets of the descriptors that the device has still to send.       *)
Ahead == [j \in 1..Cardinality({i \in Tds : td[i].st = "dev"}) |-> td[(hwtd + j - 1) % Ntd].bp]

(* What was queued is sent in that order, each packet once: none is        *)
(* overwritten in the ring, nor freed before the device is done with it.   *)
TxExact ==
  wire \o Ahead \o oq = [k \in 1..ntx |-> k]

(* What comes in is passed up in that order; a buffer is in one place; a   *)
(* descriptor that the device may store into has one, and it sees them.    *)
RxExact ==
  LET used == {j \in Rds : rd[j].bp # nil}
      inring == {rd[j].bp : j \in used}
  IN /\ \A i \in 1..(Len(got) - 1) : got[i] < got[i + 1]
     /\ Cardinality(inring) = Cardinality(used)
     /\ inring \cap (pool \cup held) = {} /\ pool \cap held = {}
     /\ inring \cup pool \cup held = 1..Nrb
     /\ \A j \in Rds : rd[j].st = "dev" => rd[j].bp # nil /\ Sees(hwrd, rdt)

(* Packets wait to be sent only while somebody is to call transmit(), or   *)
(* an interrupt is to make it called, and those in the ring while the card *)
(* sees them.                                                              *)
TxGoesOn ==
  /\ oq # <<>> /\ calls = 0 /\ ~tlock /\ drv \in Intel => "tx" \in im
  /\ Ahead # <<>> => Sees(hwtd, tdt)
=============================================================================
