--------------------------------- MODULE Sd ---------------------------------
(***************************************************************************)
(* Storage devices: src/port/devsd.c and, for a SCSI drive with removable  *)
(* medium, src/port/sdscsi.c.  One device letter with one unit, and        *)
(* processes that each have a chan of it.                                  *)
(*                                                                         *)
(* A partition has an identity, id, that stands for its name's place on    *)
(* the medium: every sdaddpart() that fills a slot makes a new one.        *)
(* sectors is the medium that was found, 0 if unknown.                     *)
(***************************************************************************)
EXTENDS Integers, Sequences, FiniteSets

CONSTANTS
  Proc,
  Names,        \* names of partitions besides "data"
  SDnpart,      \* slots are allocated by so many
  NPart,        \* slots at most
  Removable,    \* unit->inquiry[1] & SDinq1removable
  MaxId,        \* bound: partitions ever made
  MaxMedia,     \* bound: media ever inserted
  MaxVers,      \* bound: versions of a slot, for delpart
  MaxRef,       \* bound: references that are counted
  MaxGen,       \* bound: times the device is configured
  nil

VARIABLES
  gen,          \* which sdev is in devs[]; 0 none
  ngen,
  ref,          \* sdev->r
  unit,         \* sdev->unit[0], nil until it is probed
  raw,          \* rawinuse, state and req of the unit
  medium,       \* what is in the drive; 0 nothing
  attention,    \* the drive has a medium change to report
  nmedia, nid,
  ctl,          \* who holds unit->ctl
  ch,           \* the chan of each process
  pc, op,       \* where each is in sdbio(), and with what
  done,         \* what its last transfer was to or from
  eaten,        \* a command of the raw file got the report of a change
  dead          \* the kernel took a nil pointer

vars == <<gen, ngen, ref, unit, raw, medium, attention, nmedia, nid, ctl, ch, pc, op,
          done, eaten, dead>>

Slot == [valid |-> FALSE, name |-> nil, vers |-> 0, id |-> 0]
NewUnit == [vers |-> 0, sectors |-> 0, part |-> <<>>]
NewRaw == [inuse |-> nil, state |-> "cmd", req |-> nil]
NoChan == [file |-> nil, open |-> FALSE, slot |-> 0, vers |-> 0, was |-> nil]

Init ==
  /\ gen = 1 /\ ngen = 1 /\ ref = 0 /\ unit = nil /\ raw = NewRaw
  /\ medium = 1 /\ attention = FALSE /\ nmedia = 1 /\ nid = 0
  /\ ctl = nil
  /\ ch = [p \in Proc |-> NoChan]
  /\ pc = [p \in Proc |-> "idle"]
  /\ op = [p \in Proc |-> [id |-> 0, nchange |-> 0]]
  /\ done = [p \in Proc |-> nil]
  /\ eaten = FALSE /\ dead = FALSE
-----------------------------------------------------------------------------
(* sdaddpart(): the search for the name ends at the first free slot.       *)
sdaddpart(u, name, id) ==
  LET n == Len(u.part)
      free == {i \in 1..n : ~u.part[i].valid}
      first == IF free = {} THEN n + 1 ELSE CHOOSE i \in free : \A j \in free : i <= j
      slots == IF first > n THEN u.part \o [i \in 1..SDnpart |-> Slot] ELSE u.part
  IN IF \/ \E i \in 1..(first - 1) : u.part[i].name = name
        \/ first > n /\ n >= NPart
     THEN u
     ELSE [u EXCEPT !.part = [slots EXCEPT ![first].valid = TRUE, ![first].name = name,
                                           ![first].id = id]]

(* Fault seeded to test DriveSafe: those who have it open are not told.    *)
sddelpartQuiet(u, name) ==
  LET has == {i \in 1..Len(u.part) : u.part[i].name = name}
      i == CHOOSE j \in has : \A k \in has : j <= k
  IN IF has = {} THEN u ELSE [u EXCEPT !.part[i].valid = FALSE]

(* sddelpart(): pp->vers++ is how those who have it open are told.         *)
sddelpart(u, name) ==
  LET has == {i \in 1..Len(u.part) : u.part[i].name = name}
      i == CHOOSE j \in has : \A k \in has : j <= k
  IN IF has = {} THEN u
     ELSE [u EXCEPT !.part[i].valid = FALSE, !.part[i].vers = @ + 1]

sdincvers(u) ==
  [u EXCEPT !.vers = @ + 1,
            !.part = [i \in 1..Len(u.part) |->
                        [u.part[i] EXCEPT !.valid = FALSE, !.vers = @ + 1]]]

(* scsionline(): the report of a change makes it try again, and return     *)
(* more than 1.                                                            *)
scsionline == IF medium = 0 THEN 0 ELSE IF attention THEN 2 ELSE 1

(* sdinitpart(): the new medium gets a partition "data".                   *)
sdinitpart(u) ==
  LET old == IF u.sectors > 0 THEN sdincvers([u EXCEPT !.sectors = 0]) ELSE u
  IN IF scsionline = 0 THEN old
     ELSE sdaddpart(sdincvers([old EXCEPT !.sectors = medium]), "data", nid + 1)

Inits == unit' = sdinitpart(unit) /\ nid' = nid + 1 /\ attention' = FALSE

chans == <<ch, pc, op, done>>
-----------------------------------------------------------------------------
(* The drive: the medium is taken out, another one put in.                 *)
Insert ==
  /\ nmedia < MaxMedia
  /\ nmedia' = nmedia + 1 /\ medium' = nmedia + 1 /\ attention' = TRUE
  /\ UNCHANGED <<gen, ngen, ref, unit, raw, nid, ctl, chans, eaten, dead>>

Eject ==
  /\ medium # 0 /\ medium' = 0
  /\ UNCHANGED <<gen, ngen, ref, unit, raw, attention, nmedia, nid, ctl, chans, eaten, dead>>

(* unconfigure(): not while somebody is in an operation; files stay open.  *)
unconfigure ==
  /\ gen # 0 /\ ref = 0
  /\ gen' = 0 /\ unit' = nil /\ raw' = NewRaw
  /\ UNCHANGED <<ngen, ref, medium, attention, nmedia, nid, ctl, chans, eaten, dead>>

(* configure() and sdadddevs().                                            *)
configure ==
  /\ gen = 0 /\ ngen < MaxGen
  /\ ngen' = ngen + 1 /\ gen' = ngen + 1 /\ ref' = 0
  /\ UNCHANGED <<unit, raw, medium, attention, nmedia, nid, ctl, chans, eaten, dead>>

(* sdgetunit(): sdattach() and the top directory probe the unit.           *)
sdgetunit ==
  /\ gen # 0 /\ unit = nil
  /\ unit' = NewUnit
  /\ UNCHANGED <<gen, ngen, ref, raw, medium, attention, nmedia, nid, ctl, chans, eaten, dead>>

(* sdgen() of the unit's directory looks for a change of medium first.     *)
sdgenChange ==
  /\ unit # nil /\ ctl = nil /\ nid < MaxId
  /\ unit.sectors = 0 \/ scsionline > 1
  /\ Inits
  /\ UNCHANGED <<gen, ngen, ref, raw, medium, nmedia, ctl, chans, eaten, dead>>

(* sdwalk(): a file of the unit's directory; a partition must be valid.    *)
sdwalk(p) ==
  /\ pc[p] = "idle" /\ ch[p].file = nil
  /\ unit # nil /\ ctl = nil /\ unit.sectors # 0 /\ scsionline <= 1
  /\ \/ ch' = [ch EXCEPT ![p].file = "raw"]
     \/ \E i \in 1..Len(unit.part) :
          unit.part[i].valid /\ ch' = [ch EXCEPT ![p].file = "part", ![p].slot = i]
  /\ UNCHANGED <<gen, ngen, ref, unit, raw, medium, attention, nmedia, nid, ctl, pc, op, done, eaten, dead>>

Crash == dead' = TRUE

(* sdopen(): pp->valid is not looked at; with the device gone and back     *)
(* the unit may not be there.                                              *)
sdopen(p) ==
  LET c == ch[p]
      part == unit.part[c.slot]
  IN /\ pc[p] = "idle" /\ c.file # nil /\ ~c.open /\ gen # 0
     /\ CASE unit = nil \/ (c.file = "part" /\ c.slot > Len(unit.part)) ->
               Crash /\ UNCHANGED <<raw, ch>>
          [] c.file = "part" /\ unit # nil /\ c.slot <= Len(unit.part) ->
               /\ ctl = nil
               /\ ch' = [ch EXCEPT ![p].open = TRUE, ![p].vers = unit.vers + part.vers,
                           ![p].was = [id |-> part.id, valid |-> part.valid, gen |-> gen,
                                       medium |-> unit.sectors]]
               /\ UNCHANGED <<raw, dead>>
          [] c.file = "raw" /\ unit # nil ->
               /\ raw.inuse = nil
               /\ raw' = [raw EXCEPT !.inuse = p, !.state = "cmd"]
               /\ ch' = [ch EXCEPT ![p].open = TRUE]
               /\ UNCHANGED dead
     /\ UNCHANGED <<gen, ngen, ref, unit, medium, attention, nmedia, nid, ctl, pc, op, done, eaten>>

sdclose(p) ==
  /\ pc[p] = "idle" /\ ch[p].file # nil
  /\ ch' = [ch EXCEPT ![p] = NoChan]
  /\ raw' = IF ch[p].file = "raw" /\ ch[p].open /\ gen # 0 THEN [raw EXCEPT !.inuse = nil] ELSE raw
  /\ UNCHANGED <<gen, ngen, ref, unit, medium, attention, nmedia, nid, ctl, pc, op, done, eaten, dead>>
-----------------------------------------------------------------------------
(* "part" and "delpart" written to the ctl file.                           *)
part(name) ==
  /\ unit # nil /\ ctl = nil /\ nid < MaxId
  /\ unit.sectors # 0
  /\ unit' = sdaddpart(unit, name, nid + 1) /\ nid' = nid + 1
  /\ UNCHANGED <<gen, ngen, ref, raw, medium, attention, nmedia, ctl, chans, eaten, dead>>

delpart(name) ==
  /\ unit # nil /\ ctl = nil
  /\ \A i \in 1..Len(unit.part) : unit.part[i].vers < MaxVers
  /\ unit' = sddelpart(unit, name)
  /\ UNCHANGED <<gen, ngen, ref, raw, medium, attention, nmedia, nid, ctl, chans, eaten, dead>>

(* sdrio() may be what finds out about the new medium, and nobody else is  *)
(* told.                                                                   *)
sdrio == attention' = FALSE /\ eaten' = (eaten \/ attention)

(* Reads and writes of the raw file: command, data, status.                *)
rawio(p) ==
  /\ pc[p] = "idle" /\ ch[p].file = "raw" /\ ch[p].open
  /\ gen # 0 /\ unit # nil
  /\ CASE raw.state = "cmd" ->
            raw' = [raw EXCEPT !.state = "data", !.req = p] /\ UNCHANGED <<attention, eaten>>
       [] raw.state = "data" ->
            raw' = [raw EXCEPT !.state = "status"] /\ sdrio
       [] raw.state = "status" ->
            raw' = [raw EXCEPT !.state = "cmd", !.req = nil] /\ UNCHANGED <<attention, eaten>>
  /\ UNCHANGED <<gen, ngen, ref, unit, medium, nmedia, nid, ctl, chans, dead>>
-----------------------------------------------------------------------------
(* sdbio(), for a read or a write of a partition.  With the device gone    *)
(* the error path takes a nil sdev.                                        *)
sdbio(p) ==
  /\ pc[p] = "idle" /\ ch[p].file = "part" /\ ch[p].open
  /\ IF gen = 0 THEN Crash /\ UNCHANGED <<ref, pc, op>>
     ELSE /\ ref < MaxRef /\ ref' = ref + 1
          /\ pc' = [pc EXCEPT ![p] = IF unit = nil THEN "idle" ELSE "check"]
          /\ op' = [op EXCEPT ![p].nchange = 0]
          /\ UNCHANGED dead
  /\ done' = [done EXCEPT ![p] = nil]
  /\ UNCHANGED <<gen, ngen, unit, raw, medium, attention, nmedia, nid, ctl, ch, eaten>>

(* The chan's version must be the partition's; a drive that is not         *)
(* removable is not locked during the transfer.                            *)
sdbioCheck(p) ==
  LET s == ch[p].slot
  IN /\ pc[p] = "check" /\ ctl \in {nil, p}
     /\ IF s <= Len(unit.part) /\ unit.vers + unit.part[s].vers = ch[p].vers
        THEN /\ op' = [op EXCEPT ![p].id = unit.part[s].id]
             /\ ctl' = IF Removable THEN p ELSE nil
             /\ pc' = [pc EXCEPT ![p] = "io"] /\ UNCHANGED ref
        ELSE ctl' = nil /\ ref' = ref - 1 /\ pc' = [pc EXCEPT ![p] = "idle"] /\ UNCHANGED op
     /\ UNCHANGED <<gen, ngen, unit, raw, medium, attention, nmedia, nid, ch, done, eaten, dead>>

Release(p) ==
  /\ ctl' = IF ctl = p THEN nil ELSE ctl
  /\ ref' = ref - 1
  /\ pc' = [pc EXCEPT ![p] = "idle"]

(* scsirio(): 0 done, 2 the medium may have changed, -1 no medium.         *)
scsirio == CASE attention -> 2 [] medium = 0 -> -1 [] OTHER -> 0

(* scsibio(): a change zaps unit->sectors if the medium is removable.      *)
scsibio(p) ==
  /\ pc[p] = "io"
  /\ CASE scsirio = 0 ->
            /\ done' = [done EXCEPT ![p] = [id |-> op[p].id, medium |-> medium, was |-> ch[p].was,
                                            gen |-> gen]]
            /\ Release(p) /\ UNCHANGED <<unit, attention>>
       [] scsirio = 2 ->
            /\ attention' = FALSE /\ UNCHANGED done
            /\ IF Removable
               THEN /\ unit' = [unit EXCEPT !.sectors = 0]
                    /\ pc' = [pc EXCEPT ![p] = "error"] /\ UNCHANGED <<ref, ctl>>
               ELSE Release(p) /\ UNCHANGED unit
       [] scsirio = -1 -> Release(p) /\ UNCHANGED <<unit, attention, done>>
  /\ UNCHANGED <<gen, ngen, raw, medium, nmedia, nid, ch, op, eaten, dead>>

(* while(waserror()): notification of media change; go around again.       *)
sdbioError(p) ==
  /\ pc[p] = "error"
  /\ IF unit.sectors = 0 /\ op[p].nchange = 0
     THEN /\ nid < MaxId /\ Inits
          /\ op' = [op EXCEPT ![p].nchange = 1]
          /\ pc' = [pc EXCEPT ![p] = "check"] /\ UNCHANGED <<ref, ctl>>
     ELSE Release(p) /\ UNCHANGED <<unit, attention, nid, op>>
  /\ UNCHANGED <<gen, ngen, raw, medium, nmedia, ch, done, eaten, dead>>

Step(p) ==
  sdwalk(p) \/ sdopen(p) \/ sdclose(p) \/ rawio(p) \/ sdbio(p) \/ sdbioCheck(p)
  \/ scsibio(p) \/ sdbioError(p)

Next ==
  /\ ~dead
  /\ \/ Insert \/ Eject \/ unconfigure \/ configure \/ sdgetunit \/ sdgenChange
     \/ \E n \in Names : part(n) \/ delpart(n)
     \/ \E p \in Proc : Step(p)

Spec == Init /\ [][Next]_vars
-----------------------------------------------------------------------------
(* What is transferred is of the partition that was opened, on the medium  *)
(* it was opened on, if it was valid then, the device is the same one, and *)
(* no raw command has hidden a change of medium.                           *)
TransferExact ==
  \A p \in Proc : done[p] # nil =>
    LET d == done[p] IN
    d.was.valid /\ d.was.gen = d.gen /\ ~eaten /\ Removable =>
      d.id = d.was.id /\ d.medium = d.was.medium

(* sdev->r counts those in an operation, and the device stays meanwhile.   *)
InUse ==
  LET n == Cardinality({p \in Proc : pc[p] # "idle"})
  IN ref >= n /\ (n > 0 => gen # 0 /\ unit # nil)

(* The raw file has one user, and a request where one is called for.       *)
RawExact ==
  /\ raw.state # "cmd" => raw.req # nil
  /\ \A p, q \in Proc : p # q /\ ch[p].file = "raw" /\ ch[q].file = "raw"
       /\ ch[p].open /\ ch[q].open => ngen > 1

SdSafe == TransferExact /\ InUse /\ RawExact
=============================================================================
