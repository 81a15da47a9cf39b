-------------------------------- MODULE Mem ---------------------------------
(***************************************************************************)
(* Virtual memory (port/fault.c, port/segment.c, parts of port/page.c,     *)
(* port/sysseg.c and port/devproc.c): the pages of a program, read on      *)
(* demand into the cached text segment of its file, mapped from there into *)
(* the data segments of the processes that run it, copied on reference,    *)
(* shared by fork, freed by segfree() and exit.                            *)
(*                                                                         *)
(* A segment maps one page per address: those of Text are in the text,     *)
(* those of Data in the initialised data, read from the file through the   *)
(* text segment (s->src), those of Bss beyond s->flen, zero filled.  A     *)
(* lock that is waited for is a guard.                                     *)
(* A process runs user code at "user"; its other labels are places of the  *)
(* kernel where the code lets go of s->lk, waits for I/O or for a lock, or *)
(* has read something that another may change.                             *)
(***************************************************************************)
EXTENDS Naturals, FiniteSets

CONSTANTS
  Proc,      \* processes, of one program
  Text, Data, Bss, \* addresses that are used
  NPage,     \* pages of memory
  NSeg,      \* data segments
  First,     \* the process that is there at first
  May,       \* what may happen besides faults: "copy" and "share", rfork()
             \* without and with RFMEM, "free", segfree(), "fail", an I/O error
  nil

VARIABLES
  pg,      \* s->map: the page of a segment at an address
  sref,    \* s->ref
  lk,      \* who has s->lk
  ref,     \* pg->ref; 0 for a free page
  in,      \* pg->n: the page is read in
  io,      \* who has the QLock of a page, while reading it in
  dseg,    \* up->seg[DSEG]
  mmu,     \* the page at an address in the page table of a process
  pc,
  at,      \* the address a process faulted at, or frees
  child    \* the process and the segment that rfork() is making

vars == <<pg, sref, lk, ref, in, io, dseg, mmu, pc, at, child>>

Addr == Text \cup Data \cup Bss
Pages == 1..NPage
Segs == 1..NSeg
text == 0        \* the cached text segment of the program's file
Segments == Segs \cup {text}

(* up->seg[]: the segment of address a.                                    *)
segof(p, a) == IF a \in Text THEN text ELSE dseg[p]
entry(p) == pg[segof(p, at[p])][at[p]]

Init ==
  /\ pg = [x \in Segments |-> [a \in Addr |-> nil]]
  \* the cache, the process, and its data segment as s->src
  /\ sref = [x \in Segments |-> CASE x = text -> 3 [] x = 1 -> 1 [] OTHER -> 0]
  /\ lk = [x \in Segments |-> nil]
  /\ ref = [g \in Pages |-> 0]
  /\ in = [g \in Pages |-> FALSE]
  /\ io = [g \in Pages |-> nil]
  /\ dseg = [p \in Proc |-> IF p = First THEN 1 ELSE nil]
  /\ mmu = [p \in Proc |-> [a \in Addr |-> nil]]
  /\ pc = [p \in Proc |-> IF p = First THEN "user" ELSE "dead"]
  /\ at = [p \in Proc |-> nil]
  /\ child = [p \in Proc |-> nil]

goto(p, l) == pc' = [pc EXCEPT ![p] = l]

(* newpage(): a free page, with one reference.  Pages are alike, and so    *)
(* are free segments: the first one.                                       *)
newpage(g) == ref[g] = 0 /\ \A h \in Pages : ref[h] = 0 => g <= h
newseg(s) == sref[s] = 0 /\ \A t \in Segs : sref[t] = 0 => s <= t
-----------------------------------------------------------------------------
(* fault() and seg(): a reference to a page that is not in the page table  *)
(* locks the segment.                                                      *)
fault(p, a) ==
  /\ pc[p] = "user" /\ mmu[p][a] = nil
  /\ lk[segof(p, a)] = nil
  /\ lk' = [lk EXCEPT ![segof(p, a)] = p]
  /\ at' = [at EXCEPT ![p] = a]
  /\ goto(p, "pagein")
  /\ UNCHANGED <<pg, sref, ref, in, io, dseg, mmu, child>>

(* pagein(), the segment has the page: maybe another process is still      *)
(* reading it.                                                             *)
pageinHas(p) ==
  /\ pc[p] = "pagein" /\ entry(p) # nil
  /\ lk' = [lk EXCEPT ![segof(p, at[p])] = nil]
  /\ goto(p, "pagedin")
  /\ UNCHANGED <<pg, sref, ref, in, io, dseg, mmu, at, child>>

(* pagein(), a page beyond the file, zero filled.                          *)
pageinZero(p) ==
  /\ pc[p] = "pagein" /\ entry(p) = nil /\ at[p] \in Bss
  /\ \E g \in Pages :
       /\ newpage(g)
       /\ ref' = [ref EXCEPT ![g] = 1]
       /\ in' = [in EXCEPT ![g] = TRUE]
       /\ pg' = [pg EXCEPT ![dseg[p]][at[p]] = g]
  /\ lk' = [lk EXCEPT ![dseg[p]] = nil]
  /\ goto(p, "relock")
  /\ UNCHANGED <<sref, io, dseg, mmu, at, child>>

(* pagein(), the text segment has the page of a data segment.              *)
pageinSrc(p) ==
  /\ pc[p] = "pagein" /\ entry(p) = nil /\ at[p] \in Data
  /\ lk[text] = nil
  /\ LET g == pg[text][at[p]] IN
     /\ g # nil
     /\ pg' = [pg EXCEPT ![dseg[p]][at[p]] = g]
     /\ ref' = [ref EXCEPT ![g] = @ + 1]
  /\ lk' = [lk EXCEPT ![dseg[p]] = nil]
  /\ goto(p, "pagedin")
  /\ UNCHANGED <<sref, in, io, dseg, mmu, at, child>>

(* The text segment shares the page that is read for a data segment.       *)
Shares(p) == IF at[p] \in Data THEN {dseg[p], text} ELSE {text}

(* pagein(), the page must be read: in the maps, and locked.               *)
pageinRead(p) ==
  /\ pc[p] = "pagein" /\ entry(p) = nil /\ at[p] \notin Bss
  /\ at[p] \in Data => lk[text] = nil /\ pg[text][at[p]] = nil
  /\ \E g \in Pages :
       /\ newpage(g)
       /\ ref' = [ref EXCEPT ![g] = Cardinality(Shares(p))]
       /\ io' = [io EXCEPT ![g] = p]
       /\ pg' = [s \in Segments |->
                   IF s \in Shares(p) THEN [pg[s] EXCEPT ![at[p]] = g] ELSE pg[s]]
  /\ lk' = [lk EXCEPT ![segof(p, at[p])] = nil]
  /\ goto(p, "read")
  /\ UNCHANGED <<sref, in, dseg, mmu, at, child>>

(* After the page is there: a page of the text goes to the page table, one *)
(* of the data to the copy on reference.                                   *)
after(p) == IF at[p] \in Text THEN "mmuput" ELSE "relock"

(* pgread() has read the page.                                             *)
pgread(p) ==
  /\ pc[p] = "read"
  /\ \E g \in Pages :
       /\ io[g] = p
       /\ io' = [io EXCEPT ![g] = nil]
       /\ in' = [in EXCEPT ![g] = TRUE]
  /\ goto(p, after(p))
  /\ UNCHANGED <<pg, sref, lk, ref, dseg, mmu, at, child>>

(* The error label of fixfault(), reached with s->lk already let go: it    *)
(* lets it go once more, and the process gets a note.                      *)
faulterror(p) ==
  /\ lk' = [lk EXCEPT ![segof(p, at[p])] = nil]
  /\ goto(p, "user")

(* pgread() fails.                                                         *)
pgreadFails(p) ==
  /\ "fail" \in May /\ pc[p] = "read"
  /\ \E g \in Pages :
       /\ io[g] = p
       /\ io' = [io EXCEPT ![g] = nil]
  /\ faulterror(p)
  /\ UNCHANGED <<pg, sref, ref, in, dseg, mmu, at, child>>

(* pagedin(): through the turnstile, if the page is still being read.      *)
pagedin(p) ==
  /\ pc[p] = "pagedin" /\ entry(p) # nil
  /\ in[entry(p)] \/ io[entry(p)] = nil
  /\ IF in[entry(p)] THEN goto(p, after(p)) /\ UNCHANGED lk
                     ELSE faulterror(p)
  /\ UNCHANGED <<pg, sref, ref, in, io, dseg, mmu, at, child>>

(* fixfault(), SG_DATA, after pagein().                                    *)
relock(p) ==
  /\ pc[p] = "relock" /\ lk[dseg[p]] = nil
  /\ lk' = [lk EXCEPT ![dseg[p]] = p]
  /\ goto(p, "cow")
  /\ UNCHANGED <<pg, sref, ref, in, io, dseg, mmu, at, child>>

(* fixfault(), cow: a page that is shared is to be copied.                 *)
cow(p) ==
  /\ pc[p] = "cow" /\ entry(p) # nil
  /\ IF ref[entry(p)] > 1
     THEN goto(p, "copy") /\ UNCHANGED lk
     ELSE goto(p, "mmuput") /\ lk' = [lk EXCEPT ![dseg[p]] = nil]
  /\ UNCHANGED <<pg, sref, ref, in, io, dseg, mmu, at, child>>

(* Fault seeded to test PagesExact: a reference that is not put.           *)
putpageNot(r, g) == r

(* What is left of the pages, after putpage() of some of them.             *)
putpage(r, g) == [r EXCEPT ![g] = @ - 1]
freed(r) == [g \in Pages |-> in[g] /\ r[g] > 0]

(* fixfault(), the copy; the page may not be shared any more.              *)
copy(p) ==
  /\ pc[p] = "copy" /\ entry(p) # nil
  /\ \E g \in Pages :
       /\ newpage(g)
       /\ ref' = putpage([ref EXCEPT ![g] = 1], entry(p))
       /\ in' = [freed(ref') EXCEPT ![g] = in[entry(p)]]
       /\ pg' = [pg EXCEPT ![dseg[p]][at[p]] = g]
  /\ lk' = [lk EXCEPT ![dseg[p]] = nil]
  /\ goto(p, "mmuput")
  /\ UNCHANGED <<sref, io, dseg, mmu, at, child>>

(* fixfault(), the page of the segment, as it is now that the segment is   *)
(* not locked, goes to the page table.                                     *)
mmuput(p) ==
  /\ pc[p] = "mmuput" /\ entry(p) # nil
  /\ mmu' = [mmu EXCEPT ![p][at[p]] = entry(p)]
  /\ goto(p, "user")
  /\ UNCHANGED <<pg, sref, lk, ref, in, io, dseg, at, child>>

(* A process that follows a pointer that another has set to nil is killed  *)
(* with the kernel: the machine stops.                                     *)
Crashed == \E p \in Proc : pc[p] \in {"pagedin", "cow", "copy", "mmuput"} /\ entry(p) = nil
-----------------------------------------------------------------------------
(* sysrfork(), with RFMEM: forkseg() gives the child the same segments.    *)
rforkShare(p, q) ==
  /\ "share" \in May
  /\ pc[p] = "user" /\ dseg[q] = nil
  /\ lk[text] = nil /\ lk[dseg[p]] = nil
  /\ sref' = [sref EXCEPT ![text] = @ + 1, ![dseg[p]] = @ + 1]
  /\ dseg' = [dseg EXCEPT ![q] = dseg[p]]
  /\ goto(q, "user")
  /\ UNCHANGED <<pg, lk, ref, in, io, mmu, at, child>>

(* ptecpy(), not deep: the pages of s in the new segment n.                *)
ptecpy(s, n) ==
  /\ pg' = [pg EXCEPT ![n] = pg[s]]
  /\ ref' = [g \in Pages |-> ref[g] + Cardinality({a \in Addr : pg[s][a] = g})]

(* Fault seeded to test NoSharedWrite: fork leaves the page table alone.   *)
mmuflushpgNot(p) == UNCHANGED mmu

(* mmuflushpg(): out of the page table of the process that runs, if its    *)
(* page table has an entry for them.                                       *)
mmuflushpg(p) == mmu' = [mmu EXCEPT ![p] = [a \in Addr |-> IF a \in Text THEN @[a] ELSE nil]]

(* sysrfork(), without RFMEM: forkseg() copies the data segment, locked.   *)
forkseg(p, q, n) ==
  /\ "copy" \in May
  /\ pc[p] = "user" /\ dseg[q] = nil /\ newseg(n)
  /\ lk[text] = nil /\ lk[dseg[p]] = nil
  /\ lk' = [lk EXCEPT ![dseg[p]] = p]
  /\ ptecpy(dseg[p], n)
  /\ mmuflushpg(p)
  /\ sref' = [sref EXCEPT ![n] = 1, ![text] = @ + 2]
  /\ dseg' = [dseg EXCEPT ![q] = n]
  /\ child' = [child EXCEPT ![p] = q]
  /\ goto(p, "flush")
  /\ UNCHANGED <<in, io, at>>

(* procflushseg(): the other processes of the segment flush their page     *)
(* tables, at a clock interrupt, and it waits for them.                    *)
procflushseg(s) ==
  mmu' = [r \in Proc |-> IF dseg[r] = s THEN [a \in Addr |-> nil] ELSE mmu[r]]

(* The rest of forkseg(); the child is ready.                              *)
forked(p) ==
  /\ pc[p] = "flush"
  /\ IF sref[dseg[p]] > 1 THEN procflushseg(dseg[p]) ELSE UNCHANGED mmu
  /\ lk' = [lk EXCEPT ![dseg[p]] = nil]
  /\ child' = [child EXCEPT ![p] = nil]
  /\ pc' = [pc EXCEPT ![p] = "user", ![child[p]] = "user"]
  /\ UNCHANGED <<pg, sref, ref, in, io, dseg, at>>

(* pexit() and putseg(): the last process of a data segment puts its pages *)
(* and its reference to the text segment, which stays in the cache.        *)
pexit(p) ==
  /\ pc[p] = "user"
  /\ LET s == dseg[p]
         last == sref[s] = 1
     IN /\ sref' = [sref EXCEPT ![s] = @ - 1, ![text] = @ - IF last THEN 2 ELSE 1]
        /\ IF last
           THEN /\ ref' = [g \in Pages |->
                             ref[g] - Cardinality({a \in Addr : pg[s][a] = g})]
                /\ in' = freed(ref')
                /\ pg' = [pg EXCEPT ![s] = [a \in Addr |-> nil]]
           ELSE UNCHANGED <<ref, in, pg>>
  /\ dseg' = [dseg EXCEPT ![p] = nil]
  /\ mmu' = [mmu EXCEPT ![p] = [a \in Addr |-> nil]]
  /\ at' = [at EXCEPT ![p] = nil]
  /\ goto(p, "dead")
  /\ UNCHANGED <<lk, io, child>>

(* syssegfree(): locks the data segment.                                   *)
syssegfree(p, a) ==
  /\ "free" \in May
  /\ pc[p] = "user" /\ a \notin Text
  /\ lk[dseg[p]] = nil
  /\ lk' = [lk EXCEPT ![dseg[p]] = p]
  /\ at' = [at EXCEPT ![p] = a]
  /\ goto(p, "mfreeseg")
  /\ UNCHANGED <<pg, sref, ref, in, io, dseg, mmu, child>>

(* mfreeseg(): out of the map, once it is not being read, and out of all   *)
(* page tables; then it is freed.                                          *)
mfreeseg(p) ==
  /\ pc[p] = "mfreeseg"
  /\ LET g == entry(p) IN
     IF g # nil
     THEN /\ in[g] \/ io[g] = nil
          /\ pg' = [pg EXCEPT ![dseg[p]][at[p]] = nil]
          /\ ref' = putpage(ref, g)
          /\ in' = freed(ref')
     ELSE UNCHANGED <<pg, ref, in>>
  /\ mmu' = [r \in Proc |-> IF r = p \/ (dseg[r] = dseg[p] /\ sref[dseg[p]] > 1)
                              THEN [a \in Addr |-> nil] ELSE mmu[r]]
  /\ lk' = [lk EXCEPT ![dseg[p]] = nil]
  /\ goto(p, "user")
  /\ UNCHANGED <<sref, io, dseg, at, child>>

Step(p) ==
  \/ \E a \in Addr : fault(p, a) \/ syssegfree(p, a)
  \/ pageinHas(p) \/ pageinZero(p) \/ pageinSrc(p) \/ pageinRead(p)
  \/ pgread(p) \/ pgreadFails(p) \/ pagedin(p) \/ relock(p) \/ cow(p) \/ copy(p)
  \/ mmuput(p) \/ mfreeseg(p) \/ pexit(p) \/ forked(p)
  \/ \E q \in Proc : rforkShare(p, q) \/ \E n \in Segs : forkseg(p, q, n)

Next == ~Crashed /\ \E p \in Proc : Step(p)

Spec == Init /\ [][Next]_vars
-----------------------------------------------------------------------------
(* A process can write a page only if no other segment has it ("If the     *)
(* page is shared, copy it, even for read access", fixfault()): what it    *)
(* writes after a fork is not seen by the child or the parent, nor in the  *)
(* cached image of the file.  While forkseg() has the segment, the child   *)
(* does not run yet and the page tables are still to be flushed.           *)
NoSharedWrite ==
  \A p \in Proc : \A a \in Addr \ Text :
    /\ pc[p] = "user" /\ mmu[p][a] # nil
    /\ \A r \in Proc : dseg[r] = dseg[p] => pc[r] # "flush"
    => ref[mmu[p][a]] = 1

(* The references of a page are the entries of the maps of segments that   *)
(* hold it, those of a segment its processes and the segments made from it *)
(* and the cache.                                                          *)
Maps(g) == {x \in Segments \X Addr : pg[x[1]][x[2]] = g}
CountsExact ==
  /\ \A g \in Pages : ref[g] = Cardinality(Maps(g))
  /\ \A s \in Segs : sref[s] = Cardinality({p \in Proc : dseg[p] = s})
  /\ sref[text] = 1 + Cardinality({p \in Proc : dseg[p] # nil})
                    + Cardinality({s \in Segs : sref[s] > 0})

(* No page table has a page that the process's segment has not; a page in  *)
(* a map is read in or someone is reading it, or the file could not be     *)
(* read; the kernel does not crash.                                        *)
PagesExact ==
  /\ CountsExact
  /\ \A p \in Proc, a \in Addr : mmu[p][a] # nil => mmu[p][a] = pg[segof(p, a)][a]
  /\ \A g \in Pages : Maps(g) # {} => in[g] \/ io[g] # nil \/ "fail" \in May
  /\ ~Crashed
=============================================================================
