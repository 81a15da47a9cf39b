---------------------------- MODULE RendezProofs ----------------------------
(***************************************************************************)
(* Sleep and wakeup lose nothing, for any number of processes, wakers and  *)
(* posters of notes: the panics of wakeup() and postnote() are out of      *)
(* reach, and a process that sleeps although it has a reason not to is     *)
(* about to be woken up.                                                   *)
(*                                                                         *)
(* r->p and p->r agree except while sleep() is between its test and its    *)
(* commitment.  There it holds both locks, so that wakeup(), which has to  *)
(* take lock(r) first, and postnote(), which has to take p->rlock first,   *)
(* find the process either before it is in its bed or committed to sleep.  *)
(***************************************************************************)
EXTENDS Rendez, TLAPS

(* The actors are different from each other.                               *)
Distinct ==
  /\ Proc \cap Waker = {} /\ Proc \cap Poster = {} /\ Waker \cap Poster = {}
  /\ Clock \notin Proc \cup Waker \cup Poster
  /\ nil \notin Actor /\ nil \notin Rendezs

(* Those that call wakeup().                                               *)
Wakes == Waker \cup {Clock}

(* What the proofs use of it.                                              *)
Kinds ==
  /\ Proc \subseteq Actor /\ Poster \subseteq Actor /\ Wakes \subseteq Actor
  /\ Clock \in Wakes /\ nil \notin Actor /\ nil \notin Rendezs
  /\ \A a \in Actor :
       /\ a \in Proc => a \notin Wakes \cup Poster
       /\ a \in Wakes => a \notin Poster
       /\ a \notin Proc \cup Wakes => a \in Poster

(* The places of TypeOK.                                                   *)
Where == {"idle", "lockr", "lockp", "commit", "asleep", "woke", "rendezvous",
          "wakeup", "wakeupP", "noteP", "noteTry", "noteR", "twakeup"}

(* Where each kind of actor can be.                                        *)
Places ==
  /\ \A p \in Proc : pc[p] \in {"idle", "lockr", "lockp", "commit", "asleep", "woke", "rendezvous"}
  /\ \A a \in Wakes : pc[a] \in {"idle", "twakeup", "wakeup", "wakeupP"}
  /\ \A n \in Poster : pc[n] \in {"idle", "noteP", "noteTry", "noteR"}

(* What an actor is working on, and that a Rendez has one sleeper.         *)
Names ==
  /\ \A a \in Actor :
       /\ ar[a] # nil <=> pc[a] \in {"lockr", "lockp", "commit", "asleep", "woke",
                                     "wakeup", "wakeupP", "noteTry"}
       /\ pc[a] \in {"wakeupP", "noteP", "noteTry", "noteR", "twakeup"} => ap[a] # nil
  /\ \A p, q \in Proc : ar[p] # nil /\ ar[p] = ar[q] => p = q

(* Who holds lock(r).                                                      *)
LockR == \A r \in Rendezs, a \in Actor :
  rlock[r] = a <=> ar[a] = r /\ pc[a] \in {"lockp", "commit", "wakeupP"}

(* Who holds p->rlock.                                                     *)
LockP == \A p \in Proc, a \in Actor :
  plock[p] = a <=> (a = p /\ pc[a] = "commit") \/ (ap[a] = p /\ pc[a] = "noteTry")

(* The state of a process and p->r say where it is.                        *)
StateSays == \A p \in Proc :
  /\ state[p] # "Running" => pc[p] \in {"asleep", "rendezvous"}
  /\ pc[p] = "asleep" => state[p] \in {"Wakeme", "Ready"}
  /\ pc[p] = "rendezvous" => state[p] \in {"Rendezvous", "Ready"}
  /\ p \in rend <=> state[p] = "Rendezvous"
  /\ pr[p] = IF state[p] = "Wakeme" THEN ar[p] ELSE nil

(* The process is past the test of sleep() and was not woken up.           *)
InBed(p) == pc[p] = "commit" \/ state[p] = "Wakeme"

(* r->p is the process in its bed.                                         *)
Linked == \A r \in Rendezs, p \in Proc : rp[r] = p <=> ar[p] = r /\ InBed(p)

(* What wakeup() and postnote() found is still so at their second lock.    *)
Found ==
  /\ \A a \in Wakes : pc[a] = "wakeupP" => rp[ar[a]] = ap[a]
  /\ \A n \in Poster : pc[n] = "noteTry" => pr[ap[n]] = ar[n]

Waking(a, r) == pc[a] \in {"wakeup", "wakeupP"} /\ ar[a] = r

WakeComes == \A p \in Proc :
  InBed(p) /\ cond[ar[p]] => \E a \in Wakes : Waking(a, ar[p])

NoteComes == \A p \in Proc :
  InBed(p) /\ notepending[p] =>
    \E n \in Poster : pc[n] \in {"noteP", "noteTry"} /\ ap[n] = p

(* An expiring timer finds the Rendez its process sleeps on.               *)
TimeComes ==
  /\ \A p \in Proc : timed[p] => ar[p] # nil /\ trend[p] \in {ar[p], nil}
  /\ \A p \in Proc : timed[p] /\ trend[p] # nil => tt[p] \/ (pc[Clock] = "twakeup" /\ ap[Clock] = p)
  /\ \A p \in Proc : InBed(p) /\ timed[p] => trend[p] # nil \/ Waking(Clock, ar[p])

Agree == TypeOK /\ Places /\ Names /\ LockR /\ LockP /\ StateSays /\ Linked /\ Found
IInv == Agree /\ WakeComes /\ NoteComes /\ TimeComes

(* Actors of different kinds are different.                                *)
LEMMA Apart == Distinct => Kinds
BY DEF Distinct, Kinds, Actor, Wakes

(* sleep() begins.                                                         *)
LEMMA SleepInv ==
  ASSUME Kinds, IInv, NEW p \in Proc, NEW r \in Rendezs,
         sleep(p, r)
  PROVE  IInv'
<1> USE DEF IInv, Agree, Kinds
<1>0. /\ \A b \in Actor : ar[b] \in Rendezs \cup {nil} /\ ap[b] \in Proc \cup {nil}
      /\ \A q \in Proc : trend[q] \in Rendezs \cup {nil}
  BY DEF TypeOK
<1>1. /\ p \in Actor /\ pc[p] = "idle" /\ ar[p] = nil /\ state[p] = "Running"
      /\ r # nil /\ \A q \in Proc : ar[q] # r
  BY DEF sleep, Unused, Names, StateSays, TypeOK, At
<1>2. /\ \A b \in Actor : ar'[b] = IF b = p THEN r ELSE ar[b]
      /\ \A b \in Actor : pc'[b] = IF b = p THEN "lockr" ELSE pc[b]
      /\ UNCHANGED <<rlock, plock, rp, pr, state, notepending, cond, tt, trend, timed, due, rend, ap>>
  BY <1>1 DEF sleep, Go, lockvars, timervars, TypeOK
<1>3. /\ ar' \in [Actor -> Rendezs \cup {nil}]
      /\ pc' \in [Actor -> Where]
  BY <1>1 DEF sleep, Go, lockvars, timervars, TypeOK, Where, States
<1>4. Places'
  BY <1>1, <1>2 DEF Places
<1>5. Names'
  BY <1>1, <1>2 DEF Names
<1>6. LockR' /\ LockP'
  BY <1>1, <1>2 DEF LockR, LockP, Names, Places
<1>7. TypeOK'
  BY <1>2, <1>3, <1>5 DEF TypeOK, Names, Where
<1>8. StateSays'
  BY <1>1, <1>2 DEF StateSays
<1>9. Linked'
  BY <1>1, <1>2 DEF Linked, InBed, StateSays, Names
<1>10. Found'
  BY <1>0, <1>1, <1>2 DEF Found, LockR, LockP, Names, Places
<1>11. WakeComes'
  BY <1>0, <1>1, <1>2 DEF WakeComes, Waking, InBed, StateSays, Names
<1>12. NoteComes'
  BY <1>0, <1>1, <1>2 DEF NoteComes, InBed, StateSays
<1>13. TimeComes'
  BY <1>0, <1>1, <1>2 DEF TimeComes, Waking, InBed, StateSays, Names, Places
<1> QED BY <1>4, <1>5, <1>6, <1>7, <1>8, <1>9, <1>10, <1>11, <1>12, <1>13

(* tsleep() arms its timer.                                                *)
LEMMA TsleepInv ==
  ASSUME Kinds, IInv, NEW p \in Proc, NEW r \in Rendezs,
         tsleep(p, r)
  PROVE  IInv'
<1> USE DEF IInv, Agree, Kinds
<1>0. /\ \A b \in Actor : ar[b] \in Rendezs \cup {nil} /\ ap[b] \in Proc \cup {nil}
      /\ \A q \in Proc : trend[q] \in Rendezs \cup {nil}
  BY DEF TypeOK
<1>1. /\ p \in Actor /\ pc[p] = "idle" /\ ar[p] = nil /\ state[p] = "Running"
      /\ p \notin Wakes /\ p \notin Poster
      /\ r # nil /\ \A q \in Proc : ar[q] # r
  BY DEF tsleep, Unused, Names, StateSays, TypeOK, At
<1>2. /\ \A b \in Actor : ar'[b] = IF b = p THEN r ELSE ar[b]
      /\ \A b \in Actor : pc'[b] = IF b = p THEN "lockr" ELSE pc[b]
      /\ \A q \in Proc : trend'[q] = IF q = p THEN r ELSE trend[q]
      /\ \A q \in Proc : tt'[q] = IF q = p THEN TRUE ELSE tt[q]
      /\ \A q \in Proc : timed'[q] = IF q = p THEN TRUE ELSE timed[q]
      /\ \A q \in Proc : due'[q] = IF q = p THEN FALSE ELSE due[q]
      /\ UNCHANGED <<rlock, plock, rp, pr, state, notepending, cond, rend, ap>>
  BY <1>1 DEF tsleep, Go, lockvars, TypeOK
<1>3. /\ ar' \in [Actor -> Rendezs \cup {nil}]
      /\ pc' \in [Actor -> Where]
      /\ trend' \in [Proc -> Rendezs \cup {nil}]
      /\ tt' \in [Proc -> BOOLEAN]
      /\ timed' \in [Proc -> BOOLEAN]
      /\ due' \in [Proc -> BOOLEAN]
  BY <1>1 DEF tsleep, Go, lockvars, TypeOK, Where, States
<1>4. Places'
  BY <1>1, <1>2 DEF Places
<1>5. Names'
  BY <1>1, <1>2 DEF Names
<1>6. LockR' /\ LockP'
  BY <1>1, <1>2 DEF LockR, LockP, Names, Places
<1>7. TypeOK'
  BY <1>2, <1>3, <1>5 DEF TypeOK, Names, Where
<1>8. StateSays'
  BY <1>1, <1>2 DEF StateSays
<1>9. Linked'
  BY <1>1, <1>2 DEF Linked, InBed, StateSays, Names
<1>10. Found'
  BY <1>0, <1>1, <1>2 DEF Found, LockR, LockP, Names, Places
<1>11. WakeComes'
  BY <1>0, <1>1, <1>2 DEF WakeComes, Waking, InBed, StateSays, Names
<1>12. NoteComes'
  BY <1>0, <1>1, <1>2 DEF NoteComes, InBed, StateSays
<1>13. TimeComes'
  <2>1. \A q \in Proc : InBed(q)' => InBed(q) /\ q # p
    BY <1>1, <1>2 DEF InBed, StateSays
  <2>2. pc'[Clock] = pc[Clock] /\ ar'[Clock] = ar[Clock] /\ ap'[Clock] = ap[Clock]
    BY <1>1, <1>2
  <2>3. ASSUME NEW q \in Proc, timed'[q]
        PROVE  /\ ar'[q] # nil /\ trend'[q] \in {ar'[q], nil}
               /\ trend'[q] # nil => tt'[q] \/ (pc'[Clock] = "twakeup" /\ ap'[Clock] = q)
    BY <1>1, <1>2, <2>2, <2>3, ZenonT(60) DEF TimeComes
  <2>4. ASSUME NEW q \in Proc, timed'[q], InBed(q)'
        PROVE  trend'[q] # nil \/ Waking(Clock, ar[q])'
    BY <1>1, <1>2, <2>1, <2>2, <2>4, ZenonT(60) DEF TimeComes, Waking
  <2>5. \A q \in Proc : InBed(q)' => ar'[q] = ar[q]
    BY <1>2, <2>1
  <2> QED BY <2>3, <2>4, <2>5 DEF TimeComes, Waking
<1> QED BY <1>4, <1>5, <1>6, <1>7, <1>8, <1>9, <1>10, <1>11, <1>12, <1>13

(* lock(r) in sleep().                                                     *)
LEMMA SleepLockInv ==
  ASSUME Kinds, IInv, NEW p \in Proc,
         sleepLock(p)
  PROVE  IInv'
<1> USE DEF IInv, Agree, Kinds
<1>0. /\ \A b \in Actor : ar[b] \in Rendezs \cup {nil} /\ ap[b] \in Proc \cup {nil}
      /\ \A q \in Proc : trend[q] \in Rendezs \cup {nil}
  BY DEF TypeOK
<1>1. /\ p \in Actor /\ pc[p] = "lockr" /\ ar[p] \in Rendezs /\ state[p] = "Running"
      /\ rlock[ar[p]] = nil /\ p # nil
  BY DEF sleepLock, Names, StateSays, TypeOK, At
<1>2. /\ \A s \in Rendezs : rlock'[s] = IF s = ar[p] THEN p ELSE rlock[s]
      /\ \A b \in Actor : pc'[b] = IF b = p THEN "lockp" ELSE pc[b]
      /\ UNCHANGED <<plock, rp, pr, state, notepending, cond, tt, trend, timed, due, rend, ar, ap>>
  BY <1>1 DEF sleepLock, Go, timervars, TypeOK
<1>3. /\ rlock' \in [Rendezs -> Actor \cup {nil}]
      /\ pc' \in [Actor -> Where]
  BY <1>1 DEF sleepLock, Go, timervars, TypeOK, Where, States
<1>4. Places'
  BY <1>1, <1>2 DEF Places
<1>5. Names'
  BY <1>1, <1>2 DEF Names
<1>6. LockR' /\ LockP'
  BY <1>1, <1>2 DEF LockR, LockP, Names, Places
<1>7. TypeOK'
  BY <1>2, <1>3, <1>5 DEF TypeOK, Names, Where
<1>8. StateSays'
  BY <1>1, <1>2 DEF StateSays
<1>9. Linked'
  BY <1>1, <1>2 DEF Linked, InBed, StateSays, Names
<1>10. Found'
  BY <1>0, <1>1, <1>2 DEF Found, LockR, LockP, Names, Places
<1>11. WakeComes'
  BY <1>0, <1>1, <1>2 DEF WakeComes, Waking, InBed, StateSays, Names
<1>12. NoteComes'
  BY <1>0, <1>1, <1>2 DEF NoteComes, InBed, StateSays
<1>13. TimeComes'
  BY <1>0, <1>1, <1>2 DEF TimeComes, Waking, InBed, StateSays, Names, Places
<1> QED BY <1>4, <1>5, <1>6, <1>7, <1>8, <1>9, <1>10, <1>11, <1>12, <1>13

(* The test of sleep() finds that it need not sleep.                       *)
LEMMA NeverMindInv ==
  ASSUME Kinds, IInv, NEW p \in Proc, sleepTest(p),
         Happened(p) \/ notepending[p]
  PROVE  IInv'
<1> USE DEF IInv, Agree, Kinds
<1>0. /\ \A b \in Actor : ar[b] \in Rendezs \cup {nil} /\ ap[b] \in Proc \cup {nil}
      /\ \A q \in Proc : trend[q] \in Rendezs \cup {nil}
  BY DEF TypeOK
<1>1. /\ p \in Actor /\ pc[p] = "lockp" /\ ar[p] \in Rendezs /\ state[p] = "Running"
      /\ rlock[ar[p]] = p /\ ~InBed(p)
  BY DEF sleepTest, LockR, InBed, Names, StateSays, TypeOK, At
<1>2. /\ \A s \in Rendezs : rlock'[s] = IF s = ar[p] THEN nil ELSE rlock[s]
      /\ \A b \in Actor : pc'[b] = IF b = p THEN "woke" ELSE pc[b]
      /\ UNCHANGED <<plock, rp, pr, state, notepending, cond, tt, trend, timed, due, rend, ar, ap>>
  BY <1>1 DEF sleepTest, Go, timervars, TypeOK
<1>3. /\ rlock' \in [Rendezs -> Actor \cup {nil}]
      /\ pc' \in [Actor -> Where]
  BY <1>1 DEF sleepTest, Go, timervars, TypeOK, Where, States
<1>4. Places'
  BY <1>1, <1>2 DEF Places
<1>5. Names'
  BY <1>1, <1>2 DEF Names
<1>6. LockR' /\ LockP'
  BY <1>1, <1>2 DEF LockR, LockP, Names, Places
<1>7. TypeOK'
  BY <1>2, <1>3, <1>5 DEF TypeOK, Names, Where
<1>8. StateSays'
  BY <1>1, <1>2 DEF StateSays
<1>9. Linked'
  BY <1>1, <1>2 DEF Linked, InBed, StateSays, Names
<1>10. Found'
  BY <1>0, <1>1, <1>2 DEF Found, LockR, LockP, Names, Places
<1>11. WakeComes'
  BY <1>0, <1>1, <1>2 DEF WakeComes, Waking, InBed, StateSays, Names
<1>12. NoteComes'
  BY <1>0, <1>1, <1>2 DEF NoteComes, InBed, StateSays
<1>13. TimeComes'
  BY <1>0, <1>1, <1>2 DEF TimeComes, Waking, InBed, StateSays, Names, Places
<1> QED BY <1>4, <1>5, <1>6, <1>7, <1>8, <1>9, <1>10, <1>11, <1>12, <1>13

(* The test of sleep() finds no reason not to sleep.                       *)
LEMMA ToBedInv ==
  ASSUME Kinds, IInv, NEW p \in Proc, sleepTest(p),
         ~(Happened(p) \/ notepending[p])
  PROVE  IInv'
<1> USE DEF IInv, Agree, Kinds
<1>0. /\ \A b \in Actor : ar[b] \in Rendezs \cup {nil} /\ ap[b] \in Proc \cup {nil}
      /\ \A q \in Proc : trend[q] \in Rendezs \cup {nil}
  BY DEF TypeOK
<1>1. /\ p \in Actor /\ pc[p] = "lockp" /\ ar[p] \in Rendezs /\ state[p] = "Running"
      /\ p \notin Wakes /\ p \notin Poster
      /\ \A b \in Wakes : ~(pc[b] = "wakeupP" /\ ar[b] = ar[p])
      /\ rlock[ar[p]] = p /\ plock[p] = nil /\ p # nil
      /\ ~cond[ar[p]] /\ ~notepending[p] /\ (timed[p] => trend[p] # nil)
      /\ \A b \in Actor : ~(pc[b] = "noteTry" /\ ap[b] = p)
  BY SMTT(30) DEF sleepTest, Happened, LockR, LockP, Names, StateSays, TypeOK, At
<1>2. /\ \A q \in Proc : plock'[q] = IF q = p THEN p ELSE plock[q]
      /\ \A s \in Rendezs : rp'[s] = IF s = ar[p] THEN p ELSE rp[s]
      /\ \A b \in Actor : pc'[b] = IF b = p THEN "commit" ELSE pc[b]
      /\ UNCHANGED <<rlock, pr, state, notepending, cond, tt, trend, timed, due, rend, ar, ap>>
  BY <1>1 DEF sleepTest, Go, timervars, TypeOK
<1>3. /\ plock' \in [Proc -> Actor \cup {nil}]
      /\ rp' \in [Rendezs -> Proc \cup {nil}]
      /\ pc' \in [Actor -> Where]
  BY <1>1 DEF sleepTest, Go, timervars, TypeOK, Where, States
<1>4. Places'
  BY <1>1, <1>2 DEF Places
<1>5. Names'
  BY <1>1, <1>2 DEF Names
<1>6. LockR' /\ LockP'
  BY <1>1, <1>2 DEF LockR, LockP, Names, Places
<1>7. TypeOK'
  BY <1>2, <1>3, <1>5 DEF TypeOK, Names, Where
<1>8. StateSays'
  BY <1>1, <1>2 DEF StateSays
<1>9. Linked'
  BY <1>1, <1>2 DEF Linked, InBed, StateSays, Names
<1>10. Found'
  BY <1>0, <1>1, <1>2 DEF Found, LockR, LockP, Names, Places
<1>11. WakeComes'
  BY <1>0, <1>1, <1>2 DEF WakeComes, Waking, InBed, StateSays, Names
<1>12. NoteComes'
  BY <1>0, <1>1, <1>2 DEF NoteComes, InBed, StateSays
<1>13. TimeComes'
  BY <1>0, <1>1, <1>2 DEF TimeComes, Waking, InBed, StateSays, Names, Places
<1> QED BY <1>4, <1>5, <1>6, <1>7, <1>8, <1>9, <1>10, <1>11, <1>12, <1>13

(* sleep() commits itself and releases both locks.                         *)
LEMMA SleepCommitInv ==
  ASSUME Kinds, IInv, NEW p \in Proc,
         sleepCommit(p)
  PROVE  IInv'
<1> USE DEF IInv, Agree, Kinds
<1>0. /\ \A b \in Actor : ar[b] \in Rendezs \cup {nil} /\ ap[b] \in Proc \cup {nil}
      /\ \A q \in Proc : trend[q] \in Rendezs \cup {nil}
  BY DEF TypeOK
<1>1. /\ p \in Actor /\ pc[p] = "commit" /\ ar[p] \in Rendezs /\ state[p] = "Running"
      /\ p \notin Wakes /\ p \notin Poster
      /\ rlock[ar[p]] = p /\ plock[p] = p
      /\ \A b \in Actor : ~(pc[b] = "noteTry" /\ ap[b] = p)
  BY DEF sleepCommit, LockR, LockP, Places, Names, StateSays, TypeOK, At
<1>2. /\ \A q \in Proc : state'[q] = IF q = p THEN "Wakeme" ELSE state[q]
      /\ \A q \in Proc : pr'[q] = IF q = p THEN ar[p] ELSE pr[q]
      /\ \A s \in Rendezs : rlock'[s] = IF s = ar[p] THEN nil ELSE rlock[s]
      /\ \A q \in Proc : plock'[q] = IF q = p THEN nil ELSE plock[q]
      /\ \A b \in Actor : pc'[b] = IF b = p THEN "asleep" ELSE pc[b]
      /\ UNCHANGED <<rp, notepending, cond, tt, trend, timed, due, rend, ar, ap>>
  BY <1>1 DEF sleepCommit, Go, timervars, TypeOK
<1>3. /\ state' \in [Proc -> States]
      /\ pr' \in [Proc -> Rendezs \cup {nil}]
      /\ rlock' \in [Rendezs -> Actor \cup {nil}]
      /\ plock' \in [Proc -> Actor \cup {nil}]
      /\ pc' \in [Actor -> Where]
  BY <1>1 DEF sleepCommit, Go, timervars, TypeOK, Where, States
<1>4. Places'
  BY <1>1, <1>2 DEF Places
<1>5. Names'
  BY <1>1, <1>2 DEF Names
<1>6. LockR' /\ LockP'
  BY <1>1, <1>2 DEF LockR, LockP, Names, Places
<1>7. TypeOK'
  BY <1>2, <1>3, <1>5 DEF TypeOK, Names, Where
<1>8. StateSays'
  BY <1>1, <1>2 DEF StateSays
<1>9. Linked'
  BY <1>1, <1>2 DEF Linked, InBed, StateSays, Names
<1>10. Found'
  BY <1>0, <1>1, <1>2 DEF Found, LockR, LockP, Names, Places
<1>11. WakeComes'
  BY <1>0, <1>1, <1>2 DEF WakeComes, Waking, InBed, StateSays, Names
<1>12. NoteComes'
  BY <1>0, <1>1, <1>2 DEF NoteComes, InBed, StateSays
<1>13. TimeComes'
  BY <1>0, <1>1, <1>2 DEF TimeComes, Waking, InBed, StateSays, Names, Places
<1> QED BY <1>4, <1>5, <1>6, <1>7, <1>8, <1>9, <1>10, <1>11, <1>12, <1>13

(* The scheduler runs a process that was readied.                          *)
LEMMA ResumeInv ==
  ASSUME Kinds, IInv, NEW p \in Proc,
         resume(p)
  PROVE  IInv'
<1> USE DEF IInv, Agree, Kinds
<1>0. /\ \A b \in Actor : ar[b] \in Rendezs \cup {nil} /\ ap[b] \in Proc \cup {nil}
      /\ \A q \in Proc : trend[q] \in Rendezs \cup {nil}
  BY DEF TypeOK
<1>1. /\ p \in Actor /\ pc[p] \in {"asleep", "rendezvous"} /\ state[p] = "Ready"
      /\ pc[p] = "asleep" => ar[p] # nil
  BY DEF resume, Names, StateSays, TypeOK, At
<1>2. /\ \A q \in Proc : state'[q] = IF q = p THEN "Running" ELSE state[q]
      /\ \A b \in Actor : pc'[b] = IF b = p THEN IF pc[p] = "asleep" THEN "woke" ELSE "idle" ELSE pc[b]
      /\ UNCHANGED <<rlock, plock, rp, pr, notepending, cond, tt, trend, timed, due, rend, ar, ap>>
  BY <1>1 DEF resume, Go, At, timervars, lockvars, TypeOK
<1>3. /\ state' \in [Proc -> States]
      /\ pc' \in [Actor -> Where]
  BY <1>1 DEF resume, Go, At, timervars, lockvars, TypeOK, Where, States
<1>4. Places'
  BY <1>1, <1>2 DEF Places
<1>5. Names'
  BY <1>1, <1>2 DEF Names
<1>6. LockR' /\ LockP'
  BY <1>1, <1>2 DEF LockR, LockP, Names, Places
<1>7. TypeOK'
  BY <1>2, <1>3, <1>5 DEF TypeOK, Names, Where
<1>8. StateSays'
  BY <1>1, <1>2 DEF StateSays
<1>9. Linked'
  BY <1>1, <1>2 DEF Linked, InBed, StateSays, Names
<1>10. Found'
  BY <1>0, <1>1, <1>2 DEF Found, LockR, LockP, Names, Places
<1>11. WakeComes'
  BY <1>0, <1>1, <1>2 DEF WakeComes, Waking, InBed, StateSays, Names
<1>12. NoteComes'
  BY <1>0, <1>1, <1>2 DEF NoteComes, InBed, StateSays
<1>13. TimeComes'
  BY <1>0, <1>1, <1>2 DEF TimeComes, Waking, InBed, StateSays, Names, Places
<1> QED BY <1>4, <1>5, <1>6, <1>7, <1>8, <1>9, <1>10, <1>11, <1>12, <1>13

(* sleep() or tsleep() returns.                                            *)
LEMMA SleepReturnInv ==
  ASSUME Kinds, IInv, NEW p \in Proc,
         sleepReturn(p)
  PROVE  IInv'
<1> USE DEF IInv, Agree, Kinds
<1>0. /\ \A b \in Actor : ar[b] \in Rendezs \cup {nil} /\ ap[b] \in Proc \cup {nil}
      /\ \A q \in Proc : trend[q] \in Rendezs \cup {nil}
  BY DEF TypeOK
<1>1. /\ p \in Actor /\ pc[p] = "woke" /\ ar[p] \in Rendezs /\ state[p] = "Running"
      /\ p \notin Wakes /\ p \notin Poster
      /\ ~InBed(p) /\ \A q \in Proc : q # p => ar[q] # ar[p]
  BY DEF sleepReturn, InBed, Names, StateSays, TypeOK, At
<1>2. /\ \A q \in Proc : notepending'[q] = IF q = p THEN FALSE ELSE notepending[q]
      /\ \A q \in Proc : tt'[q] = IF q = p THEN FALSE ELSE tt[q]
      /\ \A q \in Proc : timed'[q] = IF q = p THEN FALSE ELSE timed[q]
      /\ \A b \in Actor : ar'[b] = IF b = p THEN nil ELSE ar[b]
      /\ \A b \in Actor : pc'[b] = IF b = p THEN "idle" ELSE pc[b]
      /\ \A s \in Rendezs : cond'[s] = IF s = ar[p] /\ ~notepending[p] THEN FALSE ELSE cond[s]
      /\ UNCHANGED <<rlock, plock, rp, pr, state, trend, due, rend, ap>>
  BY <1>1 DEF sleepReturn, Go, lockvars, TypeOK
<1>3. /\ notepending' \in [Proc -> BOOLEAN]
      /\ tt' \in [Proc -> BOOLEAN]
      /\ timed' \in [Proc -> BOOLEAN]
      /\ ar' \in [Actor -> Rendezs \cup {nil}]
      /\ pc' \in [Actor -> Where]
      /\ cond' \in [Rendezs -> BOOLEAN]
  BY <1>1 DEF sleepReturn, Go, lockvars, TypeOK, Where, States
<1>4. Places'
  BY <1>1, <1>2 DEF Places
<1>5. Names'
  BY <1>1, <1>2 DEF Names
<1>6. LockR' /\ LockP'
  BY <1>1, <1>2 DEF LockR, LockP, Names, Places
<1>7. TypeOK'
  BY <1>2, <1>3, <1>5 DEF TypeOK, Names, Where
<1>8. StateSays'
  BY <1>1, <1>2 DEF StateSays
<1>9. Linked'
  BY <1>1, <1>2 DEF Linked, InBed, StateSays, Names
<1>10. Found'
  BY <1>0, <1>1, <1>2 DEF Found, LockR, LockP, Names, Places
<1>11. WakeComes'
  <2>1. ASSUME NEW q \in Proc, InBed(q)'
        PROVE  InBed(q) /\ ar'[q] = ar[q] /\ ar[q] \in Rendezs /\ ar[q] # ar[p]
    BY <1>0, <1>1, <1>2, <2>1 DEF InBed, StateSays, Names
  <2>2. ASSUME NEW b \in Wakes, NEW s \in Rendezs, Waking(b, s) PROVE Waking(b, s)'
    BY <1>1, <1>2, <2>2 DEF Waking
  <2>3. ASSUME NEW q \in Proc, InBed(q)', cond'[ar'[q]]
        PROVE  \E b \in Wakes : Waking(b, ar[q])'
    <3>1. InBed(q) /\ cond[ar[q]]
      BY <1>2, <2>1, <2>3
    <3> QED BY <2>1, <2>2, <2>3, <3>1 DEF WakeComes
  <2> QED BY <2>1, <2>3 DEF WakeComes, Waking
<1>12. NoteComes'
  <2>1. ASSUME NEW q \in Proc, InBed(q)' PROVE InBed(q) /\ q # p
    BY <1>1, <1>2, <2>1 DEF InBed, StateSays
  <2>2. \A m \in Poster : pc'[m] = pc[m] /\ ap'[m] = ap[m]
    BY <1>1, <1>2
  <2> QED BY <1>2, <2>1, <2>2, ZenonT(60) DEF NoteComes
<1>13. TimeComes'
  <2>1. ASSUME NEW q \in Proc, timed'[q] PROVE q # p /\ timed[q] /\ ar'[q] = ar[q] /\ tt'[q] = tt[q]
    BY <1>1, <1>2, <2>1
  <2>2. ASSUME NEW q \in Proc, InBed(q)' PROVE InBed(q) /\ q # p
    BY <1>1, <1>2, <2>2 DEF InBed, StateSays
  <2>3. pc'[Clock] = pc[Clock] /\ ar'[Clock] = ar[Clock] /\ ap'[Clock] = ap[Clock]
    BY <1>1, <1>2
  <2> QED BY <1>2, <2>1, <2>2, <2>3 DEF TimeComes, Waking
<1> QED BY <1>4, <1>5, <1>6, <1>7, <1>8, <1>9, <1>10, <1>11, <1>12, <1>13

(* A condition becomes true and wakeup() is called.                        *)
LEMMA HappenInv ==
  ASSUME Kinds, IInv, NEW w \in Wakes, NEW r \in Rendezs,
         happen(w, r)
  PROVE  IInv'
<1> USE DEF IInv, Agree, Kinds
<1>0. /\ \A b \in Actor : ar[b] \in Rendezs \cup {nil} /\ ap[b] \in Proc \cup {nil}
      /\ \A q \in Proc : trend[q] \in Rendezs \cup {nil}
  BY DEF TypeOK
<1>1. /\ w \in Actor /\ pc[w] = "idle" /\ ar[w] = nil /\ r # nil
      /\ w \notin Proc /\ w \notin Poster
  BY DEF happen, Names, StateSays, TypeOK, At
<1>2. /\ \A s \in Rendezs : cond'[s] = IF s = r THEN TRUE ELSE cond[s]
      /\ \A b \in Actor : ar'[b] = IF b = w THEN r ELSE ar[b]
      /\ \A b \in Actor : pc'[b] = IF b = w THEN "wakeup" ELSE pc[b]
      /\ UNCHANGED <<rlock, plock, rp, pr, state, notepending, tt, trend, timed, due, rend, ap>>
  BY <1>1 DEF happen, Go, lockvars, timervars, TypeOK
<1>3. /\ cond' \in [Rendezs -> BOOLEAN]
      /\ ar' \in [Actor -> Rendezs \cup {nil}]
      /\ pc' \in [Actor -> Where]
  BY <1>1 DEF happen, Go, lockvars, timervars, TypeOK, Where, States
<1>4. Places'
  BY <1>1, <1>2 DEF Places
<1>5. Names'
  BY <1>1, <1>2 DEF Names
<1>6. LockR' /\ LockP'
  BY <1>1, <1>2 DEF LockR, LockP, Names, Places
<1>7. TypeOK'
  BY <1>2, <1>3, <1>5 DEF TypeOK, Names, Where
<1>8. StateSays'
  BY <1>1, <1>2 DEF StateSays
<1>9. Linked'
  BY <1>1, <1>2 DEF Linked, InBed, StateSays, Names
<1>10. Found'
  BY <1>0, <1>1, <1>2 DEF Found, LockR, LockP, Names, Places
<1>11. WakeComes'
  <2>1. ASSUME NEW q \in Proc, InBed(q)', cond'[ar'[q]]
        PROVE  \E b \in Wakes : Waking(b, ar[q])'
    <3>1. InBed(q) /\ ar[q] \in Rendezs /\ ar'[q] = ar[q]
      BY <1>0, <1>1, <1>2, <2>1 DEF InBed, StateSays, Names
    <3>2. CASE ar[q] = r
      BY <1>1, <1>2, <3>2 DEF Waking
    <3>3. CASE ar[q] # r
      <4>1. PICK b \in Wakes : Waking(b, ar[q])
        BY <1>2, <2>1, <3>1, <3>3 DEF WakeComes
      <4>2. b # w
        BY <1>1, <4>1 DEF Waking
      <4> QED BY <1>1, <1>2, <4>1, <4>2 DEF Waking
    <3> QED BY <3>2, <3>3
  <2>2. \A q \in Proc : ar'[q] = ar[q]
    BY <1>1, <1>2
  <2> QED BY <2>1, <2>2 DEF WakeComes, Waking
<1>12. NoteComes'
  BY <1>0, <1>1, <1>2 DEF NoteComes, InBed, StateSays
<1>13. TimeComes'
  BY <1>0, <1>1, <1>2 DEF TimeComes, Waking, InBed, StateSays, Names, Places
<1> QED BY <1>4, <1>5, <1>6, <1>7, <1>8, <1>9, <1>10, <1>11, <1>12, <1>13

(* wakeup() finds nobody.                                                  *)
LEMMA NobodyThereInv ==
  ASSUME Kinds, IInv, NEW a \in Wakes, wakeup(a),
         rp[ar[a]] = nil
  PROVE  IInv'
<1> USE DEF IInv, Agree, Kinds
<1>0. /\ \A b \in Actor : ar[b] \in Rendezs \cup {nil} /\ ap[b] \in Proc \cup {nil}
      /\ \A q \in Proc : trend[q] \in Rendezs \cup {nil}
  BY DEF TypeOK
<1>1. /\ a \in Actor /\ pc[a] = "wakeup" /\ ar[a] \in Rendezs
      /\ a \notin Proc /\ a \notin Poster
      /\ \A q \in Proc : ar[q] = ar[a] => ~InBed(q)
  BY DEF wakeup, Linked, Names, StateSays, TypeOK, At
<1>2. /\ \A b \in Actor : ar'[b] = IF b = a THEN nil ELSE ar[b]
      /\ \A b \in Actor : ap'[b] = IF b = a THEN nil ELSE ap[b]
      /\ \A b \in Actor : pc'[b] = IF b = a THEN "idle" ELSE pc[b]
      /\ UNCHANGED <<rlock, plock, rp, pr, state, notepending, cond, tt, trend, timed, due, rend>>
  BY <1>1 DEF wakeup, Go, timervars, TypeOK
<1>3. /\ ar' \in [Actor -> Rendezs \cup {nil}]
      /\ ap' \in [Actor -> Proc \cup {nil}]
      /\ pc' \in [Actor -> Where]
  BY <1>1 DEF wakeup, Go, timervars, TypeOK, Where, States
<1>4. Places'
  BY <1>1, <1>2 DEF Places
<1>5. Names'
  BY <1>1, <1>2 DEF Names
<1>6. LockR' /\ LockP'
  BY <1>1, <1>2 DEF LockR, LockP, Names, Places
<1>7. TypeOK'
  BY <1>2, <1>3, <1>5 DEF TypeOK, Names, Where
<1>8. StateSays'
  BY <1>1, <1>2 DEF StateSays
<1>9. Linked'
  BY <1>1, <1>2 DEF Linked, InBed, StateSays, Names
<1>10. Found'
  BY <1>0, <1>1, <1>2 DEF Found, LockR, LockP, Names, Places
<1>11. WakeComes'
  BY <1>0, <1>1, <1>2 DEF WakeComes, Waking, InBed, StateSays, Names
<1>12. NoteComes'
  BY <1>0, <1>1, <1>2 DEF NoteComes, InBed, StateSays
<1>13. TimeComes'
  BY <1>0, <1>1, <1>2 DEF TimeComes, Waking, InBed, StateSays, Names, Places
<1> QED BY <1>4, <1>5, <1>6, <1>7, <1>8, <1>9, <1>10, <1>11, <1>12, <1>13

(* wakeup() finds a process.                                               *)
LEMMA WakeupInv ==
  ASSUME Kinds, IInv, NEW a \in Wakes, wakeup(a),
         rp[ar[a]] # nil
  PROVE  IInv'
<1> USE DEF IInv, Agree, Kinds
<1>0. /\ \A b \in Actor : ar[b] \in Rendezs \cup {nil} /\ ap[b] \in Proc \cup {nil}
      /\ \A q \in Proc : trend[q] \in Rendezs \cup {nil}
  BY DEF TypeOK
<1>1. /\ a \in Actor /\ pc[a] = "wakeup" /\ ar[a] \in Rendezs
      /\ a \notin Proc /\ a \notin Poster /\ a # nil
      /\ rlock[ar[a]] = nil /\ rp[ar[a]] \in Proc
  BY DEF wakeup, Names, StateSays, TypeOK, At
<1>2. /\ \A s \in Rendezs : rlock'[s] = IF s = ar[a] THEN a ELSE rlock[s]
      /\ \A b \in Actor : ap'[b] = IF b = a THEN rp[ar[a]] ELSE ap[b]
      /\ \A b \in Actor : pc'[b] = IF b = a THEN "wakeupP" ELSE pc[b]
      /\ UNCHANGED <<plock, rp, pr, state, notepending, cond, tt, trend, timed, due, rend, ar>>
  BY <1>1 DEF wakeup, Go, timervars, TypeOK
<1>3. /\ rlock' \in [Rendezs -> Actor \cup {nil}]
      /\ ap' \in [Actor -> Proc \cup {nil}]
      /\ pc' \in [Actor -> Where]
  BY <1>1 DEF wakeup, Go, timervars, TypeOK, Where, States
<1>4. Places'
  BY <1>1, <1>2 DEF Places
<1>5. Names'
  BY <1>1, <1>2 DEF Names
<1>6. LockR' /\ LockP'
  BY <1>1, <1>2 DEF LockR, LockP, Names, Places
<1>7. TypeOK'
  BY <1>2, <1>3, <1>5 DEF TypeOK, Names, Where
<1>8. StateSays'
  BY <1>1, <1>2 DEF StateSays
<1>9. Linked'
  BY <1>1, <1>2 DEF Linked, InBed, StateSays, Names
<1>10. Found'
  BY <1>0, <1>1, <1>2 DEF Found, LockR, LockP, Names, Places
<1>11. WakeComes'
  BY <1>0, <1>1, <1>2 DEF WakeComes, Waking, InBed, StateSays, Names
<1>12. NoteComes'
  BY <1>0, <1>1, <1>2 DEF NoteComes, InBed, StateSays
<1>13. TimeComes'
  BY <1>0, <1>1, <1>2 DEF TimeComes, Waking, InBed, StateSays, Names, Places
<1> QED BY <1>4, <1>5, <1>6, <1>7, <1>8, <1>9, <1>10, <1>11, <1>12, <1>13

(* wakeup() has both locks.                                                *)
LEMMA WakeupPInv ==
  ASSUME Kinds, IInv, NEW a \in Wakes,
         wakeupP(a)
  PROVE  IInv'
<1> USE DEF IInv, Agree, Kinds
<1>0. /\ \A b \in Actor : ar[b] \in Rendezs \cup {nil} /\ ap[b] \in Proc \cup {nil}
      /\ \A q \in Proc : trend[q] \in Rendezs \cup {nil}
  BY DEF TypeOK
<1>1. /\ a \in Actor /\ pc[a] = "wakeupP" /\ ar[a] \in Rendezs /\ ap[a] \in Proc
      /\ a \notin Proc /\ a \notin Poster /\ a # nil
      /\ rlock[ar[a]] = a /\ plock[ap[a]] = nil /\ rp[ar[a]] = ap[a]
      /\ state[ap[a]] = "Wakeme" /\ pc[ap[a]] = "asleep" /\ ar[ap[a]] = ar[a] /\ InBed(ap[a])
      /\ \A b \in Actor : ~(pc[b] = "noteTry" /\ ap[b] = ap[a])
  BY DEF wakeupP, LockR, LockP, Found, Linked, InBed, Places, Names, StateSays, TypeOK, At
<1>2. /\ \A s \in Rendezs : rp'[s] = IF s = ar[a] THEN nil ELSE rp[s]
      /\ \A q \in Proc : pr'[q] = IF q = ap[a] THEN nil ELSE pr[q]
      /\ \A q \in Proc : state'[q] = IF q = ap[a] THEN "Ready" ELSE state[q]
      /\ \A s \in Rendezs : rlock'[s] = IF s = ar[a] THEN nil ELSE rlock[s]
      /\ \A b \in Actor : ar'[b] = IF b = a THEN nil ELSE ar[b]
      /\ \A b \in Actor : ap'[b] = IF b = a THEN nil ELSE ap[b]
      /\ \A b \in Actor : pc'[b] = IF b = a THEN "idle" ELSE pc[b]
      /\ UNCHANGED <<plock, notepending, cond, tt, trend, timed, due, rend>>
  BY <1>1 DEF wakeupP, Go, timervars, TypeOK
<1>3. /\ rp' \in [Rendezs -> Proc \cup {nil}]
      /\ pr' \in [Proc -> Rendezs \cup {nil}]
      /\ state' \in [Proc -> States]
      /\ rlock' \in [Rendezs -> Actor \cup {nil}]
      /\ ar' \in [Actor -> Rendezs \cup {nil}]
      /\ ap' \in [Actor -> Proc \cup {nil}]
      /\ pc' \in [Actor -> Where]
  BY <1>1 DEF wakeupP, Go, timervars, TypeOK, Where, States
<1>4. Places'
  BY <1>1, <1>2 DEF Places
<1>5. Names'
  BY <1>1, <1>2 DEF Names
<1>6. LockR' /\ LockP'
  BY <1>1, <1>2 DEF LockR, LockP, Names, Places
<1>7. TypeOK'
  BY <1>2, <1>3, <1>5 DEF TypeOK, Names, Where
<1>8. StateSays'
  BY <1>1, <1>2 DEF StateSays
<1>9. Linked'
  BY <1>1, <1>2 DEF Linked, InBed, StateSays, Names
<1>10. Found'
  BY <1>0, <1>1, <1>2 DEF Found, LockR, LockP, Names, Places
<1>11. WakeComes'
  BY <1>0, <1>1, <1>2 DEF WakeComes, Waking, InBed, StateSays, Names
<1>12. NoteComes'
  BY <1>0, <1>1, <1>2 DEF NoteComes, InBed, StateSays
<1>13. TimeComes'
  BY <1>0, <1>1, <1>2 DEF TimeComes, Waking, InBed, StateSays, Names, Places
<1> QED BY <1>4, <1>5, <1>6, <1>7, <1>8, <1>9, <1>10, <1>11, <1>12, <1>13

(* postnote() makes the note pending.                                      *)
LEMMA PostnoteInv ==
  ASSUME Kinds, IInv, NEW n \in Poster, NEW p \in Proc,
         postnote(n, p)
  PROVE  IInv'
<1> USE DEF IInv, Agree, Kinds
<1>0. /\ \A b \in Actor : ar[b] \in Rendezs \cup {nil} /\ ap[b] \in Proc \cup {nil}
      /\ \A q \in Proc : trend[q] \in Rendezs \cup {nil}
  BY DEF TypeOK
<1>1. /\ n \in Actor /\ pc[n] = "idle" /\ ar[n] = nil /\ p # nil
      /\ n \notin Proc /\ n \notin Wakes
  BY DEF postnote, Names, StateSays, TypeOK, At
<1>2. /\ \A q \in Proc : notepending'[q] = IF q = p THEN TRUE ELSE notepending[q]
      /\ \A b \in Actor : ap'[b] = IF b = n THEN p ELSE ap[b]
      /\ \A b \in Actor : pc'[b] = IF b = n THEN "noteP" ELSE pc[b]
      /\ UNCHANGED <<rlock, plock, rp, pr, state, cond, tt, trend, timed, due, rend, ar>>
  BY <1>1 DEF postnote, Go, lockvars, timervars, TypeOK
<1>3. /\ notepending' \in [Proc -> BOOLEAN]
      /\ ap' \in [Actor -> Proc \cup {nil}]
      /\ pc' \in [Actor -> Where]
  BY <1>1 DEF postnote, Go, lockvars, timervars, TypeOK, Where, States
<1>4. Places'
  BY <1>1, <1>2 DEF Places
<1>5. Names'
  BY <1>1, <1>2 DEF Names
<1>6. LockR' /\ LockP'
  BY <1>1, <1>2 DEF LockR, LockP, Names, Places
<1>7. TypeOK'
  BY <1>2, <1>3, <1>5 DEF TypeOK, Names, Where
<1>8. StateSays'
  BY <1>1, <1>2 DEF StateSays
<1>9. Linked'
  BY <1>1, <1>2 DEF Linked, InBed, StateSays, Names
<1>10. Found'
  BY <1>0, <1>1, <1>2 DEF Found, LockR, LockP, Names, Places
<1>11. WakeComes'
  BY <1>0, <1>1, <1>2 DEF WakeComes, Waking, InBed, StateSays, Names
<1>12. NoteComes'
  <2>1. ASSUME NEW q \in Proc, InBed(q)', notepending'[q]
        PROVE  \E m \in Poster : pc'[m] \in {"noteP", "noteTry"} /\ ap'[m] = q
    <3>1. InBed(q)
      BY <1>1, <1>2, <2>1 DEF InBed
    <3>2. CASE q = p
      BY <1>1, <1>2, <3>2
    <3>3. CASE q # p
      <4>1. PICK m \in Poster : pc[m] \in {"noteP", "noteTry"} /\ ap[m] = q
        BY <1>2, <2>1, <3>1, <3>3 DEF NoteComes
      <4> QED BY <1>1, <1>2, <4>1
    <3> QED BY <3>2, <3>3
  <2> QED BY <2>1 DEF NoteComes
<1>13. TimeComes'
  BY <1>0, <1>1, <1>2 DEF TimeComes, Waking, InBed, StateSays, Names, Places
<1> QED BY <1>4, <1>5, <1>6, <1>7, <1>8, <1>9, <1>10, <1>11, <1>12, <1>13

(* postnote() finds a process that does not sleep.                         *)
LEMMA NotAsleepInv ==
  ASSUME Kinds, IInv, NEW n \in Poster, noteLock(n),
         pr[ap[n]] = nil
  PROVE  IInv'
<1> USE DEF IInv, Agree, Kinds
<1>0. /\ \A b \in Actor : ar[b] \in Rendezs \cup {nil} /\ ap[b] \in Proc \cup {nil}
      /\ \A q \in Proc : trend[q] \in Rendezs \cup {nil}
  BY DEF TypeOK
<1>1. /\ n \in Actor /\ pc[n] = "noteP" /\ ar[n] = nil /\ ap[n] \in Proc /\ plock[ap[n]] = nil
      /\ n \notin Proc /\ n \notin Wakes
      /\ ~InBed(ap[n])
  BY DEF noteLock, LockP, InBed, Names, StateSays, TypeOK, At
<1>2. /\ \A b \in Actor : pc'[b] = IF b = n THEN "noteR" ELSE pc[b]
      /\ UNCHANGED <<rlock, plock, rp, pr, state, notepending, cond, tt, trend, timed, due, rend, ar, ap>>
  BY <1>1 DEF noteLock, Go, timervars, TypeOK
<1>3. /\ pc' \in [Actor -> Where]
  BY <1>1 DEF noteLock, Go, timervars, TypeOK, Where, States
<1>4. Places'
  BY <1>1, <1>2 DEF Places
<1>5. Names'
  BY <1>1, <1>2 DEF Names
<1>6. LockR' /\ LockP'
  BY <1>1, <1>2 DEF LockR, LockP, Names, Places
<1>7. TypeOK'
  BY <1>2, <1>3, <1>5 DEF TypeOK, Names, Where
<1>8. StateSays'
  BY <1>1, <1>2 DEF StateSays
<1>9. Linked'
  BY <1>1, <1>2 DEF Linked, InBed, StateSays, Names
<1>10. Found'
  BY <1>0, <1>1, <1>2 DEF Found, LockR, LockP, Names, Places
<1>11. WakeComes'
  BY <1>0, <1>1, <1>2 DEF WakeComes, Waking, InBed, StateSays, Names
<1>12. NoteComes'
  BY <1>0, <1>1, <1>2 DEF NoteComes, InBed, StateSays
<1>13. TimeComes'
  BY <1>0, <1>1, <1>2 DEF TimeComes, Waking, InBed, StateSays, Names, Places
<1> QED BY <1>4, <1>5, <1>6, <1>7, <1>8, <1>9, <1>10, <1>11, <1>12, <1>13

(* postnote() finds a process that sleeps.                                 *)
LEMMA NoteLockInv ==
  ASSUME Kinds, IInv, NEW n \in Poster, noteLock(n),
         pr[ap[n]] # nil
  PROVE  IInv'
<1> USE DEF IInv, Agree, Kinds
<1>0. /\ \A b \in Actor : ar[b] \in Rendezs \cup {nil} /\ ap[b] \in Proc \cup {nil}
      /\ \A q \in Proc : trend[q] \in Rendezs \cup {nil}
  BY DEF TypeOK
<1>1. /\ n \in Actor /\ pc[n] = "noteP" /\ ar[n] = nil /\ ap[n] \in Proc /\ plock[ap[n]] = nil
      /\ n \notin Proc /\ n \notin Wakes /\ n # nil /\ pr[ap[n]] \in Rendezs
  BY DEF noteLock, Names, StateSays, TypeOK, At
<1>2. /\ \A q \in Proc : plock'[q] = IF q = ap[n] THEN n ELSE plock[q]
      /\ \A b \in Actor : ar'[b] = IF b = n THEN pr[ap[n]] ELSE ar[b]
      /\ \A b \in Actor : pc'[b] = IF b = n THEN "noteTry" ELSE pc[b]
      /\ UNCHANGED <<rlock, rp, pr, state, notepending, cond, tt, trend, timed, due, rend, ap>>
  BY <1>1 DEF noteLock, Go, timervars, TypeOK
<1>3. /\ plock' \in [Proc -> Actor \cup {nil}]
      /\ ar' \in [Actor -> Rendezs \cup {nil}]
      /\ pc' \in [Actor -> Where]
  BY <1>1 DEF noteLock, Go, timervars, TypeOK, Where, States
<1>4. Places'
  BY <1>1, <1>2 DEF Places
<1>5. Names'
  BY <1>1, <1>2 DEF Names
<1>6. LockR' /\ LockP'
  BY <1>1, <1>2 DEF LockR, LockP, Names, Places
<1>7. TypeOK'
  BY <1>2, <1>3, <1>5 DEF TypeOK, Names, Where
<1>8. StateSays'
  BY <1>1, <1>2 DEF StateSays
<1>9. Linked'
  BY <1>1, <1>2 DEF Linked, InBed, StateSays, Names
<1>10. Found'
  BY <1>0, <1>1, <1>2 DEF Found, LockR, LockP, Names, Places
<1>11. WakeComes'
  BY <1>0, <1>1, <1>2 DEF WakeComes, Waking, InBed, StateSays, Names
<1>12. NoteComes'
  BY <1>0, <1>1, <1>2 DEF NoteComes, InBed, StateSays
<1>13. TimeComes'
  BY <1>0, <1>1, <1>2 DEF TimeComes, Waking, InBed, StateSays, Names, Places
<1> QED BY <1>4, <1>5, <1>6, <1>7, <1>8, <1>9, <1>10, <1>11, <1>12, <1>13

(* postnote() gets lock(r).                                                *)
LEMMA NoteTryInv ==
  ASSUME Kinds, IInv, NEW n \in Poster, noteTry(n),
         rlock[ar[n]] = nil
  PROVE  IInv'
<1> USE DEF IInv, Agree, Kinds
<1>0. /\ \A b \in Actor : ar[b] \in Rendezs \cup {nil} /\ ap[b] \in Proc \cup {nil}
      /\ \A q \in Proc : trend[q] \in Rendezs \cup {nil}
  BY DEF TypeOK
<1>1. /\ n \in Actor /\ pc[n] = "noteTry" /\ ar[n] \in Rendezs /\ ap[n] \in Proc
      /\ n \notin Proc /\ n \notin Wakes /\ n # nil
      /\ plock[ap[n]] = n /\ pr[ap[n]] = ar[n] /\ rp[ar[n]] = ap[n]
      /\ state[ap[n]] = "Wakeme" /\ pc[ap[n]] = "asleep" /\ ar[ap[n]] = ar[n] /\ InBed(ap[n])
      /\ \A b \in Actor : b # n => ~(pc[b] = "noteTry" /\ ap[b] = ap[n])
      /\ \A b \in Wakes : ~(pc[b] = "wakeupP" /\ ar[b] = ar[n])
  <2>1. n \in Actor /\ pc[n] = "noteTry" /\ ar[n] \in Rendezs /\ ap[n] \in Proc
    BY <1>0 DEF noteTry, Names, At
  <2>2. n \notin Proc /\ n \notin Wakes /\ n # nil
    OBVIOUS
  <2>3. plock[ap[n]] = n /\ pr[ap[n]] = ar[n]
    BY <2>1 DEF LockP, Found
  <2>4. state[ap[n]] = "Wakeme" /\ pc[ap[n]] = "asleep" /\ ar[ap[n]] = ar[n] /\ InBed(ap[n])
    <3>1. pr[ap[n]] # nil
      BY <2>1, <2>3
    <3>2. state[ap[n]] = "Wakeme" /\ ar[ap[n]] = ar[n]
      BY <2>1, <2>3, <3>1 DEF StateSays
    <3>3. pc[ap[n]] = "asleep"
      BY <2>1, <3>2 DEF StateSays
    <3> QED BY <3>2, <3>3 DEF InBed
  <2>5. rp[ar[n]] = ap[n]
    BY <2>1, <2>4 DEF Linked
  <2>6. \A b \in Actor : b # n => ~(pc[b] = "noteTry" /\ ap[b] = ap[n])
    BY <2>1, <2>3 DEF LockP
  <2>7. \A b \in Wakes : ~(pc[b] = "wakeupP" /\ ar[b] = ar[n])
    BY <2>1 DEF LockR
  <2> QED BY <2>1, <2>2, <2>3, <2>4, <2>5, <2>6, <2>7
<1>2. /\ \A q \in Proc : plock'[q] = IF q = ap[n] THEN nil ELSE plock[q]
      /\ \A s \in Rendezs : rp'[s] = IF s = ar[n] THEN nil ELSE rp[s]
      /\ \A q \in Proc : pr'[q] = IF q = ap[n] THEN nil ELSE pr[q]
      /\ \A q \in Proc : state'[q] = IF q = ap[n] THEN "Ready" ELSE state[q]
      /\ \A b \in Actor : ar'[b] = IF b = n THEN nil ELSE ar[b]
      /\ \A b \in Actor : pc'[b] = IF b = n THEN "noteR" ELSE pc[b]
      /\ UNCHANGED <<rlock, notepending, cond, tt, trend, timed, due, rend, ap>>
  BY <1>1 DEF noteTry, Go, timervars, TypeOK
<1>3. /\ plock' \in [Proc -> Actor \cup {nil}]
      /\ rp' \in [Rendezs -> Proc \cup {nil}]
      /\ pr' \in [Proc -> Rendezs \cup {nil}]
      /\ state' \in [Proc -> States]
      /\ ar' \in [Actor -> Rendezs \cup {nil}]
      /\ pc' \in [Actor -> Where]
  BY <1>1 DEF noteTry, Go, timervars, TypeOK, Where, States
<1>4. Places'
  BY <1>1, <1>2 DEF Places
<1>5. Names'
  BY <1>1, <1>2 DEF Names
<1>6. LockR' /\ LockP'
  BY <1>1, <1>2 DEF LockR, LockP, Names, Places
<1>7. TypeOK'
  BY <1>2, <1>3, <1>5 DEF TypeOK, Names, Where
<1>8. StateSays'
  BY <1>1, <1>2 DEF StateSays
<1>9. Linked'
  BY <1>1, <1>2 DEF Linked, InBed, StateSays, Names
<1>10. Found'
  BY <1>0, <1>1, <1>2 DEF Found, LockR, LockP, Names, Places
<1>11. WakeComes'
  BY <1>0, <1>1, <1>2 DEF WakeComes, Waking, InBed, StateSays, Names
<1>12. NoteComes'
  BY <1>0, <1>1, <1>2 DEF NoteComes, InBed, StateSays
<1>13. TimeComes'
  BY <1>0, <1>1, <1>2 DEF TimeComes, Waking, InBed, StateSays, Names, Places
<1> QED BY <1>4, <1>5, <1>6, <1>7, <1>8, <1>9, <1>10, <1>11, <1>12, <1>13

(* postnote() does not get lock(r) and tries again.                        *)
LEMMA NoteAgainInv ==
  ASSUME Kinds, IInv, NEW n \in Poster, noteTry(n),
         rlock[ar[n]] # nil
  PROVE  IInv'
<1> USE DEF IInv, Agree, Kinds
<1>0. /\ \A b \in Actor : ar[b] \in Rendezs \cup {nil} /\ ap[b] \in Proc \cup {nil}
      /\ \A q \in Proc : trend[q] \in Rendezs \cup {nil}
  BY DEF TypeOK
<1>1. /\ n \in Actor /\ pc[n] = "noteTry" /\ ar[n] \in Rendezs /\ ap[n] \in Proc
      /\ n \notin Proc /\ n \notin Wakes /\ n # nil
      /\ plock[ap[n]] = n
  BY DEF noteTry, LockP, Names, StateSays, TypeOK, At
<1>2. /\ \A q \in Proc : plock'[q] = IF q = ap[n] THEN nil ELSE plock[q]
      /\ \A b \in Actor : ar'[b] = IF b = n THEN nil ELSE ar[b]
      /\ \A b \in Actor : pc'[b] = IF b = n THEN "noteP" ELSE pc[b]
      /\ UNCHANGED <<rlock, rp, pr, state, notepending, cond, tt, trend, timed, due, rend, ap>>
  BY <1>1 DEF noteTry, Go, timervars, TypeOK
<1>3. /\ plock' \in [Proc -> Actor \cup {nil}]
      /\ ar' \in [Actor -> Rendezs \cup {nil}]
      /\ pc' \in [Actor -> Where]
  BY <1>1 DEF noteTry, Go, timervars, TypeOK, Where, States
<1>4. Places'
  BY <1>1, <1>2 DEF Places
<1>5. Names'
  BY <1>1, <1>2 DEF Names
<1>6. LockR' /\ LockP'
  BY <1>1, <1>2 DEF LockR, LockP, Names, Places
<1>7. TypeOK'
  BY <1>2, <1>3, <1>5 DEF TypeOK, Names, Where
<1>8. StateSays'
  BY <1>1, <1>2 DEF StateSays
<1>9. Linked'
  BY <1>1, <1>2 DEF Linked, InBed, StateSays, Names
<1>10. Found'
  BY <1>0, <1>1, <1>2 DEF Found, LockR, LockP, Names, Places
<1>11. WakeComes'
  BY <1>0, <1>1, <1>2 DEF WakeComes, Waking, InBed, StateSays, Names
<1>12. NoteComes'
  BY <1>0, <1>1, <1>2 DEF NoteComes, InBed, StateSays
<1>13. TimeComes'
  BY <1>0, <1>1, <1>2 DEF TimeComes, Waking, InBed, StateSays, Names, Places
<1> QED BY <1>4, <1>5, <1>6, <1>7, <1>8, <1>9, <1>10, <1>11, <1>12, <1>13

(* postnote() pulls a process out of a rendezvous.                         *)
LEMMA PullOutInv ==
  ASSUME Kinds, IInv, NEW n \in Poster, noteRend(n),
         state[ap[n]] = "Rendezvous"
  PROVE  IInv'
<1> USE DEF IInv, Agree, Kinds
<1>0. /\ \A b \in Actor : ar[b] \in Rendezs \cup {nil} /\ ap[b] \in Proc \cup {nil}
      /\ \A q \in Proc : trend[q] \in Rendezs \cup {nil}
  BY DEF TypeOK
<1>1. /\ n \in Actor /\ pc[n] = "noteR" /\ ar[n] = nil /\ ap[n] \in Proc
      /\ n \notin Proc /\ n \notin Wakes
      /\ pc[ap[n]] = "rendezvous" /\ ~InBed(ap[n])
  BY DEF noteRend, InBed, Names, StateSays, TypeOK, At
<1>2. /\ \A q \in Proc : state'[q] = IF q = ap[n] THEN "Ready" ELSE state[q]
      /\ \A b \in Actor : ap'[b] = IF b = n THEN nil ELSE ap[b]
      /\ \A b \in Actor : pc'[b] = IF b = n THEN "idle" ELSE pc[b]
      /\ rend' = rend \ {ap[n]}
      /\ UNCHANGED <<rlock, plock, rp, pr, notepending, cond, tt, trend, timed, due, ar>>
  BY <1>1 DEF noteRend, Go, lockvars, timervars, TypeOK
<1>3. /\ state' \in [Proc -> States]
      /\ ap' \in [Actor -> Proc \cup {nil}]
      /\ pc' \in [Actor -> Where]
      /\ rend' \subseteq Proc
  BY <1>1 DEF noteRend, Go, lockvars, timervars, TypeOK, Where, States
<1>4. Places'
  BY <1>1, <1>2 DEF Places
<1>5. Names'
  BY <1>1, <1>2 DEF Names
<1>6. LockR' /\ LockP'
  BY <1>1, <1>2 DEF LockR, LockP, Names, Places
<1>7. TypeOK'
  BY <1>2, <1>3, <1>5 DEF TypeOK, Names, Where
<1>8. StateSays'
  BY <1>1, <1>2 DEF StateSays
<1>9. Linked'
  BY <1>1, <1>2 DEF Linked, InBed, StateSays, Names
<1>10. Found'
  BY <1>0, <1>1, <1>2 DEF Found, LockR, LockP, Names, Places
<1>11. WakeComes'
  BY <1>0, <1>1, <1>2 DEF WakeComes, Waking, InBed, StateSays, Names
<1>12. NoteComes'
  BY <1>0, <1>1, <1>2 DEF NoteComes, InBed, StateSays
<1>13. TimeComes'
  BY <1>0, <1>1, <1>2 DEF TimeComes, Waking, InBed, StateSays, Names, Places
<1> QED BY <1>4, <1>5, <1>6, <1>7, <1>8, <1>9, <1>10, <1>11, <1>12, <1>13

(* postnote() finds no rendezvous.                                         *)
LEMMA NoteDoneInv ==
  ASSUME Kinds, IInv, NEW n \in Poster, noteRend(n),
         state[ap[n]] # "Rendezvous"
  PROVE  IInv'
<1> USE DEF IInv, Agree, Kinds
<1>0. /\ \A b \in Actor : ar[b] \in Rendezs \cup {nil} /\ ap[b] \in Proc \cup {nil}
      /\ \A q \in Proc : trend[q] \in Rendezs \cup {nil}
  BY DEF TypeOK
<1>1. /\ n \in Actor /\ pc[n] = "noteR" /\ ar[n] = nil /\ ap[n] \in Proc
      /\ n \notin Proc /\ n \notin Wakes
  BY DEF noteRend, Names, StateSays, TypeOK, At
<1>2. /\ \A b \in Actor : ap'[b] = IF b = n THEN nil ELSE ap[b]
      /\ \A b \in Actor : pc'[b] = IF b = n THEN "idle" ELSE pc[b]
      /\ UNCHANGED <<rlock, plock, rp, pr, state, notepending, cond, tt, trend, timed, due, rend, ar>>
  BY <1>1 DEF noteRend, Go, lockvars, timervars, TypeOK
<1>3. /\ ap' \in [Actor -> Proc \cup {nil}]
      /\ pc' \in [Actor -> Where]
  BY <1>1 DEF noteRend, Go, lockvars, timervars, TypeOK, Where, States
<1>4. Places'
  BY <1>1, <1>2 DEF Places
<1>5. Names'
  BY <1>1, <1>2 DEF Names
<1>6. LockR' /\ LockP'
  BY <1>1, <1>2 DEF LockR, LockP, Names, Places
<1>7. TypeOK'
  BY <1>2, <1>3, <1>5 DEF TypeOK, Names, Where
<1>8. StateSays'
  BY <1>1, <1>2 DEF StateSays
<1>9. Linked'
  BY <1>1, <1>2 DEF Linked, InBed, StateSays, Names
<1>10. Found'
  BY <1>0, <1>1, <1>2 DEF Found, LockR, LockP, Names, Places
<1>11. WakeComes'
  BY <1>0, <1>1, <1>2 DEF WakeComes, Waking, InBed, StateSays, Names
<1>12. NoteComes'
  BY <1>0, <1>1, <1>2 DEF NoteComes, InBed, StateSays
<1>13. TimeComes'
  BY <1>0, <1>1, <1>2 DEF TimeComes, Waking, InBed, StateSays, Names, Places
<1> QED BY <1>4, <1>5, <1>6, <1>7, <1>8, <1>9, <1>10, <1>11, <1>12, <1>13

(* rendezvous() meets a process that waits.                                *)
LEMMA MeetInv ==
  ASSUME Kinds, IInv, NEW p \in Proc, rendezvous(p), NEW o \in rend,
         rend' = rend \ {o}, state' = [state EXCEPT ![o] = "Ready"], pc' = pc
  PROVE  IInv'
<1> USE DEF IInv, Agree, Kinds
<1>0. /\ \A b \in Actor : ar[b] \in Rendezs \cup {nil} /\ ap[b] \in Proc \cup {nil}
      /\ \A q \in Proc : trend[q] \in Rendezs \cup {nil}
  BY DEF TypeOK
<1>1. /\ o \in Proc /\ state[o] = "Rendezvous" /\ pc[o] = "rendezvous" /\ ~InBed(o)
  BY DEF InBed, Names, StateSays, TypeOK, At
<1>2. /\ \A q \in Proc : state'[q] = IF q = o THEN "Ready" ELSE state[q]
      /\ rend' = rend \ {o}
      /\ UNCHANGED <<rlock, plock, rp, pr, notepending, cond, tt, trend, timed, due, pc, ar, ap>>
  BY <1>1 DEF rendezvous, lockvars, timervars, TypeOK
<1>3. /\ state' \in [Proc -> States]
      /\ rend' \subseteq Proc
  BY <1>1 DEF rendezvous, lockvars, timervars, TypeOK, Where, States
<1>4. Places'
  BY <1>1, <1>2 DEF Places
<1>5. Names'
  BY <1>1, <1>2 DEF Names
<1>6. LockR' /\ LockP'
  BY <1>1, <1>2 DEF LockR, LockP, Names, Places
<1>7. TypeOK'
  BY <1>2, <1>3, <1>5 DEF TypeOK, Names, Where
<1>8. StateSays'
  BY <1>1, <1>2 DEF StateSays
<1>9. Linked'
  BY <1>1, <1>2 DEF Linked, InBed, StateSays, Names
<1>10. Found'
  BY <1>0, <1>1, <1>2 DEF Found, LockR, LockP, Names, Places
<1>11. WakeComes'
  BY <1>0, <1>1, <1>2 DEF WakeComes, Waking, InBed, StateSays, Names
<1>12. NoteComes'
  BY <1>0, <1>1, <1>2 DEF NoteComes, InBed, StateSays
<1>13. TimeComes'
  BY <1>0, <1>1, <1>2 DEF TimeComes, Waking, InBed, StateSays, Names, Places
<1> QED BY <1>4, <1>5, <1>6, <1>7, <1>8, <1>9, <1>10, <1>11, <1>12, <1>13

(* rendezvous() waits.                                                     *)
LEMMA WaitInv ==
  ASSUME Kinds, IInv, NEW p \in Proc, rendezvous(p),
         rend' = {p}, rend = {}, state' = [state EXCEPT ![p] = "Rendezvous"], Go(p, "rendezvous")
  PROVE  IInv'
<1> USE DEF IInv, Agree, Kinds
<1>0. /\ \A b \in Actor : ar[b] \in Rendezs \cup {nil} /\ ap[b] \in Proc \cup {nil}
      /\ \A q \in Proc : trend[q] \in Rendezs \cup {nil}
  BY DEF TypeOK
<1>1. /\ p \in Actor /\ pc[p] = "idle" /\ ar[p] = nil /\ state[p] = "Running"
  BY DEF rendezvous, Names, StateSays, TypeOK, At
<1>2. /\ \A q \in Proc : state'[q] = IF q = p THEN "Rendezvous" ELSE state[q]
      /\ \A b \in Actor : pc'[b] = IF b = p THEN "rendezvous" ELSE pc[b]
      /\ rend' = {p} /\ rend = {}
      /\ UNCHANGED <<rlock, plock, rp, pr, notepending, cond, tt, trend, timed, due, ar, ap>>
  BY <1>1 DEF rendezvous, Go, lockvars, timervars, TypeOK
<1>3. /\ state' \in [Proc -> States]
      /\ pc' \in [Actor -> Where]
      /\ rend' \subseteq Proc
  BY <1>1 DEF rendezvous, Go, lockvars, timervars, TypeOK, Where, States
<1>4. Places'
  BY <1>1, <1>2 DEF Places
<1>5. Names'
  BY <1>1, <1>2 DEF Names
<1>6. LockR' /\ LockP'
  BY <1>1, <1>2 DEF LockR, LockP, Names, Places
<1>7. TypeOK'
  BY <1>2, <1>3, <1>5 DEF TypeOK, Names, Where
<1>8. StateSays'
  BY <1>1, <1>2 DEF StateSays
<1>9. Linked'
  BY <1>1, <1>2 DEF Linked, InBed, StateSays, Names
<1>10. Found'
  BY <1>0, <1>1, <1>2 DEF Found, LockR, LockP, Names, Places
<1>11. WakeComes'
  BY <1>0, <1>1, <1>2 DEF WakeComes, Waking, InBed, StateSays, Names
<1>12. NoteComes'
  BY <1>0, <1>1, <1>2 DEF NoteComes, InBed, StateSays
<1>13. TimeComes'
  BY <1>0, <1>1, <1>2 DEF TimeComes, Waking, InBed, StateSays, Names, Places
<1> QED BY <1>4, <1>5, <1>6, <1>7, <1>8, <1>9, <1>10, <1>11, <1>12, <1>13

(* The clock takes an expired timer off its list.                          *)
LEMMA TimerintrInv ==
  ASSUME Kinds, IInv, NEW p \in Proc,
         timerintr(p)
  PROVE  IInv'
<1> USE DEF IInv, Agree, Kinds
<1>0. /\ \A b \in Actor : ar[b] \in Rendezs \cup {nil} /\ ap[b] \in Proc \cup {nil}
      /\ \A q \in Proc : trend[q] \in Rendezs \cup {nil}
  BY DEF TypeOK
<1>1. /\ Clock \in Actor /\ pc[Clock] = "idle" /\ ar[Clock] = nil /\ p # nil /\ tt[p]
      /\ Clock \notin Proc /\ Clock \notin Poster
  BY DEF timerintr, Names, StateSays, TypeOK, At
<1>2. /\ \A q \in Proc : tt'[q] = IF q = p THEN FALSE ELSE tt[q]
      /\ \A q \in Proc : due'[q] = IF q = p THEN TRUE ELSE due[q]
      /\ \A b \in Actor : ap'[b] = IF b = Clock THEN p ELSE ap[b]
      /\ \A b \in Actor : pc'[b] = IF b = Clock THEN "twakeup" ELSE pc[b]
      /\ UNCHANGED <<rlock, plock, rp, pr, state, notepending, cond, trend, timed, rend, ar>>
  BY <1>1 DEF timerintr, Go, lockvars, TypeOK
<1>3. /\ tt' \in [Proc -> BOOLEAN]
      /\ due' \in [Proc -> BOOLEAN]
      /\ ap' \in [Actor -> Proc \cup {nil}]
      /\ pc' \in [Actor -> Where]
  BY <1>1 DEF timerintr, Go, lockvars, TypeOK, Where, States
<1>4. Places'
  BY <1>1, <1>2 DEF Places
<1>5. Names'
  BY <1>1, <1>2 DEF Names
<1>6. LockR' /\ LockP'
  BY <1>1, <1>2 DEF LockR, LockP, Names, Places
<1>7. TypeOK'
  BY <1>2, <1>3, <1>5 DEF TypeOK, Names, Where
<1>8. StateSays'
  BY <1>1, <1>2 DEF StateSays
<1>9. Linked'
  BY <1>1, <1>2 DEF Linked, InBed, StateSays, Names
<1>10. Found'
  BY <1>0, <1>1, <1>2 DEF Found, LockR, LockP, Names, Places
<1>11. WakeComes'
  BY <1>0, <1>1, <1>2 DEF WakeComes, Waking, InBed, StateSays, Names
<1>12. NoteComes'
  BY <1>0, <1>1, <1>2 DEF NoteComes, InBed, StateSays
<1>13. TimeComes'
  <2>1. \A q \in Proc : (InBed(q)' <=> InBed(q)) /\ ar'[q] = ar[q]
    BY <1>1, <1>2 DEF InBed
  <2>2. pc'[Clock] = "twakeup" /\ ap'[Clock] = p
    BY <1>1, <1>2
  <2>3. ASSUME NEW q \in Proc, timed[q], trend[q] # nil
        PROVE  tt'[q] \/ (pc'[Clock] = "twakeup" /\ ap'[Clock] = q)
    BY <1>1, <1>2, <2>2, <2>3 DEF TimeComes
  <2>4. ASSUME NEW q \in Proc, timed[q], InBed(q) PROVE trend[q] # nil
    BY <1>1, <2>4 DEF TimeComes, Waking
  <2> QED BY <1>2, <2>1, <2>3, <2>4 DEF TimeComes
<1> QED BY <1>4, <1>5, <1>6, <1>7, <1>8, <1>9, <1>10, <1>11, <1>12, <1>13

(* The clock ends a timed sleep.                                           *)
LEMMA TwakeupInv ==
  ASSUME Kinds, IInv, twakeup
  PROVE  IInv'
<1> USE DEF IInv, Agree, Kinds
<1>0. /\ \A b \in Actor : ar[b] \in Rendezs \cup {nil} /\ ap[b] \in Proc \cup {nil}
      /\ \A q \in Proc : trend[q] \in Rendezs \cup {nil}
  BY DEF TypeOK
<1>1. /\ Clock \in Actor /\ pc[Clock] = "twakeup" /\ ar[Clock] = nil /\ ap[Clock] \in Proc
      /\ Clock \notin Proc /\ Clock \notin Poster
  BY DEF twakeup, Names, StateSays, TypeOK, At
<1>2. /\ \A q \in Proc : trend'[q] = IF q = ap[Clock] THEN nil ELSE trend[q]
      /\ \A b \in Actor : ar'[b] = IF b = Clock THEN trend[ap[Clock]] ELSE ar[b]
      /\ \A b \in Actor : ap'[b] = IF b = Clock THEN nil ELSE ap[b]
      /\ \A b \in Actor : pc'[b] = IF b = Clock THEN IF trend[ap[Clock]] = nil THEN "idle" ELSE "wakeup" ELSE pc[b]
      /\ UNCHANGED <<rlock, plock, rp, pr, state, notepending, cond, tt, timed, due, rend>>
  BY <1>1 DEF twakeup, Go, lockvars, TypeOK
<1>3. /\ trend' \in [Proc -> Rendezs \cup {nil}]
      /\ ar' \in [Actor -> Rendezs \cup {nil}]
      /\ ap' \in [Actor -> Proc \cup {nil}]
      /\ pc' \in [Actor -> Where]
  BY <1>1 DEF twakeup, Go, lockvars, TypeOK, Where, States
<1>4. Places'
  BY <1>1, <1>2 DEF Places
<1>5. Names'
  BY <1>1, <1>2 DEF Names
<1>6. LockR' /\ LockP'
  BY <1>1, <1>2 DEF LockR, LockP, Names, Places
<1>7. TypeOK'
  BY <1>2, <1>3, <1>5 DEF TypeOK, Names, Where
<1>8. StateSays'
  BY <1>1, <1>2 DEF StateSays
<1>9. Linked'
  BY <1>1, <1>2 DEF Linked, InBed, StateSays, Names
<1>10. Found'
  BY <1>0, <1>1, <1>2 DEF Found, LockR, LockP, Names, Places
<1>11. WakeComes'
  BY <1>0, <1>1, <1>2 DEF WakeComes, Waking, InBed, StateSays, Names
<1>12. NoteComes'
  BY <1>0, <1>1, <1>2 DEF NoteComes, InBed, StateSays
<1>13. TimeComes'
  BY <1>0, <1>1, <1>2 DEF TimeComes, Waking, InBed, StateSays, Names, Places
<1> QED BY <1>4, <1>5, <1>6, <1>7, <1>8, <1>9, <1>10, <1>11, <1>12, <1>13

(* At the start nobody sleeps and no lock is held.                         *)
LEMMA InitInv == Kinds /\ Init => IInv
<1> SUFFICES ASSUME Kinds, Init PROVE IInv
  OBVIOUS
<1> USE DEF Init, Kinds
<1>1. TypeOK
  BY DEF TypeOK, States
<1>2. Places /\ Names /\ LockR /\ LockP
  BY DEF Places, Names, LockR, LockP
<1>3. StateSays /\ Linked /\ Found
  BY DEF StateSays, Linked, InBed, Found
<1>4. WakeComes /\ NoteComes /\ TimeComes
  BY DEF WakeComes, NoteComes, TimeComes, InBed
<1> QED BY <1>1, <1>2, <1>3, <1>4 DEF IInv, Agree

(* IInv is about the variables only.                                       *)
LEMMA StutterInv == IInv /\ UNCHANGED vars => IInv'
BY DEF vars, IInv, Agree, TypeOK, Places, Names, LockR, LockP, StateSays, Linked, InBed,
       Found, WakeComes, Waking, NoteComes, TimeComes

(* IInv is inductive.                                                      *)
LEMMA NextInv ==
  ASSUME Kinds, IInv, [Next]_vars
  PROVE  IInv'
<1>1. CASE UNCHANGED vars
  BY <1>1, StutterInv
<1>2. ASSUME NEW p \in Proc, NEW r \in Rendezs, sleep(p, r) \/ tsleep(p, r) PROVE IInv'
  BY <1>2, SleepInv, TsleepInv
<1>3. ASSUME NEW p \in Proc, sleepTest(p) PROVE IInv'
  BY <1>3, NeverMindInv, ToBedInv
<1>4. ASSUME NEW p \in Proc, sleepLock(p) \/ sleepCommit(p) \/ resume(p) \/ sleepReturn(p) \/ timerintr(p)
      PROVE  IInv'
  BY <1>4, SleepLockInv, SleepCommitInv, ResumeInv, SleepReturnInv, TimerintrInv
<1>5. ASSUME NEW p \in Proc, rendezvous(p) PROVE IInv'
  <2>1. CASE \E q \in rend : /\ rend' = rend \ {q}
                             /\ state' = [state EXCEPT ![q] = "Ready"]
                             /\ UNCHANGED pc
    BY <1>5, <2>1, MeetInv
  <2>2. CASE /\ rend = {} /\ rend' = {p}
             /\ state' = [state EXCEPT ![p] = "Rendezvous"]
             /\ Go(p, "rendezvous")
    BY <1>5, <2>2, WaitInv
  <2> QED BY <1>5, <2>1, <2>2 DEF rendezvous
<1>6. ASSUME NEW w \in Waker, NEW r \in Rendezs, happen(w, r) PROVE IInv'
  BY <1>6, HappenInv DEF Wakes
<1>7. ASSUME NEW a \in Waker \cup {Clock}, wakeup(a) \/ wakeupP(a) PROVE IInv'
  BY <1>7, NobodyThereInv, WakeupInv, WakeupPInv DEF Wakes
<1>8. ASSUME NEW n \in Poster, NEW p \in Proc, postnote(n, p) PROVE IInv'
  BY <1>8, PostnoteInv
<1>9. ASSUME NEW n \in Poster, noteLock(n) \/ noteTry(n) \/ noteRend(n) PROVE IInv'
  BY <1>9, NotAsleepInv, NoteLockInv, NoteTryInv, NoteAgainInv, PullOutInv, NoteDoneInv
<1>10. CASE twakeup
  BY <1>10, TwakeupInv
<1> QED BY <1>1, <1>2, <1>3, <1>4, <1>5, <1>6, <1>7, <1>8, <1>9, <1>10 DEF Next

(* IInv always holds.                                                      *)
LEMMA Always == ASSUME Distinct PROVE Spec => []IInv
<1>1. Kinds
  BY Apart
<1>2. Init => IInv
  BY <1>1, InitInv
<1>3. IInv /\ [Next]_vars => IInv'
  BY <1>1, NextInv
<1> QED BY <1>2, <1>3, PTL DEF Spec

(* The variables keep their types, and whoever is in wakeup() has a Rendez *)
(* to work on.                                                             *)
THEOREM TypesKept == ASSUME Distinct PROVE Spec => []TypeOK
<1>1. IInv => TypeOK
  BY DEF IInv, Agree
<1> QED BY <1>1, Always, PTL

(* panic("wakeup: state") and panic("postnote: state") cannot happen: with *)
(* both locks, wakeup() and postnote() find r->p and p->r pointing at each *)
(* other and the process asleep.                                           *)
THEOREM PanicFree == ASSUME Distinct PROVE Spec => []NoPanic
<1>1. IInv => NoPanic
  <2> SUFFICES ASSUME IInv PROVE NoPanic
    OBVIOUS
  <2>0. Kinds
    BY Apart
  <2> USE <2>0 DEF IInv, Agree, Kinds
  <2>1. ASSUME NEW a \in Wakes, pc[a] = "wakeupP", plock[ap[a]] = nil
        PROVE  state[ap[a]] = "Wakeme" /\ pr[ap[a]] = ar[a]
    <3>1. a \in Actor /\ ar[a] \in Rendezs /\ ap[a] \in Proc /\ ap[a] \in Actor
      BY <2>1 DEF Names, TypeOK
    <3>2. rp[ar[a]] = ap[a] /\ rlock[ar[a]] = a
      BY <2>1, <3>1 DEF Found, LockR
    <3>3. ar[ap[a]] = ar[a] /\ InBed(ap[a])
      BY <3>1, <3>2 DEF Linked
    <3>4. pc[ap[a]] # "commit"
      BY <2>1, <3>1 DEF LockP
    <3> QED BY <3>1, <3>3, <3>4 DEF InBed, StateSays
  <2>2. ASSUME NEW n \in Poster, pc[n] = "noteTry", rlock[ar[n]] = nil
        PROVE  state[ap[n]] = "Wakeme" /\ rp[ar[n]] = ap[n]
    <3>1. n \in Actor /\ ar[n] \in Rendezs /\ ap[n] \in Proc
      BY <2>2 DEF Names, TypeOK
    <3>2. pr[ap[n]] = ar[n] /\ ar[n] # nil
      BY <2>2, <3>1 DEF Found
    <3>3. state[ap[n]] = "Wakeme" /\ ar[ap[n]] = ar[n]
      BY <3>1, <3>2 DEF StateSays
    <3> QED BY <3>1, <3>3 DEF Linked, InBed
  <2> QED BY <2>1, <2>2 DEF NoPanic, At, Wakes
<1> QED BY <1>1, Always, PTL

(* No wakeup is lost: a process does not sleep through its condition,      *)
(* however sleep() and wakeup() interleave, unless the wakeup() that its   *)
(* change was followed by is still to come.                                *)
THEOREM WakeupsKept == ASSUME Distinct PROVE Spec => []NoLostWakeup
<1>1. IInv => NoLostWakeup
  BY DEF IInv, WakeComes, Waking, InBed, NoLostWakeup, At, Wakes
<1> QED BY <1>1, Always, PTL

(* No note is lost: a process does not sleep with a note pending, unless   *)
(* the postnote() that made it pending has still to look at the process.   *)
THEOREM NotesKept == ASSUME Distinct PROVE Spec => []NoLostNote
<1>1. IInv => NoLostNote
  BY DEF IInv, NoteComes, InBed, NoLostNote
<1> QED BY <1>1, Always, PTL

(* A timed sleep never misses its end, although a timer armed for an       *)
(* earlier sleep may still fire: its timer is armed or is about to wake    *)
(* the process up.                                                         *)
THEOREM TimeoutsKept == ASSUME Distinct PROVE Spec => []NoLostTimeout
<1>1. IInv => NoLostTimeout
  BY DEF IInv, TimeComes, Waking, InBed, NoLostTimeout, At
<1> QED BY <1>1, Always, PTL
=============================================================================
