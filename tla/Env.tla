-------------------------------- MODULE Env ---------------------------------
(***************************************************************************)
(* Environment variables #e (src/port/devenv.c) and the groups of them     *)
(* that processes share (src/port/sysproc.c, proc.c).  Everything is done  *)
(* with a group locked, in one step; a walk and an open are two.  The      *)
(* files of #e are in one table that the processes share: a process that   *)
(* uses one looks its path up in its own group.                            *)
(***************************************************************************)
EXTENDS Integers, Sequences, FiniteSets

CONSTANTS
  Proc, Names,
  Fds,            \* entries of the table of files
  Maxenvsize,     \* length of a value
  MaxVar, MaxGrp, \* bounds: variables created, groups made
  nil

VARIABLES
  grp,    \* process -> its group, nil when it has exited
  ref,    \* group -> references; confegrp (0) has none
  ent,    \* group -> its variables: name, path, id, value
  path,   \* group -> last path used
  fd,     \* file -> nil or the group asked for (aux), path, id and group of
          \* the variable it was walked to, and its flags
  nvar    \* variables created

vars == <<grp, ref, ent, path, fd, nvar>>

confegrp == 0
Groups == 0..MaxGrp

Init ==
  \E p \in Proc :
    /\ grp = [q \in Proc |-> IF q = p THEN 1 ELSE nil]
    /\ ref = [g \in Groups |-> IF g = 1 THEN 1 ELSE 0]
    /\ ent = [g \in Groups |-> <<>>] /\ path = [g \in Groups |-> 0]
    /\ fd = [f \in Fds |-> nil] /\ nvar = 0

envgrp(p, aux) == IF aux = nil THEN grp[p] ELSE aux

(* The first of the variables found, or 0.                                 *)
envlookup(found) == IF found = {} THEN 0 ELSE CHOOSE i \in found : \A j \in found : i <= j

AtPath(p, f) ==
  LET es == ent[envgrp(p, fd[f].aux)] IN envlookup({i \in DOMAIN es : es[i].path = fd[f].path})
Named(eg, name) == envlookup({i \in DOMAIN ent[eg] : ent[eg][i].name = name})

File(aux, g, e, flags) == [aux |-> aux, path |-> e.path, id |-> e.id, g |-> g, flags |-> flags]

envwalk(p, f, aux, n) ==
  LET eg == envgrp(p, aux)  i == Named(eg, n) IN
  /\ fd[f] = nil /\ i # 0
  /\ fd' = [fd EXCEPT ![f] = File(aux, eg, ent[eg][i], {})]
  /\ UNCHANGED <<grp, ref, ent, path, nvar>>

(* A walk may have been done in another group.                             *)
envopen(p, f, trunc, rclose) ==
  LET eg == envgrp(p, fd[f].aux)  i == AtPath(p, f) IN
  /\ fd[f] # nil /\ fd[f].flags = {} /\ i # 0
  /\ ent' = IF trunc THEN [ent EXCEPT ![eg][i].value = <<>>] ELSE ent
  /\ fd' = [fd EXCEPT ![f].flags = {"COPEN"} \cup rclose, ![f].id = ent[eg][i].id, ![f].g = eg]
  /\ UNCHANGED <<grp, ref, path, nvar>>

(* Fault seeded to test FilesSafe: a path is used again after a removal.   *)
NewPathCount(eg) == Len(ent[eg]) + 1

NewPath(eg) == path[eg] + 1

envcreate(p, f, aux, n, rclose) ==
  LET eg == envgrp(p, aux)
      e == [name |-> n, path |-> NewPath(eg), id |-> <<nvar + 1>>, value |-> <<>>] IN
  /\ fd[f] = nil /\ Named(eg, n) = 0 /\ nvar < MaxVar
  /\ ent' = [ent EXCEPT ![eg] = Append(@, e)] /\ path' = [path EXCEPT ![eg] = e.path]
  /\ nvar' = nvar + 1
  /\ fd' = [fd EXCEPT ![f] = File(aux, eg, e, {"COPEN"} \cup rclose)]
  /\ UNCHANGED <<grp, ref>>

(* The last variable takes the place of the one removed.                   *)
Without(s, i) == [j \in 1..Len(s) - 1 |-> IF j = i THEN s[Len(s)] ELSE s[j]]

Removed(p, f) ==
  LET eg == envgrp(p, fd[f].aux)  i == AtPath(p, f)
  IN  IF i = 0 THEN ent ELSE [ent EXCEPT ![eg] = Without(@, i)]

envremove(p, f) ==
  /\ fd[f] # nil /\ fd[f].flags = {} /\ ent' = Removed(p, f) /\ fd' = [fd EXCEPT ![f] = nil]
  /\ UNCHANGED <<grp, ref, path, nvar>>

envclose(p, f) ==
  /\ fd[f] # nil
  /\ ent' = IF "CRCLOSE" \in fd[f].flags THEN Removed(p, f) ELSE ent
  /\ fd' = [fd EXCEPT ![f] = nil]
  /\ UNCHANGED <<grp, ref, path, nvar>>

(* What a read of n bytes gives.                                           *)
envread(value, n, off) ==
  IF off > Len(value) THEN <<>>
  ELSE SubSeq(value, off + 1, off + (IF off + n > Len(value) THEN Len(value) - off ELSE n))

(* A byte written is 1, one of a gap 0.                                    *)
envwrite(p, f, n, off) ==
  LET eg == envgrp(p, fd[f].aux)  i == AtPath(p, f)
      Byte(v, k) == IF k > off /\ k <= off + n THEN 1 ELSE IF k <= Len(v) THEN v[k] ELSE 0
      Written(v) == [k \in 1..(IF off + n > Len(v) THEN off + n ELSE Len(v)) |-> Byte(v, k)] IN
  /\ fd[f] # nil /\ "COPEN" \in fd[f].flags /\ i # 0
  /\ off <= Maxenvsize /\ n <= Maxenvsize - off
  /\ ent' = [ent EXCEPT ![eg][i].value = Written(@)]
  /\ UNCHANGED <<grp, ref, path, fd, nvar>>

(* The copies have paths of their own: 1, 2, ...                           *)
envcpy(from) ==
  [i \in DOMAIN ent[from] |-> [ent[from][i] EXCEPT !.path = i, !.id = Append(@, 0)]]

closeegrp(g, refs) == [refs EXCEPT ![g] = @ - 1]

Free == {g \in Groups \ {confegrp} : ref[g] = 0 /\ path[g] = 0 /\ ent[g] = <<>>}

(* rfork(RFENVG) or rfork(RFCENVG): the process p gets a new group; with   *)
(* RFPROC it is the new process, and up keeps its own.                     *)
rforkenv(up, p, copy) ==
  \E g \in Free :
    LET es == IF copy THEN envcpy(grp[up]) ELSE <<>>
        old == grp[up]
        gone == p = up /\ ref[old] = 1 IN
    /\ grp[up] # nil /\ (p = up \/ grp[p] = nil) /\ \A h \in Free : g <= h
    /\ grp' = [grp EXCEPT ![p] = g]
    /\ ref' = IF p = up THEN closeegrp(old, [ref EXCEPT ![g] = 1]) ELSE [ref EXCEPT ![g] = 1]
    /\ ent' = [h \in Groups |-> IF h = g THEN es ELSE IF gone /\ h = old THEN <<>> ELSE ent[h]]
    /\ path' = [path EXCEPT ![g] = Len(es)]
    /\ UNCHANGED <<fd, nvar>>

rforkshare(up, p) ==
  /\ grp[up] # nil /\ grp[p] = nil
  /\ grp' = [grp EXCEPT ![p] = grp[up]] /\ ref' = [ref EXCEPT ![grp[up]] = @ + 1]
  /\ UNCHANGED <<ent, path, fd, nvar>>

pexit(p) ==
  LET g == grp[p] IN
  /\ g # nil /\ \E q \in Proc \ {p} : grp[q] # nil
  /\ grp' = [grp EXCEPT ![p] = nil] /\ ref' = closeegrp(g, ref)
  /\ ent' = IF ref[g] = 1 THEN [ent EXCEPT ![g] = <<>>] ELSE ent
  /\ UNCHANGED <<path, fd, nvar>>

Next ==
  \E p \in Proc :
    \/ pexit(p)
    \/ \E q \in Proc : rforkshare(p, q) \/ \E copy \in BOOLEAN : rforkenv(p, q, copy)
    \/ /\ grp[p] # nil
       /\ \E f \in Fds :
            \/ \E aux \in {nil, confegrp}, n \in Names :
                 envwalk(p, f, aux, n) \/ \E rc \in SUBSET {"CRCLOSE"} : envcreate(p, f, aux, n, rc)
            \/ \E trunc \in BOOLEAN, rc \in SUBSET {"CRCLOSE"} : envopen(p, f, trunc, rc)
            \/ envremove(p, f) \/ envclose(p, f)
            \/ \E n \in 1..Maxenvsize, off \in 0..Maxenvsize : envwrite(p, f, n, off)

Spec == Init /\ [][Next]_vars
-----------------------------------------------------------------------------
(* A group is kept while a process has it, and no longer.                  *)
GroupsKept ==
  \A g \in Groups \ {confegrp} :
    /\ ref[g] = Cardinality({p \in Proc : grp[p] = g})
    /\ ref[g] = 0 => ent[g] = <<>>

(* Names and paths are unique in a group, also in a copy of one that had   *)
(* removals, and a path the group will use next is not taken.              *)
VarsExact ==
  \A g \in Groups : \A i, j \in DOMAIN ent[g] :
    /\ ent[g][i].path <= path[g]
    /\ ent[g][i].name = ent[g][j].name \/ ent[g][i].path = ent[g][j].path => i = j

(* A file used in the group it was opened in is the variable that was      *)
(* opened, or none: what is removed and created meanwhile is another one.  *)
(* In another group, to which a process with the file has gone, it may be  *)
(* any variable: only its path is looked up there, and envcpy() gives      *)
(* copies new ones (devenv.c:341).                                         *)
FilesExact ==
  \A p \in Proc, f \in Fds :
    grp[p] # nil /\ fd[f] # nil /\ envgrp(p, fd[f].aux) = fd[f].g =>
      LET i == AtPath(p, f) IN i # 0 => ent[fd[f].g][i].id = fd[f].id

(* No value is too long, and a read stays in it.                           *)
ValuesBounded ==
  \A g \in Groups : \A i \in DOMAIN ent[g] :
    LET v == ent[g][i].value IN
    /\ Len(v) <= Maxenvsize
    /\ \A n \in 0..Maxenvsize, off \in 0..Maxenvsize + 1 :
         \A k \in DOMAIN envread(v, n, off) : envread(v, n, off)[k] = v[off + k]

EnvSafe == GroupsKept /\ VarsExact /\ FilesExact /\ ValuesBounded
=============================================================================
