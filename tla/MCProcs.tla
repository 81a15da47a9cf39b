------------------------------ MODULE MCProcs -------------------------------
(***************************************************************************)
(* Model checking of the safety of what processes and memory are made of.  *)
(* The components do not interact: a behaviour is one of a single          *)
(* component, and "on" says which.  Components share the names of          *)
(* variables they both have.                                               *)
(***************************************************************************)
EXTENDS Naturals, Sequences, TLC

CONSTANTS p1, p2, p3, r1, w1, n1, clock, nil

VARIABLES
  on,      \* the component the behaviour is of
  runq, nrdy, runvec, state, mach, sch, wired, up, pc, free, procalloc,
  rlock, plock, rp, pr, notepending, cond, tt, trend, timed, due, rend, ar,
  ap, stage, proc, readied, maker, qwaitr, target, broken, npid, pg, sref,
  lk, ref, in, io, dseg, mmu, at, child, fgrp, fd, nfd, maxfd, fref, cstate,
  ccexec, clunkq, hold, other, n, mnt, pga, of, own, pool, loc, raced, torn,
  panic, segs, quick, used, main, waited, mclock, req, srv, ent, cref, late,
  renamed, grp, path, nvar, ch, pref, qref, q, closed, sent, got

vars == <<on, runq, nrdy, runvec, state, mach, sch, wired, up, pc, free,
          procalloc, rlock, plock, rp, pr, notepending, cond, tt, trend,
          timed, due, rend, ar, ap, stage, proc, readied, maker, qwaitr,
          target, broken, npid, pg, sref, lk, ref, in, io, dseg, mmu, at,
          child, fgrp, fd, nfd, maxfd, fref, cstate, ccexec, clunkq, hold,
          other, n, mnt, pga, of, own, pool, loc, raced, torn, panic, segs,
          quick, used, main, waited, mclock, req, srv, ent, cref, late,
          renamed, grp, path, nvar, ch, pref, qref, q, closed, sent, got>>

(* A root, a server mounted on /x, and directories that both have.         *)
MCFiles ==
  {"R", "X"} \X {<<>>, <<"a">>} \cup
    {<<"R", <<"a", "b">>>>, <<"R", <<"x">>>>, <<"X", <<"a", "b">>>>}
MCBinds ==
  {<<"x">>} \X {<<>>, <<"a">>, <<"a", "b">>} \cup {<< <<"x", "a">>, <<"a">> >>}
CopyBinds == {<<"x">>} \X {<<>>, <<"a">>}
MCBoot ==
  LET Chan(f) == [to |-> f, child |-> nil]
      x == [elem |-> "x", um |-> <<Chan(<<"X", <<>>>>)>>, ismount |-> 1]
  IN [elem |-> "/", um |-> <<[to |-> nil, child |-> x], Chan(<<"R", <<>>>>)>>, ismount |-> 0]

(* Sizes of pages: a large one that is split into bundles of small ones,   *)
(* one that is split into more bundles, and two large ones.                *)
Sz(k, t) == [sz |-> k, type |-> t]
SplitSizes == <<Sz(4, "prealloc"), Sz(2, "bundle"), Sz(1, "embed")>>
BundleSizes == <<Sz(8, "prealloc"), Sz(2, "bundle"), Sz(1, "embed")>>
JoinSizes == <<Sz(8, "prealloc"), Sz(4, "prealloc"), Sz(2, "bundle"), Sz(1, "embed")>>

Sched == INSTANCE Sched WITH
  Proc <- {p1, p2, p3}, NMach <- 1, Schedsz <- 2, Npriq <- 2,
  WireTo <- {0, nil}, MayExit <- {p1, p2}, ExitYields <- FALSE, MaxDrift <- 0
Rendez == INSTANCE Rendez WITH
  Proc <- {p1, p2}, Rendezs <- {r1}, Waker <- {w1}, Poster <- {n1},
  Clock <- clock, MayRendezvous <- {p1, p2}
Wait == INSTANCE Wait WITH
  Proc <- {p1, p2, p3}, NBROKEN <- 1, MaxWait <- 1, MaxPid <- 4,
  MayNowait <- FALSE
Copies == INSTANCE Mem WITH
  Proc <- {p1, p2}, Text <- {}, Data <- {"d"}, Bss <- {}, NPage <- 5,
  NSeg <- 3, First <- p1, May <- {"copy", "free", "fail"}
Shares == INSTANCE Mem WITH
  Proc <- {p1, p2}, Text <- {"t"}, Data <- {"d"}, Bss <- {"z"}, NPage <- 5,
  NSeg <- 1, First <- p1, May <- {"share"}
Texts == INSTANCE Mem WITH
  Proc <- {p1, p2}, Text <- {"t"}, Data <- {}, Bss <- {"z"}, NPage <- 5,
  NSeg <- 2, First <- p1, May <- {"copy", "free"}
Fd == INSTANCE Fd WITH
  Proc <- {p1, p2}, Chans <- {1, 2}, NFgrp <- 2, DELTAFD <- 1, MaxFd <- 2,
  Cexec <- {1}, First <- p1
Ns == INSTANCE Ns WITH
  Files <- MCFiles, slash <- "R", Binds <- MCBinds, Groups <- {1},
  Boot <- MCBoot, MaxUm <- 3
Copy == INSTANCE Ns WITH
  Files <- MCFiles, slash <- "R", Binds <- CopyBinds, Groups <- {1, 2},
  Boot <- MCBoot, MaxUm <- 2
Pages == INSTANCE Palloc WITH
  Proc <- {p1, p2}, Sizes <- SplitSizes, Memory <- <<6, 12>>, Lost <- 1,
  NPROCPOOLSZ <- 1, MaxOwn <- 2, joinpages <- FALSE
Joins == INSTANCE Palloc WITH
  Proc <- {p1}, Sizes <- JoinSizes, Memory <- <<8, 16>>, Lost <- 1,
  NPROCPOOLSZ <- 1, MaxOwn <- 5, joinpages <- TRUE
Bundles == INSTANCE Palloc WITH
  Proc <- {p1}, Sizes <- BundleSizes, Memory <- <<8, 16>>, Lost <- 1,
  NPROCPOOLSZ <- 1, MaxOwn <- 3, joinpages <- TRUE
Frees == INSTANCE Palloc WITH
  Proc <- {p1, p2}, Sizes <- SplitSizes, Memory <- <<8, 12>>, Lost <- 1,
  NPROCPOOLSZ <- 1, MaxOwn <- 2, joinpages <- TRUE
Heap == INSTANCE Qmalloc WITH
  Proc <- {p1}, Wants <- {2, 5}, Aligns <- {1, 4}, NQUICK <- 3, Mult <- 2,
  Units <- 12, NSeg <- 1, MaxUsed <- 3
Core == INSTANCE Qmalloc WITH
  Proc <- {p1, p2}, Wants <- {5}, Aligns <- {1}, NQUICK <- 3, Mult <- 2,
  Units <- 10, NSeg <- 2, MaxUsed <- 2
Services == INSTANCE Srv WITH
  Proc <- {p1, p2}, Names <- {"a", "b"}, Chans <- {"c", "d"}, MaxSrv <- 2
Environ == INSTANCE Env WITH
  Proc <- {p1, p2}, Names <- {"a"}, Fds <- {1, 2}, Maxenvsize <- 1,
  MaxVar <- 2, MaxGrp <- 2
Pipes == INSTANCE Pipe WITH
  Proc <- {p1, p2, p3}, Limit <- 1, MaxMsg <- 3
-----------------------------------------------------------------------------
(* The variables that a component does not have.                           *)
schedRest == <<rlock, plock, rp, pr, notepending, cond, tt, trend, timed,
               due, rend, ar, ap, stage, proc, readied, maker, qwaitr,
               target, broken, npid, pg, sref, lk, ref, in, io, dseg, mmu,
               at, child, fgrp, fd, nfd, maxfd, fref, cstate, ccexec, clunkq,
               hold, other, n, mnt, pga, of, own, pool, loc, raced, torn,
               panic, segs, quick, used, main, waited, mclock, req, srv, ent,
               cref, late, renamed, grp, path, nvar, ch, pref, qref, q,
               closed, sent, got>>
rendezRest == <<runq, nrdy, runvec, mach, sch, wired, up, free, procalloc,
                stage, proc, readied, maker, qwaitr, target, broken, npid,
                pg, sref, lk, ref, in, io, dseg, mmu, at, child, fgrp, fd,
                nfd, maxfd, fref, cstate, ccexec, clunkq, hold, other, n,
                mnt, pga, of, own, pool, loc, raced, torn, panic, segs,
                quick, used, main, waited, mclock, req, srv, ent, cref, late,
                renamed, grp, path, nvar, ch, pref, qref, q, closed, sent, got>>
waitRest == <<runq, nrdy, runvec, mach, sch, wired, up, pc, free, procalloc,
              rlock, plock, rp, pr, notepending, cond, tt, trend, timed, due,
              rend, ar, ap, pg, sref, lk, ref, in, io, dseg, mmu, at, child,
              fgrp, fd, nfd, maxfd, fref, cstate, ccexec, clunkq, hold,
              other, n, mnt, pga, of, own, pool, loc, raced, torn, panic,
              segs, quick, used, main, waited, mclock, req, srv, ent, cref,
              late, renamed, grp, path, nvar, ch, pref, qref, q, closed,
              sent, got>>
copiesRest == <<runq, nrdy, runvec, state, mach, sch, wired, up, free,
                procalloc, rlock, plock, rp, pr, notepending, cond, tt,
                trend, timed, due, rend, ar, ap, stage, proc, readied, maker,
                qwaitr, target, broken, npid, fgrp, fd, nfd, maxfd, fref,
                cstate, ccexec, clunkq, hold, other, n, mnt, pga, of, own,
                pool, loc, raced, torn, panic, segs, quick, used, main,
                waited, mclock, req, srv, ent, cref, late, renamed, grp,
                path, nvar, ch, pref, qref, q, closed, sent, got>>
sharesRest == <<runq, nrdy, runvec, state, mach, sch, wired, up, free,
                procalloc, rlock, plock, rp, pr, notepending, cond, tt,
                trend, timed, due, rend, ar, ap, stage, proc, readied, maker,
                qwaitr, target, broken, npid, fgrp, fd, nfd, maxfd, fref,
                cstate, ccexec, clunkq, hold, other, n, mnt, pga, of, own,
                pool, loc, raced, torn, panic, segs, quick, used, main,
                waited, mclock, req, srv, ent, cref, late, renamed, grp,
                path, nvar, ch, pref, qref, q, closed, sent, got>>
textsRest == <<runq, nrdy, runvec, state, mach, sch, wired, up, free,
               procalloc, rlock, plock, rp, pr, notepending, cond, tt, trend,
               timed, due, rend, ar, ap, stage, proc, readied, maker, qwaitr,
               target, broken, npid, fgrp, fd, nfd, maxfd, fref, cstate,
               ccexec, clunkq, hold, other, n, mnt, pga, of, own, pool, loc,
               raced, torn, panic, segs, quick, used, main, waited, mclock,
               req, srv, ent, cref, late, renamed, grp, path, nvar, ch, pref,
               qref, q, closed, sent, got>>
fdRest == <<runq, nrdy, runvec, state, mach, sch, wired, up, free, procalloc,
            rlock, plock, rp, pr, notepending, cond, tt, trend, timed, due,
            rend, ar, ap, stage, proc, readied, maker, qwaitr, target,
            broken, npid, pg, sref, lk, in, io, dseg, mmu, at, child, mnt,
            pga, of, own, pool, loc, raced, torn, panic, segs, quick, used,
            main, waited, mclock, req, srv, ent, cref, late, renamed, grp,
            path, nvar, ch, pref, qref, q, closed, sent, got>>
nsRest == <<runq, nrdy, runvec, state, mach, sch, wired, up, pc, free,
            procalloc, rlock, plock, rp, pr, notepending, cond, tt, trend,
            timed, due, rend, ar, ap, stage, proc, readied, maker, qwaitr,
            target, broken, npid, pg, sref, lk, ref, in, io, dseg, mmu, at,
            child, fgrp, fd, nfd, maxfd, fref, cstate, ccexec, clunkq, hold,
            other, n, pga, of, own, pool, loc, raced, torn, panic, segs,
            quick, used, main, waited, mclock, req, srv, ent, cref, late,
            renamed, grp, path, nvar, ch, pref, qref, q, closed, sent, got>>
copyRest == <<runq, nrdy, runvec, state, mach, sch, wired, up, pc, free,
              procalloc, rlock, plock, rp, pr, notepending, cond, tt, trend,
              timed, due, rend, ar, ap, stage, proc, readied, maker, qwaitr,
              target, broken, npid, pg, sref, lk, ref, in, io, dseg, mmu, at,
              child, fgrp, fd, nfd, maxfd, fref, cstate, ccexec, clunkq,
              hold, other, n, pga, of, own, pool, loc, raced, torn, panic,
              segs, quick, used, main, waited, mclock, req, srv, ent, cref,
              late, renamed, grp, path, nvar, ch, pref, qref, q, closed,
              sent, got>>
pagesRest == <<runq, nrdy, runvec, state, mach, sch, wired, up, free,
               procalloc, rlock, plock, rp, pr, notepending, cond, tt, trend,
               timed, due, rend, ar, ap, stage, proc, readied, maker, qwaitr,
               target, broken, npid, pg, sref, lk, in, io, dseg, mmu, at,
               child, fgrp, fd, nfd, maxfd, fref, cstate, ccexec, clunkq,
               hold, other, n, mnt, segs, quick, used, main, waited, mclock,
               req, srv, ent, cref, late, renamed, grp, path, nvar, ch, pref,
               qref, q, closed, sent, got>>
joinsRest == <<runq, nrdy, runvec, state, mach, sch, wired, up, free,
               procalloc, rlock, plock, rp, pr, notepending, cond, tt, trend,
               timed, due, rend, ar, ap, stage, proc, readied, maker, qwaitr,
               target, broken, npid, pg, sref, lk, in, io, dseg, mmu, at,
               child, fgrp, fd, nfd, maxfd, fref, cstate, ccexec, clunkq,
               hold, other, n, mnt, segs, quick, used, main, waited, mclock,
               req, srv, ent, cref, late, renamed, grp, path, nvar, ch, pref,
               qref, q, closed, sent, got>>
bundlesRest == <<runq, nrdy, runvec, state, mach, sch, wired, up, free,
                 procalloc, rlock, plock, rp, pr, notepending, cond, tt,
                 trend, timed, due, rend, ar, ap, stage, proc, readied,
                 maker, qwaitr, target, broken, npid, pg, sref, lk, in, io,
                 dseg, mmu, at, child, fgrp, fd, nfd, maxfd, fref, cstate,
                 ccexec, clunkq, hold, other, n, mnt, segs, quick, used,
                 main, waited, mclock, req, srv, ent, cref, late, renamed,
                 grp, path, nvar, ch, pref, qref, q, closed, sent, got>>
freesRest == <<runq, nrdy, runvec, state, mach, sch, wired, up, free,
               procalloc, rlock, plock, rp, pr, notepending, cond, tt, trend,
               timed, due, rend, ar, ap, stage, proc, readied, maker, qwaitr,
               target, broken, npid, pg, sref, lk, in, io, dseg, mmu, at,
               child, fgrp, fd, nfd, maxfd, fref, cstate, ccexec, clunkq,
               hold, other, n, mnt, segs, quick, used, main, waited, mclock,
               req, srv, ent, cref, late, renamed, grp, path, nvar, ch, pref,
               qref, q, closed, sent, got>>
heapRest == <<runq, nrdy, runvec, state, mach, sch, wired, up, free,
              procalloc, rlock, plock, rp, pr, notepending, cond, tt, trend,
              timed, due, rend, ar, ap, stage, proc, readied, maker, qwaitr,
              target, broken, npid, pg, sref, lk, ref, in, io, dseg, mmu, at,
              child, fgrp, fd, nfd, maxfd, fref, cstate, ccexec, clunkq,
              hold, other, n, mnt, pga, of, own, pool, loc, raced, srv, ent,
              cref, late, renamed, grp, path, nvar, ch, pref, qref, q,
              closed, sent, got>>
coreRest == <<runq, nrdy, runvec, state, mach, sch, wired, up, free,
              procalloc, rlock, plock, rp, pr, notepending, cond, tt, trend,
              timed, due, rend, ar, ap, stage, proc, readied, maker, qwaitr,
              target, broken, npid, pg, sref, lk, ref, in, io, dseg, mmu, at,
              child, fgrp, fd, nfd, maxfd, fref, cstate, ccexec, clunkq,
              hold, other, n, mnt, pga, of, own, pool, loc, raced, srv, ent,
              cref, late, renamed, grp, path, nvar, ch, pref, qref, q,
              closed, sent, got>>
servicesRest == <<runq, nrdy, runvec, state, mach, sch, wired, up, free,
                  procalloc, rlock, plock, rp, pr, notepending, cond, tt,
                  trend, timed, due, rend, ar, ap, stage, proc, readied,
                  maker, qwaitr, target, broken, npid, pg, sref, lk, ref, in,
                  io, dseg, mmu, child, fgrp, nfd, maxfd, fref, cstate,
                  ccexec, clunkq, hold, other, n, mnt, pga, of, own, pool,
                  loc, raced, torn, panic, segs, quick, used, main, waited,
                  mclock, req, grp, path, nvar, ch, pref, qref, q, closed,
                  sent, got>>
environRest == <<runq, nrdy, runvec, state, mach, sch, wired, up, pc, free,
                 procalloc, rlock, plock, rp, pr, notepending, cond, tt,
                 trend, timed, due, rend, ar, ap, stage, proc, readied,
                 maker, qwaitr, target, broken, npid, pg, sref, lk, in, io,
                 dseg, mmu, at, child, fgrp, nfd, maxfd, fref, cstate,
                 ccexec, clunkq, hold, other, n, mnt, pga, of, own, pool,
                 loc, raced, torn, panic, segs, quick, used, main, waited,
                 mclock, req, srv, cref, late, renamed, ch, pref, qref, q,
                 closed, sent, got>>
pipesRest == <<runq, nrdy, runvec, state, mach, sch, wired, up, free,
               procalloc, rlock, plock, rp, pr, notepending, cond, tt, trend,
               timed, due, rend, ar, ap, stage, proc, readied, maker, qwaitr,
               target, broken, npid, pg, sref, lk, ref, in, io, dseg, mmu,
               at, child, fgrp, fd, nfd, maxfd, fref, cstate, ccexec, clunkq,
               hold, other, mnt, pga, of, own, pool, loc, raced, torn, panic,
               segs, quick, main, waited, mclock, req, srv, ent, cref, late,
               renamed, grp, path, nvar>>

Init ==
  \/ /\ on = "sched" /\ Sched!Init
     /\ rlock = nil /\ plock = nil /\ rp = nil /\ pr = nil /\
        notepending = nil /\ cond = nil /\ tt = nil /\ trend = nil /\
        timed = nil /\ due = nil /\ rend = nil /\ ar = nil /\ ap = nil /\
        stage = nil /\ proc = nil /\ readied = nil /\ maker = nil /\
        qwaitr = nil /\ target = nil /\ broken = nil /\ npid = nil /\
        pg = nil /\ sref = nil /\ lk = nil /\ ref = nil /\ in = nil /\
        io = nil /\ dseg = nil /\ mmu = nil /\ at = nil /\ child = nil /\
        fgrp = nil /\ fd = nil /\ nfd = nil /\ maxfd = nil /\ fref = nil /\
        cstate = nil /\ ccexec = nil /\ clunkq = nil /\ hold = nil /\
        other = nil /\ n = nil /\ mnt = nil /\ pga = nil /\ of = nil /\
        own = nil /\ pool = nil /\ loc = nil /\ raced = nil /\ torn = nil /\
        panic = nil /\ segs = nil /\ quick = nil /\ used = nil /\
        main = nil /\ waited = nil /\ mclock = nil /\ req = nil /\
        srv = nil /\ ent = nil /\ cref = nil /\ late = nil /\
        renamed = nil /\ grp = nil /\ path = nil /\ nvar = nil /\ ch = nil /\
        pref = nil /\ qref = nil /\ q = nil /\ closed = nil /\ sent = nil /\
        got = nil
  \/ /\ on = "rendez" /\ Rendez!Init
     /\ runq = nil /\ nrdy = nil /\ runvec = nil /\ mach = nil /\
        sch = nil /\ wired = nil /\ up = nil /\ free = nil /\
        procalloc = nil /\ stage = nil /\ proc = nil /\ readied = nil /\
        maker = nil /\ qwaitr = nil /\ target = nil /\ broken = nil /\
        npid = nil /\ pg = nil /\ sref = nil /\ lk = nil /\ ref = nil /\
        in = nil /\ io = nil /\ dseg = nil /\ mmu = nil /\ at = nil /\
        child = nil /\ fgrp = nil /\ fd = nil /\ nfd = nil /\ maxfd = nil /\
        fref = nil /\ cstate = nil /\ ccexec = nil /\ clunkq = nil /\
        hold = nil /\ other = nil /\ n = nil /\ mnt = nil /\ pga = nil /\
        of = nil /\ own = nil /\ pool = nil /\ loc = nil /\ raced = nil /\
        torn = nil /\ panic = nil /\ segs = nil /\ quick = nil /\
        used = nil /\ main = nil /\ waited = nil /\ mclock = nil /\
        req = nil /\ srv = nil /\ ent = nil /\ cref = nil /\ late = nil /\
        renamed = nil /\ grp = nil /\ path = nil /\ nvar = nil /\ ch = nil /\
        pref = nil /\ qref = nil /\ q = nil /\ closed = nil /\ sent = nil /\
        got = nil
  \/ /\ on = "wait" /\ Wait!Init
     /\ runq = nil /\ nrdy = nil /\ runvec = nil /\ mach = nil /\
        sch = nil /\ wired = nil /\ up = nil /\ pc = nil /\ free = nil /\
        procalloc = nil /\ rlock = nil /\ plock = nil /\ rp = nil /\
        pr = nil /\ notepending = nil /\ cond = nil /\ tt = nil /\
        trend = nil /\ timed = nil /\ due = nil /\ rend = nil /\ ar = nil /\
        ap = nil /\ pg = nil /\ sref = nil /\ lk = nil /\ ref = nil /\
        in = nil /\ io = nil /\ dseg = nil /\ mmu = nil /\ at = nil /\
        child = nil /\ fgrp = nil /\ fd = nil /\ nfd = nil /\ maxfd = nil /\
        fref = nil /\ cstate = nil /\ ccexec = nil /\ clunkq = nil /\
        hold = nil /\ other = nil /\ n = nil /\ mnt = nil /\ pga = nil /\
        of = nil /\ own = nil /\ pool = nil /\ loc = nil /\ raced = nil /\
        torn = nil /\ panic = nil /\ segs = nil /\ quick = nil /\
        used = nil /\ main = nil /\ waited = nil /\ mclock = nil /\
        req = nil /\ srv = nil /\ ent = nil /\ cref = nil /\ late = nil /\
        renamed = nil /\ grp = nil /\ path = nil /\ nvar = nil /\ ch = nil /\
        pref = nil /\ qref = nil /\ q = nil /\ closed = nil /\ sent = nil /\
        got = nil
  \/ /\ on = "copies" /\ Copies!Init
     /\ runq = nil /\ nrdy = nil /\ runvec = nil /\ state = nil /\
        mach = nil /\ sch = nil /\ wired = nil /\ up = nil /\ free = nil /\
        procalloc = nil /\ rlock = nil /\ plock = nil /\ rp = nil /\
        pr = nil /\ notepending = nil /\ cond = nil /\ tt = nil /\
        trend = nil /\ timed = nil /\ due = nil /\ rend = nil /\ ar = nil /\
        ap = nil /\ stage = nil /\ proc = nil /\ readied = nil /\
        maker = nil /\ qwaitr = nil /\ target = nil /\ broken = nil /\
        npid = nil /\ fgrp = nil /\ fd = nil /\ nfd = nil /\ maxfd = nil /\
        fref = nil /\ cstate = nil /\ ccexec = nil /\ clunkq = nil /\
        hold = nil /\ other = nil /\ n = nil /\ mnt = nil /\ pga = nil /\
        of = nil /\ own = nil /\ pool = nil /\ loc = nil /\ raced = nil /\
        torn = nil /\ panic = nil /\ segs = nil /\ quick = nil /\
        used = nil /\ main = nil /\ waited = nil /\ mclock = nil /\
        req = nil /\ srv = nil /\ ent = nil /\ cref = nil /\ late = nil /\
        renamed = nil /\ grp = nil /\ path = nil /\ nvar = nil /\ ch = nil /\
        pref = nil /\ qref = nil /\ q = nil /\ closed = nil /\ sent = nil /\
        got = nil
  \/ /\ on = "shares" /\ Shares!Init
     /\ runq = nil /\ nrdy = nil /\ runvec = nil /\ state = nil /\
        mach = nil /\ sch = nil /\ wired = nil /\ up = nil /\ free = nil /\
        procalloc = nil /\ rlock = nil /\ plock = nil /\ rp = nil /\
        pr = nil /\ notepending = nil /\ cond = nil /\ tt = nil /\
        trend = nil /\ timed = nil /\ due = nil /\ rend = nil /\ ar = nil /\
        ap = nil /\ stage = nil /\ proc = nil /\ readied = nil /\
        maker = nil /\ qwaitr = nil /\ target = nil /\ broken = nil /\
        npid = nil /\ fgrp = nil /\ fd = nil /\ nfd = nil /\ maxfd = nil /\
        fref = nil /\ cstate = nil /\ ccexec = nil /\ clunkq = nil /\
        hold = nil /\ other = nil /\ n = nil /\ mnt = nil /\ pga = nil /\
        of = nil /\ own = nil /\ pool = nil /\ loc = nil /\ raced = nil /\
        torn = nil /\ panic = nil /\ segs = nil /\ quick = nil /\
        used = nil /\ main = nil /\ waited = nil /\ mclock = nil /\
        req = nil /\ srv = nil /\ ent = nil /\ cref = nil /\ late = nil /\
        renamed = nil /\ grp = nil /\ path = nil /\ nvar = nil /\ ch = nil /\
        pref = nil /\ qref = nil /\ q = nil /\ closed = nil /\ sent = nil /\
        got = nil
  \/ /\ on = "texts" /\ Texts!Init
     /\ runq = nil /\ nrdy = nil /\ runvec = nil /\ state = nil /\
        mach = nil /\ sch = nil /\ wired = nil /\ up = nil /\ free = nil /\
        procalloc = nil /\ rlock = nil /\ plock = nil /\ rp = nil /\
        pr = nil /\ notepending = nil /\ cond = nil /\ tt = nil /\
        trend = nil /\ timed = nil /\ due = nil /\ rend = nil /\ ar = nil /\
        ap = nil /\ stage = nil /\ proc = nil /\ readied = nil /\
        maker = nil /\ qwaitr = nil /\ target = nil /\ broken = nil /\
        npid = nil /\ fgrp = nil /\ fd = nil /\ nfd = nil /\ maxfd = nil /\
        fref = nil /\ cstate = nil /\ ccexec = nil /\ clunkq = nil /\
        hold = nil /\ other = nil /\ n = nil /\ mnt = nil /\ pga = nil /\
        of = nil /\ own = nil /\ pool = nil /\ loc = nil /\ raced = nil /\
        torn = nil /\ panic = nil /\ segs = nil /\ quick = nil /\
        used = nil /\ main = nil /\ waited = nil /\ mclock = nil /\
        req = nil /\ srv = nil /\ ent = nil /\ cref = nil /\ late = nil /\
        renamed = nil /\ grp = nil /\ path = nil /\ nvar = nil /\ ch = nil /\
        pref = nil /\ qref = nil /\ q = nil /\ closed = nil /\ sent = nil /\
        got = nil
  \/ /\ on = "fd" /\ Fd!Init
     /\ runq = nil /\ nrdy = nil /\ runvec = nil /\ state = nil /\
        mach = nil /\ sch = nil /\ wired = nil /\ up = nil /\ free = nil /\
        procalloc = nil /\ rlock = nil /\ plock = nil /\ rp = nil /\
        pr = nil /\ notepending = nil /\ cond = nil /\ tt = nil /\
        trend = nil /\ timed = nil /\ due = nil /\ rend = nil /\ ar = nil /\
        ap = nil /\ stage = nil /\ proc = nil /\ readied = nil /\
        maker = nil /\ qwaitr = nil /\ target = nil /\ broken = nil /\
        npid = nil /\ pg = nil /\ sref = nil /\ lk = nil /\ in = nil /\
        io = nil /\ dseg = nil /\ mmu = nil /\ at = nil /\ child = nil /\
        mnt = nil /\ pga = nil /\ of = nil /\ own = nil /\ pool = nil /\
        loc = nil /\ raced = nil /\ torn = nil /\ panic = nil /\
        segs = nil /\ quick = nil /\ used = nil /\ main = nil /\
        waited = nil /\ mclock = nil /\ req = nil /\ srv = nil /\
        ent = nil /\ cref = nil /\ late = nil /\ renamed = nil /\
        grp = nil /\ path = nil /\ nvar = nil /\ ch = nil /\ pref = nil /\
        qref = nil /\ q = nil /\ closed = nil /\ sent = nil /\ got = nil
  \/ /\ on = "ns" /\ Ns!Init
     /\ runq = nil /\ nrdy = nil /\ runvec = nil /\ state = nil /\
        mach = nil /\ sch = nil /\ wired = nil /\ up = nil /\ pc = nil /\
        free = nil /\ procalloc = nil /\ rlock = nil /\ plock = nil /\
        rp = nil /\ pr = nil /\ notepending = nil /\ cond = nil /\
        tt = nil /\ trend = nil /\ timed = nil /\ due = nil /\ rend = nil /\
        ar = nil /\ ap = nil /\ stage = nil /\ proc = nil /\ readied = nil /\
        maker = nil /\ qwaitr = nil /\ target = nil /\ broken = nil /\
        npid = nil /\ pg = nil /\ sref = nil /\ lk = nil /\ ref = nil /\
        in = nil /\ io = nil /\ dseg = nil /\ mmu = nil /\ at = nil /\
        child = nil /\ fgrp = nil /\ fd = nil /\ nfd = nil /\ maxfd = nil /\
        fref = nil /\ cstate = nil /\ ccexec = nil /\ clunkq = nil /\
        hold = nil /\ other = nil /\ n = nil /\ pga = nil /\ of = nil /\
        own = nil /\ pool = nil /\ loc = nil /\ raced = nil /\ torn = nil /\
        panic = nil /\ segs = nil /\ quick = nil /\ used = nil /\
        main = nil /\ waited = nil /\ mclock = nil /\ req = nil /\
        srv = nil /\ ent = nil /\ cref = nil /\ late = nil /\
        renamed = nil /\ grp = nil /\ path = nil /\ nvar = nil /\ ch = nil /\
        pref = nil /\ qref = nil /\ q = nil /\ closed = nil /\ sent = nil /\
        got = nil
  \/ /\ on = "copy" /\ Copy!Init
     /\ runq = nil /\ nrdy = nil /\ runvec = nil /\ state = nil /\
        mach = nil /\ sch = nil /\ wired = nil /\ up = nil /\ pc = nil /\
        free = nil /\ procalloc = nil /\ rlock = nil /\ plock = nil /\
        rp = nil /\ pr = nil /\ notepending = nil /\ cond = nil /\
        tt = nil /\ trend = nil /\ timed = nil /\ due = nil /\ rend = nil /\
        ar = nil /\ ap = nil /\ stage = nil /\ proc = nil /\ readied = nil /\
        maker = nil /\ qwaitr = nil /\ target = nil /\ broken = nil /\
        npid = nil /\ pg = nil /\ sref = nil /\ lk = nil /\ ref = nil /\
        in = nil /\ io = nil /\ dseg = nil /\ mmu = nil /\ at = nil /\
        child = nil /\ fgrp = nil /\ fd = nil /\ nfd = nil /\ maxfd = nil /\
        fref = nil /\ cstate = nil /\ ccexec = nil /\ clunkq = nil /\
        hold = nil /\ other = nil /\ n = nil /\ pga = nil /\ of = nil /\
        own = nil /\ pool = nil /\ loc = nil /\ raced = nil /\ torn = nil /\
        panic = nil /\ segs = nil /\ quick = nil /\ used = nil /\
        main = nil /\ waited = nil /\ mclock = nil /\ req = nil /\
        srv = nil /\ ent = nil /\ cref = nil /\ late = nil /\
        renamed = nil /\ grp = nil /\ path = nil /\ nvar = nil /\ ch = nil /\
        pref = nil /\ qref = nil /\ q = nil /\ closed = nil /\ sent = nil /\
        got = nil
  \/ /\ on = "pages" /\ Pages!Init
     /\ runq = nil /\ nrdy = nil /\ runvec = nil /\ state = nil /\
        mach = nil /\ sch = nil /\ wired = nil /\ up = nil /\ free = nil /\
        procalloc = nil /\ rlock = nil /\ plock = nil /\ rp = nil /\
        pr = nil /\ notepending = nil /\ cond = nil /\ tt = nil /\
        trend = nil /\ timed = nil /\ due = nil /\ rend = nil /\ ar = nil /\
        ap = nil /\ stage = nil /\ proc = nil /\ readied = nil /\
        maker = nil /\ qwaitr = nil /\ target = nil /\ broken = nil /\
        npid = nil /\ pg = nil /\ sref = nil /\ lk = nil /\ in = nil /\
        io = nil /\ dseg = nil /\ mmu = nil /\ at = nil /\ child = nil /\
        fgrp = nil /\ fd = nil /\ nfd = nil /\ maxfd = nil /\ fref = nil /\
        cstate = nil /\ ccexec = nil /\ clunkq = nil /\ hold = nil /\
        other = nil /\ n = nil /\ mnt = nil /\ segs = nil /\ quick = nil /\
        used = nil /\ main = nil /\ waited = nil /\ mclock = nil /\
        req = nil /\ srv = nil /\ ent = nil /\ cref = nil /\ late = nil /\
        renamed = nil /\ grp = nil /\ path = nil /\ nvar = nil /\ ch = nil /\
        pref = nil /\ qref = nil /\ q = nil /\ closed = nil /\ sent = nil /\
        got = nil
  \/ /\ on = "joins" /\ Joins!Init
     /\ runq = nil /\ nrdy = nil /\ runvec = nil /\ state = nil /\
        mach = nil /\ sch = nil /\ wired = nil /\ up = nil /\ free = nil /\
        procalloc = nil /\ rlock = nil /\ plock = nil /\ rp = nil /\
        pr = nil /\ notepending = nil /\ cond = nil /\ tt = nil /\
        trend = nil /\ timed = nil /\ due = nil /\ rend = nil /\ ar = nil /\
        ap = nil /\ stage = nil /\ proc = nil /\ readied = nil /\
        maker = nil /\ qwaitr = nil /\ target = nil /\ broken = nil /\
        npid = nil /\ pg = nil /\ sref = nil /\ lk = nil /\ in = nil /\
        io = nil /\ dseg = nil /\ mmu = nil /\ at = nil /\ child = nil /\
        fgrp = nil /\ fd = nil /\ nfd = nil /\ maxfd = nil /\ fref = nil /\
        cstate = nil /\ ccexec = nil /\ clunkq = nil /\ hold = nil /\
        other = nil /\ n = nil /\ mnt = nil /\ segs = nil /\ quick = nil /\
        used = nil /\ main = nil /\ waited = nil /\ mclock = nil /\
        req = nil /\ srv = nil /\ ent = nil /\ cref = nil /\ late = nil /\
        renamed = nil /\ grp = nil /\ path = nil /\ nvar = nil /\ ch = nil /\
        pref = nil /\ qref = nil /\ q = nil /\ closed = nil /\ sent = nil /\
        got = nil
  \/ /\ on = "bundles" /\ Bundles!Init
     /\ runq = nil /\ nrdy = nil /\ runvec = nil /\ state = nil /\
        mach = nil /\ sch = nil /\ wired = nil /\ up = nil /\ free = nil /\
        procalloc = nil /\ rlock = nil /\ plock = nil /\ rp = nil /\
        pr = nil /\ notepending = nil /\ cond = nil /\ tt = nil /\
        trend = nil /\ timed = nil /\ due = nil /\ rend = nil /\ ar = nil /\
        ap = nil /\ stage = nil /\ proc = nil /\ readied = nil /\
        maker = nil /\ qwaitr = nil /\ target = nil /\ broken = nil /\
        npid = nil /\ pg = nil /\ sref = nil /\ lk = nil /\ in = nil /\
        io = nil /\ dseg = nil /\ mmu = nil /\ at = nil /\ child = nil /\
        fgrp = nil /\ fd = nil /\ nfd = nil /\ maxfd = nil /\ fref = nil /\
        cstate = nil /\ ccexec = nil /\ clunkq = nil /\ hold = nil /\
        other = nil /\ n = nil /\ mnt = nil /\ segs = nil /\ quick = nil /\
        used = nil /\ main = nil /\ waited = nil /\ mclock = nil /\
        req = nil /\ srv = nil /\ ent = nil /\ cref = nil /\ late = nil /\
        renamed = nil /\ grp = nil /\ path = nil /\ nvar = nil /\ ch = nil /\
        pref = nil /\ qref = nil /\ q = nil /\ closed = nil /\ sent = nil /\
        got = nil
  \/ /\ on = "frees" /\ Frees!Init
     /\ runq = nil /\ nrdy = nil /\ runvec = nil /\ state = nil /\
        mach = nil /\ sch = nil /\ wired = nil /\ up = nil /\ free = nil /\
        procalloc = nil /\ rlock = nil /\ plock = nil /\ rp = nil /\
        pr = nil /\ notepending = nil /\ cond = nil /\ tt = nil /\
        trend = nil /\ timed = nil /\ due = nil /\ rend = nil /\ ar = nil /\
        ap = nil /\ stage = nil /\ proc = nil /\ readied = nil /\
        maker = nil /\ qwaitr = nil /\ target = nil /\ broken = nil /\
        npid = nil /\ pg = nil /\ sref = nil /\ lk = nil /\ in = nil /\
        io = nil /\ dseg = nil /\ mmu = nil /\ at = nil /\ child = nil /\
        fgrp = nil /\ fd = nil /\ nfd = nil /\ maxfd = nil /\ fref = nil /\
        cstate = nil /\ ccexec = nil /\ clunkq = nil /\ hold = nil /\
        other = nil /\ n = nil /\ mnt = nil /\ segs = nil /\ quick = nil /\
        used = nil /\ main = nil /\ waited = nil /\ mclock = nil /\
        req = nil /\ srv = nil /\ ent = nil /\ cref = nil /\ late = nil /\
        renamed = nil /\ grp = nil /\ path = nil /\ nvar = nil /\ ch = nil /\
        pref = nil /\ qref = nil /\ q = nil /\ closed = nil /\ sent = nil /\
        got = nil
  \/ /\ on = "heap" /\ Heap!Init
     /\ runq = nil /\ nrdy = nil /\ runvec = nil /\ state = nil /\
        mach = nil /\ sch = nil /\ wired = nil /\ up = nil /\ free = nil /\
        procalloc = nil /\ rlock = nil /\ plock = nil /\ rp = nil /\
        pr = nil /\ notepending = nil /\ cond = nil /\ tt = nil /\
        trend = nil /\ timed = nil /\ due = nil /\ rend = nil /\ ar = nil /\
        ap = nil /\ stage = nil /\ proc = nil /\ readied = nil /\
        maker = nil /\ qwaitr = nil /\ target = nil /\ broken = nil /\
        npid = nil /\ pg = nil /\ sref = nil /\ lk = nil /\ ref = nil /\
        in = nil /\ io = nil /\ dseg = nil /\ mmu = nil /\ at = nil /\
        child = nil /\ fgrp = nil /\ fd = nil /\ nfd = nil /\ maxfd = nil /\
        fref = nil /\ cstate = nil /\ ccexec = nil /\ clunkq = nil /\
        hold = nil /\ other = nil /\ n = nil /\ mnt = nil /\ pga = nil /\
        of = nil /\ own = nil /\ pool = nil /\ loc = nil /\ raced = nil /\
        srv = nil /\ ent = nil /\ cref = nil /\ late = nil /\
        renamed = nil /\ grp = nil /\ path = nil /\ nvar = nil /\ ch = nil /\
        pref = nil /\ qref = nil /\ q = nil /\ closed = nil /\ sent = nil /\
        got = nil
  \/ /\ on = "core" /\ Core!Init
     /\ runq = nil /\ nrdy = nil /\ runvec = nil /\ state = nil /\
        mach = nil /\ sch = nil /\ wired = nil /\ up = nil /\ free = nil /\
        procalloc = nil /\ rlock = nil /\ plock = nil /\ rp = nil /\
        pr = nil /\ notepending = nil /\ cond = nil /\ tt = nil /\
        trend = nil /\ timed = nil /\ due = nil /\ rend = nil /\ ar = nil /\
        ap = nil /\ stage = nil /\ proc = nil /\ readied = nil /\
        maker = nil /\ qwaitr = nil /\ target = nil /\ broken = nil /\
        npid = nil /\ pg = nil /\ sref = nil /\ lk = nil /\ ref = nil /\
        in = nil /\ io = nil /\ dseg = nil /\ mmu = nil /\ at = nil /\
        child = nil /\ fgrp = nil /\ fd = nil /\ nfd = nil /\ maxfd = nil /\
        fref = nil /\ cstate = nil /\ ccexec = nil /\ clunkq = nil /\
        hold = nil /\ other = nil /\ n = nil /\ mnt = nil /\ pga = nil /\
        of = nil /\ own = nil /\ pool = nil /\ loc = nil /\ raced = nil /\
        srv = nil /\ ent = nil /\ cref = nil /\ late = nil /\
        renamed = nil /\ grp = nil /\ path = nil /\ nvar = nil /\ ch = nil /\
        pref = nil /\ qref = nil /\ q = nil /\ closed = nil /\ sent = nil /\
        got = nil
  \/ /\ on = "services" /\ Services!Init
     /\ runq = nil /\ nrdy = nil /\ runvec = nil /\ state = nil /\
        mach = nil /\ sch = nil /\ wired = nil /\ up = nil /\ free = nil /\
        procalloc = nil /\ rlock = nil /\ plock = nil /\ rp = nil /\
        pr = nil /\ notepending = nil /\ cond = nil /\ tt = nil /\
        trend = nil /\ timed = nil /\ due = nil /\ rend = nil /\ ar = nil /\
        ap = nil /\ stage = nil /\ proc = nil /\ readied = nil /\
        maker = nil /\ qwaitr = nil /\ target = nil /\ broken = nil /\
        npid = nil /\ pg = nil /\ sref = nil /\ lk = nil /\ ref = nil /\
        in = nil /\ io = nil /\ dseg = nil /\ mmu = nil /\ child = nil /\
        fgrp = nil /\ nfd = nil /\ maxfd = nil /\ fref = nil /\
        cstate = nil /\ ccexec = nil /\ clunkq = nil /\ hold = nil /\
        other = nil /\ n = nil /\ mnt = nil /\ pga = nil /\ of = nil /\
        own = nil /\ pool = nil /\ loc = nil /\ raced = nil /\ torn = nil /\
        panic = nil /\ segs = nil /\ quick = nil /\ used = nil /\
        main = nil /\ waited = nil /\ mclock = nil /\ req = nil /\
        grp = nil /\ path = nil /\ nvar = nil /\ ch = nil /\ pref = nil /\
        qref = nil /\ q = nil /\ closed = nil /\ sent = nil /\ got = nil
  \/ /\ on = "environ" /\ Environ!Init
     /\ runq = nil /\ nrdy = nil /\ runvec = nil /\ state = nil /\
        mach = nil /\ sch = nil /\ wired = nil /\ up = nil /\ pc = nil /\
        free = nil /\ procalloc = nil /\ rlock = nil /\ plock = nil /\
        rp = nil /\ pr = nil /\ notepending = nil /\ cond = nil /\
        tt = nil /\ trend = nil /\ timed = nil /\ due = nil /\ rend = nil /\
        ar = nil /\ ap = nil /\ stage = nil /\ proc = nil /\ readied = nil /\
        maker = nil /\ qwaitr = nil /\ target = nil /\ broken = nil /\
        npid = nil /\ pg = nil /\ sref = nil /\ lk = nil /\ in = nil /\
        io = nil /\ dseg = nil /\ mmu = nil /\ at = nil /\ child = nil /\
        fgrp = nil /\ nfd = nil /\ maxfd = nil /\ fref = nil /\
        cstate = nil /\ ccexec = nil /\ clunkq = nil /\ hold = nil /\
        other = nil /\ n = nil /\ mnt = nil /\ pga = nil /\ of = nil /\
        own = nil /\ pool = nil /\ loc = nil /\ raced = nil /\ torn = nil /\
        panic = nil /\ segs = nil /\ quick = nil /\ used = nil /\
        main = nil /\ waited = nil /\ mclock = nil /\ req = nil /\
        srv = nil /\ cref = nil /\ late = nil /\ renamed = nil /\ ch = nil /\
        pref = nil /\ qref = nil /\ q = nil /\ closed = nil /\ sent = nil /\
        got = nil
  \/ /\ on = "pipes" /\ Pipes!Init
     /\ runq = nil /\ nrdy = nil /\ runvec = nil /\ state = nil /\
        mach = nil /\ sch = nil /\ wired = nil /\ up = nil /\ free = nil /\
        procalloc = nil /\ rlock = nil /\ plock = nil /\ rp = nil /\
        pr = nil /\ notepending = nil /\ cond = nil /\ tt = nil /\
        trend = nil /\ timed = nil /\ due = nil /\ rend = nil /\ ar = nil /\
        ap = nil /\ stage = nil /\ proc = nil /\ readied = nil /\
        maker = nil /\ qwaitr = nil /\ target = nil /\ broken = nil /\
        npid = nil /\ pg = nil /\ sref = nil /\ lk = nil /\ ref = nil /\
        in = nil /\ io = nil /\ dseg = nil /\ mmu = nil /\ at = nil /\
        child = nil /\ fgrp = nil /\ fd = nil /\ nfd = nil /\ maxfd = nil /\
        fref = nil /\ cstate = nil /\ ccexec = nil /\ clunkq = nil /\
        hold = nil /\ other = nil /\ mnt = nil /\ pga = nil /\ of = nil /\
        own = nil /\ pool = nil /\ loc = nil /\ raced = nil /\ torn = nil /\
        panic = nil /\ segs = nil /\ quick = nil /\ main = nil /\
        waited = nil /\ mclock = nil /\ req = nil /\ srv = nil /\
        ent = nil /\ cref = nil /\ late = nil /\ renamed = nil /\
        grp = nil /\ path = nil /\ nvar = nil

Next ==
  /\ UNCHANGED on
  /\ \/ on = "sched" /\ Sched!Next /\ UNCHANGED schedRest
     \/ on = "rendez" /\ Rendez!Next /\ UNCHANGED rendezRest
     \/ on = "wait" /\ Wait!Next /\ UNCHANGED waitRest
     \/ on = "copies" /\ Copies!Next /\ UNCHANGED copiesRest
     \/ on = "shares" /\ Shares!Next /\ UNCHANGED sharesRest
     \/ on = "texts" /\ Texts!Next /\ UNCHANGED textsRest
     \/ on = "fd" /\ Fd!Next /\ UNCHANGED fdRest
     \/ on = "ns" /\ Ns!Next /\ UNCHANGED nsRest
     \/ on = "copy" /\ Copy!Next /\ UNCHANGED copyRest
     \/ on = "pages" /\ Pages!Next /\ UNCHANGED pagesRest
     \/ on = "joins" /\ Joins!Next /\ UNCHANGED joinsRest
     \/ on = "bundles" /\ Bundles!Next /\ UNCHANGED bundlesRest
     \/ on = "frees" /\ Frees!Next /\ UNCHANGED freesRest
     \/ on = "heap" /\ Heap!Next /\ UNCHANGED heapRest
     \/ on = "core" /\ Core!Next /\ UNCHANGED coreRest
     \/ on = "services" /\ Services!Next /\ UNCHANGED servicesRest
     \/ on = "environ" /\ Environ!Next /\ UNCHANGED environRest
     \/ on = "pipes" /\ Pipes!Next /\ UNCHANGED pipesRest

Spec == Init /\ [][Next]_vars

-----------------------------------------------------------------------------
(* A process that was woken up, noted or timed out does not stay asleep,   *)
(* and no panic of sleep(), wakeup() and postnote() is reached.            *)
NoneLost ==
  on = "rendez" => /\ Rendez!TypeOK /\ Rendez!NoPanic
                   /\ Rendez!NoLostWakeup /\ Rendez!NoLostNote /\ Rendez!NoLostTimeout

(* With exits and reuse of Procs, a process is on a run queue, on a        *)
(* processor, blocked or free, in one place; nrdy and runvec are exact.    *)
NoneAstray == on = "sched" => Sched!QueuedOnce /\ Sched!Whereabouts /\ Sched!Accounting

(* The wait records of a process are of its own dead children, each one    *)
(* once, nchild counts the others, and a Broken process is on the list     *)
(* from which freebroken() takes it.                                       *)
WaitExact == on = "wait" => Wait!RecordsExact /\ Wait!BrokenListed

(* No mmu lets a process write on a page that it does not share with the   *)
(* others that can see it.                                                 *)
NoSharedWrite ==
  CASE on = "copies" -> Copies!NoSharedWrite [] on = "shares" -> Shares!NoSharedWrite
    [] on = "texts" -> Texts!NoSharedWrite [] OTHER -> TRUE

(* Reference counts are exact.  That of a page is the number of its users; *)
(* a Chan is closed when the last descriptor or system call lets go of it, *)
(* and not before, and maxfd and nfd cover the descriptors of an Fgrp,     *)
(* whoever shares it.                                                      *)
RefsExact ==
  CASE on = "copies" -> Copies!PagesExact [] on = "shares" -> Shares!PagesExact
    [] on = "texts" -> Texts!PagesExact
    [] on = "fd" -> Fd!RefsExact /\ Fd!FdsExact [] OTHER -> TRUE

(* A bind leads a name where it says, and neither it nor an unmount leads  *)
(* any other name elsewhere: below the name is what was bound after a      *)
(* replacement, and the name itself is what was bound also after bind -b,  *)
(* unless a union above has a chan that comes first.  The counts of the    *)
(* mount table are exact and no Mount is left empty.                       *)
NsExact == [][(on = "ns" => Ns!NsExact) /\ (on = "copy" => Copy!NsExact)]_vars

(* bind -a changes no name that could be resolved before, bind -b only     *)
(* those that what was bound has as well; but if no Mount on the way to    *)
(* the name has chans that count, what the name was is lost.               *)
AfterKeeps == [][(on = "ns" => Ns!AfterKeeps) /\ (on = "copy" => Copy!AfterKeeps)]_vars

(* A frame of memory is free, bundled or in use, once, and the counts of   *)
(* the allocators say how many are, until two processes join one allocator *)
(* at once, or one joins it while another takes from it, which takes       *)
(* joinpages.  Without joinpages the allocators panic only for want of     *)
(* memory, or because others took the pages of an allocator that was split *)
(* for the one who waits for a page; with it, also in the test of the range*)
(* that joinbundle() makes.                                                *)
(* The blocks in use, those on lists and the tails of the segments are all *)
(* of the kernel's heap, and no two overlap, until a process that came     *)
(* back from morecore() without mainlock uses the heap while another does. *)
MemoryExact ==
  CASE on = "pages" -> Pages!FramesExact /\ Pages!CountsExact /\ Pages!NoPanic
    [] on = "joins" -> Joins!FramesExact /\ Joins!CountsExact /\ Joins!NoPanic
    [] on = "bundles" -> Bundles!FramesExact /\ Bundles!CountsExact /\ Bundles!NoPanic
    [] on = "frees" -> Frees!FramesExact /\ Frees!CountsExact /\ Frees!NoPanic
    [] on = "heap" -> Heap!HeapExact [] on = "core" -> Core!HeapExact [] OTHER -> TRUE

(* What a file of a small device names stays there while it is open, and   *)
(* is not mistaken for another: channels posted in #s, unless the service  *)
(* was freed before its open returned (devsrv.c:134-136); variables in #e, *)
(* for those who use the group that the file was opened in; blocks in #|.  *)
(* Nobody waits at a pipe whose other end is closed.                       *)
FilesSafe ==
  CASE on = "services" -> Services!SrvSafe [] on = "environ" -> Environ!EnvSafe
    [] on = "pipes" -> Pipes!PipeSafe [] OTHER -> TRUE
=============================================================================
