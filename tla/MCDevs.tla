------------------------------- MODULE MCDevs -------------------------------
(***************************************************************************)
(* Model checking of the safety of devices and of the Internet protocols.  *)
(* The components do not interact: a behaviour is one of a single          *)
(* component, and "on" says which.  Components share the names of          *)
(* variables they both have.                                               *)
(***************************************************************************)
EXTENDS Integers, Sequences, TLC

CONSTANTS p1, p2, p3, nil

VARIABLES
  on,      \* the component the behaviour is of
  tr, wire, sent, pc, loc, d, frames, srb, ent, chain, age, rxmt, nextrxt,
  sol, flist, got, root, table, queue, rip, free, nrpc, tagmask, rpc, series,
  pos, flush, err, srv, hungup, nreq, nflush, notes, unled, unflushed, drv,
  oq, ntx, td, tdh, tdt, ntq, hwtd, calls, tlock, rd, rdh, rdt, lrdh, rdfree,
  hwrd, nrx, pool, held, im, icr, rim, state, flag, ci, ctab, ast, sst, disk,
  isr, portm, active, serial, usectors, mediachange, req, buf, nplug, late,
  gen, ngen, ref, unit, raw, medium, attention, nmedia, nid, ctl, ch, op,
  done, eaten, dead, inuse, quad, headers, incall, rq, lk, plock, ht, at,
  want, fd, pkt, moved, stray, raced, bound, lifc, link, self, routes, nets,
  allnodes, filter, multi, join, connecting, reader, arg, unbinding, nbind,
  made, stolen, early, type, prom, bridge, headersonly, bits, nmaddr, open,
  nprom, nall, known, hwprom, mta, flk, nlk, asked, ds, inq, ctlq, outq,
  nctl, rcvd, lost, mixed, opens, enabled, holder, iq, iqopen, istage, rts,
  oqstate, starve, ostage, thr, tint, rbr, line, linects, cts, modem, xonoff,
  blocked, ctsbackoff, hup, dohup, drain, nout, nin, nopen, dropped, read,
  missed, deaf, stuck, hoa, south, seq, nul, dlsusp, ulsusp, dlpending,
  dlbuffered, ulbuffered, rx, hand, sentul, handed, stale

vars == <<on, tr, wire, sent, pc, loc, d, frames, srb, ent, chain, age, rxmt,
          nextrxt, sol, flist, got, root, table, queue, rip, free, nrpc,
          tagmask, rpc, series, pos, flush, err, srv, hungup, nreq, nflush,
          notes, unled, unflushed, drv, oq, ntx, td, tdh, tdt, ntq, hwtd,
          calls, tlock, rd, rdh, rdt, lrdh, rdfree, hwrd, nrx, pool, held,
          im, icr, rim, state, flag, ci, ctab, ast, sst, disk, isr, portm,
          active, serial, usectors, mediachange, req, buf, nplug, late, gen,
          ngen, ref, unit, raw, medium, attention, nmedia, nid, ctl, ch, op,
          done, eaten, dead, inuse, quad, headers, incall, rq, lk, plock, ht,
          at, want, fd, pkt, moved, stray, raced, bound, lifc, link, self,
          routes, nets, allnodes, filter, multi, join, connecting, reader,
          arg, unbinding, nbind, made, stolen, early, type, prom, bridge,
          headersonly, bits, nmaddr, open, nprom, nall, known, hwprom, mta,
          flk, nlk, asked, ds, inq, ctlq, outq, nctl, rcvd, lost, mixed,
          opens, enabled, holder, iq, iqopen, istage, rts, oqstate, starve,
          ostage, thr, tint, rbr, line, linects, cts, modem, xonoff, blocked,
          ctsbackoff, hup, dohup, drain, nout, nin, nopen, dropped, read,
          missed, deaf, stuck, hoa, south, seq, nul, dlsusp, ulsusp,
          dlpending, dlbuffered, ulbuffered, rx, hand, sentul, handed, stale>>

(* Who makes the first, the second, the third 9P request.                  *)
MntCallers == <<{p1}, {p1, p2}, {p1, p2}>>
Address(net, bcast, groups, scope) == [net |-> net, bcast |-> bcast, multi |-> groups, scope |-> scope]
Addr4 == "a4" :> Address("n4", <<"b4", "n4", "b4", "n4", "255">>, <<>>, "v4")
Addr6 ==
  "l6" :> Address("nl", <<>>, <<"all", "sl">>, "link") @@ "g6" :> Address("ng", <<>>, <<"all", "sl">>, "global")
    @@ "h6" :> Address("ng", <<>>, <<"all", "sh">>, "global")
SslAlg(digest, cipher, len) == [dig |-> digest, enc |-> cipher, blk |-> len]
SslAlgs1 ==
  {SslAlg(2, "cbc", 2), SslAlg(1, "cbc", 2), SslAlg(0, "ecb", 2), SslAlg(0, "rc4", 1), SslAlg(2, nil, 1)}
SslAlgs2 == {SslAlg(1, nil, 1), SslAlg(1, "cbc", 2)}
SslDoes1 == "w" :> {"open1", "write", "bwrite", "noted"} @@ "r" :> {"open2", "read", "alg"}
SslDoes2 ==
  "w" :> {"clone", "write", "fd", "secret", "alg", "close"}
    @@ "r" :> {"clone", "open2", "read", "fd", "secret", "alg", "close"}
Drivers == {"igbe", "82563", "82598", "8169", "82557", "8139"}

(* Two ends of a TLS connection: the first has a reader and a writer.      *)
TlsProc == {<<1, 1>>, <<1, 2>>, <<2, 1>>}
TlsReads == {"data", "handshake", "openhand", "closehand"}
TlsWrites == {"secret", "changecipher", "opened", "app", "hand"}
TlsDoes ==
  <<1, 1>> :> TlsReads @@ <<1, 2>> :> TlsWrites \cup {"fatal", "close"}
    @@ <<2, 1>> :> TlsReads \cup TlsWrites \cup {"tlsclose"}

ArpHash(ip) == IF ip = "b6" THEN 1 ELSE 0

(* Packets, with the ways they are cut into fragments.                     *)
Packet(v, id, len, df, paths) == [v |-> v, id |-> id, len |-> len, df |-> df, paths |-> paths]
Packets4 ==
  {Packet(4, 1, 4, FALSE, {<<2, 1>>, <<2>>}), Packet(4, 2, 2, FALSE, {<<1>>, <<4>>}),
   Packet(4, 1, 3, TRUE, {<<2>>, <<3>>}), Packet(4, 3, 2, FALSE, {<<1>>})}
Packets6 == {Packet(6, 1, 3, FALSE, {<<1>>}), Packet(6, 2, 2, FALSE, {<<1>>})}

RouteH(x) == (x % 4) \div 2
Ranges6 == {<<0, 7>>, <<0, 3>>, <<2, 3>>, <<6, 7>>}
Ranges4 == Ranges6 \cup {<<4, 7>>, <<0, 1>>, <<2, 2>>, <<3, 3>>}

Tls == INSTANCE Tls WITH
  Proc <- TlsProc, Does <- TlsDoes, MaxWrites <- <<1, 0>>, MaxSecret <- 1
Errors == INSTANCE Aoe WITH
  Proc <- {p1, p2}, Offs <- {0, 10}, Length <- 1, Maxframes <- 2,
  Maxbcnt <- 1, Dbcnt <- 1, MaxTag <- 6, May <- {"ata", "timeout", "failio"}
Frames == INSTANCE Aoe WITH
  Proc <- {p1, p2}, Offs <- {0, 10}, Length <- 2, Maxframes <- 2,
  Maxbcnt <- 1, Dbcnt <- 1, MaxTag <- 8, May <- {}
Arp == INSTANCE Arp WITH
  V4 <- {"a4"}, V6 <- {"a6", "b6"}, hash <- ArpHash, NCACHE <- 2,
  Multi <- {}, Solicit <- 2, Uchar <- 4, MaxHold <- 2
Multicasts == INSTANCE Arp WITH
  V4 <- {"a4"}, V6 <- {"a6", "m6"}, hash <- ArpHash, NCACHE <- 2,
  Multi <- {"m6"}, Solicit <- 2, Uchar <- 4, MaxHold <- 2
Frag4 == INSTANCE Frag WITH
  Packets <- Packets4, NFrag <- 2
Frag6 == INSTANCE Frag WITH
  Packets <- Packets6, NFrag <- 2
Route4 == INSTANCE Route WITH
  Versions <- {4}, Addrs <- 0..7, H <- RouteH, Ranges <- Ranges4,
  Local <- {}, Gates <- {1}, MaxRef <- 2, MaxRoutes <- 8
Route6 == INSTANCE Route WITH
  Versions <- {6}, Addrs <- 0..7, H <- RouteH, Ranges <- Ranges6,
  Local <- {<<0, 7>>, <<2, 3>>}, Gates <- {1, 2}, MaxRef <- 2, MaxRoutes <- 4
Mnt == INSTANCE Mnt WITH
  Proc <- {p1, p2}, MaxSeries <- 2, Callers <- MntCallers, NRpc <- 6,
  sharedtags <- TRUE, MaxNotes <- 1, May <- {"sleep", "Rerror", "version"}
Notes == INSTANCE Mnt WITH
  Proc <- {p1, p2}, MaxSeries <- 1, Callers <- MntCallers, NRpc <- 6,
  sharedtags <- TRUE, MaxNotes <- 2,
  May <- {"sleep", "write", "read", "hangup"}
Sends == INSTANCE Ether WITH
  Drivers <- Drivers, Ntd <- 4, Nrd <- 4, Nrb <- 5, Batch <- 2, MaxTx <- 4,
  MaxRx <- 0
Receives == INSTANCE Ether WITH
  Drivers <- Drivers, Ntd <- 4, Nrd <- 4, Nrb <- 5, Batch <- 2, MaxTx <- 0,
  MaxRx <- 4
Disk == INSTANCE Ahci WITH
  Proc <- {p1}, K <- "satakproc", Ops <- {"rw"}, Atapi <- FALSE, Blocks <- 2,
  MaxTry <- 2, MaxReq <- 1, MaxPlug <- 1
Atapi == INSTANCE Ahci WITH
  Proc <- {p1, p2}, K <- "satakproc", Ops <- {"rw"}, Atapi <- TRUE,
  Blocks <- 1, MaxTry <- 1, MaxReq <- 2, MaxPlug <- 0
Parts == INSTANCE Sd WITH
  Proc <- {p1}, Names <- {"a"}, SDnpart <- 2, NPart <- 2, Removable <- TRUE,
  MaxId <- 3, MaxMedia <- 2, MaxVers <- 3, MaxRef <- 2, MaxGen <- 1
Units == INSTANCE Sd WITH
  Proc <- {p1}, Names <- {"a"}, SDnpart <- 2, NPart <- 2, Removable <- TRUE,
  MaxId <- 2, MaxMedia <- 1, MaxVers <- 2, MaxRef <- 2, MaxGen <- 2
Users == INSTANCE Sd WITH
  Proc <- {p1, p2}, Names <- {}, SDnpart <- 2, NPart <- 2, Removable <- TRUE,
  MaxId <- 2, MaxMedia <- 2, MaxVers <- 0, MaxRef <- 2, MaxGen <- 1
Calls == INSTANCE Conv WITH
  Proc <- {p1, p2}, NConv <- 2, Ports <- {7}, Ephemeral <- {},
  Does <- {"clone", "announce", "listen"}, Maxincall <- 1, Remotes <- {"r1"},
  Qlimit <- 1, MaxHt <- 2
LocalPorts == INSTANCE Conv WITH
  Proc <- {p1, p2}, NConv <- 2, Ports <- {0, 7}, Ephemeral <- {8},
  Does <- {"clone", "connect", "open"}, Maxincall <- 1, Remotes <- {"r1"},
  Qlimit <- 1, MaxHt <- 2
Binds == INSTANCE Conv WITH
  Proc <- {p1, p2}, NConv <- 2, Ports <- {7}, Ephemeral <- {},
  Does <- {"clone", "connect", "bind", "advise"}, Maxincall <- 1,
  Remotes <- {"r1"}, Qlimit <- 1, MaxHt <- 2
Joins == INSTANCE Ipifc WITH
  Ifcs <- {1, 2}, Ips <- {"a4"}, Info <- Addr4, Groups <- {"g"},
  Convs <- {1, 2}, Readers <- {}, MaxBind <- 2
Media == INSTANCE Ipifc WITH
  Ifcs <- {1}, Ips <- {"l6", "g6", "h6"}, Info <- Addr6, Groups <- {"g"},
  Convs <- {}, Readers <- {"etherread4", "recvarpproc", "etherread6"},
  MaxBind <- 2
Filters == INSTANCE Netif WITH
  Proc <- {p1, p2}, nfile <- 2, Types <- {1}, Maddrs <- {1, 2},
  Hash <- <<1, 1>>, Does <- {"open", "multi"}
Netfiles == INSTANCE Netif WITH
  Proc <- {p1, p2}, nfile <- 2, Types <- {-1, 1}, Maddrs <- {1},
  Hash <- <<1>>, Does <- {"connect", "prom", "flags"}
Records == INSTANCE Ssl WITH
  Proc <- {"w", "r"}, Does <- SslDoes1, Hi <- 10, Lo <- 6, Algs <- SslAlgs1,
  Set <- TRUE, Sizes <- {0, 1, 9}, MaxSend <- 10, MaxRec <- 2, MaxCtl <- 1
Sslctl == INSTANCE Ssl WITH
  Proc <- {"w", "r"}, Does <- SslDoes2, Hi <- 10, Lo <- 6, Algs <- SslAlgs2,
  Set <- FALSE, Sizes <- {1}, MaxSend <- 1, MaxRec <- 3, MaxCtl <- 4
Xon == INSTANCE Uart WITH
  Proc <- {p1}, Msgs <- {"x1", "b"}, Chars <- {"CTLS", "CTLQ"}, Limit <- 2,
  Stagesize <- 2, MaxOut <- 2, MaxIn <- 2, MaxOpen <- 1
Modem == INSTANCE Uart WITH
  Proc <- {p1}, Msgs <- {"m1", "m0"}, Chars <- {}, Limit <- 2,
  Stagesize <- 2, MaxOut <- 2, MaxIn <- 0, MaxOpen <- 2
Linein == INSTANCE Uart WITH
  Proc <- {p1, p2}, Msgs <- {"r1"}, Chars <- {"data"}, Limit <- 2,
  Stagesize <- 2, MaxOut <- 0, MaxIn <- 4, MaxOpen <- 2
Drains == INSTANCE Uart WITH
  Proc <- {p1, p2}, Msgs <- {"f", "h", "c1"}, Chars <- {"data"}, Limit <- 2,
  Stagesize <- 2, MaxOut <- 2, MaxIn <- 0, MaxOpen <- 2
Downlink == INSTANCE Gre WITH
  Nring <- 2, MaxDl <- 3, MaxUl <- 0, MaxSouth <- 1
Handover == INSTANCE Gre WITH
  Nring <- 2, MaxDl <- 2, MaxUl <- 0, MaxSouth <- 2
Uplink == INSTANCE Gre WITH
  Nring <- 2, MaxDl <- 1, MaxUl <- 3, MaxSouth <- 2
-----------------------------------------------------------------------------
(* The variables that a component does not have.                           *)
tlsRest == <<d, frames, srb, ent, chain, age, rxmt, nextrxt, sol, flist, got,
             root, table, queue, rip, free, nrpc, tagmask, rpc, series, pos,
             flush, err, srv, hungup, nreq, nflush, notes, unled, unflushed,
             drv, oq, ntx, td, tdh, tdt, ntq, hwtd, calls, tlock, rd, rdh,
             rdt, lrdh, rdfree, hwrd, nrx, pool, held, im, icr, rim, state,
             flag, ci, ctab, ast, sst, disk, isr, portm, active, serial,
             usectors, mediachange, req, buf, nplug, late, gen, ngen, ref,
             unit, raw, medium, attention, nmedia, nid, ctl, ch, op, done,
             eaten, dead, inuse, quad, headers, incall, rq, lk, plock, ht,
             at, want, fd, pkt, moved, stray, raced, bound, lifc, link, self,
             routes, nets, allnodes, filter, multi, join, connecting, reader,
             arg, unbinding, nbind, made, stolen, early, type, prom, bridge,
             headersonly, bits, nmaddr, open, nprom, nall, known, hwprom,
             mta, flk, nlk, asked, ds, inq, ctlq, outq, nctl, rcvd, lost,
             mixed, opens, enabled, holder, iq, iqopen, istage, rts, oqstate,
             starve, ostage, thr, tint, rbr, line, linects, cts, modem,
             xonoff, blocked, ctsbackoff, hup, dohup, drain, nout, nin,
             nopen, dropped, read, missed, deaf, stuck, hoa, south, seq, nul,
             dlsusp, ulsusp, dlpending, dlbuffered, ulbuffered, rx, hand,
             sentul, handed, stale>>
errorsRest == <<tr, wire, pc, loc, ent, chain, age, rxmt, nextrxt, sol,
                flist, got, root, table, queue, rip, free, nrpc, tagmask,
                rpc, series, pos, flush, err, srv, hungup, nreq, nflush,
                notes, unled, unflushed, drv, oq, ntx, td, tdh, tdt, ntq,
                hwtd, calls, tlock, rd, rdh, rdt, lrdh, rdfree, hwrd, nrx,
                pool, held, im, icr, rim, state, flag, ci, ctab, ast, sst,
                disk, isr, portm, active, serial, usectors, mediachange, req,
                buf, nplug, late, gen, ngen, ref, unit, raw, medium,
                attention, nmedia, nid, ctl, ch, op, done, eaten, dead,
                inuse, quad, headers, incall, rq, lk, plock, ht, at, want,
                fd, pkt, moved, stray, raced, bound, lifc, link, self,
                routes, nets, allnodes, filter, multi, join, connecting,
                reader, arg, unbinding, nbind, made, stolen, early, type,
                prom, bridge, headersonly, bits, nmaddr, open, nprom, nall,
                known, hwprom, mta, flk, nlk, asked, ds, inq, ctlq, outq,
                nctl, rcvd, lost, mixed, opens, enabled, holder, iq, iqopen,
                istage, rts, oqstate, starve, ostage, thr, tint, rbr, line,
                linects, cts, modem, xonoff, blocked, ctsbackoff, hup, dohup,
                drain, nout, nin, nopen, dropped, read, missed, deaf, stuck,
                hoa, south, seq, nul, dlsusp, ulsusp, dlpending, dlbuffered,
                ulbuffered, rx, hand, sentul, handed, stale>>
frames2Rest == <<tr, wire, pc, loc, ent, chain, age, rxmt, nextrxt, sol,
                 flist, got, root, table, queue, rip, free, nrpc, tagmask,
                 rpc, series, pos, flush, err, srv, hungup, nreq, nflush,
                 notes, unled, unflushed, drv, oq, ntx, td, tdh, tdt, ntq,
                 hwtd, calls, tlock, rd, rdh, rdt, lrdh, rdfree, hwrd, nrx,
                 pool, held, im, icr, rim, state, flag, ci, ctab, ast, sst,
                 disk, isr, portm, active, serial, usectors, mediachange,
                 req, buf, nplug, late, gen, ngen, ref, unit, raw, medium,
                 attention, nmedia, nid, ctl, ch, op, done, eaten, dead,
                 inuse, quad, headers, incall, rq, lk, plock, ht, at, want,
                 fd, pkt, moved, stray, raced, bound, lifc, link, self,
                 routes, nets, allnodes, filter, multi, join, connecting,
                 reader, arg, unbinding, nbind, made, stolen, early, type,
                 prom, bridge, headersonly, bits, nmaddr, open, nprom, nall,
                 known, hwprom, mta, flk, nlk, asked, ds, inq, ctlq, outq,
                 nctl, rcvd, lost, mixed, opens, enabled, holder, iq, iqopen,
                 istage, rts, oqstate, starve, ostage, thr, tint, rbr, line,
                 linects, cts, modem, xonoff, blocked, ctsbackoff, hup,
                 dohup, drain, nout, nin, nopen, dropped, read, missed, deaf,
                 stuck, hoa, south, seq, nul, dlsusp, ulsusp, dlpending,
                 dlbuffered, ulbuffered, rx, hand, sentul, handed, stale>>
arpRest == <<tr, wire, sent, pc, loc, d, frames, srb, flist, got, root,
             table, queue, rip, free, nrpc, tagmask, rpc, series, pos, flush,
             err, srv, hungup, nreq, nflush, notes, unled, unflushed, drv,
             oq, ntx, td, tdh, tdt, ntq, hwtd, calls, tlock, rd, rdh, rdt,
             lrdh, rdfree, hwrd, nrx, pool, held, im, icr, rim, state, flag,
             ci, ctab, ast, sst, disk, isr, portm, active, serial, usectors,
             mediachange, req, buf, nplug, late, gen, ngen, ref, unit, raw,
             medium, attention, nmedia, nid, ctl, ch, op, done, eaten, dead,
             inuse, quad, headers, incall, rq, lk, plock, ht, at, want, fd,
             pkt, moved, stray, raced, bound, lifc, link, self, routes, nets,
             allnodes, filter, multi, join, connecting, reader, arg,
             unbinding, nbind, made, stolen, early, type, prom, bridge,
             headersonly, bits, nmaddr, open, nprom, nall, known, hwprom,
             mta, flk, nlk, asked, ds, inq, ctlq, outq, nctl, rcvd, lost,
             mixed, opens, enabled, holder, iq, iqopen, istage, rts, oqstate,
             starve, ostage, thr, tint, rbr, line, linects, cts, modem,
             xonoff, blocked, ctsbackoff, hup, dohup, drain, nout, nin,
             nopen, dropped, read, missed, deaf, stuck, hoa, south, seq, nul,
             dlsusp, ulsusp, dlpending, dlbuffered, ulbuffered, rx, hand,
             sentul, handed, stale>>
multicastsRest == <<tr, wire, sent, pc, loc, d, frames, srb, flist, got,
                    root, table, queue, rip, free, nrpc, tagmask, rpc,
                    series, pos, flush, err, srv, hungup, nreq, nflush,
                    notes, unled, unflushed, drv, oq, ntx, td, tdh, tdt, ntq,
                    hwtd, calls, tlock, rd, rdh, rdt, lrdh, rdfree, hwrd,
                    nrx, pool, held, im, icr, rim, state, flag, ci, ctab,
                    ast, sst, disk, isr, portm, active, serial, usectors,
                    mediachange, req, buf, nplug, late, gen, ngen, ref, unit,
                    raw, medium, attention, nmedia, nid, ctl, ch, op, done,
                    eaten, dead, inuse, quad, headers, incall, rq, lk, plock,
                    ht, at, want, fd, pkt, moved, stray, raced, bound, lifc,
                    link, self, routes, nets, allnodes, filter, multi, join,
                    connecting, reader, arg, unbinding, nbind, made, stolen,
                    early, type, prom, bridge, headersonly, bits, nmaddr,
                    open, nprom, nall, known, hwprom, mta, flk, nlk, asked,
                    ds, inq, ctlq, outq, nctl, rcvd, lost, mixed, opens,
                    enabled, holder, iq, iqopen, istage, rts, oqstate,
                    starve, ostage, thr, tint, rbr, line, linects, cts,
                    modem, xonoff, blocked, ctsbackoff, hup, dohup, drain,
                    nout, nin, nopen, dropped, read, missed, deaf, stuck,
                    hoa, south, seq, nul, dlsusp, ulsusp, dlpending,
                    dlbuffered, ulbuffered, rx, hand, sentul, handed, stale>>
frag4Rest == <<tr, wire, sent, pc, loc, d, frames, srb, ent, chain, age,
               rxmt, nextrxt, sol, root, table, queue, rip, free, nrpc,
               tagmask, rpc, series, pos, flush, err, srv, hungup, nreq,
               nflush, notes, unled, unflushed, drv, oq, ntx, td, tdh, tdt,
               ntq, hwtd, calls, tlock, rd, rdh, rdt, lrdh, rdfree, hwrd,
               nrx, pool, held, im, icr, rim, state, flag, ci, ctab, ast,
               sst, disk, isr, portm, active, serial, usectors, mediachange,
               req, buf, nplug, late, gen, ngen, ref, unit, raw, medium,
               attention, nmedia, nid, ctl, ch, op, done, eaten, dead, inuse,
               quad, headers, incall, rq, lk, plock, ht, at, want, fd, pkt,
               moved, stray, raced, bound, lifc, link, self, routes, nets,
               allnodes, filter, multi, join, connecting, reader, arg,
               unbinding, nbind, made, stolen, early, type, prom, bridge,
               headersonly, bits, nmaddr, open, nprom, nall, known, hwprom,
               mta, flk, nlk, asked, ds, inq, ctlq, outq, nctl, rcvd, lost,
               mixed, opens, enabled, holder, iq, iqopen, istage, rts,
               oqstate, starve, ostage, thr, tint, rbr, line, linects, cts,
               modem, xonoff, blocked, ctsbackoff, hup, dohup, drain, nout,
               nin, nopen, dropped, read, missed, deaf, stuck, hoa, south,
               seq, nul, dlsusp, ulsusp, dlpending, dlbuffered, ulbuffered,
               rx, hand, sentul, handed, stale>>
frag6Rest == <<tr, wire, sent, pc, loc, d, frames, srb, ent, chain, age,
               rxmt, nextrxt, sol, root, table, queue, rip, free, nrpc,
               tagmask, rpc, series, pos, flush, err, srv, hungup, nreq,
               nflush, notes, unled, unflushed, drv, oq, ntx, td, tdh, tdt,
               ntq, hwtd, calls, tlock, rd, rdh, rdt, lrdh, rdfree, hwrd,
               nrx, pool, held, im, icr, rim, state, flag, ci, ctab, ast,
               sst, disk, isr, portm, active, serial, usectors, mediachange,
               req, buf, nplug, late, gen, ngen, ref, unit, raw, medium,
               attention, nmedia, nid, ctl, ch, op, done, eaten, dead, inuse,
               quad, headers, incall, rq, lk, plock, ht, at, want, fd, pkt,
               moved, stray, raced, bound, lifc, link, self, routes, nets,
               allnodes, filter, multi, join, connecting, reader, arg,
               unbinding, nbind, made, stolen, early, type, prom, bridge,
               headersonly, bits, nmaddr, open, nprom, nall, known, hwprom,
               mta, flk, nlk, asked, ds, inq, ctlq, outq, nctl, rcvd, lost,
               mixed, opens, enabled, holder, iq, iqopen, istage, rts,
               oqstate, starve, ostage, thr, tint, rbr, line, linects, cts,
               modem, xonoff, blocked, ctsbackoff, hup, dohup, drain, nout,
               nin, nopen, dropped, read, missed, deaf, stuck, hoa, south,
               seq, nul, dlsusp, ulsusp, dlpending, dlbuffered, ulbuffered,
               rx, hand, sentul, handed, stale>>
route4Rest == <<tr, wire, sent, pc, loc, d, frames, srb, ent, chain, age,
                rxmt, nextrxt, sol, flist, got, queue, rip, free, nrpc,
                tagmask, rpc, series, pos, flush, err, srv, hungup, nreq,
                nflush, notes, unled, unflushed, drv, oq, ntx, td, tdh, tdt,
                ntq, hwtd, calls, tlock, rd, rdh, rdt, lrdh, rdfree, hwrd,
                nrx, pool, held, im, icr, rim, state, flag, ci, ctab, ast,
                sst, disk, isr, portm, active, serial, usectors, mediachange,
                req, buf, nplug, late, gen, ngen, ref, unit, raw, medium,
                attention, nmedia, nid, ctl, ch, op, done, eaten, dead,
                inuse, quad, headers, incall, rq, lk, plock, ht, at, want,
                fd, pkt, moved, stray, raced, bound, lifc, link, self,
                routes, nets, allnodes, filter, multi, join, connecting,
                reader, arg, unbinding, nbind, made, stolen, early, type,
                prom, bridge, headersonly, bits, nmaddr, open, nprom, nall,
                known, hwprom, mta, flk, nlk, asked, ds, inq, ctlq, outq,
                nctl, rcvd, lost, mixed, opens, enabled, holder, iq, iqopen,
                istage, rts, oqstate, starve, ostage, thr, tint, rbr, line,
                linects, cts, modem, xonoff, blocked, ctsbackoff, hup, dohup,
                drain, nout, nin, nopen, dropped, read, missed, deaf, stuck,
                hoa, south, seq, nul, dlsusp, ulsusp, dlpending, dlbuffered,
                ulbuffered, rx, hand, sentul, handed, stale>>
route6Rest == <<tr, wire, sent, pc, loc, d, frames, srb, ent, chain, age,
                rxmt, nextrxt, sol, flist, got, queue, rip, free, nrpc,
                tagmask, rpc, series, pos, flush, err, srv, hungup, nreq,
                nflush, notes, unled, unflushed, drv, oq, ntx, td, tdh, tdt,
                ntq, hwtd, calls, tlock, rd, rdh, rdt, lrdh, rdfree, hwrd,
                nrx, pool, held, im, icr, rim, state, flag, ci, ctab, ast,
                sst, disk, isr, portm, active, serial, usectors, mediachange,
                req, buf, nplug, late, gen, ngen, ref, unit, raw, medium,
                attention, nmedia, nid, ctl, ch, op, done, eaten, dead,
                inuse, quad, headers, incall, rq, lk, plock, ht, at, want,
                fd, pkt, moved, stray, raced, bound, lifc, link, self,
                routes, nets, allnodes, filter, multi, join, connecting,
                reader, arg, unbinding, nbind, made, stolen, early, type,
                prom, bridge, headersonly, bits, nmaddr, open, nprom, nall,
                known, hwprom, mta, flk, nlk, asked, ds, inq, ctlq, outq,
                nctl, rcvd, lost, mixed, opens, enabled, holder, iq, iqopen,
                istage, rts, oqstate, starve, ostage, thr, tint, rbr, line,
                linects, cts, modem, xonoff, blocked, ctsbackoff, hup, dohup,
                drain, nout, nin, nopen, dropped, read, missed, deaf, stuck,
                hoa, south, seq, nul, dlsusp, ulsusp, dlpending, dlbuffered,
                ulbuffered, rx, hand, sentul, handed, stale>>
mntRest == <<tr, sent, loc, d, frames, srb, ent, chain, age, rxmt, nextrxt,
             sol, flist, got, root, table, drv, oq, ntx, td, tdh, tdt, ntq,
             hwtd, calls, tlock, rd, rdh, rdt, lrdh, rdfree, hwrd, nrx, pool,
             held, im, icr, rim, state, flag, ci, ctab, ast, sst, disk, isr,
             portm, active, serial, usectors, mediachange, req, buf, nplug,
             late, gen, ngen, ref, unit, raw, medium, attention, nmedia, nid,
             ctl, ch, op, done, eaten, dead, inuse, quad, headers, incall,
             rq, lk, plock, ht, at, want, fd, pkt, moved, stray, raced,
             bound, lifc, link, self, routes, nets, allnodes, filter, multi,
             join, connecting, reader, arg, unbinding, nbind, made, stolen,
             early, type, prom, bridge, headersonly, bits, nmaddr, open,
             nprom, nall, known, hwprom, mta, flk, nlk, asked, ds, inq, ctlq,
             outq, nctl, rcvd, lost, mixed, opens, enabled, holder, iq,
             iqopen, istage, rts, oqstate, starve, ostage, thr, tint, rbr,
             line, linects, cts, modem, xonoff, blocked, ctsbackoff, hup,
             dohup, drain, nout, nin, nopen, dropped, read, missed, deaf,
             stuck, hoa, south, seq, nul, dlsusp, ulsusp, dlpending,
             dlbuffered, ulbuffered, rx, hand, sentul, handed, stale>>
notdRest == <<tr, sent, loc, d, frames, srb, ent, chain, age, rxmt, nextrxt,
              sol, flist, got, root, table, drv, oq, ntx, td, tdh, tdt, ntq,
              hwtd, calls, tlock, rd, rdh, rdt, lrdh, rdfree, hwrd, nrx,
              pool, held, im, icr, rim, state, flag, ci, ctab, ast, sst,
              disk, isr, portm, active, serial, usectors, mediachange, req,
              buf, nplug, late, gen, ngen, ref, unit, raw, medium, attention,
              nmedia, nid, ctl, ch, op, done, eaten, dead, inuse, quad,
              headers, incall, rq, lk, plock, ht, at, want, fd, pkt, moved,
              stray, raced, bound, lifc, link, self, routes, nets, allnodes,
              filter, multi, join, connecting, reader, arg, unbinding, nbind,
              made, stolen, early, type, prom, bridge, headersonly, bits,
              nmaddr, open, nprom, nall, known, hwprom, mta, flk, nlk, asked,
              ds, inq, ctlq, outq, nctl, rcvd, lost, mixed, opens, enabled,
              holder, iq, iqopen, istage, rts, oqstate, starve, ostage, thr,
              tint, rbr, line, linects, cts, modem, xonoff, blocked,
              ctsbackoff, hup, dohup, drain, nout, nin, nopen, dropped, read,
              missed, deaf, stuck, hoa, south, seq, nul, dlsusp, ulsusp,
              dlpending, dlbuffered, ulbuffered, rx, hand, sentul, handed,
              stale>>
sendsRest == <<tr, sent, pc, loc, d, frames, srb, ent, chain, age, rxmt,
               nextrxt, sol, flist, root, table, queue, rip, free, nrpc,
               tagmask, series, pos, flush, err, srv, hungup, nreq, nflush,
               notes, unled, unflushed, state, flag, ci, ctab, ast, sst,
               disk, isr, portm, active, serial, usectors, mediachange, req,
               buf, nplug, late, gen, ngen, ref, unit, raw, medium,
               attention, nmedia, nid, ctl, ch, op, done, eaten, dead, inuse,
               quad, headers, incall, rq, lk, plock, ht, at, want, fd, pkt,
               moved, stray, raced, bound, lifc, link, self, routes, nets,
               allnodes, filter, multi, join, connecting, reader, arg,
               unbinding, nbind, made, stolen, early, type, prom, bridge,
               headersonly, bits, nmaddr, open, nprom, nall, known, hwprom,
               mta, flk, nlk, asked, ds, inq, ctlq, outq, nctl, rcvd, lost,
               mixed, opens, enabled, holder, iq, iqopen, istage, rts,
               oqstate, starve, ostage, thr, tint, rbr, line, linects, cts,
               modem, xonoff, blocked, ctsbackoff, hup, dohup, drain, nout,
               nin, nopen, dropped, read, missed, deaf, stuck, hoa, south,
               seq, nul, dlsusp, ulsusp, dlpending, dlbuffered, ulbuffered,
               rx, hand, sentul, handed, stale>>
receivesRest == <<tr, sent, pc, loc, d, frames, srb, ent, chain, age, rxmt,
                  nextrxt, sol, flist, root, table, queue, rip, free, nrpc,
                  tagmask, series, pos, flush, err, srv, hungup, nreq,
                  nflush, notes, unled, unflushed, state, flag, ci, ctab,
                  ast, sst, disk, isr, portm, active, serial, usectors,
                  mediachange, req, buf, nplug, late, gen, ngen, ref, unit,
                  raw, medium, attention, nmedia, nid, ctl, ch, op, done,
                  eaten, dead, inuse, quad, headers, incall, rq, lk, plock,
                  ht, at, want, fd, pkt, moved, stray, raced, bound, lifc,
                  link, self, routes, nets, allnodes, filter, multi, join,
                  connecting, reader, arg, unbinding, nbind, made, stolen,
                  early, type, prom, bridge, headersonly, bits, nmaddr, open,
                  nprom, nall, known, hwprom, mta, flk, nlk, asked, ds, inq,
                  ctlq, outq, nctl, rcvd, lost, mixed, opens, enabled,
                  holder, iq, iqopen, istage, rts, oqstate, starve, ostage,
                  thr, tint, rbr, line, linects, cts, modem, xonoff, blocked,
                  ctsbackoff, hup, dohup, drain, nout, nin, nopen, dropped,
                  read, missed, deaf, stuck, hoa, south, seq, nul, dlsusp,
                  ulsusp, dlpending, dlbuffered, ulbuffered, rx, hand,
                  sentul, handed, stale>>
diskRest == <<tr, wire, sent, loc, d, frames, srb, ent, chain, age, rxmt,
              nextrxt, sol, flist, got, root, table, queue, rip, free, nrpc,
              tagmask, rpc, series, pos, flush, srv, hungup, nflush, notes,
              unled, unflushed, drv, oq, ntx, td, tdh, tdt, ntq, hwtd, calls,
              tlock, rd, rdh, rdt, lrdh, rdfree, hwrd, nrx, pool, held, im,
              icr, rim, gen, ngen, ref, unit, raw, medium, attention, nmedia,
              nid, ctl, ch, op, done, eaten, dead, inuse, quad, headers,
              incall, rq, lk, plock, ht, at, want, fd, pkt, moved, stray,
              raced, bound, lifc, link, self, routes, nets, allnodes, filter,
              multi, join, connecting, reader, arg, unbinding, nbind, made,
              stolen, early, type, prom, bridge, headersonly, bits, nmaddr,
              open, nprom, nall, known, hwprom, mta, flk, nlk, asked, ds,
              inq, ctlq, outq, nctl, rcvd, lost, mixed, opens, enabled,
              holder, iq, iqopen, istage, rts, oqstate, starve, ostage, thr,
              tint, rbr, line, linects, cts, modem, xonoff, blocked,
              ctsbackoff, hup, dohup, drain, nout, nin, nopen, dropped, read,
              missed, deaf, stuck, hoa, south, seq, nul, dlsusp, ulsusp,
              dlpending, dlbuffered, ulbuffered, rx, hand, sentul, handed,
              stale>>
atapiRest == <<tr, wire, sent, loc, d, frames, srb, ent, chain, age, rxmt,
               nextrxt, sol, flist, got, root, table, queue, rip, free, nrpc,
               tagmask, rpc, series, pos, flush, srv, hungup, nflush, notes,
               unled, unflushed, drv, oq, ntx, td, tdh, tdt, ntq, hwtd,
               calls, tlock, rd, rdh, rdt, lrdh, rdfree, hwrd, nrx, pool,
               held, im, icr, rim, gen, ngen, ref, unit, raw, medium,
               attention, nmedia, nid, ctl, ch, op, done, eaten, dead, inuse,
               quad, headers, incall, rq, lk, plock, ht, at, want, fd, pkt,
               moved, stray, raced, bound, lifc, link, self, routes, nets,
               allnodes, filter, multi, join, connecting, reader, arg,
               unbinding, nbind, made, stolen, early, type, prom, bridge,
               headersonly, bits, nmaddr, open, nprom, nall, known, hwprom,
               mta, flk, nlk, asked, ds, inq, ctlq, outq, nctl, rcvd, lost,
               mixed, opens, enabled, holder, iq, iqopen, istage, rts,
               oqstate, starve, ostage, thr, tint, rbr, line, linects, cts,
               modem, xonoff, blocked, ctsbackoff, hup, dohup, drain, nout,
               nin, nopen, dropped, read, missed, deaf, stuck, hoa, south,
               seq, nul, dlsusp, ulsusp, dlpending, dlbuffered, ulbuffered,
               rx, hand, sentul, handed, stale>>
partsRest == <<tr, wire, sent, loc, d, frames, srb, ent, chain, age, rxmt,
               nextrxt, sol, flist, got, root, table, queue, rip, free, nrpc,
               tagmask, rpc, series, pos, flush, err, srv, hungup, nreq,
               nflush, notes, unled, unflushed, drv, oq, ntx, td, tdh, tdt,
               ntq, hwtd, calls, tlock, rd, rdh, rdt, lrdh, rdfree, hwrd,
               nrx, pool, held, im, icr, rim, state, flag, ci, ctab, ast,
               sst, disk, isr, portm, active, serial, usectors, mediachange,
               req, buf, nplug, late, inuse, quad, headers, incall, rq, lk,
               plock, ht, at, want, fd, pkt, moved, stray, raced, bound,
               lifc, link, self, routes, nets, allnodes, filter, multi, join,
               connecting, reader, arg, unbinding, nbind, made, stolen,
               early, type, prom, bridge, headersonly, bits, nmaddr, open,
               nprom, nall, known, hwprom, mta, flk, nlk, asked, ds, inq,
               ctlq, outq, nctl, rcvd, lost, mixed, opens, enabled, holder,
               iq, iqopen, istage, rts, oqstate, starve, ostage, thr, tint,
               rbr, line, linects, cts, modem, xonoff, blocked, ctsbackoff,
               hup, dohup, drain, nout, nin, nopen, dropped, read, missed,
               deaf, stuck, hoa, south, seq, nul, dlsusp, ulsusp, dlpending,
               dlbuffered, ulbuffered, rx, hand, sentul, handed, stale>>
unitsRest == <<tr, wire, sent, loc, d, frames, srb, ent, chain, age, rxmt,
               nextrxt, sol, flist, got, root, table, queue, rip, free, nrpc,
               tagmask, rpc, series, pos, flush, err, srv, hungup, nreq,
               nflush, notes, unled, unflushed, drv, oq, ntx, td, tdh, tdt,
               ntq, hwtd, calls, tlock, rd, rdh, rdt, lrdh, rdfree, hwrd,
               nrx, pool, held, im, icr, rim, state, flag, ci, ctab, ast,
               sst, disk, isr, portm, active, serial, usectors, mediachange,
               req, buf, nplug, late, inuse, quad, headers, incall, rq, lk,
               plock, ht, at, want, fd, pkt, moved, stray, raced, bound,
               lifc, link, self, routes, nets, allnodes, filter, multi, join,
               connecting, reader, arg, unbinding, nbind, made, stolen,
               early, type, prom, bridge, headersonly, bits, nmaddr, open,
               nprom, nall, known, hwprom, mta, flk, nlk, asked, ds, inq,
               ctlq, outq, nctl, rcvd, lost, mixed, opens, enabled, holder,
               iq, iqopen, istage, rts, oqstate, starve, ostage, thr, tint,
               rbr, line, linects, cts, modem, xonoff, blocked, ctsbackoff,
               hup, dohup, drain, nout, nin, nopen, dropped, read, missed,
               deaf, stuck, hoa, south, seq, nul, dlsusp, ulsusp, dlpending,
               dlbuffered, ulbuffered, rx, hand, sentul, handed, stale>>
usersRest == <<tr, wire, sent, loc, d, frames, srb, ent, chain, age, rxmt,
               nextrxt, sol, flist, got, root, table, queue, rip, free, nrpc,
               tagmask, rpc, series, pos, flush, err, srv, hungup, nreq,
               nflush, notes, unled, unflushed, drv, oq, ntx, td, tdh, tdt,
               ntq, hwtd, calls, tlock, rd, rdh, rdt, lrdh, rdfree, hwrd,
               nrx, pool, held, im, icr, rim, state, flag, ci, ctab, ast,
               sst, disk, isr, portm, active, serial, usectors, mediachange,
               req, buf, nplug, late, inuse, quad, headers, incall, rq, lk,
               plock, ht, at, want, fd, pkt, moved, stray, raced, bound,
               lifc, link, self, routes, nets, allnodes, filter, multi, join,
               connecting, reader, arg, unbinding, nbind, made, stolen,
               early, type, prom, bridge, headersonly, bits, nmaddr, open,
               nprom, nall, known, hwprom, mta, flk, nlk, asked, ds, inq,
               ctlq, outq, nctl, rcvd, lost, mixed, opens, enabled, holder,
               iq, iqopen, istage, rts, oqstate, starve, ostage, thr, tint,
               rbr, line, linects, cts, modem, xonoff, blocked, ctsbackoff,
               hup, dohup, drain, nout, nin, nopen, dropped, read, missed,
               deaf, stuck, hoa, south, seq, nul, dlsusp, ulsusp, dlpending,
               dlbuffered, ulbuffered, rx, hand, sentul, handed, stale>>
callsRest == <<tr, wire, sent, loc, d, frames, srb, ent, chain, age, rxmt,
               nextrxt, sol, flist, got, root, table, queue, rip, free, nrpc,
               tagmask, rpc, series, pos, flush, err, srv, hungup, nreq,
               nflush, notes, unled, unflushed, drv, oq, ntx, td, tdh, tdt,
               ntq, hwtd, calls, tlock, rd, rdh, rdt, lrdh, rdfree, hwrd,
               nrx, pool, held, im, icr, rim, flag, ci, ctab, ast, sst, disk,
               isr, portm, active, serial, usectors, mediachange, req, buf,
               nplug, late, gen, ngen, ref, unit, raw, medium, attention,
               nmedia, nid, ctl, ch, op, done, eaten, dead, bound, lifc,
               link, self, routes, nets, allnodes, filter, multi, join,
               connecting, reader, arg, unbinding, nbind, made, stolen,
               early, type, prom, bridge, headersonly, bits, nmaddr, open,
               nprom, nall, known, hwprom, mta, flk, nlk, asked, ds, inq,
               ctlq, outq, nctl, rcvd, lost, mixed, opens, enabled, holder,
               iq, iqopen, istage, rts, oqstate, starve, ostage, thr, tint,
               rbr, line, linects, cts, modem, xonoff, blocked, ctsbackoff,
               hup, dohup, drain, nout, nin, nopen, dropped, read, missed,
               deaf, stuck, hoa, south, seq, nul, dlsusp, ulsusp, dlpending,
               dlbuffered, ulbuffered, rx, hand, sentul, handed, stale>>
portsRest == <<tr, wire, sent, loc, d, frames, srb, ent, chain, age, rxmt,
               nextrxt, sol, flist, got, root, table, queue, rip, free, nrpc,
               tagmask, rpc, series, pos, flush, err, srv, hungup, nreq,
               nflush, notes, unled, unflushed, drv, oq, ntx, td, tdh, tdt,
               ntq, hwtd, calls, tlock, rd, rdh, rdt, lrdh, rdfree, hwrd,
               nrx, pool, held, im, icr, rim, flag, ci, ctab, ast, sst, disk,
               isr, portm, active, serial, usectors, mediachange, req, buf,
               nplug, late, gen, ngen, ref, unit, raw, medium, attention,
               nmedia, nid, ctl, ch, op, done, eaten, dead, bound, lifc,
               link, self, routes, nets, allnodes, filter, multi, join,
               connecting, reader, arg, unbinding, nbind, made, stolen,
               early, type, prom, bridge, headersonly, bits, nmaddr, open,
               nprom, nall, known, hwprom, mta, flk, nlk, asked, ds, inq,
               ctlq, outq, nctl, rcvd, lost, mixed, opens, enabled, holder,
               iq, iqopen, istage, rts, oqstate, starve, ostage, thr, tint,
               rbr, line, linects, cts, modem, xonoff, blocked, ctsbackoff,
               hup, dohup, drain, nout, nin, nopen, dropped, read, missed,
               deaf, stuck, hoa, south, seq, nul, dlsusp, ulsusp, dlpending,
               dlbuffered, ulbuffered, rx, hand, sentul, handed, stale>>
bindsRest == <<tr, wire, sent, loc, d, frames, srb, ent, chain, age, rxmt,
               nextrxt, sol, flist, got, root, table, queue, rip, free, nrpc,
               tagmask, rpc, series, pos, flush, err, srv, hungup, nreq,
               nflush, notes, unled, unflushed, drv, oq, ntx, td, tdh, tdt,
               ntq, hwtd, calls, tlock, rd, rdh, rdt, lrdh, rdfree, hwrd,
               nrx, pool, held, im, icr, rim, flag, ci, ctab, ast, sst, disk,
               isr, portm, active, serial, usectors, mediachange, req, buf,
               nplug, late, gen, ngen, ref, unit, raw, medium, attention,
               nmedia, nid, ctl, ch, op, done, eaten, dead, bound, lifc,
               link, self, routes, nets, allnodes, filter, multi, join,
               connecting, reader, arg, unbinding, nbind, made, stolen,
               early, type, prom, bridge, headersonly, bits, nmaddr, open,
               nprom, nall, known, hwprom, mta, flk, nlk, asked, ds, inq,
               ctlq, outq, nctl, rcvd, lost, mixed, opens, enabled, holder,
               iq, iqopen, istage, rts, oqstate, starve, ostage, thr, tint,
               rbr, line, linects, cts, modem, xonoff, blocked, ctsbackoff,
               hup, dohup, drain, nout, nin, nopen, dropped, read, missed,
               deaf, stuck, hoa, south, seq, nul, dlsusp, ulsusp, dlpending,
               dlbuffered, ulbuffered, rx, hand, sentul, handed, stale>>
joinsRest == <<tr, wire, sent, pc, loc, d, frames, srb, ent, chain, age,
               rxmt, nextrxt, sol, flist, got, root, table, queue, rip, free,
               nrpc, tagmask, rpc, series, pos, flush, err, srv, hungup,
               nreq, nflush, notes, unled, unflushed, drv, oq, ntx, td, tdh,
               tdt, ntq, hwtd, calls, tlock, rd, rdh, rdt, lrdh, rdfree,
               hwrd, nrx, pool, held, im, icr, rim, state, flag, ci, ctab,
               ast, sst, disk, isr, portm, active, serial, usectors,
               mediachange, req, buf, nplug, late, gen, ngen, ref, unit, raw,
               medium, attention, nmedia, nid, ctl, ch, op, done, eaten,
               dead, inuse, quad, headers, incall, rq, lk, plock, ht, at,
               want, fd, pkt, moved, stray, raced, type, prom, bridge,
               headersonly, bits, nmaddr, open, nprom, nall, known, hwprom,
               mta, flk, nlk, asked, ds, inq, ctlq, outq, nctl, rcvd, lost,
               mixed, opens, enabled, holder, iq, iqopen, istage, rts,
               oqstate, starve, ostage, thr, tint, rbr, line, linects, cts,
               modem, xonoff, blocked, ctsbackoff, hup, dohup, drain, nout,
               nin, nopen, dropped, read, missed, deaf, stuck, hoa, south,
               seq, nul, dlsusp, ulsusp, dlpending, dlbuffered, ulbuffered,
               rx, hand, sentul, handed, stale>>
mediaRest == <<tr, wire, sent, pc, loc, d, frames, srb, ent, chain, age,
               rxmt, nextrxt, sol, flist, got, root, table, queue, rip, free,
               nrpc, tagmask, rpc, series, pos, flush, err, srv, hungup,
               nreq, nflush, notes, unled, unflushed, drv, oq, ntx, td, tdh,
               tdt, ntq, hwtd, calls, tlock, rd, rdh, rdt, lrdh, rdfree,
               hwrd, nrx, pool, held, im, icr, rim, state, flag, ci, ctab,
               ast, sst, disk, isr, portm, active, serial, usectors,
               mediachange, req, buf, nplug, late, gen, ngen, ref, unit, raw,
               medium, attention, nmedia, nid, ctl, ch, op, done, eaten,
               dead, inuse, quad, headers, incall, rq, lk, plock, ht, at,
               want, fd, pkt, moved, stray, raced, type, prom, bridge,
               headersonly, bits, nmaddr, open, nprom, nall, known, hwprom,
               mta, flk, nlk, asked, ds, inq, ctlq, outq, nctl, rcvd, lost,
               mixed, opens, enabled, holder, iq, iqopen, istage, rts,
               oqstate, starve, ostage, thr, tint, rbr, line, linects, cts,
               modem, xonoff, blocked, ctsbackoff, hup, dohup, drain, nout,
               nin, nopen, dropped, read, missed, deaf, stuck, hoa, south,
               seq, nul, dlsusp, ulsusp, dlpending, dlbuffered, ulbuffered,
               rx, hand, sentul, handed, stale>>
filtersRest == <<tr, wire, sent, loc, d, frames, srb, ent, chain, age, rxmt,
                 nextrxt, sol, flist, got, root, table, queue, rip, free,
                 nrpc, tagmask, rpc, series, pos, flush, err, srv, hungup,
                 nreq, nflush, notes, unled, unflushed, drv, oq, ntx, td,
                 tdh, tdt, ntq, hwtd, calls, tlock, rd, rdh, rdt, lrdh,
                 rdfree, hwrd, nrx, pool, held, im, icr, rim, state, flag,
                 ci, ctab, ast, sst, disk, isr, portm, active, serial,
                 usectors, mediachange, req, buf, nplug, late, gen, ngen,
                 unit, raw, medium, attention, nmedia, nid, ctl, ch, op,
                 done, eaten, dead, quad, headers, incall, rq, lk, plock, ht,
                 want, pkt, moved, stray, raced, bound, lifc, link, self,
                 routes, nets, allnodes, filter, multi, join, connecting,
                 reader, arg, unbinding, nbind, made, stolen, early, ds, inq,
                 ctlq, outq, nctl, rcvd, lost, mixed, opens, enabled, holder,
                 iq, iqopen, istage, rts, oqstate, starve, ostage, thr, tint,
                 rbr, line, linects, cts, modem, xonoff, blocked, ctsbackoff,
                 hup, dohup, drain, nout, nin, nopen, dropped, read, missed,
                 deaf, stuck, hoa, south, seq, nul, dlsusp, ulsusp,
                 dlpending, dlbuffered, ulbuffered, rx, hand, sentul, handed,
                 stale>>
netfilesRest == <<tr, wire, sent, loc, d, frames, srb, ent, chain, age, rxmt,
                  nextrxt, sol, flist, got, root, table, queue, rip, free,
                  nrpc, tagmask, rpc, series, pos, flush, err, srv, hungup,
                  nreq, nflush, notes, unled, unflushed, drv, oq, ntx, td,
                  tdh, tdt, ntq, hwtd, calls, tlock, rd, rdh, rdt, lrdh,
                  rdfree, hwrd, nrx, pool, held, im, icr, rim, state, flag,
                  ci, ctab, ast, sst, disk, isr, portm, active, serial,
                  usectors, mediachange, req, buf, nplug, late, gen, ngen,
                  unit, raw, medium, attention, nmedia, nid, ctl, ch, op,
                  done, eaten, dead, quad, headers, incall, rq, lk, plock,
                  ht, want, pkt, moved, stray, raced, bound, lifc, link,
                  self, routes, nets, allnodes, filter, multi, join,
                  connecting, reader, arg, unbinding, nbind, made, stolen,
                  early, ds, inq, ctlq, outq, nctl, rcvd, lost, mixed, opens,
                  enabled, holder, iq, iqopen, istage, rts, oqstate, starve,
                  ostage, thr, tint, rbr, line, linects, cts, modem, xonoff,
                  blocked, ctsbackoff, hup, dohup, drain, nout, nin, nopen,
                  dropped, read, missed, deaf, stuck, hoa, south, seq, nul,
                  dlsusp, ulsusp, dlpending, dlbuffered, ulbuffered, rx,
                  hand, sentul, handed, stale>>
recordsRest == <<tr, loc, d, frames, srb, ent, chain, age, rxmt, nextrxt,
                 sol, flist, got, root, table, queue, rip, free, nrpc,
                 tagmask, rpc, series, pos, flush, err, srv, hungup, nreq,
                 nflush, notes, unled, unflushed, drv, oq, ntx, td, tdh, tdt,
                 ntq, hwtd, calls, tlock, rd, rdh, rdt, lrdh, rdfree, hwrd,
                 nrx, pool, held, im, icr, rim, state, flag, ci, ctab, ast,
                 sst, disk, isr, portm, active, serial, usectors,
                 mediachange, req, buf, nplug, late, gen, ngen, ref, unit,
                 raw, medium, attention, nmedia, nid, ctl, ch, op, done,
                 eaten, dead, inuse, quad, headers, incall, rq, lk, plock,
                 ht, at, want, pkt, moved, stray, raced, bound, lifc, link,
                 self, routes, nets, allnodes, filter, multi, join,
                 connecting, reader, unbinding, nbind, made, stolen, early,
                 type, prom, bridge, headersonly, bits, nmaddr, open, nprom,
                 nall, known, hwprom, mta, flk, nlk, asked, opens, enabled,
                 holder, iq, iqopen, istage, rts, oqstate, starve, ostage,
                 thr, tint, rbr, line, linects, cts, modem, xonoff, blocked,
                 ctsbackoff, hup, dohup, drain, nout, nin, nopen, dropped,
                 read, missed, deaf, stuck, hoa, south, seq, nul, dlsusp,
                 ulsusp, dlpending, dlbuffered, ulbuffered, rx, hand, sentul,
                 handed, stale>>
sslctlRest == <<tr, loc, d, frames, srb, ent, chain, age, rxmt, nextrxt, sol,
                flist, got, root, table, queue, rip, free, nrpc, tagmask,
                rpc, series, pos, flush, err, srv, hungup, nreq, nflush,
                notes, unled, unflushed, drv, oq, ntx, td, tdh, tdt, ntq,
                hwtd, calls, tlock, rd, rdh, rdt, lrdh, rdfree, hwrd, nrx,
                pool, held, im, icr, rim, state, flag, ci, ctab, ast, sst,
                disk, isr, portm, active, serial, usectors, mediachange, req,
                buf, nplug, late, gen, ngen, ref, unit, raw, medium,
                attention, nmedia, nid, ctl, ch, op, done, eaten, dead,
                inuse, quad, headers, incall, rq, lk, plock, ht, at, want,
                pkt, moved, stray, raced, bound, lifc, link, self, routes,
                nets, allnodes, filter, multi, join, connecting, reader,
                unbinding, nbind, made, stolen, early, type, prom, bridge,
                headersonly, bits, nmaddr, open, nprom, nall, known, hwprom,
                mta, flk, nlk, asked, opens, enabled, holder, iq, iqopen,
                istage, rts, oqstate, starve, ostage, thr, tint, rbr, line,
                linects, cts, modem, xonoff, blocked, ctsbackoff, hup, dohup,
                drain, nout, nin, nopen, dropped, read, missed, deaf, stuck,
                hoa, south, seq, nul, dlsusp, ulsusp, dlpending, dlbuffered,
                ulbuffered, rx, hand, sentul, handed, stale>>
xonRest == <<tr, wire, sent, loc, d, frames, srb, ent, chain, age, rxmt,
             nextrxt, sol, flist, got, root, table, queue, rip, free, nrpc,
             tagmask, rpc, series, pos, flush, err, srv, hungup, nreq,
             nflush, notes, unled, unflushed, drv, ntx, td, tdh, tdt, ntq,
             hwtd, calls, tlock, rd, rdh, rdt, lrdh, rdfree, hwrd, nrx, pool,
             held, im, icr, rim, state, flag, ci, ctab, ast, sst, disk, isr,
             portm, active, serial, usectors, mediachange, req, buf, nplug,
             late, gen, ngen, ref, unit, raw, medium, attention, nmedia, nid,
             ctl, ch, op, done, eaten, dead, inuse, quad, headers, incall,
             rq, lk, plock, ht, at, want, pkt, moved, stray, raced, bound,
             lifc, link, self, routes, nets, allnodes, filter, multi, join,
             connecting, reader, unbinding, nbind, made, stolen, early, type,
             prom, bridge, headersonly, bits, nmaddr, open, nprom, nall,
             known, hwprom, mta, flk, nlk, asked, ds, inq, ctlq, outq, nctl,
             rcvd, lost, mixed, hoa, south, seq, nul, dlsusp, ulsusp,
             dlpending, dlbuffered, ulbuffered, rx, hand, sentul, handed,
             stale>>
modemRest == <<tr, wire, sent, loc, d, frames, srb, ent, chain, age, rxmt,
               nextrxt, sol, flist, got, root, table, queue, rip, free, nrpc,
               tagmask, rpc, series, pos, flush, err, srv, hungup, nreq,
               nflush, notes, unled, unflushed, drv, ntx, td, tdh, tdt, ntq,
               hwtd, calls, tlock, rd, rdh, rdt, lrdh, rdfree, hwrd, nrx,
               pool, held, im, icr, rim, state, flag, ci, ctab, ast, sst,
               disk, isr, portm, active, serial, usectors, mediachange, req,
               buf, nplug, late, gen, ngen, ref, unit, raw, medium,
               attention, nmedia, nid, ctl, ch, op, done, eaten, dead, inuse,
               quad, headers, incall, rq, lk, plock, ht, at, want, pkt,
               moved, stray, raced, bound, lifc, link, self, routes, nets,
               allnodes, filter, multi, join, connecting, reader, unbinding,
               nbind, made, stolen, early, type, prom, bridge, headersonly,
               bits, nmaddr, open, nprom, nall, known, hwprom, mta, flk, nlk,
               asked, ds, inq, ctlq, outq, nctl, rcvd, lost, mixed, hoa,
               south, seq, nul, dlsusp, ulsusp, dlpending, dlbuffered,
               ulbuffered, rx, hand, sentul, handed, stale>>
lineinRest == <<tr, wire, sent, loc, d, frames, srb, ent, chain, age, rxmt,
                nextrxt, sol, flist, got, root, table, queue, rip, free,
                nrpc, tagmask, rpc, series, pos, flush, err, srv, hungup,
                nreq, nflush, notes, unled, unflushed, drv, ntx, td, tdh,
                tdt, ntq, hwtd, calls, tlock, rd, rdh, rdt, lrdh, rdfree,
                hwrd, nrx, pool, held, im, icr, rim, state, flag, ci, ctab,
                ast, sst, disk, isr, portm, active, serial, usectors,
                mediachange, req, buf, nplug, late, gen, ngen, ref, unit,
                raw, medium, attention, nmedia, nid, ctl, ch, op, done,
                eaten, dead, inuse, quad, headers, incall, rq, lk, plock, ht,
                at, want, pkt, moved, stray, raced, bound, lifc, link, self,
                routes, nets, allnodes, filter, multi, join, connecting,
                reader, unbinding, nbind, made, stolen, early, type, prom,
                bridge, headersonly, bits, nmaddr, open, nprom, nall, known,
                hwprom, mta, flk, nlk, asked, ds, inq, ctlq, outq, nctl,
                rcvd, lost, mixed, hoa, south, seq, nul, dlsusp, ulsusp,
                dlpending, dlbuffered, ulbuffered, rx, hand, sentul, handed,
                stale>>
drainsRest == <<tr, wire, sent, loc, d, frames, srb, ent, chain, age, rxmt,
                nextrxt, sol, flist, got, root, table, queue, rip, free,
                nrpc, tagmask, rpc, series, pos, flush, err, srv, hungup,
                nreq, nflush, notes, unled, unflushed, drv, ntx, td, tdh,
                tdt, ntq, hwtd, calls, tlock, rd, rdh, rdt, lrdh, rdfree,
                hwrd, nrx, pool, held, im, icr, rim, state, flag, ci, ctab,
                ast, sst, disk, isr, portm, active, serial, usectors,
                mediachange, req, buf, nplug, late, gen, ngen, ref, unit,
                raw, medium, attention, nmedia, nid, ctl, ch, op, done,
                eaten, dead, inuse, quad, headers, incall, rq, lk, plock, ht,
                at, want, pkt, moved, stray, raced, bound, lifc, link, self,
                routes, nets, allnodes, filter, multi, join, connecting,
                reader, unbinding, nbind, made, stolen, early, type, prom,
                bridge, headersonly, bits, nmaddr, open, nprom, nall, known,
                hwprom, mta, flk, nlk, asked, ds, inq, ctlq, outq, nctl,
                rcvd, lost, mixed, hoa, south, seq, nul, dlsusp, ulsusp,
                dlpending, dlbuffered, ulbuffered, rx, hand, sentul, handed,
                stale>>
downlinkRest == <<tr, wire, pc, loc, d, frames, srb, ent, chain, age, rxmt,
                  nextrxt, sol, flist, got, root, table, queue, rip, free,
                  nrpc, tagmask, rpc, series, pos, flush, err, srv, hungup,
                  nreq, nflush, notes, unled, unflushed, drv, oq, ntx, td,
                  tdh, tdt, ntq, hwtd, calls, tlock, rd, rdh, rdt, lrdh,
                  rdfree, hwrd, nrx, pool, held, im, icr, rim, state, flag,
                  ci, ctab, ast, sst, disk, isr, portm, active, serial,
                  usectors, mediachange, req, buf, nplug, late, gen, ngen,
                  ref, unit, raw, medium, attention, nmedia, nid, ch, op,
                  done, eaten, dead, inuse, quad, headers, incall, rq, lk,
                  plock, ht, at, want, fd, moved, stray, raced, bound, lifc,
                  link, self, routes, nets, allnodes, filter, multi, join,
                  connecting, reader, arg, unbinding, nbind, made, stolen,
                  early, type, prom, bridge, headersonly, bits, nmaddr, open,
                  nprom, nall, known, hwprom, mta, flk, nlk, asked, ds, inq,
                  ctlq, outq, nctl, rcvd, mixed, opens, enabled, holder, iq,
                  iqopen, istage, rts, oqstate, starve, ostage, thr, tint,
                  rbr, line, linects, cts, modem, xonoff, blocked,
                  ctsbackoff, hup, dohup, drain, nout, nin, nopen, dropped,
                  read, missed, deaf, stuck>>
handoverRest == <<tr, wire, pc, loc, d, frames, srb, ent, chain, age, rxmt,
                  nextrxt, sol, flist, got, root, table, queue, rip, free,
                  nrpc, tagmask, rpc, series, pos, flush, err, srv, hungup,
                  nreq, nflush, notes, unled, unflushed, drv, oq, ntx, td,
                  tdh, tdt, ntq, hwtd, calls, tlock, rd, rdh, rdt, lrdh,
                  rdfree, hwrd, nrx, pool, held, im, icr, rim, state, flag,
                  ci, ctab, ast, sst, disk, isr, portm, active, serial,
                  usectors, mediachange, req, buf, nplug, late, gen, ngen,
                  ref, unit, raw, medium, attention, nmedia, nid, ch, op,
                  done, eaten, dead, inuse, quad, headers, incall, rq, lk,
                  plock, ht, at, want, fd, moved, stray, raced, bound, lifc,
                  link, self, routes, nets, allnodes, filter, multi, join,
                  connecting, reader, arg, unbinding, nbind, made, stolen,
                  early, type, prom, bridge, headersonly, bits, nmaddr, open,
                  nprom, nall, known, hwprom, mta, flk, nlk, asked, ds, inq,
                  ctlq, outq, nctl, rcvd, mixed, opens, enabled, holder, iq,
                  iqopen, istage, rts, oqstate, starve, ostage, thr, tint,
                  rbr, line, linects, cts, modem, xonoff, blocked,
                  ctsbackoff, hup, dohup, drain, nout, nin, nopen, dropped,
                  read, missed, deaf, stuck>>
uplinkRest == <<tr, wire, pc, loc, d, frames, srb, ent, chain, age, rxmt,
                nextrxt, sol, flist, got, root, table, queue, rip, free,
                nrpc, tagmask, rpc, series, pos, flush, err, srv, hungup,
                nreq, nflush, notes, unled, unflushed, drv, oq, ntx, td, tdh,
                tdt, ntq, hwtd, calls, tlock, rd, rdh, rdt, lrdh, rdfree,
                hwrd, nrx, pool, held, im, icr, rim, state, flag, ci, ctab,
                ast, sst, disk, isr, portm, active, serial, usectors,
                mediachange, req, buf, nplug, late, gen, ngen, ref, unit,
                raw, medium, attention, nmedia, nid, ch, op, done, eaten,
                dead, inuse, quad, headers, incall, rq, lk, plock, ht, at,
                want, fd, moved, stray, raced, bound, lifc, link, self,
                routes, nets, allnodes, filter, multi, join, connecting,
                reader, arg, unbinding, nbind, made, stolen, early, type,
                prom, bridge, headersonly, bits, nmaddr, open, nprom, nall,
                known, hwprom, mta, flk, nlk, asked, ds, inq, ctlq, outq,
                nctl, rcvd, mixed, opens, enabled, holder, iq, iqopen,
                istage, rts, oqstate, starve, ostage, thr, tint, rbr, line,
                linects, cts, modem, xonoff, blocked, ctsbackoff, hup, dohup,
                drain, nout, nin, nopen, dropped, read, missed, deaf, stuck>>

Init ==
  \/ /\ on = "tls" /\ Tls!Init
     /\ d = nil /\ frames = nil /\ srb = nil /\ ent = nil /\ chain = nil /\
        age = nil /\ rxmt = nil /\ nextrxt = nil /\ sol = nil /\
        flist = nil /\ got = nil /\ root = nil /\ table = nil /\
        queue = nil /\ rip = nil /\ free = nil /\ nrpc = nil /\
        tagmask = nil /\ rpc = nil /\ series = nil /\ pos = nil /\
        flush = nil /\ err = nil /\ srv = nil /\ hungup = nil /\
        nreq = nil /\ nflush = nil /\ notes = nil /\ unled = nil /\
        unflushed = nil /\ drv = nil /\ oq = nil /\ ntx = nil /\ td = nil /\
        tdh = nil /\ tdt = nil /\ ntq = nil /\ hwtd = nil /\ calls = nil /\
        tlock = nil /\ rd = nil /\ rdh = nil /\ rdt = nil /\ lrdh = nil /\
        rdfree = nil /\ hwrd = nil /\ nrx = nil /\ pool = nil /\
        held = nil /\ im = nil /\ icr = nil /\ rim = nil /\ state = nil /\
        flag = nil /\ ci = nil /\ ctab = nil /\ ast = nil /\ sst = nil /\
        disk = nil /\ isr = nil /\ portm = nil /\ active = nil /\
        serial = nil /\ usectors = nil /\ mediachange = nil /\ req = nil /\
        buf = nil /\ nplug = nil /\ late = nil /\ gen = nil /\ ngen = nil /\
        ref = nil /\ unit = nil /\ raw = nil /\ medium = nil /\
        attention = nil /\ nmedia = nil /\ nid = nil /\ ctl = nil /\
        ch = nil /\ op = nil /\ done = nil /\ eaten = nil /\ dead = nil /\
        inuse = nil /\ quad = nil /\ headers = nil /\ incall = nil /\
        rq = nil /\ lk = nil /\ plock = nil /\ ht = nil /\ at = nil /\
        want = nil /\ fd = nil /\ pkt = nil /\ moved = nil /\ stray = nil /\
        raced = nil /\ bound = nil /\ lifc = nil /\ link = nil /\
        self = nil /\ routes = nil /\ nets = nil /\ allnodes = nil /\
        filter = nil /\ multi = nil /\ join = nil /\ connecting = nil /\
        reader = nil /\ arg = nil /\ unbinding = nil /\ nbind = nil /\
        made = nil /\ stolen = nil /\ early = nil /\ type = nil /\
        prom = nil /\ bridge = nil /\ headersonly = nil /\ bits = nil /\
        nmaddr = nil /\ open = nil /\ nprom = nil /\ nall = nil /\
        known = nil /\ hwprom = nil /\ mta = nil /\ flk = nil /\ nlk = nil /\
        asked = nil /\ ds = nil /\ inq = nil /\ ctlq = nil /\ outq = nil /\
        nctl = nil /\ rcvd = nil /\ lost = nil /\ mixed = nil /\
        opens = nil /\ enabled = nil /\ holder = nil /\ iq = nil /\
        iqopen = nil /\ istage = nil /\ rts = nil /\ oqstate = nil /\
        starve = nil /\ ostage = nil /\ thr = nil /\ tint = nil /\
        rbr = nil /\ line = nil /\ linects = nil /\ cts = nil /\
        modem = nil /\ xonoff = nil /\ blocked = nil /\ ctsbackoff = nil /\
        hup = nil /\ dohup = nil /\ drain = nil /\ nout = nil /\ nin = nil /\
        nopen = nil /\ dropped = nil /\ read = nil /\ missed = nil /\
        deaf = nil /\ stuck = nil /\ hoa = nil /\ south = nil /\ seq = nil /\
        nul = nil /\ dlsusp = nil /\ ulsusp = nil /\ dlpending = nil /\
        dlbuffered = nil /\ ulbuffered = nil /\ rx = nil /\ hand = nil /\
        sentul = nil /\ handed = nil /\ stale = nil
  \/ /\ on = "errors" /\ Errors!Init
     /\ tr = nil /\ wire = nil /\ pc = nil /\ loc = nil /\ ent = nil /\
        chain = nil /\ age = nil /\ rxmt = nil /\ nextrxt = nil /\
        sol = nil /\ flist = nil /\ got = nil /\ root = nil /\ table = nil /\
        queue = nil /\ rip = nil /\ free = nil /\ nrpc = nil /\
        tagmask = nil /\ rpc = nil /\ series = nil /\ pos = nil /\
        flush = nil /\ err = nil /\ srv = nil /\ hungup = nil /\
        nreq = nil /\ nflush = nil /\ notes = nil /\ unled = nil /\
        unflushed = nil /\ drv = nil /\ oq = nil /\ ntx = nil /\ td = nil /\
        tdh = nil /\ tdt = nil /\ ntq = nil /\ hwtd = nil /\ calls = nil /\
        tlock = nil /\ rd = nil /\ rdh = nil /\ rdt = nil /\ lrdh = nil /\
        rdfree = nil /\ hwrd = nil /\ nrx = nil /\ pool = nil /\
        held = nil /\ im = nil /\ icr = nil /\ rim = nil /\ state = nil /\
        flag = nil /\ ci = nil /\ ctab = nil /\ ast = nil /\ sst = nil /\
        disk = nil /\ isr = nil /\ portm = nil /\ active = nil /\
        serial = nil /\ usectors = nil /\ mediachange = nil /\ req = nil /\
        buf = nil /\ nplug = nil /\ late = nil /\ gen = nil /\ ngen = nil /\
        ref = nil /\ unit = nil /\ raw = nil /\ medium = nil /\
        attention = nil /\ nmedia = nil /\ nid = nil /\ ctl = nil /\
        ch = nil /\ op = nil /\ done = nil /\ eaten = nil /\ dead = nil /\
        inuse = nil /\ quad = nil /\ headers = nil /\ incall = nil /\
        rq = nil /\ lk = nil /\ plock = nil /\ ht = nil /\ at = nil /\
        want = nil /\ fd = nil /\ pkt = nil /\ moved = nil /\ stray = nil /\
        raced = nil /\ bound = nil /\ lifc = nil /\ link = nil /\
        self = nil /\ routes = nil /\ nets = nil /\ allnodes = nil /\
        filter = nil /\ multi = nil /\ join = nil /\ connecting = nil /\
        reader = nil /\ arg = nil /\ unbinding = nil /\ nbind = nil /\
        made = nil /\ stolen = nil /\ early = nil /\ type = nil /\
        prom = nil /\ bridge = nil /\ headersonly = nil /\ bits = nil /\
        nmaddr = nil /\ open = nil /\ nprom = nil /\ nall = nil /\
        known = nil /\ hwprom = nil /\ mta = nil /\ flk = nil /\ nlk = nil /\
        asked = nil /\ ds = nil /\ inq = nil /\ ctlq = nil /\ outq = nil /\
        nctl = nil /\ rcvd = nil /\ lost = nil /\ mixed = nil /\
        opens = nil /\ enabled = nil /\ holder = nil /\ iq = nil /\
        iqopen = nil /\ istage = nil /\ rts = nil /\ oqstate = nil /\
        starve = nil /\ ostage = nil /\ thr = nil /\ tint = nil /\
        rbr = nil /\ line = nil /\ linects = nil /\ cts = nil /\
        modem = nil /\ xonoff = nil /\ blocked = nil /\ ctsbackoff = nil /\
        hup = nil /\ dohup = nil /\ drain = nil /\ nout = nil /\ nin = nil /\
        nopen = nil /\ dropped = nil /\ read = nil /\ missed = nil /\
        deaf = nil /\ stuck = nil /\ hoa = nil /\ south = nil /\ seq = nil /\
        nul = nil /\ dlsusp = nil /\ ulsusp = nil /\ dlpending = nil /\
        dlbuffered = nil /\ ulbuffered = nil /\ rx = nil /\ hand = nil /\
        sentul = nil /\ handed = nil /\ stale = nil
  \/ /\ on = "frames2" /\ Frames!Init
     /\ tr = nil /\ wire = nil /\ pc = nil /\ loc = nil /\ ent = nil /\
        chain = nil /\ age = nil /\ rxmt = nil /\ nextrxt = nil /\
        sol = nil /\ flist = nil /\ got = nil /\ root = nil /\ table = nil /\
        queue = nil /\ rip = nil /\ free = nil /\ nrpc = nil /\
        tagmask = nil /\ rpc = nil /\ series = nil /\ pos = nil /\
        flush = nil /\ err = nil /\ srv = nil /\ hungup = nil /\
        nreq = nil /\ nflush = nil /\ notes = nil /\ unled = nil /\
        unflushed = nil /\ drv = nil /\ oq = nil /\ ntx = nil /\ td = nil /\
        tdh = nil /\ tdt = nil /\ ntq = nil /\ hwtd = nil /\ calls = nil /\
        tlock = nil /\ rd = nil /\ rdh = nil /\ rdt = nil /\ lrdh = nil /\
        rdfree = nil /\ hwrd = nil /\ nrx = nil /\ pool = nil /\
        held = nil /\ im = nil /\ icr = nil /\ rim = nil /\ state = nil /\
        flag = nil /\ ci = nil /\ ctab = nil /\ ast = nil /\ sst = nil /\
        disk = nil /\ isr = nil /\ portm = nil /\ active = nil /\
        serial = nil /\ usectors = nil /\ mediachange = nil /\ req = nil /\
        buf = nil /\ nplug = nil /\ late = nil /\ gen = nil /\ ngen = nil /\
        ref = nil /\ unit = nil /\ raw = nil /\ medium = nil /\
        attention = nil /\ nmedia = nil /\ nid = nil /\ ctl = nil /\
        ch = nil /\ op = nil /\ done = nil /\ eaten = nil /\ dead = nil /\
        inuse = nil /\ quad = nil /\ headers = nil /\ incall = nil /\
        rq = nil /\ lk = nil /\ plock = nil /\ ht = nil /\ at = nil /\
        want = nil /\ fd = nil /\ pkt = nil /\ moved = nil /\ stray = nil /\
        raced = nil /\ bound = nil /\ lifc = nil /\ link = nil /\
        self = nil /\ routes = nil /\ nets = nil /\ allnodes = nil /\
        filter = nil /\ multi = nil /\ join = nil /\ connecting = nil /\
        reader = nil /\ arg = nil /\ unbinding = nil /\ nbind = nil /\
        made = nil /\ stolen = nil /\ early = nil /\ type = nil /\
        prom = nil /\ bridge = nil /\ headersonly = nil /\ bits = nil /\
        nmaddr = nil /\ open = nil /\ nprom = nil /\ nall = nil /\
        known = nil /\ hwprom = nil /\ mta = nil /\ flk = nil /\ nlk = nil /\
        asked = nil /\ ds = nil /\ inq = nil /\ ctlq = nil /\ outq = nil /\
        nctl = nil /\ rcvd = nil /\ lost = nil /\ mixed = nil /\
        opens = nil /\ enabled = nil /\ holder = nil /\ iq = nil /\
        iqopen = nil /\ istage = nil /\ rts = nil /\ oqstate = nil /\
        starve = nil /\ ostage = nil /\ thr = nil /\ tint = nil /\
        rbr = nil /\ line = nil /\ linects = nil /\ cts = nil /\
        modem = nil /\ xonoff = nil /\ blocked = nil /\ ctsbackoff = nil /\
        hup = nil /\ dohup = nil /\ drain = nil /\ nout = nil /\ nin = nil /\
        nopen = nil /\ dropped = nil /\ read = nil /\ missed = nil /\
        deaf = nil /\ stuck = nil /\ hoa = nil /\ south = nil /\ seq = nil /\
        nul = nil /\ dlsusp = nil /\ ulsusp = nil /\ dlpending = nil /\
        dlbuffered = nil /\ ulbuffered = nil /\ rx = nil /\ hand = nil /\
        sentul = nil /\ handed = nil /\ stale = nil
  \/ /\ on = "arp" /\ Arp!Init
     /\ tr = nil /\ wire = nil /\ sent = nil /\ pc = nil /\ loc = nil /\
        d = nil /\ frames = nil /\ srb = nil /\ flist = nil /\ got = nil /\
        root = nil /\ table = nil /\ queue = nil /\ rip = nil /\
        free = nil /\ nrpc = nil /\ tagmask = nil /\ rpc = nil /\
        series = nil /\ pos = nil /\ flush = nil /\ err = nil /\ srv = nil /\
        hungup = nil /\ nreq = nil /\ nflush = nil /\ notes = nil /\
        unled = nil /\ unflushed = nil /\ drv = nil /\ oq = nil /\
        ntx = nil /\ td = nil /\ tdh = nil /\ tdt = nil /\ ntq = nil /\
        hwtd = nil /\ calls = nil /\ tlock = nil /\ rd = nil /\ rdh = nil /\
        rdt = nil /\ lrdh = nil /\ rdfree = nil /\ hwrd = nil /\ nrx = nil /\
        pool = nil /\ held = nil /\ im = nil /\ icr = nil /\ rim = nil /\
        state = nil /\ flag = nil /\ ci = nil /\ ctab = nil /\ ast = nil /\
        sst = nil /\ disk = nil /\ isr = nil /\ portm = nil /\
        active = nil /\ serial = nil /\ usectors = nil /\
        mediachange = nil /\ req = nil /\ buf = nil /\ nplug = nil /\
        late = nil /\ gen = nil /\ ngen = nil /\ ref = nil /\ unit = nil /\
        raw = nil /\ medium = nil /\ attention = nil /\ nmedia = nil /\
        nid = nil /\ ctl = nil /\ ch = nil /\ op = nil /\ done = nil /\
        eaten = nil /\ dead = nil /\ inuse = nil /\ quad = nil /\
        headers = nil /\ incall = nil /\ rq = nil /\ lk = nil /\
        plock = nil /\ ht = nil /\ at = nil /\ want = nil /\ fd = nil /\
        pkt = nil /\ moved = nil /\ stray = nil /\ raced = nil /\
        bound = nil /\ lifc = nil /\ link = nil /\ self = nil /\
        routes = nil /\ nets = nil /\ allnodes = nil /\ filter = nil /\
        multi = nil /\ join = nil /\ connecting = nil /\ reader = nil /\
        arg = nil /\ unbinding = nil /\ nbind = nil /\ made = nil /\
        stolen = nil /\ early = nil /\ type = nil /\ prom = nil /\
        bridge = nil /\ headersonly = nil /\ bits = nil /\ nmaddr = nil /\
        open = nil /\ nprom = nil /\ nall = nil /\ known = nil /\
        hwprom = nil /\ mta = nil /\ flk = nil /\ nlk = nil /\ asked = nil /\
        ds = nil /\ inq = nil /\ ctlq = nil /\ outq = nil /\ nctl = nil /\
        rcvd = nil /\ lost = nil /\ mixed = nil /\ opens = nil /\
        enabled = nil /\ holder = nil /\ iq = nil /\ iqopen = nil /\
        istage = nil /\ rts = nil /\ oqstate = nil /\ starve = nil /\
        ostage = nil /\ thr = nil /\ tint = nil /\ rbr = nil /\ line = nil /\
        linects = nil /\ cts = nil /\ modem = nil /\ xonoff = nil /\
        blocked = nil /\ ctsbackoff = nil /\ hup = nil /\ dohup = nil /\
        drain = nil /\ nout = nil /\ nin = nil /\ nopen = nil /\
        dropped = nil /\ read = nil /\ missed = nil /\ deaf = nil /\
        stuck = nil /\ hoa = nil /\ south = nil /\ seq = nil /\ nul = nil /\
        dlsusp = nil /\ ulsusp = nil /\ dlpending = nil /\
        dlbuffered = nil /\ ulbuffered = nil /\ rx = nil /\ hand = nil /\
        sentul = nil /\ handed = nil /\ stale = nil
  \/ /\ on = "multicasts" /\ Multicasts!Init
     /\ tr = nil /\ wire = nil /\ sent = nil /\ pc = nil /\ loc = nil /\
        d = nil /\ frames = nil /\ srb = nil /\ flist = nil /\ got = nil /\
        root = nil /\ table = nil /\ queue = nil /\ rip = nil /\
        free = nil /\ nrpc = nil /\ tagmask = nil /\ rpc = nil /\
        series = nil /\ pos = nil /\ flush = nil /\ err = nil /\ srv = nil /\
        hungup = nil /\ nreq = nil /\ nflush = nil /\ notes = nil /\
        unled = nil /\ unflushed = nil /\ drv = nil /\ oq = nil /\
        ntx = nil /\ td = nil /\ tdh = nil /\ tdt = nil /\ ntq = nil /\
        hwtd = nil /\ calls = nil /\ tlock = nil /\ rd = nil /\ rdh = nil /\
        rdt = nil /\ lrdh = nil /\ rdfree = nil /\ hwrd = nil /\ nrx = nil /\
        pool = nil /\ held = nil /\ im = nil /\ icr = nil /\ rim = nil /\
        state = nil /\ flag = nil /\ ci = nil /\ ctab = nil /\ ast = nil /\
        sst = nil /\ disk = nil /\ isr = nil /\ portm = nil /\
        active = nil /\ serial = nil /\ usectors = nil /\
        mediachange = nil /\ req = nil /\ buf = nil /\ nplug = nil /\
        late = nil /\ gen = nil /\ ngen = nil /\ ref = nil /\ unit = nil /\
        raw = nil /\ medium = nil /\ attention = nil /\ nmedia = nil /\
        nid = nil /\ ctl = nil /\ ch = nil /\ op = nil /\ done = nil /\
        eaten = nil /\ dead = nil /\ inuse = nil /\ quad = nil /\
        headers = nil /\ incall = nil /\ rq = nil /\ lk = nil /\
        plock = nil /\ ht = nil /\ at = nil /\ want = nil /\ fd = nil /\
        pkt = nil /\ moved = nil /\ stray = nil /\ raced = nil /\
        bound = nil /\ lifc = nil /\ link = nil /\ self = nil /\
        routes = nil /\ nets = nil /\ allnodes = nil /\ filter = nil /\
        multi = nil /\ join = nil /\ connecting = nil /\ reader = nil /\
        arg = nil /\ unbinding = nil /\ nbind = nil /\ made = nil /\
        stolen = nil /\ early = nil /\ type = nil /\ prom = nil /\
        bridge = nil /\ headersonly = nil /\ bits = nil /\ nmaddr = nil /\
        open = nil /\ nprom = nil /\ nall = nil /\ known = nil /\
        hwprom = nil /\ mta = nil /\ flk = nil /\ nlk = nil /\ asked = nil /\
        ds = nil /\ inq = nil /\ ctlq = nil /\ outq = nil /\ nctl = nil /\
        rcvd = nil /\ lost = nil /\ mixed = nil /\ opens = nil /\
        enabled = nil /\ holder = nil /\ iq = nil /\ iqopen = nil /\
        istage = nil /\ rts = nil /\ oqstate = nil /\ starve = nil /\
        ostage = nil /\ thr = nil /\ tint = nil /\ rbr = nil /\ line = nil /\
        linects = nil /\ cts = nil /\ modem = nil /\ xonoff = nil /\
        blocked = nil /\ ctsbackoff = nil /\ hup = nil /\ dohup = nil /\
        drain = nil /\ nout = nil /\ nin = nil /\ nopen = nil /\
        dropped = nil /\ read = nil /\ missed = nil /\ deaf = nil /\
        stuck = nil /\ hoa = nil /\ south = nil /\ seq = nil /\ nul = nil /\
        dlsusp = nil /\ ulsusp = nil /\ dlpending = nil /\
        dlbuffered = nil /\ ulbuffered = nil /\ rx = nil /\ hand = nil /\
        sentul = nil /\ handed = nil /\ stale = nil
  \/ /\ on = "frag4" /\ Frag4!Init
     /\ tr = nil /\ wire = nil /\ sent = nil /\ pc = nil /\ loc = nil /\
        d = nil /\ frames = nil /\ srb = nil /\ ent = nil /\ chain = nil /\
        age = nil /\ rxmt = nil /\ nextrxt = nil /\ sol = nil /\
        root = nil /\ table = nil /\ queue = nil /\ rip = nil /\
        free = nil /\ nrpc = nil /\ tagmask = nil /\ rpc = nil /\
        series = nil /\ pos = nil /\ flush = nil /\ err = nil /\ srv = nil /\
        hungup = nil /\ nreq = nil /\ nflush = nil /\ notes = nil /\
        unled = nil /\ unflushed = nil /\ drv = nil /\ oq = nil /\
        ntx = nil /\ td = nil /\ tdh = nil /\ tdt = nil /\ ntq = nil /\
        hwtd = nil /\ calls = nil /\ tlock = nil /\ rd = nil /\ rdh = nil /\
        rdt = nil /\ lrdh = nil /\ rdfree = nil /\ hwrd = nil /\ nrx = nil /\
        pool = nil /\ held = nil /\ im = nil /\ icr = nil /\ rim = nil /\
        state = nil /\ flag = nil /\ ci = nil /\ ctab = nil /\ ast = nil /\
        sst = nil /\ disk = nil /\ isr = nil /\ portm = nil /\
        active = nil /\ serial = nil /\ usectors = nil /\
        mediachange = nil /\ req = nil /\ buf = nil /\ nplug = nil /\
        late = nil /\ gen = nil /\ ngen = nil /\ ref = nil /\ unit = nil /\
        raw = nil /\ medium = nil /\ attention = nil /\ nmedia = nil /\
        nid = nil /\ ctl = nil /\ ch = nil /\ op = nil /\ done = nil /\
        eaten = nil /\ dead = nil /\ inuse = nil /\ quad = nil /\
        headers = nil /\ incall = nil /\ rq = nil /\ lk = nil /\
        plock = nil /\ ht = nil /\ at = nil /\ want = nil /\ fd = nil /\
        pkt = nil /\ moved = nil /\ stray = nil /\ raced = nil /\
        bound = nil /\ lifc = nil /\ link = nil /\ self = nil /\
        routes = nil /\ nets = nil /\ allnodes = nil /\ filter = nil /\
        multi = nil /\ join = nil /\ connecting = nil /\ reader = nil /\
        arg = nil /\ unbinding = nil /\ nbind = nil /\ made = nil /\
        stolen = nil /\ early = nil /\ type = nil /\ prom = nil /\
        bridge = nil /\ headersonly = nil /\ bits = nil /\ nmaddr = nil /\
        open = nil /\ nprom = nil /\ nall = nil /\ known = nil /\
        hwprom = nil /\ mta = nil /\ flk = nil /\ nlk = nil /\ asked = nil /\
        ds = nil /\ inq = nil /\ ctlq = nil /\ outq = nil /\ nctl = nil /\
        rcvd = nil /\ lost = nil /\ mixed = nil /\ opens = nil /\
        enabled = nil /\ holder = nil /\ iq = nil /\ iqopen = nil /\
        istage = nil /\ rts = nil /\ oqstate = nil /\ starve = nil /\
        ostage = nil /\ thr = nil /\ tint = nil /\ rbr = nil /\ line = nil /\
        linects = nil /\ cts = nil /\ modem = nil /\ xonoff = nil /\
        blocked = nil /\ ctsbackoff = nil /\ hup = nil /\ dohup = nil /\
        drain = nil /\ nout = nil /\ nin = nil /\ nopen = nil /\
        dropped = nil /\ read = nil /\ missed = nil /\ deaf = nil /\
        stuck = nil /\ hoa = nil /\ south = nil /\ seq = nil /\ nul = nil /\
        dlsusp = nil /\ ulsusp = nil /\ dlpending = nil /\
        dlbuffered = nil /\ ulbuffered = nil /\ rx = nil /\ hand = nil /\
        sentul = nil /\ handed = nil /\ stale = nil
  \/ /\ on = "frag6" /\ Frag6!Init
     /\ tr = nil /\ wire = nil /\ sent = nil /\ pc = nil /\ loc = nil /\
        d = nil /\ frames = nil /\ srb = nil /\ ent = nil /\ chain = nil /\
        age = nil /\ rxmt = nil /\ nextrxt = nil /\ sol = nil /\
        root = nil /\ table = nil /\ queue = nil /\ rip = nil /\
        free = nil /\ nrpc = nil /\ tagmask = nil /\ rpc = nil /\
        series = nil /\ pos = nil /\ flush = nil /\ err = nil /\ srv = nil /\
        hungup = nil /\ nreq = nil /\ nflush = nil /\ notes = nil /\
        unled = nil /\ unflushed = nil /\ drv = nil /\ oq = nil /\
        ntx = nil /\ td = nil /\ tdh = nil /\ tdt = nil /\ ntq = nil /\
        hwtd = nil /\ calls = nil /\ tlock = nil /\ rd = nil /\ rdh = nil /\
        rdt = nil /\ lrdh = nil /\ rdfree = nil /\ hwrd = nil /\ nrx = nil /\
        pool = nil /\ held = nil /\ im = nil /\ icr = nil /\ rim = nil /\
        state = nil /\ flag = nil /\ ci = nil /\ ctab = nil /\ ast = nil /\
        sst = nil /\ disk = nil /\ isr = nil /\ portm = nil /\
        active = nil /\ serial = nil /\ usectors = nil /\
        mediachange = nil /\ req = nil /\ buf = nil /\ nplug = nil /\
        late = nil /\ gen = nil /\ ngen = nil /\ ref = nil /\ unit = nil /\
        raw = nil /\ medium = nil /\ attention = nil /\ nmedia = nil /\
        nid = nil /\ ctl = nil /\ ch = nil /\ op = nil /\ done = nil /\
        eaten = nil /\ dead = nil /\ inuse = nil /\ quad = nil /\
        headers = nil /\ incall = nil /\ rq = nil /\ lk = nil /\
        plock = nil /\ ht = nil /\ at = nil /\ want = nil /\ fd = nil /\
        pkt = nil /\ moved = nil /\ stray = nil /\ raced = nil /\
        bound = nil /\ lifc = nil /\ link = nil /\ self = nil /\
        routes = nil /\ nets = nil /\ allnodes = nil /\ filter = nil /\
        multi = nil /\ join = nil /\ connecting = nil /\ reader = nil /\
        arg = nil /\ unbinding = nil /\ nbind = nil /\ made = nil /\
        stolen = nil /\ early = nil /\ type = nil /\ prom = nil /\
        bridge = nil /\ headersonly = nil /\ bits = nil /\ nmaddr = nil /\
        open = nil /\ nprom = nil /\ nall = nil /\ known = nil /\
        hwprom = nil /\ mta = nil /\ flk = nil /\ nlk = nil /\ asked = nil /\
        ds = nil /\ inq = nil /\ ctlq = nil /\ outq = nil /\ nctl = nil /\
        rcvd = nil /\ lost = nil /\ mixed = nil /\ opens = nil /\
        enabled = nil /\ holder = nil /\ iq = nil /\ iqopen = nil /\
        istage = nil /\ rts = nil /\ oqstate = nil /\ starve = nil /\
        ostage = nil /\ thr = nil /\ tint = nil /\ rbr = nil /\ line = nil /\
        linects = nil /\ cts = nil /\ modem = nil /\ xonoff = nil /\
        blocked = nil /\ ctsbackoff = nil /\ hup = nil /\ dohup = nil /\
        drain = nil /\ nout = nil /\ nin = nil /\ nopen = nil /\
        dropped = nil /\ read = nil /\ missed = nil /\ deaf = nil /\
        stuck = nil /\ hoa = nil /\ south = nil /\ seq = nil /\ nul = nil /\
        dlsusp = nil /\ ulsusp = nil /\ dlpending = nil /\
        dlbuffered = nil /\ ulbuffered = nil /\ rx = nil /\ hand = nil /\
        sentul = nil /\ handed = nil /\ stale = nil
  \/ /\ on = "route4" /\ Route4!Init
     /\ tr = nil /\ wire = nil /\ sent = nil /\ pc = nil /\ loc = nil /\
        d = nil /\ frames = nil /\ srb = nil /\ ent = nil /\ chain = nil /\
        age = nil /\ rxmt = nil /\ nextrxt = nil /\ sol = nil /\
        flist = nil /\ got = nil /\ queue = nil /\ rip = nil /\ free = nil /\
        nrpc = nil /\ tagmask = nil /\ rpc = nil /\ series = nil /\
        pos = nil /\ flush = nil /\ err = nil /\ srv = nil /\ hungup = nil /\
        nreq = nil /\ nflush = nil /\ notes = nil /\ unled = nil /\
        unflushed = nil /\ drv = nil /\ oq = nil /\ ntx = nil /\ td = nil /\
        tdh = nil /\ tdt = nil /\ ntq = nil /\ hwtd = nil /\ calls = nil /\
        tlock = nil /\ rd = nil /\ rdh = nil /\ rdt = nil /\ lrdh = nil /\
        rdfree = nil /\ hwrd = nil /\ nrx = nil /\ pool = nil /\
        held = nil /\ im = nil /\ icr = nil /\ rim = nil /\ state = nil /\
        flag = nil /\ ci = nil /\ ctab = nil /\ ast = nil /\ sst = nil /\
        disk = nil /\ isr = nil /\ portm = nil /\ active = nil /\
        serial = nil /\ usectors = nil /\ mediachange = nil /\ req = nil /\
        buf = nil /\ nplug = nil /\ late = nil /\ gen = nil /\ ngen = nil /\
        ref = nil /\ unit = nil /\ raw = nil /\ medium = nil /\
        attention = nil /\ nmedia = nil /\ nid = nil /\ ctl = nil /\
        ch = nil /\ op = nil /\ done = nil /\ eaten = nil /\ dead = nil /\
        inuse = nil /\ quad = nil /\ headers = nil /\ incall = nil /\
        rq = nil /\ lk = nil /\ plock = nil /\ ht = nil /\ at = nil /\
        want = nil /\ fd = nil /\ pkt = nil /\ moved = nil /\ stray = nil /\
        raced = nil /\ bound = nil /\ lifc = nil /\ link = nil /\
        self = nil /\ routes = nil /\ nets = nil /\ allnodes = nil /\
        filter = nil /\ multi = nil /\ join = nil /\ connecting = nil /\
        reader = nil /\ arg = nil /\ unbinding = nil /\ nbind = nil /\
        made = nil /\ stolen = nil /\ early = nil /\ type = nil /\
        prom = nil /\ bridge = nil /\ headersonly = nil /\ bits = nil /\
        nmaddr = nil /\ open = nil /\ nprom = nil /\ nall = nil /\
        known = nil /\ hwprom = nil /\ mta = nil /\ flk = nil /\ nlk = nil /\
        asked = nil /\ ds = nil /\ inq = nil /\ ctlq = nil /\ outq = nil /\
        nctl = nil /\ rcvd = nil /\ lost = nil /\ mixed = nil /\
        opens = nil /\ enabled = nil /\ holder = nil /\ iq = nil /\
        iqopen = nil /\ istage = nil /\ rts = nil /\ oqstate = nil /\
        starve = nil /\ ostage = nil /\ thr = nil /\ tint = nil /\
        rbr = nil /\ line = nil /\ linects = nil /\ cts = nil /\
        modem = nil /\ xonoff = nil /\ blocked = nil /\ ctsbackoff = nil /\
        hup = nil /\ dohup = nil /\ drain = nil /\ nout = nil /\ nin = nil /\
        nopen = nil /\ dropped = nil /\ read = nil /\ missed = nil /\
        deaf = nil /\ stuck = nil /\ hoa = nil /\ south = nil /\ seq = nil /\
        nul = nil /\ dlsusp = nil /\ ulsusp = nil /\ dlpending = nil /\
        dlbuffered = nil /\ ulbuffered = nil /\ rx = nil /\ hand = nil /\
        sentul = nil /\ handed = nil /\ stale = nil
  \/ /\ on = "route6" /\ Route6!Init
     /\ tr = nil /\ wire = nil /\ sent = nil /\ pc = nil /\ loc = nil /\
        d = nil /\ frames = nil /\ srb = nil /\ ent = nil /\ chain = nil /\
        age = nil /\ rxmt = nil /\ nextrxt = nil /\ sol = nil /\
        flist = nil /\ got = nil /\ queue = nil /\ rip = nil /\ free = nil /\
        nrpc = nil /\ tagmask = nil /\ rpc = nil /\ series = nil /\
        pos = nil /\ flush = nil /\ err = nil /\ srv = nil /\ hungup = nil /\
        nreq = nil /\ nflush = nil /\ notes = nil /\ unled = nil /\
        unflushed = nil /\ drv = nil /\ oq = nil /\ ntx = nil /\ td = nil /\
        tdh = nil /\ tdt = nil /\ ntq = nil /\ hwtd = nil /\ calls = nil /\
        tlock = nil /\ rd = nil /\ rdh = nil /\ rdt = nil /\ lrdh = nil /\
        rdfree = nil /\ hwrd = nil /\ nrx = nil /\ pool = nil /\
        held = nil /\ im = nil /\ icr = nil /\ rim = nil /\ state = nil /\
        flag = nil /\ ci = nil /\ ctab = nil /\ ast = nil /\ sst = nil /\
        disk = nil /\ isr = nil /\ portm = nil /\ active = nil /\
        serial = nil /\ usectors = nil /\ mediachange = nil /\ req = nil /\
        buf = nil /\ nplug = nil /\ late = nil /\ gen = nil /\ ngen = nil /\
        ref = nil /\ unit = nil /\ raw = nil /\ medium = nil /\
        attention = nil /\ nmedia = nil /\ nid = nil /\ ctl = nil /\
        ch = nil /\ op = nil /\ done = nil /\ eaten = nil /\ dead = nil /\
        inuse = nil /\ quad = nil /\ headers = nil /\ incall = nil /\
        rq = nil /\ lk = nil /\ plock = nil /\ ht = nil /\ at = nil /\
        want = nil /\ fd = nil /\ pkt = nil /\ moved = nil /\ stray = nil /\
        raced = nil /\ bound = nil /\ lifc = nil /\ link = nil /\
        self = nil /\ routes = nil /\ nets = nil /\ allnodes = nil /\
        filter = nil /\ multi = nil /\ join = nil /\ connecting = nil /\
        reader = nil /\ arg = nil /\ unbinding = nil /\ nbind = nil /\
        made = nil /\ stolen = nil /\ early = nil /\ type = nil /\
        prom = nil /\ bridge = nil /\ headersonly = nil /\ bits = nil /\
        nmaddr = nil /\ open = nil /\ nprom = nil /\ nall = nil /\
        known = nil /\ hwprom = nil /\ mta = nil /\ flk = nil /\ nlk = nil /\
        asked = nil /\ ds = nil /\ inq = nil /\ ctlq = nil /\ outq = nil /\
        nctl = nil /\ rcvd = nil /\ lost = nil /\ mixed = nil /\
        opens = nil /\ enabled = nil /\ holder = nil /\ iq = nil /\
        iqopen = nil /\ istage = nil /\ rts = nil /\ oqstate = nil /\
        starve = nil /\ ostage = nil /\ thr = nil /\ tint = nil /\
        rbr = nil /\ line = nil /\ linects = nil /\ cts = nil /\
        modem = nil /\ xonoff = nil /\ blocked = nil /\ ctsbackoff = nil /\
        hup = nil /\ dohup = nil /\ drain = nil /\ nout = nil /\ nin = nil /\
        nopen = nil /\ dropped = nil /\ read = nil /\ missed = nil /\
        deaf = nil /\ stuck = nil /\ hoa = nil /\ south = nil /\ seq = nil /\
        nul = nil /\ dlsusp = nil /\ ulsusp = nil /\ dlpending = nil /\
        dlbuffered = nil /\ ulbuffered = nil /\ rx = nil /\ hand = nil /\
        sentul = nil /\ handed = nil /\ stale = nil
  \/ /\ on = "mnt" /\ Mnt!Init
     /\ tr = nil /\ sent = nil /\ loc = nil /\ d = nil /\ frames = nil /\
        srb = nil /\ ent = nil /\ chain = nil /\ age = nil /\ rxmt = nil /\
        nextrxt = nil /\ sol = nil /\ flist = nil /\ got = nil /\
        root = nil /\ table = nil /\ drv = nil /\ oq = nil /\ ntx = nil /\
        td = nil /\ tdh = nil /\ tdt = nil /\ ntq = nil /\ hwtd = nil /\
        calls = nil /\ tlock = nil /\ rd = nil /\ rdh = nil /\ rdt = nil /\
        lrdh = nil /\ rdfree = nil /\ hwrd = nil /\ nrx = nil /\
        pool = nil /\ held = nil /\ im = nil /\ icr = nil /\ rim = nil /\
        state = nil /\ flag = nil /\ ci = nil /\ ctab = nil /\ ast = nil /\
        sst = nil /\ disk = nil /\ isr = nil /\ portm = nil /\
        active = nil /\ serial = nil /\ usectors = nil /\
        mediachange = nil /\ req = nil /\ buf = nil /\ nplug = nil /\
        late = nil /\ gen = nil /\ ngen = nil /\ ref = nil /\ unit = nil /\
        raw = nil /\ medium = nil /\ attention = nil /\ nmedia = nil /\
        nid = nil /\ ctl = nil /\ ch = nil /\ op = nil /\ done = nil /\
        eaten = nil /\ dead = nil /\ inuse = nil /\ quad = nil /\
        headers = nil /\ incall = nil /\ rq = nil /\ lk = nil /\
        plock = nil /\ ht = nil /\ at = nil /\ want = nil /\ fd = nil /\
        pkt = nil /\ moved = nil /\ stray = nil /\ raced = nil /\
        bound = nil /\ lifc = nil /\ link = nil /\ self = nil /\
        routes = nil /\ nets = nil /\ allnodes = nil /\ filter = nil /\
        multi = nil /\ join = nil /\ connecting = nil /\ reader = nil /\
        arg = nil /\ unbinding = nil /\ nbind = nil /\ made = nil /\
        stolen = nil /\ early = nil /\ type = nil /\ prom = nil /\
        bridge = nil /\ headersonly = nil /\ bits = nil /\ nmaddr = nil /\
        open = nil /\ nprom = nil /\ nall = nil /\ known = nil /\
        hwprom = nil /\ mta = nil /\ flk = nil /\ nlk = nil /\ asked = nil /\
        ds = nil /\ inq = nil /\ ctlq = nil /\ outq = nil /\ nctl = nil /\
        rcvd = nil /\ lost = nil /\ mixed = nil /\ opens = nil /\
        enabled = nil /\ holder = nil /\ iq = nil /\ iqopen = nil /\
        istage = nil /\ rts = nil /\ oqstate = nil /\ starve = nil /\
        ostage = nil /\ thr = nil /\ tint = nil /\ rbr = nil /\ line = nil /\
        linects = nil /\ cts = nil /\ modem = nil /\ xonoff = nil /\
        blocked = nil /\ ctsbackoff = nil /\ hup = nil /\ dohup = nil /\
        drain = nil /\ nout = nil /\ nin = nil /\ nopen = nil /\
        dropped = nil /\ read = nil /\ missed = nil /\ deaf = nil /\
        stuck = nil /\ hoa = nil /\ south = nil /\ seq = nil /\ nul = nil /\
        dlsusp = nil /\ ulsusp = nil /\ dlpending = nil /\
        dlbuffered = nil /\ ulbuffered = nil /\ rx = nil /\ hand = nil /\
        sentul = nil /\ handed = nil /\ stale = nil
  \/ /\ on = "notd" /\ Notes!Init
     /\ tr = nil /\ sent = nil /\ loc = nil /\ d = nil /\ frames = nil /\
        srb = nil /\ ent = nil /\ chain = nil /\ age = nil /\ rxmt = nil /\
        nextrxt = nil /\ sol = nil /\ flist = nil /\ got = nil /\
        root = nil /\ table = nil /\ drv = nil /\ oq = nil /\ ntx = nil /\
        td = nil /\ tdh = nil /\ tdt = nil /\ ntq = nil /\ hwtd = nil /\
        calls = nil /\ tlock = nil /\ rd = nil /\ rdh = nil /\ rdt = nil /\
        lrdh = nil /\ rdfree = nil /\ hwrd = nil /\ nrx = nil /\
        pool = nil /\ held = nil /\ im = nil /\ icr = nil /\ rim = nil /\
        state = nil /\ flag = nil /\ ci = nil /\ ctab = nil /\ ast = nil /\
        sst = nil /\ disk = nil /\ isr = nil /\ portm = nil /\
        active = nil /\ serial = nil /\ usectors = nil /\
        mediachange = nil /\ req = nil /\ buf = nil /\ nplug = nil /\
        late = nil /\ gen = nil /\ ngen = nil /\ ref = nil /\ unit = nil /\
        raw = nil /\ medium = nil /\ attention = nil /\ nmedia = nil /\
        nid = nil /\ ctl = nil /\ ch = nil /\ op = nil /\ done = nil /\
        eaten = nil /\ dead = nil /\ inuse = nil /\ quad = nil /\
        headers = nil /\ incall = nil /\ rq = nil /\ lk = nil /\
        plock = nil /\ ht = nil /\ at = nil /\ want = nil /\ fd = nil /\
        pkt = nil /\ moved = nil /\ stray = nil /\ raced = nil /\
        bound = nil /\ lifc = nil /\ link = nil /\ self = nil /\
        routes = nil /\ nets = nil /\ allnodes = nil /\ filter = nil /\
        multi = nil /\ join = nil /\ connecting = nil /\ reader = nil /\
        arg = nil /\ unbinding = nil /\ nbind = nil /\ made = nil /\
        stolen = nil /\ early = nil /\ type = nil /\ prom = nil /\
        bridge = nil /\ headersonly = nil /\ bits = nil /\ nmaddr = nil /\
        open = nil /\ nprom = nil /\ nall = nil /\ known = nil /\
        hwprom = nil /\ mta = nil /\ flk = nil /\ nlk = nil /\ asked = nil /\
        ds = nil /\ inq = nil /\ ctlq = nil /\ outq = nil /\ nctl = nil /\
        rcvd = nil /\ lost = nil /\ mixed = nil /\ opens = nil /\
        enabled = nil /\ holder = nil /\ iq = nil /\ iqopen = nil /\
        istage = nil /\ rts = nil /\ oqstate = nil /\ starve = nil /\
        ostage = nil /\ thr = nil /\ tint = nil /\ rbr = nil /\ line = nil /\
        linects = nil /\ cts = nil /\ modem = nil /\ xonoff = nil /\
        blocked = nil /\ ctsbackoff = nil /\ hup = nil /\ dohup = nil /\
        drain = nil /\ nout = nil /\ nin = nil /\ nopen = nil /\
        dropped = nil /\ read = nil /\ missed = nil /\ deaf = nil /\
        stuck = nil /\ hoa = nil /\ south = nil /\ seq = nil /\ nul = nil /\
        dlsusp = nil /\ ulsusp = nil /\ dlpending = nil /\
        dlbuffered = nil /\ ulbuffered = nil /\ rx = nil /\ hand = nil /\
        sentul = nil /\ handed = nil /\ stale = nil
  \/ /\ on = "sends" /\ Sends!Init
     /\ tr = nil /\ sent = nil /\ pc = nil /\ loc = nil /\ d = nil /\
        frames = nil /\ srb = nil /\ ent = nil /\ chain = nil /\ age = nil /\
        rxmt = nil /\ nextrxt = nil /\ sol = nil /\ flist = nil /\
        root = nil /\ table = nil /\ queue = nil /\ rip = nil /\
        free = nil /\ nrpc = nil /\ tagmask = nil /\ series = nil /\
        pos = nil /\ flush = nil /\ err = nil /\ srv = nil /\ hungup = nil /\
        nreq = nil /\ nflush = nil /\ notes = nil /\ unled = nil /\
        unflushed = nil /\ state = nil /\ flag = nil /\ ci = nil /\
        ctab = nil /\ ast = nil /\ sst = nil /\ disk = nil /\ isr = nil /\
        portm = nil /\ active = nil /\ serial = nil /\ usectors = nil /\
        mediachange = nil /\ req = nil /\ buf = nil /\ nplug = nil /\
        late = nil /\ gen = nil /\ ngen = nil /\ ref = nil /\ unit = nil /\
        raw = nil /\ medium = nil /\ attention = nil /\ nmedia = nil /\
        nid = nil /\ ctl = nil /\ ch = nil /\ op = nil /\ done = nil /\
        eaten = nil /\ dead = nil /\ inuse = nil /\ quad = nil /\
        headers = nil /\ incall = nil /\ rq = nil /\ lk = nil /\
        plock = nil /\ ht = nil /\ at = nil /\ want = nil /\ fd = nil /\
        pkt = nil /\ moved = nil /\ stray = nil /\ raced = nil /\
        bound = nil /\ lifc = nil /\ link = nil /\ self = nil /\
        routes = nil /\ nets = nil /\ allnodes = nil /\ filter = nil /\
        multi = nil /\ join = nil /\ connecting = nil /\ reader = nil /\
        arg = nil /\ unbinding = nil /\ nbind = nil /\ made = nil /\
        stolen = nil /\ early = nil /\ type = nil /\ prom = nil /\
        bridge = nil /\ headersonly = nil /\ bits = nil /\ nmaddr = nil /\
        open = nil /\ nprom = nil /\ nall = nil /\ known = nil /\
        hwprom = nil /\ mta = nil /\ flk = nil /\ nlk = nil /\ asked = nil /\
        ds = nil /\ inq = nil /\ ctlq = nil /\ outq = nil /\ nctl = nil /\
        rcvd = nil /\ lost = nil /\ mixed = nil /\ opens = nil /\
        enabled = nil /\ holder = nil /\ iq = nil /\ iqopen = nil /\
        istage = nil /\ rts = nil /\ oqstate = nil /\ starve = nil /\
        ostage = nil /\ thr = nil /\ tint = nil /\ rbr = nil /\ line = nil /\
        linects = nil /\ cts = nil /\ modem = nil /\ xonoff = nil /\
        blocked = nil /\ ctsbackoff = nil /\ hup = nil /\ dohup = nil /\
        drain = nil /\ nout = nil /\ nin = nil /\ nopen = nil /\
        dropped = nil /\ read = nil /\ missed = nil /\ deaf = nil /\
        stuck = nil /\ hoa = nil /\ south = nil /\ seq = nil /\ nul = nil /\
        dlsusp = nil /\ ulsusp = nil /\ dlpending = nil /\
        dlbuffered = nil /\ ulbuffered = nil /\ rx = nil /\ hand = nil /\
        sentul = nil /\ handed = nil /\ stale = nil
  \/ /\ on = "receives" /\ Receives!Init
     /\ tr = nil /\ sent = nil /\ pc = nil /\ loc = nil /\ d = nil /\
        frames = nil /\ srb = nil /\ ent = nil /\ chain = nil /\ age = nil /\
        rxmt = nil /\ nextrxt = nil /\ sol = nil /\ flist = nil /\
        root = nil /\ table = nil /\ queue = nil /\ rip = nil /\
        free = nil /\ nrpc = nil /\ tagmask = nil /\ series = nil /\
        pos = nil /\ flush = nil /\ err = nil /\ srv = nil /\ hungup = nil /\
        nreq = nil /\ nflush = nil /\ notes = nil /\ unled = nil /\
        unflushed = nil /\ state = nil /\ flag = nil /\ ci = nil /\
        ctab = nil /\ ast = nil /\ sst = nil /\ disk = nil /\ isr = nil /\
        portm = nil /\ active = nil /\ serial = nil /\ usectors = nil /\
        mediachange = nil /\ req = nil /\ buf = nil /\ nplug = nil /\
        late = nil /\ gen = nil /\ ngen = nil /\ ref = nil /\ unit = nil /\
        raw = nil /\ medium = nil /\ attention = nil /\ nmedia = nil /\
        nid = nil /\ ctl = nil /\ ch = nil /\ op = nil /\ done = nil /\
        eaten = nil /\ dead = nil /\ inuse = nil /\ quad = nil /\
        headers = nil /\ incall = nil /\ rq = nil /\ lk = nil /\
        plock = nil /\ ht = nil /\ at = nil /\ want = nil /\ fd = nil /\
        pkt = nil /\ moved = nil /\ stray = nil /\ raced = nil /\
        bound = nil /\ lifc = nil /\ link = nil /\ self = nil /\
        routes = nil /\ nets = nil /\ allnodes = nil /\ filter = nil /\
        multi = nil /\ join = nil /\ connecting = nil /\ reader = nil /\
        arg = nil /\ unbinding = nil /\ nbind = nil /\ made = nil /\
        stolen = nil /\ early = nil /\ type = nil /\ prom = nil /\
        bridge = nil /\ headersonly = nil /\ bits = nil /\ nmaddr = nil /\
        open = nil /\ nprom = nil /\ nall = nil /\ known = nil /\
        hwprom = nil /\ mta = nil /\ flk = nil /\ nlk = nil /\ asked = nil /\
        ds = nil /\ inq = nil /\ ctlq = nil /\ outq = nil /\ nctl = nil /\
        rcvd = nil /\ lost = nil /\ mixed = nil /\ opens = nil /\
        enabled = nil /\ holder = nil /\ iq = nil /\ iqopen = nil /\
        istage = nil /\ rts = nil /\ oqstate = nil /\ starve = nil /\
        ostage = nil /\ thr = nil /\ tint = nil /\ rbr = nil /\ line = nil /\
        linects = nil /\ cts = nil /\ modem = nil /\ xonoff = nil /\
        blocked = nil /\ ctsbackoff = nil /\ hup = nil /\ dohup = nil /\
        drain = nil /\ nout = nil /\ nin = nil /\ nopen = nil /\
        dropped = nil /\ read = nil /\ missed = nil /\ deaf = nil /\
        stuck = nil /\ hoa = nil /\ south = nil /\ seq = nil /\ nul = nil /\
        dlsusp = nil /\ ulsusp = nil /\ dlpending = nil /\
        dlbuffered = nil /\ ulbuffered = nil /\ rx = nil /\ hand = nil /\
        sentul = nil /\ handed = nil /\ stale = nil
  \/ /\ on = "disk" /\ Disk!Init
     /\ tr = nil /\ wire = nil /\ sent = nil /\ loc = nil /\ d = nil /\
        frames = nil /\ srb = nil /\ ent = nil /\ chain = nil /\ age = nil /\
        rxmt = nil /\ nextrxt = nil /\ sol = nil /\ flist = nil /\
        got = nil /\ root = nil /\ table = nil /\ queue = nil /\ rip = nil /\
        free = nil /\ nrpc = nil /\ tagmask = nil /\ rpc = nil /\
        series = nil /\ pos = nil /\ flush = nil /\ srv = nil /\
        hungup = nil /\ nflush = nil /\ notes = nil /\ unled = nil /\
        unflushed = nil /\ drv = nil /\ oq = nil /\ ntx = nil /\ td = nil /\
        tdh = nil /\ tdt = nil /\ ntq = nil /\ hwtd = nil /\ calls = nil /\
        tlock = nil /\ rd = nil /\ rdh = nil /\ rdt = nil /\ lrdh = nil /\
        rdfree = nil /\ hwrd = nil /\ nrx = nil /\ pool = nil /\
        held = nil /\ im = nil /\ icr = nil /\ rim = nil /\ gen = nil /\
        ngen = nil /\ ref = nil /\ unit = nil /\ raw = nil /\ medium = nil /\
        attention = nil /\ nmedia = nil /\ nid = nil /\ ctl = nil /\
        ch = nil /\ op = nil /\ done = nil /\ eaten = nil /\ dead = nil /\
        inuse = nil /\ quad = nil /\ headers = nil /\ incall = nil /\
        rq = nil /\ lk = nil /\ plock = nil /\ ht = nil /\ at = nil /\
        want = nil /\ fd = nil /\ pkt = nil /\ moved = nil /\ stray = nil /\
        raced = nil /\ bound = nil /\ lifc = nil /\ link = nil /\
        self = nil /\ routes = nil /\ nets = nil /\ allnodes = nil /\
        filter = nil /\ multi = nil /\ join = nil /\ connecting = nil /\
        reader = nil /\ arg = nil /\ unbinding = nil /\ nbind = nil /\
        made = nil /\ stolen = nil /\ early = nil /\ type = nil /\
        prom = nil /\ bridge = nil /\ headersonly = nil /\ bits = nil /\
        nmaddr = nil /\ open = nil /\ nprom = nil /\ nall = nil /\
        known = nil /\ hwprom = nil /\ mta = nil /\ flk = nil /\ nlk = nil /\
        asked = nil /\ ds = nil /\ inq = nil /\ ctlq = nil /\ outq = nil /\
        nctl = nil /\ rcvd = nil /\ lost = nil /\ mixed = nil /\
        opens = nil /\ enabled = nil /\ holder = nil /\ iq = nil /\
        iqopen = nil /\ istage = nil /\ rts = nil /\ oqstate = nil /\
        starve = nil /\ ostage = nil /\ thr = nil /\ tint = nil /\
        rbr = nil /\ line = nil /\ linects = nil /\ cts = nil /\
        modem = nil /\ xonoff = nil /\ blocked = nil /\ ctsbackoff = nil /\
        hup = nil /\ dohup = nil /\ drain = nil /\ nout = nil /\ nin = nil /\
        nopen = nil /\ dropped = nil /\ read = nil /\ missed = nil /\
        deaf = nil /\ stuck = nil /\ hoa = nil /\ south = nil /\ seq = nil /\
        nul = nil /\ dlsusp = nil /\ ulsusp = nil /\ dlpending = nil /\
        dlbuffered = nil /\ ulbuffered = nil /\ rx = nil /\ hand = nil /\
        sentul = nil /\ handed = nil /\ stale = nil
  \/ /\ on = "atapi" /\ Atapi!Init
     /\ tr = nil /\ wire = nil /\ sent = nil /\ loc = nil /\ d = nil /\
        frames = nil /\ srb = nil /\ ent = nil /\ chain = nil /\ age = nil /\
        rxmt = nil /\ nextrxt = nil /\ sol = nil /\ flist = nil /\
        got = nil /\ root = nil /\ table = nil /\ queue = nil /\ rip = nil /\
        free = nil /\ nrpc = nil /\ tagmask = nil /\ rpc = nil /\
        series = nil /\ pos = nil /\ flush = nil /\ srv = nil /\
        hungup = nil /\ nflush = nil /\ notes = nil /\ unled = nil /\
        unflushed = nil /\ drv = nil /\ oq = nil /\ ntx = nil /\ td = nil /\
        tdh = nil /\ tdt = nil /\ ntq = nil /\ hwtd = nil /\ calls = nil /\
        tlock = nil /\ rd = nil /\ rdh = nil /\ rdt = nil /\ lrdh = nil /\
        rdfree = nil /\ hwrd = nil /\ nrx = nil /\ pool = nil /\
        held = nil /\ im = nil /\ icr = nil /\ rim = nil /\ gen = nil /\
        ngen = nil /\ ref = nil /\ unit = nil /\ raw = nil /\ medium = nil /\
        attention = nil /\ nmedia = nil /\ nid = nil /\ ctl = nil /\
        ch = nil /\ op = nil /\ done = nil /\ eaten = nil /\ dead = nil /\
        inuse = nil /\ quad = nil /\ headers = nil /\ incall = nil /\
        rq = nil /\ lk = nil /\ plock = nil /\ ht = nil /\ at = nil /\
        want = nil /\ fd = nil /\ pkt = nil /\ moved = nil /\ stray = nil /\
        raced = nil /\ bound = nil /\ lifc = nil /\ link = nil /\
        self = nil /\ routes = nil /\ nets = nil /\ allnodes = nil /\
        filter = nil /\ multi = nil /\ join = nil /\ connecting = nil /\
        reader = nil /\ arg = nil /\ unbinding = nil /\ nbind = nil /\
        made = nil /\ stolen = nil /\ early = nil /\ type = nil /\
        prom = nil /\ bridge = nil /\ headersonly = nil /\ bits = nil /\
        nmaddr = nil /\ open = nil /\ nprom = nil /\ nall = nil /\
        known = nil /\ hwprom = nil /\ mta = nil /\ flk = nil /\ nlk = nil /\
        asked = nil /\ ds = nil /\ inq = nil /\ ctlq = nil /\ outq = nil /\
        nctl = nil /\ rcvd = nil /\ lost = nil /\ mixed = nil /\
        opens = nil /\ enabled = nil /\ holder = nil /\ iq = nil /\
        iqopen = nil /\ istage = nil /\ rts = nil /\ oqstate = nil /\
        starve = nil /\ ostage = nil /\ thr = nil /\ tint = nil /\
        rbr = nil /\ line = nil /\ linects = nil /\ cts = nil /\
        modem = nil /\ xonoff = nil /\ blocked = nil /\ ctsbackoff = nil /\
        hup = nil /\ dohup = nil /\ drain = nil /\ nout = nil /\ nin = nil /\
        nopen = nil /\ dropped = nil /\ read = nil /\ missed = nil /\
        deaf = nil /\ stuck = nil /\ hoa = nil /\ south = nil /\ seq = nil /\
        nul = nil /\ dlsusp = nil /\ ulsusp = nil /\ dlpending = nil /\
        dlbuffered = nil /\ ulbuffered = nil /\ rx = nil /\ hand = nil /\
        sentul = nil /\ handed = nil /\ stale = nil
  \/ /\ on = "parts" /\ Parts!Init
     /\ tr = nil /\ wire = nil /\ sent = nil /\ loc = nil /\ d = nil /\
        frames = nil /\ srb = nil /\ ent = nil /\ chain = nil /\ age = nil /\
        rxmt = nil /\ nextrxt = nil /\ sol = nil /\ flist = nil /\
        got = nil /\ root = nil /\ table = nil /\ queue = nil /\ rip = nil /\
        free = nil /\ nrpc = nil /\ tagmask = nil /\ rpc = nil /\
        series = nil /\ pos = nil /\ flush = nil /\ err = nil /\ srv = nil /\
        hungup = nil /\ nreq = nil /\ nflush = nil /\ notes = nil /\
        unled = nil /\ unflushed = nil /\ drv = nil /\ oq = nil /\
        ntx = nil /\ td = nil /\ tdh = nil /\ tdt = nil /\ ntq = nil /\
        hwtd = nil /\ calls = nil /\ tlock = nil /\ rd = nil /\ rdh = nil /\
        rdt = nil /\ lrdh = nil /\ rdfree = nil /\ hwrd = nil /\ nrx = nil /\
        pool = nil /\ held = nil /\ im = nil /\ icr = nil /\ rim = nil /\
        state = nil /\ flag = nil /\ ci = nil /\ ctab = nil /\ ast = nil /\
        sst = nil /\ disk = nil /\ isr = nil /\ portm = nil /\
        active = nil /\ serial = nil /\ usectors = nil /\
        mediachange = nil /\ req = nil /\ buf = nil /\ nplug = nil /\
        late = nil /\ inuse = nil /\ quad = nil /\ headers = nil /\
        incall = nil /\ rq = nil /\ lk = nil /\ plock = nil /\ ht = nil /\
        at = nil /\ want = nil /\ fd = nil /\ pkt = nil /\ moved = nil /\
        stray = nil /\ raced = nil /\ bound = nil /\ lifc = nil /\
        link = nil /\ self = nil /\ routes = nil /\ nets = nil /\
        allnodes = nil /\ filter = nil /\ multi = nil /\ join = nil /\
        connecting = nil /\ reader = nil /\ arg = nil /\ unbinding = nil /\
        nbind = nil /\ made = nil /\ stolen = nil /\ early = nil /\
        type = nil /\ prom = nil /\ bridge = nil /\ headersonly = nil /\
        bits = nil /\ nmaddr = nil /\ open = nil /\ nprom = nil /\
        nall = nil /\ known = nil /\ hwprom = nil /\ mta = nil /\
        flk = nil /\ nlk = nil /\ asked = nil /\ ds = nil /\ inq = nil /\
        ctlq = nil /\ outq = nil /\ nctl = nil /\ rcvd = nil /\ lost = nil /\
        mixed = nil /\ opens = nil /\ enabled = nil /\ holder = nil /\
        iq = nil /\ iqopen = nil /\ istage = nil /\ rts = nil /\
        oqstate = nil /\ starve = nil /\ ostage = nil /\ thr = nil /\
        tint = nil /\ rbr = nil /\ line = nil /\ linects = nil /\
        cts = nil /\ modem = nil /\ xonoff = nil /\ blocked = nil /\
        ctsbackoff = nil /\ hup = nil /\ dohup = nil /\ drain = nil /\
        nout = nil /\ nin = nil /\ nopen = nil /\ dropped = nil /\
        read = nil /\ missed = nil /\ deaf = nil /\ stuck = nil /\
        hoa = nil /\ south = nil /\ seq = nil /\ nul = nil /\ dlsusp = nil /\
        ulsusp = nil /\ dlpending = nil /\ dlbuffered = nil /\
        ulbuffered = nil /\ rx = nil /\ hand = nil /\ sentul = nil /\
        handed = nil /\ stale = nil
  \/ /\ on = "units" /\ Units!Init
     /\ tr = nil /\ wire = nil /\ sent = nil /\ loc = nil /\ d = nil /\
        frames = nil /\ srb = nil /\ ent = nil /\ chain = nil /\ age = nil /\
        rxmt = nil /\ nextrxt = nil /\ sol = nil /\ flist = nil /\
        got = nil /\ root = nil /\ table = nil /\ queue = nil /\ rip = nil /\
        free = nil /\ nrpc = nil /\ tagmask = nil /\ rpc = nil /\
        series = nil /\ pos = nil /\ flush = nil /\ err = nil /\ srv = nil /\
        hungup = nil /\ nreq = nil /\ nflush = nil /\ notes = nil /\
        unled = nil /\ unflushed = nil /\ drv = nil /\ oq = nil /\
        ntx = nil /\ td = nil /\ tdh = nil /\ tdt = nil /\ ntq = nil /\
        hwtd = nil /\ calls = nil /\ tlock = nil /\ rd = nil /\ rdh = nil /\
        rdt = nil /\ lrdh = nil /\ rdfree = nil /\ hwrd = nil /\ nrx = nil /\
        pool = nil /\ held = nil /\ im = nil /\ icr = nil /\ rim = nil /\
        state = nil /\ flag = nil /\ ci = nil /\ ctab = nil /\ ast = nil /\
        sst = nil /\ disk = nil /\ isr = nil /\ portm = nil /\
        active = nil /\ serial = nil /\ usectors = nil /\
        mediachange = nil /\ req = nil /\ buf = nil /\ nplug = nil /\
        late = nil /\ inuse = nil /\ quad = nil /\ headers = nil /\
        incall = nil /\ rq = nil /\ lk = nil /\ plock = nil /\ ht = nil /\
        at = nil /\ want = nil /\ fd = nil /\ pkt = nil /\ moved = nil /\
        stray = nil /\ raced = nil /\ bound = nil /\ lifc = nil /\
        link = nil /\ self = nil /\ routes = nil /\ nets = nil /\
        allnodes = nil /\ filter = nil /\ multi = nil /\ join = nil /\
        connecting = nil /\ reader = nil /\ arg = nil /\ unbinding = nil /\
        nbind = nil /\ made = nil /\ stolen = nil /\ early = nil /\
        type = nil /\ prom = nil /\ bridge = nil /\ headersonly = nil /\
        bits = nil /\ nmaddr = nil /\ open = nil /\ nprom = nil /\
        nall = nil /\ known = nil /\ hwprom = nil /\ mta = nil /\
        flk = nil /\ nlk = nil /\ asked = nil /\ ds = nil /\ inq = nil /\
        ctlq = nil /\ outq = nil /\ nctl = nil /\ rcvd = nil /\ lost = nil /\
        mixed = nil /\ opens = nil /\ enabled = nil /\ holder = nil /\
        iq = nil /\ iqopen = nil /\ istage = nil /\ rts = nil /\
        oqstate = nil /\ starve = nil /\ ostage = nil /\ thr = nil /\
        tint = nil /\ rbr = nil /\ line = nil /\ linects = nil /\
        cts = nil /\ modem = nil /\ xonoff = nil /\ blocked = nil /\
        ctsbackoff = nil /\ hup = nil /\ dohup = nil /\ drain = nil /\
        nout = nil /\ nin = nil /\ nopen = nil /\ dropped = nil /\
        read = nil /\ missed = nil /\ deaf = nil /\ stuck = nil /\
        hoa = nil /\ south = nil /\ seq = nil /\ nul = nil /\ dlsusp = nil /\
        ulsusp = nil /\ dlpending = nil /\ dlbuffered = nil /\
        ulbuffered = nil /\ rx = nil /\ hand = nil /\ sentul = nil /\
        handed = nil /\ stale = nil
  \/ /\ on = "users" /\ Users!Init
     /\ tr = nil /\ wire = nil /\ sent = nil /\ loc = nil /\ d = nil /\
        frames = nil /\ srb = nil /\ ent = nil /\ chain = nil /\ age = nil /\
        rxmt = nil /\ nextrxt = nil /\ sol = nil /\ flist = nil /\
        got = nil /\ root = nil /\ table = nil /\ queue = nil /\ rip = nil /\
        free = nil /\ nrpc = nil /\ tagmask = nil /\ rpc = nil /\
        series = nil /\ pos = nil /\ flush = nil /\ err = nil /\ srv = nil /\
        hungup = nil /\ nreq = nil /\ nflush = nil /\ notes = nil /\
        unled = nil /\ unflushed = nil /\ drv = nil /\ oq = nil /\
        ntx = nil /\ td = nil /\ tdh = nil /\ tdt = nil /\ ntq = nil /\
        hwtd = nil /\ calls = nil /\ tlock = nil /\ rd = nil /\ rdh = nil /\
        rdt = nil /\ lrdh = nil /\ rdfree = nil /\ hwrd = nil /\ nrx = nil /\
        pool = nil /\ held = nil /\ im = nil /\ icr = nil /\ rim = nil /\
        state = nil /\ flag = nil /\ ci = nil /\ ctab = nil /\ ast = nil /\
        sst = nil /\ disk = nil /\ isr = nil /\ portm = nil /\
        active = nil /\ serial = nil /\ usectors = nil /\
        mediachange = nil /\ req = nil /\ buf = nil /\ nplug = nil /\
        late = nil /\ inuse = nil /\ quad = nil /\ headers = nil /\
        incall = nil /\ rq = nil /\ lk = nil /\ plock = nil /\ ht = nil /\
        at = nil /\ want = nil /\ fd = nil /\ pkt = nil /\ moved = nil /\
        stray = nil /\ raced = nil /\ bound = nil /\ lifc = nil /\
        link = nil /\ self = nil /\ routes = nil /\ nets = nil /\
        allnodes = nil /\ filter = nil /\ multi = nil /\ join = nil /\
        connecting = nil /\ reader = nil /\ arg = nil /\ unbinding = nil /\
        nbind = nil /\ made = nil /\ stolen = nil /\ early = nil /\
        type = nil /\ prom = nil /\ bridge = nil /\ headersonly = nil /\
        bits = nil /\ nmaddr = nil /\ open = nil /\ nprom = nil /\
        nall = nil /\ known = nil /\ hwprom = nil /\ mta = nil /\
        flk = nil /\ nlk = nil /\ asked = nil /\ ds = nil /\ inq = nil /\
        ctlq = nil /\ outq = nil /\ nctl = nil /\ rcvd = nil /\ lost = nil /\
        mixed = nil /\ opens = nil /\ enabled = nil /\ holder = nil /\
        iq = nil /\ iqopen = nil /\ istage = nil /\ rts = nil /\
        oqstate = nil /\ starve = nil /\ ostage = nil /\ thr = nil /\
        tint = nil /\ rbr = nil /\ line = nil /\ linects = nil /\
        cts = nil /\ modem = nil /\ xonoff = nil /\ blocked = nil /\
        ctsbackoff = nil /\ hup = nil /\ dohup = nil /\ drain = nil /\
        nout = nil /\ nin = nil /\ nopen = nil /\ dropped = nil /\
        read = nil /\ missed = nil /\ deaf = nil /\ stuck = nil /\
        hoa = nil /\ south = nil /\ seq = nil /\ nul = nil /\ dlsusp = nil /\
        ulsusp = nil /\ dlpending = nil /\ dlbuffered = nil /\
        ulbuffered = nil /\ rx = nil /\ hand = nil /\ sentul = nil /\
        handed = nil /\ stale = nil
  \/ /\ on = "calls" /\ Calls!Init
     /\ tr = nil /\ wire = nil /\ sent = nil /\ loc = nil /\ d = nil /\
        frames = nil /\ srb = nil /\ ent = nil /\ chain = nil /\ age = nil /\
        rxmt = nil /\ nextrxt = nil /\ sol = nil /\ flist = nil /\
        got = nil /\ root = nil /\ table = nil /\ queue = nil /\ rip = nil /\
        free = nil /\ nrpc = nil /\ tagmask = nil /\ rpc = nil /\
        series = nil /\ pos = nil /\ flush = nil /\ err = nil /\ srv = nil /\
        hungup = nil /\ nreq = nil /\ nflush = nil /\ notes = nil /\
        unled = nil /\ unflushed = nil /\ drv = nil /\ oq = nil /\
        ntx = nil /\ td = nil /\ tdh = nil /\ tdt = nil /\ ntq = nil /\
        hwtd = nil /\ calls = nil /\ tlock = nil /\ rd = nil /\ rdh = nil /\
        rdt = nil /\ lrdh = nil /\ rdfree = nil /\ hwrd = nil /\ nrx = nil /\
        pool = nil /\ held = nil /\ im = nil /\ icr = nil /\ rim = nil /\
        flag = nil /\ ci = nil /\ ctab = nil /\ ast = nil /\ sst = nil /\
        disk = nil /\ isr = nil /\ portm = nil /\ active = nil /\
        serial = nil /\ usectors = nil /\ mediachange = nil /\ req = nil /\
        buf = nil /\ nplug = nil /\ late = nil /\ gen = nil /\ ngen = nil /\
        ref = nil /\ unit = nil /\ raw = nil /\ medium = nil /\
        attention = nil /\ nmedia = nil /\ nid = nil /\ ctl = nil /\
        ch = nil /\ op = nil /\ done = nil /\ eaten = nil /\ dead = nil /\
        bound = nil /\ lifc = nil /\ link = nil /\ self = nil /\
        routes = nil /\ nets = nil /\ allnodes = nil /\ filter = nil /\
        multi = nil /\ join = nil /\ connecting = nil /\ reader = nil /\
        arg = nil /\ unbinding = nil /\ nbind = nil /\ made = nil /\
        stolen = nil /\ early = nil /\ type = nil /\ prom = nil /\
        bridge = nil /\ headersonly = nil /\ bits = nil /\ nmaddr = nil /\
        open = nil /\ nprom = nil /\ nall = nil /\ known = nil /\
        hwprom = nil /\ mta = nil /\ flk = nil /\ nlk = nil /\ asked = nil /\
        ds = nil /\ inq = nil /\ ctlq = nil /\ outq = nil /\ nctl = nil /\
        rcvd = nil /\ lost = nil /\ mixed = nil /\ opens = nil /\
        enabled = nil /\ holder = nil /\ iq = nil /\ iqopen = nil /\
        istage = nil /\ rts = nil /\ oqstate = nil /\ starve = nil /\
        ostage = nil /\ thr = nil /\ tint = nil /\ rbr = nil /\ line = nil /\
        linects = nil /\ cts = nil /\ modem = nil /\ xonoff = nil /\
        blocked = nil /\ ctsbackoff = nil /\ hup = nil /\ dohup = nil /\
        drain = nil /\ nout = nil /\ nin = nil /\ nopen = nil /\
        dropped = nil /\ read = nil /\ missed = nil /\ deaf = nil /\
        stuck = nil /\ hoa = nil /\ south = nil /\ seq = nil /\ nul = nil /\
        dlsusp = nil /\ ulsusp = nil /\ dlpending = nil /\
        dlbuffered = nil /\ ulbuffered = nil /\ rx = nil /\ hand = nil /\
        sentul = nil /\ handed = nil /\ stale = nil
  \/ /\ on = "ports" /\ LocalPorts!Init
     /\ tr = nil /\ wire = nil /\ sent = nil /\ loc = nil /\ d = nil /\
        frames = nil /\ srb = nil /\ ent = nil /\ chain = nil /\ age = nil /\
        rxmt = nil /\ nextrxt = nil /\ sol = nil /\ flist = nil /\
        got = nil /\ root = nil /\ table = nil /\ queue = nil /\ rip = nil /\
        free = nil /\ nrpc = nil /\ tagmask = nil /\ rpc = nil /\
        series = nil /\ pos = nil /\ flush = nil /\ err = nil /\ srv = nil /\
        hungup = nil /\ nreq = nil /\ nflush = nil /\ notes = nil /\
        unled = nil /\ unflushed = nil /\ drv = nil /\ oq = nil /\
        ntx = nil /\ td = nil /\ tdh = nil /\ tdt = nil /\ ntq = nil /\
        hwtd = nil /\ calls = nil /\ tlock = nil /\ rd = nil /\ rdh = nil /\
        rdt = nil /\ lrdh = nil /\ rdfree = nil /\ hwrd = nil /\ nrx = nil /\
        pool = nil /\ held = nil /\ im = nil /\ icr = nil /\ rim = nil /\
        flag = nil /\ ci = nil /\ ctab = nil /\ ast = nil /\ sst = nil /\
        disk = nil /\ isr = nil /\ portm = nil /\ active = nil /\
        serial = nil /\ usectors = nil /\ mediachange = nil /\ req = nil /\
        buf = nil /\ nplug = nil /\ late = nil /\ gen = nil /\ ngen = nil /\
        ref = nil /\ unit = nil /\ raw = nil /\ medium = nil /\
        attention = nil /\ nmedia = nil /\ nid = nil /\ ctl = nil /\
        ch = nil /\ op = nil /\ done = nil /\ eaten = nil /\ dead = nil /\
        bound = nil /\ lifc = nil /\ link = nil /\ self = nil /\
        routes = nil /\ nets = nil /\ allnodes = nil /\ filter = nil /\
        multi = nil /\ join = nil /\ connecting = nil /\ reader = nil /\
        arg = nil /\ unbinding = nil /\ nbind = nil /\ made = nil /\
        stolen = nil /\ early = nil /\ type = nil /\ prom = nil /\
        bridge = nil /\ headersonly = nil /\ bits = nil /\ nmaddr = nil /\
        open = nil /\ nprom = nil /\ nall = nil /\ known = nil /\
        hwprom = nil /\ mta = nil /\ flk = nil /\ nlk = nil /\ asked = nil /\
        ds = nil /\ inq = nil /\ ctlq = nil /\ outq = nil /\ nctl = nil /\
        rcvd = nil /\ lost = nil /\ mixed = nil /\ opens = nil /\
        enabled = nil /\ holder = nil /\ iq = nil /\ iqopen = nil /\
        istage = nil /\ rts = nil /\ oqstate = nil /\ starve = nil /\
        ostage = nil /\ thr = nil /\ tint = nil /\ rbr = nil /\ line = nil /\
        linects = nil /\ cts = nil /\ modem = nil /\ xonoff = nil /\
        blocked = nil /\ ctsbackoff = nil /\ hup = nil /\ dohup = nil /\
        drain = nil /\ nout = nil /\ nin = nil /\ nopen = nil /\
        dropped = nil /\ read = nil /\ missed = nil /\ deaf = nil /\
        stuck = nil /\ hoa = nil /\ south = nil /\ seq = nil /\ nul = nil /\
        dlsusp = nil /\ ulsusp = nil /\ dlpending = nil /\
        dlbuffered = nil /\ ulbuffered = nil /\ rx = nil /\ hand = nil /\
        sentul = nil /\ handed = nil /\ stale = nil
  \/ /\ on = "binds" /\ Binds!Init
     /\ tr = nil /\ wire = nil /\ sent = nil /\ loc = nil /\ d = nil /\
        frames = nil /\ srb = nil /\ ent = nil /\ chain = nil /\ age = nil /\
        rxmt = nil /\ nextrxt = nil /\ sol = nil /\ flist = nil /\
        got = nil /\ root = nil /\ table = nil /\ queue = nil /\ rip = nil /\
        free = nil /\ nrpc = nil /\ tagmask = nil /\ rpc = nil /\
        series = nil /\ pos = nil /\ flush = nil /\ err = nil /\ srv = nil /\
        hungup = nil /\ nreq = nil /\ nflush = nil /\ notes = nil /\
        unled = nil /\ unflushed = nil /\ drv = nil /\ oq = nil /\
        ntx = nil /\ td = nil /\ tdh = nil /\ tdt = nil /\ ntq = nil /\
        hwtd = nil /\ calls = nil /\ tlock = nil /\ rd = nil /\ rdh = nil /\
        rdt = nil /\ lrdh = nil /\ rdfree = nil /\ hwrd = nil /\ nrx = nil /\
        pool = nil /\ held = nil /\ im = nil /\ icr = nil /\ rim = nil /\
        flag = nil /\ ci = nil /\ ctab = nil /\ ast = nil /\ sst = nil /\
        disk = nil /\ isr = nil /\ portm = nil /\ active = nil /\
        serial = nil /\ usectors = nil /\ mediachange = nil /\ req = nil /\
        buf = nil /\ nplug = nil /\ late = nil /\ gen = nil /\ ngen = nil /\
        ref = nil /\ unit = nil /\ raw = nil /\ medium = nil /\
        attention = nil /\ nmedia = nil /\ nid = nil /\ ctl = nil /\
        ch = nil /\ op = nil /\ done = nil /\ eaten = nil /\ dead = nil /\
        bound = nil /\ lifc = nil /\ link = nil /\ self = nil /\
        routes = nil /\ nets = nil /\ allnodes = nil /\ filter = nil /\
        multi = nil /\ join = nil /\ connecting = nil /\ reader = nil /\
        arg = nil /\ unbinding = nil /\ nbind = nil /\ made = nil /\
        stolen = nil /\ early = nil /\ type = nil /\ prom = nil /\
        bridge = nil /\ headersonly = nil /\ bits = nil /\ nmaddr = nil /\
        open = nil /\ nprom = nil /\ nall = nil /\ known = nil /\
        hwprom = nil /\ mta = nil /\ flk = nil /\ nlk = nil /\ asked = nil /\
        ds = nil /\ inq = nil /\ ctlq = nil /\ outq = nil /\ nctl = nil /\
        rcvd = nil /\ lost = nil /\ mixed = nil /\ opens = nil /\
        enabled = nil /\ holder = nil /\ iq = nil /\ iqopen = nil /\
        istage = nil /\ rts = nil /\ oqstate = nil /\ starve = nil /\
        ostage = nil /\ thr = nil /\ tint = nil /\ rbr = nil /\ line = nil /\
        linects = nil /\ cts = nil /\ modem = nil /\ xonoff = nil /\
        blocked = nil /\ ctsbackoff = nil /\ hup = nil /\ dohup = nil /\
        drain = nil /\ nout = nil /\ nin = nil /\ nopen = nil /\
        dropped = nil /\ read = nil /\ missed = nil /\ deaf = nil /\
        stuck = nil /\ hoa = nil /\ south = nil /\ seq = nil /\ nul = nil /\
        dlsusp = nil /\ ulsusp = nil /\ dlpending = nil /\
        dlbuffered = nil /\ ulbuffered = nil /\ rx = nil /\ hand = nil /\
        sentul = nil /\ handed = nil /\ stale = nil
  \/ /\ on = "joins" /\ Joins!Init
     /\ tr = nil /\ wire = nil /\ sent = nil /\ pc = nil /\ loc = nil /\
        d = nil /\ frames = nil /\ srb = nil /\ ent = nil /\ chain = nil /\
        age = nil /\ rxmt = nil /\ nextrxt = nil /\ sol = nil /\
        flist = nil /\ got = nil /\ root = nil /\ table = nil /\
        queue = nil /\ rip = nil /\ free = nil /\ nrpc = nil /\
        tagmask = nil /\ rpc = nil /\ series = nil /\ pos = nil /\
        flush = nil /\ err = nil /\ srv = nil /\ hungup = nil /\
        nreq = nil /\ nflush = nil /\ notes = nil /\ unled = nil /\
        unflushed = nil /\ drv = nil /\ oq = nil /\ ntx = nil /\ td = nil /\
        tdh = nil /\ tdt = nil /\ ntq = nil /\ hwtd = nil /\ calls = nil /\
        tlock = nil /\ rd = nil /\ rdh = nil /\ rdt = nil /\ lrdh = nil /\
        rdfree = nil /\ hwrd = nil /\ nrx = nil /\ pool = nil /\
        held = nil /\ im = nil /\ icr = nil /\ rim = nil /\ state = nil /\
        flag = nil /\ ci = nil /\ ctab = nil /\ ast = nil /\ sst = nil /\
        disk = nil /\ isr = nil /\ portm = nil /\ active = nil /\
        serial = nil /\ usectors = nil /\ mediachange = nil /\ req = nil /\
        buf = nil /\ nplug = nil /\ late = nil /\ gen = nil /\ ngen = nil /\
        ref = nil /\ unit = nil /\ raw = nil /\ medium = nil /\
        attention = nil /\ nmedia = nil /\ nid = nil /\ ctl = nil /\
        ch = nil /\ op = nil /\ done = nil /\ eaten = nil /\ dead = nil /\
        inuse = nil /\ quad = nil /\ headers = nil /\ incall = nil /\
        rq = nil /\ lk = nil /\ plock = nil /\ ht = nil /\ at = nil /\
        want = nil /\ fd = nil /\ pkt = nil /\ moved = nil /\ stray = nil /\
        raced = nil /\ type = nil /\ prom = nil /\ bridge = nil /\
        headersonly = nil /\ bits = nil /\ nmaddr = nil /\ open = nil /\
        nprom = nil /\ nall = nil /\ known = nil /\ hwprom = nil /\
        mta = nil /\ flk = nil /\ nlk = nil /\ asked = nil /\ ds = nil /\
        inq = nil /\ ctlq = nil /\ outq = nil /\ nctl = nil /\ rcvd = nil /\
        lost = nil /\ mixed = nil /\ opens = nil /\ enabled = nil /\
        holder = nil /\ iq = nil /\ iqopen = nil /\ istage = nil /\
        rts = nil /\ oqstate = nil /\ starve = nil /\ ostage = nil /\
        thr = nil /\ tint = nil /\ rbr = nil /\ line = nil /\
        linects = nil /\ cts = nil /\ modem = nil /\ xonoff = nil /\
        blocked = nil /\ ctsbackoff = nil /\ hup = nil /\ dohup = nil /\
        drain = nil /\ nout = nil /\ nin = nil /\ nopen = nil /\
        dropped = nil /\ read = nil /\ missed = nil /\ deaf = nil /\
        stuck = nil /\ hoa = nil /\ south = nil /\ seq = nil /\ nul = nil /\
        dlsusp = nil /\ ulsusp = nil /\ dlpending = nil /\
        dlbuffered = nil /\ ulbuffered = nil /\ rx = nil /\ hand = nil /\
        sentul = nil /\ handed = nil /\ stale = nil
  \/ /\ on = "media" /\ Media!Init
     /\ tr = nil /\ wire = nil /\ sent = nil /\ pc = nil /\ loc = nil /\
        d = nil /\ frames = nil /\ srb = nil /\ ent = nil /\ chain = nil /\
        age = nil /\ rxmt = nil /\ nextrxt = nil /\ sol = nil /\
        flist = nil /\ got = nil /\ root = nil /\ table = nil /\
        queue = nil /\ rip = nil /\ free = nil /\ nrpc = nil /\
        tagmask = nil /\ rpc = nil /\ series = nil /\ pos = nil /\
        flush = nil /\ err = nil /\ srv = nil /\ hungup = nil /\
        nreq = nil /\ nflush = nil /\ notes = nil /\ unled = nil /\
        unflushed = nil /\ drv = nil /\ oq = nil /\ ntx = nil /\ td = nil /\
        tdh = nil /\ tdt = nil /\ ntq = nil /\ hwtd = nil /\ calls = nil /\
        tlock = nil /\ rd = nil /\ rdh = nil /\ rdt = nil /\ lrdh = nil /\
        rdfree = nil /\ hwrd = nil /\ nrx = nil /\ pool = nil /\
        held = nil /\ im = nil /\ icr = nil /\ rim = nil /\ state = nil /\
        flag = nil /\ ci = nil /\ ctab = nil /\ ast = nil /\ sst = nil /\
        disk = nil /\ isr = nil /\ portm = nil /\ active = nil /\
        serial = nil /\ usectors = nil /\ mediachange = nil /\ req = nil /\
        buf = nil /\ nplug = nil /\ late = nil /\ gen = nil /\ ngen = nil /\
        ref = nil /\ unit = nil /\ raw = nil /\ medium = nil /\
        attention = nil /\ nmedia = nil /\ nid = nil /\ ctl = nil /\
        ch = nil /\ op = nil /\ done = nil /\ eaten = nil /\ dead = nil /\
        inuse = nil /\ quad = nil /\ headers = nil /\ incall = nil /\
        rq = nil /\ lk = nil /\ plock = nil /\ ht = nil /\ at = nil /\
        want = nil /\ fd = nil /\ pkt = nil /\ moved = nil /\ stray = nil /\
        raced = nil /\ type = nil /\ prom = nil /\ bridge = nil /\
        headersonly = nil /\ bits = nil /\ nmaddr = nil /\ open = nil /\
        nprom = nil /\ nall = nil /\ known = nil /\ hwprom = nil /\
        mta = nil /\ flk = nil /\ nlk = nil /\ asked = nil /\ ds = nil /\
        inq = nil /\ ctlq = nil /\ outq = nil /\ nctl = nil /\ rcvd = nil /\
        lost = nil /\ mixed = nil /\ opens = nil /\ enabled = nil /\
        holder = nil /\ iq = nil /\ iqopen = nil /\ istage = nil /\
        rts = nil /\ oqstate = nil /\ starve = nil /\ ostage = nil /\
        thr = nil /\ tint = nil /\ rbr = nil /\ line = nil /\
        linects = nil /\ cts = nil /\ modem = nil /\ xonoff = nil /\
        blocked = nil /\ ctsbackoff = nil /\ hup = nil /\ dohup = nil /\
        drain = nil /\ nout = nil /\ nin = nil /\ nopen = nil /\
        dropped = nil /\ read = nil /\ missed = nil /\ deaf = nil /\
        stuck = nil /\ hoa = nil /\ south = nil /\ seq = nil /\ nul = nil /\
        dlsusp = nil /\ ulsusp = nil /\ dlpending = nil /\
        dlbuffered = nil /\ ulbuffered = nil /\ rx = nil /\ hand = nil /\
        sentul = nil /\ handed = nil /\ stale = nil
  \/ /\ on = "filters" /\ Filters!Init
     /\ tr = nil /\ wire = nil /\ sent = nil /\ loc = nil /\ d = nil /\
        frames = nil /\ srb = nil /\ ent = nil /\ chain = nil /\ age = nil /\
        rxmt = nil /\ nextrxt = nil /\ sol = nil /\ flist = nil /\
        got = nil /\ root = nil /\ table = nil /\ queue = nil /\ rip = nil /\
        free = nil /\ nrpc = nil /\ tagmask = nil /\ rpc = nil /\
        series = nil /\ pos = nil /\ flush = nil /\ err = nil /\ srv = nil /\
        hungup = nil /\ nreq = nil /\ nflush = nil /\ notes = nil /\
        unled = nil /\ unflushed = nil /\ drv = nil /\ oq = nil /\
        ntx = nil /\ td = nil /\ tdh = nil /\ tdt = nil /\ ntq = nil /\
        hwtd = nil /\ calls = nil /\ tlock = nil /\ rd = nil /\ rdh = nil /\
        rdt = nil /\ lrdh = nil /\ rdfree = nil /\ hwrd = nil /\ nrx = nil /\
        pool = nil /\ held = nil /\ im = nil /\ icr = nil /\ rim = nil /\
        state = nil /\ flag = nil /\ ci = nil /\ ctab = nil /\ ast = nil /\
        sst = nil /\ disk = nil /\ isr = nil /\ portm = nil /\
        active = nil /\ serial = nil /\ usectors = nil /\
        mediachange = nil /\ req = nil /\ buf = nil /\ nplug = nil /\
        late = nil /\ gen = nil /\ ngen = nil /\ unit = nil /\ raw = nil /\
        medium = nil /\ attention = nil /\ nmedia = nil /\ nid = nil /\
        ctl = nil /\ ch = nil /\ op = nil /\ done = nil /\ eaten = nil /\
        dead = nil /\ quad = nil /\ headers = nil /\ incall = nil /\
        rq = nil /\ lk = nil /\ plock = nil /\ ht = nil /\ want = nil /\
        pkt = nil /\ moved = nil /\ stray = nil /\ raced = nil /\
        bound = nil /\ lifc = nil /\ link = nil /\ self = nil /\
        routes = nil /\ nets = nil /\ allnodes = nil /\ filter = nil /\
        multi = nil /\ join = nil /\ connecting = nil /\ reader = nil /\
        arg = nil /\ unbinding = nil /\ nbind = nil /\ made = nil /\
        stolen = nil /\ early = nil /\ ds = nil /\ inq = nil /\ ctlq = nil /\
        outq = nil /\ nctl = nil /\ rcvd = nil /\ lost = nil /\
        mixed = nil /\ opens = nil /\ enabled = nil /\ holder = nil /\
        iq = nil /\ iqopen = nil /\ istage = nil /\ rts = nil /\
        oqstate = nil /\ starve = nil /\ ostage = nil /\ thr = nil /\
        tint = nil /\ rbr = nil /\ line = nil /\ linects = nil /\
        cts = nil /\ modem = nil /\ xonoff = nil /\ blocked = nil /\
        ctsbackoff = nil /\ hup = nil /\ dohup = nil /\ drain = nil /\
        nout = nil /\ nin = nil /\ nopen = nil /\ dropped = nil /\
        read = nil /\ missed = nil /\ deaf = nil /\ stuck = nil /\
        hoa = nil /\ south = nil /\ seq = nil /\ nul = nil /\ dlsusp = nil /\
        ulsusp = nil /\ dlpending = nil /\ dlbuffered = nil /\
        ulbuffered = nil /\ rx = nil /\ hand = nil /\ sentul = nil /\
        handed = nil /\ stale = nil
  \/ /\ on = "netfiles" /\ Netfiles!Init
     /\ tr = nil /\ wire = nil /\ sent = nil /\ loc = nil /\ d = nil /\
        frames = nil /\ srb = nil /\ ent = nil /\ chain = nil /\ age = nil /\
        rxmt = nil /\ nextrxt = nil /\ sol = nil /\ flist = nil /\
        got = nil /\ root = nil /\ table = nil /\ queue = nil /\ rip = nil /\
        free = nil /\ nrpc = nil /\ tagmask = nil /\ rpc = nil /\
        series = nil /\ pos = nil /\ flush = nil /\ err = nil /\ srv = nil /\
        hungup = nil /\ nreq = nil /\ nflush = nil /\ notes = nil /\
        unled = nil /\ unflushed = nil /\ drv = nil /\ oq = nil /\
        ntx = nil /\ td = nil /\ tdh = nil /\ tdt = nil /\ ntq = nil /\
        hwtd = nil /\ calls = nil /\ tlock = nil /\ rd = nil /\ rdh = nil /\
        rdt = nil /\ lrdh = nil /\ rdfree = nil /\ hwrd = nil /\ nrx = nil /\
        pool = nil /\ held = nil /\ im = nil /\ icr = nil /\ rim = nil /\
        state = nil /\ flag = nil /\ ci = nil /\ ctab = nil /\ ast = nil /\
        sst = nil /\ disk = nil /\ isr = nil /\ portm = nil /\
        active = nil /\ serial = nil /\ usectors = nil /\
        mediachange = nil /\ req = nil /\ buf = nil /\ nplug = nil /\
        late = nil /\ gen = nil /\ ngen = nil /\ unit = nil /\ raw = nil /\
        medium = nil /\ attention = nil /\ nmedia = nil /\ nid = nil /\
        ctl = nil /\ ch = nil /\ op = nil /\ done = nil /\ eaten = nil /\
        dead = nil /\ quad = nil /\ headers = nil /\ incall = nil /\
        rq = nil /\ lk = nil /\ plock = nil /\ ht = nil /\ want = nil /\
        pkt = nil /\ moved = nil /\ stray = nil /\ raced = nil /\
        bound = nil /\ lifc = nil /\ link = nil /\ self = nil /\
        routes = nil /\ nets = nil /\ allnodes = nil /\ filter = nil /\
        multi = nil /\ join = nil /\ connecting = nil /\ reader = nil /\
        arg = nil /\ unbinding = nil /\ nbind = nil /\ made = nil /\
        stolen = nil /\ early = nil /\ ds = nil /\ inq = nil /\ ctlq = nil /\
        outq = nil /\ nctl = nil /\ rcvd = nil /\ lost = nil /\
        mixed = nil /\ opens = nil /\ enabled = nil /\ holder = nil /\
        iq = nil /\ iqopen = nil /\ istage = nil /\ rts = nil /\
        oqstate = nil /\ starve = nil /\ ostage = nil /\ thr = nil /\
        tint = nil /\ rbr = nil /\ line = nil /\ linects = nil /\
        cts = nil /\ modem = nil /\ xonoff = nil /\ blocked = nil /\
        ctsbackoff = nil /\ hup = nil /\ dohup = nil /\ drain = nil /\
        nout = nil /\ nin = nil /\ nopen = nil /\ dropped = nil /\
        read = nil /\ missed = nil /\ deaf = nil /\ stuck = nil /\
        hoa = nil /\ south = nil /\ seq = nil /\ nul = nil /\ dlsusp = nil /\
        ulsusp = nil /\ dlpending = nil /\ dlbuffered = nil /\
        ulbuffered = nil /\ rx = nil /\ hand = nil /\ sentul = nil /\
        handed = nil /\ stale = nil
  \/ /\ on = "records" /\ Records!Init
     /\ tr = nil /\ loc = nil /\ d = nil /\ frames = nil /\ srb = nil /\
        ent = nil /\ chain = nil /\ age = nil /\ rxmt = nil /\
        nextrxt = nil /\ sol = nil /\ flist = nil /\ got = nil /\
        root = nil /\ table = nil /\ queue = nil /\ rip = nil /\
        free = nil /\ nrpc = nil /\ tagmask = nil /\ rpc = nil /\
        series = nil /\ pos = nil /\ flush = nil /\ err = nil /\ srv = nil /\
        hungup = nil /\ nreq = nil /\ nflush = nil /\ notes = nil /\
        unled = nil /\ unflushed = nil /\ drv = nil /\ oq = nil /\
        ntx = nil /\ td = nil /\ tdh = nil /\ tdt = nil /\ ntq = nil /\
        hwtd = nil /\ calls = nil /\ tlock = nil /\ rd = nil /\ rdh = nil /\
        rdt = nil /\ lrdh = nil /\ rdfree = nil /\ hwrd = nil /\ nrx = nil /\
        pool = nil /\ held = nil /\ im = nil /\ icr = nil /\ rim = nil /\
        state = nil /\ flag = nil /\ ci = nil /\ ctab = nil /\ ast = nil /\
        sst = nil /\ disk = nil /\ isr = nil /\ portm = nil /\
        active = nil /\ serial = nil /\ usectors = nil /\
        mediachange = nil /\ req = nil /\ buf = nil /\ nplug = nil /\
        late = nil /\ gen = nil /\ ngen = nil /\ ref = nil /\ unit = nil /\
        raw = nil /\ medium = nil /\ attention = nil /\ nmedia = nil /\
        nid = nil /\ ctl = nil /\ ch = nil /\ op = nil /\ done = nil /\
        eaten = nil /\ dead = nil /\ inuse = nil /\ quad = nil /\
        headers = nil /\ incall = nil /\ rq = nil /\ lk = nil /\
        plock = nil /\ ht = nil /\ at = nil /\ want = nil /\ pkt = nil /\
        moved = nil /\ stray = nil /\ raced = nil /\ bound = nil /\
        lifc = nil /\ link = nil /\ self = nil /\ routes = nil /\
        nets = nil /\ allnodes = nil /\ filter = nil /\ multi = nil /\
        join = nil /\ connecting = nil /\ reader = nil /\ unbinding = nil /\
        nbind = nil /\ made = nil /\ stolen = nil /\ early = nil /\
        type = nil /\ prom = nil /\ bridge = nil /\ headersonly = nil /\
        bits = nil /\ nmaddr = nil /\ open = nil /\ nprom = nil /\
        nall = nil /\ known = nil /\ hwprom = nil /\ mta = nil /\
        flk = nil /\ nlk = nil /\ asked = nil /\ opens = nil /\
        enabled = nil /\ holder = nil /\ iq = nil /\ iqopen = nil /\
        istage = nil /\ rts = nil /\ oqstate = nil /\ starve = nil /\
        ostage = nil /\ thr = nil /\ tint = nil /\ rbr = nil /\ line = nil /\
        linects = nil /\ cts = nil /\ modem = nil /\ xonoff = nil /\
        blocked = nil /\ ctsbackoff = nil /\ hup = nil /\ dohup = nil /\
        drain = nil /\ nout = nil /\ nin = nil /\ nopen = nil /\
        dropped = nil /\ read = nil /\ missed = nil /\ deaf = nil /\
        stuck = nil /\ hoa = nil /\ south = nil /\ seq = nil /\ nul = nil /\
        dlsusp = nil /\ ulsusp = nil /\ dlpending = nil /\
        dlbuffered = nil /\ ulbuffered = nil /\ rx = nil /\ hand = nil /\
        sentul = nil /\ handed = nil /\ stale = nil
  \/ /\ on = "sslctl" /\ Sslctl!Init
     /\ tr = nil /\ loc = nil /\ d = nil /\ frames = nil /\ srb = nil /\
        ent = nil /\ chain = nil /\ age = nil /\ rxmt = nil /\
        nextrxt = nil /\ sol = nil /\ flist = nil /\ got = nil /\
        root = nil /\ table = nil /\ queue = nil /\ rip = nil /\
        free = nil /\ nrpc = nil /\ tagmask = nil /\ rpc = nil /\
        series = nil /\ pos = nil /\ flush = nil /\ err = nil /\ srv = nil /\
        hungup = nil /\ nreq = nil /\ nflush = nil /\ notes = nil /\
        unled = nil /\ unflushed = nil /\ drv = nil /\ oq = nil /\
        ntx = nil /\ td = nil /\ tdh = nil /\ tdt = nil /\ ntq = nil /\
        hwtd = nil /\ calls = nil /\ tlock = nil /\ rd = nil /\ rdh = nil /\
        rdt = nil /\ lrdh = nil /\ rdfree = nil /\ hwrd = nil /\ nrx = nil /\
        pool = nil /\ held = nil /\ im = nil /\ icr = nil /\ rim = nil /\
        state = nil /\ flag = nil /\ ci = nil /\ ctab = nil /\ ast = nil /\
        sst = nil /\ disk = nil /\ isr = nil /\ portm = nil /\
        active = nil /\ serial = nil /\ usectors = nil /\
        mediachange = nil /\ req = nil /\ buf = nil /\ nplug = nil /\
        late = nil /\ gen = nil /\ ngen = nil /\ ref = nil /\ unit = nil /\
        raw = nil /\ medium = nil /\ attention = nil /\ nmedia = nil /\
        nid = nil /\ ctl = nil /\ ch = nil /\ op = nil /\ done = nil /\
        eaten = nil /\ dead = nil /\ inuse = nil /\ quad = nil /\
        headers = nil /\ incall = nil /\ rq = nil /\ lk = nil /\
        plock = nil /\ ht = nil /\ at = nil /\ want = nil /\ pkt = nil /\
        moved = nil /\ stray = nil /\ raced = nil /\ bound = nil /\
        lifc = nil /\ link = nil /\ self = nil /\ routes = nil /\
        nets = nil /\ allnodes = nil /\ filter = nil /\ multi = nil /\
        join = nil /\ connecting = nil /\ reader = nil /\ unbinding = nil /\
        nbind = nil /\ made = nil /\ stolen = nil /\ early = nil /\
        type = nil /\ prom = nil /\ bridge = nil /\ headersonly = nil /\
        bits = nil /\ nmaddr = nil /\ open = nil /\ nprom = nil /\
        nall = nil /\ known = nil /\ hwprom = nil /\ mta = nil /\
        flk = nil /\ nlk = nil /\ asked = nil /\ opens = nil /\
        enabled = nil /\ holder = nil /\ iq = nil /\ iqopen = nil /\
        istage = nil /\ rts = nil /\ oqstate = nil /\ starve = nil /\
        ostage = nil /\ thr = nil /\ tint = nil /\ rbr = nil /\ line = nil /\
        linects = nil /\ cts = nil /\ modem = nil /\ xonoff = nil /\
        blocked = nil /\ ctsbackoff = nil /\ hup = nil /\ dohup = nil /\
        drain = nil /\ nout = nil /\ nin = nil /\ nopen = nil /\
        dropped = nil /\ read = nil /\ missed = nil /\ deaf = nil /\
        stuck = nil /\ hoa = nil /\ south = nil /\ seq = nil /\ nul = nil /\
        dlsusp = nil /\ ulsusp = nil /\ dlpending = nil /\
        dlbuffered = nil /\ ulbuffered = nil /\ rx = nil /\ hand = nil /\
        sentul = nil /\ handed = nil /\ stale = nil
  \/ /\ on = "xon" /\ Xon!Init
     /\ tr = nil /\ wire = nil /\ sent = nil /\ loc = nil /\ d = nil /\
        frames = nil /\ srb = nil /\ ent = nil /\ chain = nil /\ age = nil /\
        rxmt = nil /\ nextrxt = nil /\ sol = nil /\ flist = nil /\
        got = nil /\ root = nil /\ table = nil /\ queue = nil /\ rip = nil /\
        free = nil /\ nrpc = nil /\ tagmask = nil /\ rpc = nil /\
        series = nil /\ pos = nil /\ flush = nil /\ err = nil /\ srv = nil /\
        hungup = nil /\ nreq = nil /\ nflush = nil /\ notes = nil /\
        unled = nil /\ unflushed = nil /\ drv = nil /\ ntx = nil /\
        td = nil /\ tdh = nil /\ tdt = nil /\ ntq = nil /\ hwtd = nil /\
        calls = nil /\ tlock = nil /\ rd = nil /\ rdh = nil /\ rdt = nil /\
        lrdh = nil /\ rdfree = nil /\ hwrd = nil /\ nrx = nil /\
        pool = nil /\ held = nil /\ im = nil /\ icr = nil /\ rim = nil /\
        state = nil /\ flag = nil /\ ci = nil /\ ctab = nil /\ ast = nil /\
        sst = nil /\ disk = nil /\ isr = nil /\ portm = nil /\
        active = nil /\ serial = nil /\ usectors = nil /\
        mediachange = nil /\ req = nil /\ buf = nil /\ nplug = nil /\
        late = nil /\ gen = nil /\ ngen = nil /\ ref = nil /\ unit = nil /\
        raw = nil /\ medium = nil /\ attention = nil /\ nmedia = nil /\
        nid = nil /\ ctl = nil /\ ch = nil /\ op = nil /\ done = nil /\
        eaten = nil /\ dead = nil /\ inuse = nil /\ quad = nil /\
        headers = nil /\ incall = nil /\ rq = nil /\ lk = nil /\
        plock = nil /\ ht = nil /\ at = nil /\ want = nil /\ pkt = nil /\
        moved = nil /\ stray = nil /\ raced = nil /\ bound = nil /\
        lifc = nil /\ link = nil /\ self = nil /\ routes = nil /\
        nets = nil /\ allnodes = nil /\ filter = nil /\ multi = nil /\
        join = nil /\ connecting = nil /\ reader = nil /\ unbinding = nil /\
        nbind = nil /\ made = nil /\ stolen = nil /\ early = nil /\
        type = nil /\ prom = nil /\ bridge = nil /\ headersonly = nil /\
        bits = nil /\ nmaddr = nil /\ open = nil /\ nprom = nil /\
        nall = nil /\ known = nil /\ hwprom = nil /\ mta = nil /\
        flk = nil /\ nlk = nil /\ asked = nil /\ ds = nil /\ inq = nil /\
        ctlq = nil /\ outq = nil /\ nctl = nil /\ rcvd = nil /\ lost = nil /\
        mixed = nil /\ hoa = nil /\ south = nil /\ seq = nil /\ nul = nil /\
        dlsusp = nil /\ ulsusp = nil /\ dlpending = nil /\
        dlbuffered = nil /\ ulbuffered = nil /\ rx = nil /\ hand = nil /\
        sentul = nil /\ handed = nil /\ stale = nil
  \/ /\ on = "modem" /\ Modem!Init
     /\ tr = nil /\ wire = nil /\ sent = nil /\ loc = nil /\ d = nil /\
        frames = nil /\ srb = nil /\ ent = nil /\ chain = nil /\ age = nil /\
        rxmt = nil /\ nextrxt = nil /\ sol = nil /\ flist = nil /\
        got = nil /\ root = nil /\ table = nil /\ queue = nil /\ rip = nil /\
        free = nil /\ nrpc = nil /\ tagmask = nil /\ rpc = nil /\
        series = nil /\ pos = nil /\ flush = nil /\ err = nil /\ srv = nil /\
        hungup = nil /\ nreq = nil /\ nflush = nil /\ notes = nil /\
        unled = nil /\ unflushed = nil /\ drv = nil /\ ntx = nil /\
        td = nil /\ tdh = nil /\ tdt = nil /\ ntq = nil /\ hwtd = nil /\
        calls = nil /\ tlock = nil /\ rd = nil /\ rdh = nil /\ rdt = nil /\
        lrdh = nil /\ rdfree = nil /\ hwrd = nil /\ nrx = nil /\
        pool = nil /\ held = nil /\ im = nil /\ icr = nil /\ rim = nil /\
        state = nil /\ flag = nil /\ ci = nil /\ ctab = nil /\ ast = nil /\
        sst = nil /\ disk = nil /\ isr = nil /\ portm = nil /\
        active = nil /\ serial = nil /\ usectors = nil /\
        mediachange = nil /\ req = nil /\ buf = nil /\ nplug = nil /\
        late = nil /\ gen = nil /\ ngen = nil /\ ref = nil /\ unit = nil /\
        raw = nil /\ medium = nil /\ attention = nil /\ nmedia = nil /\
        nid = nil /\ ctl = nil /\ ch = nil /\ op = nil /\ done = nil /\
        eaten = nil /\ dead = nil /\ inuse = nil /\ quad = nil /\
        headers = nil /\ incall = nil /\ rq = nil /\ lk = nil /\
        plock = nil /\ ht = nil /\ at = nil /\ want = nil /\ pkt = nil /\
        moved = nil /\ stray = nil /\ raced = nil /\ bound = nil /\
        lifc = nil /\ link = nil /\ self = nil /\ routes = nil /\
        nets = nil /\ allnodes = nil /\ filter = nil /\ multi = nil /\
        join = nil /\ connecting = nil /\ reader = nil /\ unbinding = nil /\
        nbind = nil /\ made = nil /\ stolen = nil /\ early = nil /\
        type = nil /\ prom = nil /\ bridge = nil /\ headersonly = nil /\
        bits = nil /\ nmaddr = nil /\ open = nil /\ nprom = nil /\
        nall = nil /\ known = nil /\ hwprom = nil /\ mta = nil /\
        flk = nil /\ nlk = nil /\ asked = nil /\ ds = nil /\ inq = nil /\
        ctlq = nil /\ outq = nil /\ nctl = nil /\ rcvd = nil /\ lost = nil /\
        mixed = nil /\ hoa = nil /\ south = nil /\ seq = nil /\ nul = nil /\
        dlsusp = nil /\ ulsusp = nil /\ dlpending = nil /\
        dlbuffered = nil /\ ulbuffered = nil /\ rx = nil /\ hand = nil /\
        sentul = nil /\ handed = nil /\ stale = nil
  \/ /\ on = "linein" /\ Linein!Init
     /\ tr = nil /\ wire = nil /\ sent = nil /\ loc = nil /\ d = nil /\
        frames = nil /\ srb = nil /\ ent = nil /\ chain = nil /\ age = nil /\
        rxmt = nil /\ nextrxt = nil /\ sol = nil /\ flist = nil /\
        got = nil /\ root = nil /\ table = nil /\ queue = nil /\ rip = nil /\
        free = nil /\ nrpc = nil /\ tagmask = nil /\ rpc = nil /\
        series = nil /\ pos = nil /\ flush = nil /\ err = nil /\ srv = nil /\
        hungup = nil /\ nreq = nil /\ nflush = nil /\ notes = nil /\
        unled = nil /\ unflushed = nil /\ drv = nil /\ ntx = nil /\
        td = nil /\ tdh = nil /\ tdt = nil /\ ntq = nil /\ hwtd = nil /\
        calls = nil /\ tlock = nil /\ rd = nil /\ rdh = nil /\ rdt = nil /\
        lrdh = nil /\ rdfree = nil /\ hwrd = nil /\ nrx = nil /\
        pool = nil /\ held = nil /\ im = nil /\ icr = nil /\ rim = nil /\
        state = nil /\ flag = nil /\ ci = nil /\ ctab = nil /\ ast = nil /\
        sst = nil /\ disk = nil /\ isr = nil /\ portm = nil /\
        active = nil /\ serial = nil /\ usectors = nil /\
        mediachange = nil /\ req = nil /\ buf = nil /\ nplug = nil /\
        late = nil /\ gen = nil /\ ngen = nil /\ ref = nil /\ unit = nil /\
        raw = nil /\ medium = nil /\ attention = nil /\ nmedia = nil /\
        nid = nil /\ ctl = nil /\ ch = nil /\ op = nil /\ done = nil /\
        eaten = nil /\ dead = nil /\ inuse = nil /\ quad = nil /\
        headers = nil /\ incall = nil /\ rq = nil /\ lk = nil /\
        plock = nil /\ ht = nil /\ at = nil /\ want = nil /\ pkt = nil /\
        moved = nil /\ stray = nil /\ raced = nil /\ bound = nil /\
        lifc = nil /\ link = nil /\ self = nil /\ routes = nil /\
        nets = nil /\ allnodes = nil /\ filter = nil /\ multi = nil /\
        join = nil /\ connecting = nil /\ reader = nil /\ unbinding = nil /\
        nbind = nil /\ made = nil /\ stolen = nil /\ early = nil /\
        type = nil /\ prom = nil /\ bridge = nil /\ headersonly = nil /\
        bits = nil /\ nmaddr = nil /\ open = nil /\ nprom = nil /\
        nall = nil /\ known = nil /\ hwprom = nil /\ mta = nil /\
        flk = nil /\ nlk = nil /\ asked = nil /\ ds = nil /\ inq = nil /\
        ctlq = nil /\ outq = nil /\ nctl = nil /\ rcvd = nil /\ lost = nil /\
        mixed = nil /\ hoa = nil /\ south = nil /\ seq = nil /\ nul = nil /\
        dlsusp = nil /\ ulsusp = nil /\ dlpending = nil /\
        dlbuffered = nil /\ ulbuffered = nil /\ rx = nil /\ hand = nil /\
        sentul = nil /\ handed = nil /\ stale = nil
  \/ /\ on = "drains" /\ Drains!Init
     /\ tr = nil /\ wire = nil /\ sent = nil /\ loc = nil /\ d = nil /\
        frames = nil /\ srb = nil /\ ent = nil /\ chain = nil /\ age = nil /\
        rxmt = nil /\ nextrxt = nil /\ sol = nil /\ flist = nil /\
        got = nil /\ root = nil /\ table = nil /\ queue = nil /\ rip = nil /\
        free = nil /\ nrpc = nil /\ tagmask = nil /\ rpc = nil /\
        series = nil /\ pos = nil /\ flush = nil /\ err = nil /\ srv = nil /\
        hungup = nil /\ nreq = nil /\ nflush = nil /\ notes = nil /\
        unled = nil /\ unflushed = nil /\ drv = nil /\ ntx = nil /\
        td = nil /\ tdh = nil /\ tdt = nil /\ ntq = nil /\ hwtd = nil /\
        calls = nil /\ tlock = nil /\ rd = nil /\ rdh = nil /\ rdt = nil /\
        lrdh = nil /\ rdfree = nil /\ hwrd = nil /\ nrx = nil /\
        pool = nil /\ held = nil /\ im = nil /\ icr = nil /\ rim = nil /\
        state = nil /\ flag = nil /\ ci = nil /\ ctab = nil /\ ast = nil /\
        sst = nil /\ disk = nil /\ isr = nil /\ portm = nil /\
        active = nil /\ serial = nil /\ usectors = nil /\
        mediachange = nil /\ req = nil /\ buf = nil /\ nplug = nil /\
        late = nil /\ gen = nil /\ ngen = nil /\ ref = nil /\ unit = nil /\
        raw = nil /\ medium = nil /\ attention = nil /\ nmedia = nil /\
        nid = nil /\ ctl = nil /\ ch = nil /\ op = nil /\ done = nil /\
        eaten = nil /\ dead = nil /\ inuse = nil /\ quad = nil /\
        headers = nil /\ incall = nil /\ rq = nil /\ lk = nil /\
        plock = nil /\ ht = nil /\ at = nil /\ want = nil /\ pkt = nil /\
        moved = nil /\ stray = nil /\ raced = nil /\ bound = nil /\
        lifc = nil /\ link = nil /\ self = nil /\ routes = nil /\
        nets = nil /\ allnodes = nil /\ filter = nil /\ multi = nil /\
        join = nil /\ connecting = nil /\ reader = nil /\ unbinding = nil /\
        nbind = nil /\ made = nil /\ stolen = nil /\ early = nil /\
        type = nil /\ prom = nil /\ bridge = nil /\ headersonly = nil /\
        bits = nil /\ nmaddr = nil /\ open = nil /\ nprom = nil /\
        nall = nil /\ known = nil /\ hwprom = nil /\ mta = nil /\
        flk = nil /\ nlk = nil /\ asked = nil /\ ds = nil /\ inq = nil /\
        ctlq = nil /\ outq = nil /\ nctl = nil /\ rcvd = nil /\ lost = nil /\
        mixed = nil /\ hoa = nil /\ south = nil /\ seq = nil /\ nul = nil /\
        dlsusp = nil /\ ulsusp = nil /\ dlpending = nil /\
        dlbuffered = nil /\ ulbuffered = nil /\ rx = nil /\ hand = nil /\
        sentul = nil /\ handed = nil /\ stale = nil
  \/ /\ on = "downlink" /\ Downlink!Init
     /\ tr = nil /\ wire = nil /\ pc = nil /\ loc = nil /\ d = nil /\
        frames = nil /\ srb = nil /\ ent = nil /\ chain = nil /\ age = nil /\
        rxmt = nil /\ nextrxt = nil /\ sol = nil /\ flist = nil /\
        got = nil /\ root = nil /\ table = nil /\ queue = nil /\ rip = nil /\
        free = nil /\ nrpc = nil /\ tagmask = nil /\ rpc = nil /\
        series = nil /\ pos = nil /\ flush = nil /\ err = nil /\ srv = nil /\
        hungup = nil /\ nreq = nil /\ nflush = nil /\ notes = nil /\
        unled = nil /\ unflushed = nil /\ drv = nil /\ oq = nil /\
        ntx = nil /\ td = nil /\ tdh = nil /\ tdt = nil /\ ntq = nil /\
        hwtd = nil /\ calls = nil /\ tlock = nil /\ rd = nil /\ rdh = nil /\
        rdt = nil /\ lrdh = nil /\ rdfree = nil /\ hwrd = nil /\ nrx = nil /\
        pool = nil /\ held = nil /\ im = nil /\ icr = nil /\ rim = nil /\
        state = nil /\ flag = nil /\ ci = nil /\ ctab = nil /\ ast = nil /\
        sst = nil /\ disk = nil /\ isr = nil /\ portm = nil /\
        active = nil /\ serial = nil /\ usectors = nil /\
        mediachange = nil /\ req = nil /\ buf = nil /\ nplug = nil /\
        late = nil /\ gen = nil /\ ngen = nil /\ ref = nil /\ unit = nil /\
        raw = nil /\ medium = nil /\ attention = nil /\ nmedia = nil /\
        nid = nil /\ ch = nil /\ op = nil /\ done = nil /\ eaten = nil /\
        dead = nil /\ inuse = nil /\ quad = nil /\ headers = nil /\
        incall = nil /\ rq = nil /\ lk = nil /\ plock = nil /\ ht = nil /\
        at = nil /\ want = nil /\ fd = nil /\ moved = nil /\ stray = nil /\
        raced = nil /\ bound = nil /\ lifc = nil /\ link = nil /\
        self = nil /\ routes = nil /\ nets = nil /\ allnodes = nil /\
        filter = nil /\ multi = nil /\ join = nil /\ connecting = nil /\
        reader = nil /\ arg = nil /\ unbinding = nil /\ nbind = nil /\
        made = nil /\ stolen = nil /\ early = nil /\ type = nil /\
        prom = nil /\ bridge = nil /\ headersonly = nil /\ bits = nil /\
        nmaddr = nil /\ open = nil /\ nprom = nil /\ nall = nil /\
        known = nil /\ hwprom = nil /\ mta = nil /\ flk = nil /\ nlk = nil /\
        asked = nil /\ ds = nil /\ inq = nil /\ ctlq = nil /\ outq = nil /\
        nctl = nil /\ rcvd = nil /\ mixed = nil /\ opens = nil /\
        enabled = nil /\ holder = nil /\ iq = nil /\ iqopen = nil /\
        istage = nil /\ rts = nil /\ oqstate = nil /\ starve = nil /\
        ostage = nil /\ thr = nil /\ tint = nil /\ rbr = nil /\ line = nil /\
        linects = nil /\ cts = nil /\ modem = nil /\ xonoff = nil /\
        blocked = nil /\ ctsbackoff = nil /\ hup = nil /\ dohup = nil /\
        drain = nil /\ nout = nil /\ nin = nil /\ nopen = nil /\
        dropped = nil /\ read = nil /\ missed = nil /\ deaf = nil /\
        stuck = nil
  \/ /\ on = "handover" /\ Handover!Init
     /\ tr = nil /\ wire = nil /\ pc = nil /\ loc = nil /\ d = nil /\
        frames = nil /\ srb = nil /\ ent = nil /\ chain = nil /\ age = nil /\
        rxmt = nil /\ nextrxt = nil /\ sol = nil /\ flist = nil /\
        got = nil /\ root = nil /\ table = nil /\ queue = nil /\ rip = nil /\
        free = nil /\ nrpc = nil /\ tagmask = nil /\ rpc = nil /\
        series = nil /\ pos = nil /\ flush = nil /\ err = nil /\ srv = nil /\
        hungup = nil /\ nreq = nil /\ nflush = nil /\ notes = nil /\
        unled = nil /\ unflushed = nil /\ drv = nil /\ oq = nil /\
        ntx = nil /\ td = nil /\ tdh = nil /\ tdt = nil /\ ntq = nil /\
        hwtd = nil /\ calls = nil /\ tlock = nil /\ rd = nil /\ rdh = nil /\
        rdt = nil /\ lrdh = nil /\ rdfree = nil /\ hwrd = nil /\ nrx = nil /\
        pool = nil /\ held = nil /\ im = nil /\ icr = nil /\ rim = nil /\
        state = nil /\ flag = nil /\ ci = nil /\ ctab = nil /\ ast = nil /\
        sst = nil /\ disk = nil /\ isr = nil /\ portm = nil /\
        active = nil /\ serial = nil /\ usectors = nil /\
        mediachange = nil /\ req = nil /\ buf = nil /\ nplug = nil /\
        late = nil /\ gen = nil /\ ngen = nil /\ ref = nil /\ unit = nil /\
        raw = nil /\ medium = nil /\ attention = nil /\ nmedia = nil /\
        nid = nil /\ ch = nil /\ op = nil /\ done = nil /\ eaten = nil /\
        dead = nil /\ inuse = nil /\ quad = nil /\ headers = nil /\
        incall = nil /\ rq = nil /\ lk = nil /\ plock = nil /\ ht = nil /\
        at = nil /\ want = nil /\ fd = nil /\ moved = nil /\ stray = nil /\
        raced = nil /\ bound = nil /\ lifc = nil /\ link = nil /\
        self = nil /\ routes = nil /\ nets = nil /\ allnodes = nil /\
        filter = nil /\ multi = nil /\ join = nil /\ connecting = nil /\
        reader = nil /\ arg = nil /\ unbinding = nil /\ nbind = nil /\
        made = nil /\ stolen = nil /\ early = nil /\ type = nil /\
        prom = nil /\ bridge = nil /\ headersonly = nil /\ bits = nil /\
        nmaddr = nil /\ open = nil /\ nprom = nil /\ nall = nil /\
        known = nil /\ hwprom = nil /\ mta = nil /\ flk = nil /\ nlk = nil /\
        asked = nil /\ ds = nil /\ inq = nil /\ ctlq = nil /\ outq = nil /\
        nctl = nil /\ rcvd = nil /\ mixed = nil /\ opens = nil /\
        enabled = nil /\ holder = nil /\ iq = nil /\ iqopen = nil /\
        istage = nil /\ rts = nil /\ oqstate = nil /\ starve = nil /\
        ostage = nil /\ thr = nil /\ tint = nil /\ rbr = nil /\ line = nil /\
        linects = nil /\ cts = nil /\ modem = nil /\ xonoff = nil /\
        blocked = nil /\ ctsbackoff = nil /\ hup = nil /\ dohup = nil /\
        drain = nil /\ nout = nil /\ nin = nil /\ nopen = nil /\
        dropped = nil /\ read = nil /\ missed = nil /\ deaf = nil /\
        stuck = nil
  \/ /\ on = "uplink" /\ Uplink!Init
     /\ tr = nil /\ wire = nil /\ pc = nil /\ loc = nil /\ d = nil /\
        frames = nil /\ srb = nil /\ ent = nil /\ chain = nil /\ age = nil /\
        rxmt = nil /\ nextrxt = nil /\ sol = nil /\ flist = nil /\
        got = nil /\ root = nil /\ table = nil /\ queue = nil /\ rip = nil /\
        free = nil /\ nrpc = nil /\ tagmask = nil /\ rpc = nil /\
        series = nil /\ pos = nil /\ flush = nil /\ err = nil /\ srv = nil /\
        hungup = nil /\ nreq = nil /\ nflush = nil /\ notes = nil /\
        unled = nil /\ unflushed = nil /\ drv = nil /\ oq = nil /\
        ntx = nil /\ td = nil /\ tdh = nil /\ tdt = nil /\ ntq = nil /\
        hwtd = nil /\ calls = nil /\ tlock = nil /\ rd = nil /\ rdh = nil /\
        rdt = nil /\ lrdh = nil /\ rdfree = nil /\ hwrd = nil /\ nrx = nil /\
        pool = nil /\ held = nil /\ im = nil /\ icr = nil /\ rim = nil /\
        state = nil /\ flag = nil /\ ci = nil /\ ctab = nil /\ ast = nil /\
        sst = nil /\ disk = nil /\ isr = nil /\ portm = nil /\
        active = nil /\ serial = nil /\ usectors = nil /\
        mediachange = nil /\ req = nil /\ buf = nil /\ nplug = nil /\
        late = nil /\ gen = nil /\ ngen = nil /\ ref = nil /\ unit = nil /\
        raw = nil /\ medium = nil /\ attention = nil /\ nmedia = nil /\
        nid = nil /\ ch = nil /\ op = nil /\ done = nil /\ eaten = nil /\
        dead = nil /\ inuse = nil /\ quad = nil /\ headers = nil /\
        incall = nil /\ rq = nil /\ lk = nil /\ plock = nil /\ ht = nil /\
        at = nil /\ want = nil /\ fd = nil /\ moved = nil /\ stray = nil /\
        raced = nil /\ bound = nil /\ lifc = nil /\ link = nil /\
        self = nil /\ routes = nil /\ nets = nil /\ allnodes = nil /\
        filter = nil /\ multi = nil /\ join = nil /\ connecting = nil /\
        reader = nil /\ arg = nil /\ unbinding = nil /\ nbind = nil /\
        made = nil /\ stolen = nil /\ early = nil /\ type = nil /\
        prom = nil /\ bridge = nil /\ headersonly = nil /\ bits = nil /\
        nmaddr = nil /\ open = nil /\ nprom = nil /\ nall = nil /\
        known = nil /\ hwprom = nil /\ mta = nil /\ flk = nil /\ nlk = nil /\
        asked = nil /\ ds = nil /\ inq = nil /\ ctlq = nil /\ outq = nil /\
        nctl = nil /\ rcvd = nil /\ mixed = nil /\ opens = nil /\
        enabled = nil /\ holder = nil /\ iq = nil /\ iqopen = nil /\
        istage = nil /\ rts = nil /\ oqstate = nil /\ starve = nil /\
        ostage = nil /\ thr = nil /\ tint = nil /\ rbr = nil /\ line = nil /\
        linects = nil /\ cts = nil /\ modem = nil /\ xonoff = nil /\
        blocked = nil /\ ctsbackoff = nil /\ hup = nil /\ dohup = nil /\
        drain = nil /\ nout = nil /\ nin = nil /\ nopen = nil /\
        dropped = nil /\ read = nil /\ missed = nil /\ deaf = nil /\
        stuck = nil

Next ==
  /\ UNCHANGED on
  /\ \/ on = "tls" /\ Tls!Next /\ UNCHANGED tlsRest
     \/ on = "errors" /\ Errors!Next /\ UNCHANGED errorsRest
     \/ on = "frames2" /\ Frames!Next /\ UNCHANGED frames2Rest
     \/ on = "arp" /\ Arp!Next /\ UNCHANGED arpRest
     \/ on = "multicasts" /\ Multicasts!Next /\ UNCHANGED multicastsRest
     \/ on = "frag4" /\ Frag4!Next /\ UNCHANGED frag4Rest
     \/ on = "frag6" /\ Frag6!Next /\ UNCHANGED frag6Rest
     \/ on = "route4" /\ Route4!Next /\ UNCHANGED route4Rest
     \/ on = "route6" /\ Route6!Next /\ UNCHANGED route6Rest
     \/ on = "mnt" /\ Mnt!Next /\ UNCHANGED mntRest
     \/ on = "notd" /\ Notes!Next /\ UNCHANGED notdRest
     \/ on = "sends" /\ Sends!Next /\ UNCHANGED sendsRest
     \/ on = "receives" /\ Receives!Next /\ UNCHANGED receivesRest
     \/ on = "disk" /\ Disk!Next /\ UNCHANGED diskRest
     \/ on = "atapi" /\ Atapi!Next /\ UNCHANGED atapiRest
     \/ on = "parts" /\ Parts!Next /\ UNCHANGED partsRest
     \/ on = "units" /\ Units!Next /\ UNCHANGED unitsRest
     \/ on = "users" /\ Users!Next /\ UNCHANGED usersRest
     \/ on = "calls" /\ Calls!Next /\ UNCHANGED callsRest
     \/ on = "ports" /\ LocalPorts!Next /\ UNCHANGED portsRest
     \/ on = "binds" /\ Binds!Next /\ UNCHANGED bindsRest
     \/ on = "joins" /\ Joins!Next /\ UNCHANGED joinsRest
     \/ on = "media" /\ Media!Next /\ UNCHANGED mediaRest
     \/ on = "filters" /\ Filters!Next /\ UNCHANGED filtersRest
     \/ on = "netfiles" /\ Netfiles!Next /\ UNCHANGED netfilesRest
     \/ on = "records" /\ Records!Next /\ UNCHANGED recordsRest
     \/ on = "sslctl" /\ Sslctl!Next /\ UNCHANGED sslctlRest
     \/ on = "xon" /\ Xon!Next /\ UNCHANGED xonRest
     \/ on = "modem" /\ Modem!Next /\ UNCHANGED modemRest
     \/ on = "linein" /\ Linein!Next /\ UNCHANGED lineinRest
     \/ on = "drains" /\ Drains!Next /\ UNCHANGED drainsRest
     \/ on = "downlink" /\ Downlink!Next /\ UNCHANGED downlinkRest
     \/ on = "handover" /\ Handover!Next /\ UNCHANGED handoverRest
     \/ on = "uplink" /\ Uplink!Next /\ UNCHANGED uplinkRest

Spec == Init /\ [][Next]_vars

-----------------------------------------------------------------------------
(* A 9P reply goes to the request it answers, whoever reads it: the        *)
(* requests without a reply are queued, once each, and no tag has two      *)
(* owners, also after a note to a sleeping caller and its flush, errors    *)
(* and hang-ups.  A note while a request is written, while its caller      *)
(* reads for others or while mntabort() waits is the exception: no Tflush  *)
(* or no answer to it, so that the next request with the tag may be given  *)
(* the reply of that one, and no other request may.                        *)
RepliesMatch ==
  CASE on = "mnt" -> Mnt!TypeOK /\ Mnt!RepliesMatch /\ Mnt!QueueExact
    [] on = "notd" -> Notes!TypeOK /\ Notes!RepliesMatch /\ Notes!QueueExact
    [] OTHER -> TRUE

(* The ends of a TLS connection agree on keys and sequence numbers         *)
(* whatever interrupts their readers and writers, and handq is there as    *)
(* long as somebody may use it.  SSL: what is read is what was written, no *)
(* record is refused, and no reader waits for what has come, as long as no *)
(* note cut a write short, no record was misread and neither end changed   *)
(* its keys alone; Ssl says which of them each part allows.                *)
InSync ==
  CASE on = "tls" -> Tls!InSync /\ Tls!HandExact
    [] on = "records" -> Records!SslSafe [] on = "sslctl" -> Sslctl!SslSafe [] OTHER -> TRUE

(* Nothing but alerts follows a fatal alert.                               *)
AlertLast == [][on = "tls" => Tls!AlertLast]_vars

(* What is read from and written to a drive is what was asked for, or an   *)
(* error.  AoE: nout counts the frames in flight, and no frame is of a     *)
(* request that was answered.  SATA: a command's end does not pass for     *)
(* that of another one, with two exceptions: of a request made again after *)
(* a reset of the disk only the last block is certain, and of one made     *)
(* while the disk was still at a command that timed out none is.  Only     *)
(* that late command may be one of a request that is over.  Nobody waits   *)
(* for ever but satakproc, when the drive went out of order between its    *)
(* wait and its command; a change of medium is told.  devsd: transfers go  *)
(* to the partition and medium that were opened, references keep a device, *)
(* and raw commands do not mix.                                            *)
DriveSafe ==
  CASE on = "errors" -> Errors!DataExact /\ Errors!OutExact /\ Errors!NoDangling
    [] on = "frames2" -> Frames!DataExact /\ Frames!OutExact /\ Frames!NoDangling
    [] on = "disk" -> Disk!DriveSafe [] on = "atapi" -> Atapi!DriveSafe
    [] on = "parts" -> Parts!SdSafe [] on = "units" -> Units!SdSafe
    [] on = "users" -> Users!SdSafe [] OTHER -> TRUE

(* A network card sends the packets queued, once and in order, and goes on *)
(* while there are any; a packet received is passed up once, in order, and *)
(* no buffer is both the card's and the system's.  The same holds for the  *)
(* characters of a serial line that lost none to an overflow; its output   *)
(* goes on when it may and who drains it goes on when it is drained.       *)
RingsExact ==
  CASE on = "sends" -> Sends!TxExact /\ Sends!TxGoesOn
    [] on = "receives" -> Receives!RxExact
    [] on = "xon" -> Xon!UartSafe [] on = "modem" -> Modem!UartSafe
    [] on = "linein" -> Linein!UartSafe [] on = "drains" -> Drains!UartSafe [] OTHER -> TRUE

(* A packet never goes to the address of another host.  A reassembled      *)
(* packet is one that was sent, and nothing that is not whole is passed    *)
(* on.  A lookup finds the most specific route of the table, and the trees *)
(* hold each of its routes once.  A packet for a tunnel is sent, held or   *)
(* dropped, and none is left behind when the tunnel goes on, unless it was *)
(* put in a ring after that, on a decision made before.                    *)
NetExact ==
  CASE on = "arp" -> Arp!MacsRight [] on = "multicasts" -> Multicasts!MacsRight
    [] on = "frag4" -> Frag4!PacketExact /\ Frag4!NotWhole
    [] on = "frag6" -> Frag6!PacketExact /\ Frag6!NotWhole
    [] on = "route4" -> Route4!LookupExact /\ Route4!ForestExact
    [] on = "route6" -> Route6!LookupExact /\ Route6!ForestExact
    [] on = "downlink" -> Downlink!GreSafe [] on = "handover" -> Handover!GreSafe
    [] on = "uplink" -> Uplink!GreSafe [] OTHER -> TRUE

(* Two conversations of a protocol have the same quadruple only if both    *)
(* had their port before one was connected or announced, as they are not   *)
(* compared then (devip.c:728), or if one is a call that came in; the hash *)
(* table finds the conversation a packet is for, and one that is closed    *)
(* gets none, unless bind moved it behind the table or the call came in    *)
(* meanwhile.  The addresses, groups and filters of an interface are those *)
(* its users added, and nobody reads from one that is gone.  A file of a   *)
(* network interface gets every packet it asked for.                       *)
EndsExact ==
  CASE on = "calls" -> Calls!ConvSafe [] on = "ports" -> LocalPorts!ConvSafe
    [] on = "binds" -> Binds!ConvSafe
    [] on = "joins" -> Joins!IfcSafe [] on = "media" -> Media!IfcSafe
    [] on = "filters" -> Filters!NetifSafe [] on = "netfiles" -> Netfiles!NetifSafe
    [] OTHER -> TRUE
=============================================================================
