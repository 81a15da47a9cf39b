-------------------------------- MODULE Ssl ---------------------------------
(***************************************************************************)
(* The record layer of devssl (src/port/devssl.c): two conversations, each *)
(* with the other at the end of its channel.  A conversation is a Dstate;  *)
(* processes open it, write control messages and data and read data.       *)
(*                                                                         *)
(* The bytes written to a conversation are numbered.  A record is its      *)
(* header, what it was digested and encrypted with and the bytes it holds; *)
(* the channel delivers it in one block or in two.  Of an error in the     *)
(* middle of a record the places that free a block twice, or with free()   *)
(* in place of freeb(), are left out: what they do to the allocator is not *)
(* of this module.                                                         *)
(***************************************************************************)
EXTENDS Integers, Sequences, FiniteSets

CONSTANTS
  Proc,
  Does,         \* process -> what it does
  Hi, Lo,       \* 1<<15 and 1<<14
  Algs,         \* alg messages: [dig, enc, blk], dig is the digest length, for the hash
  Set,          \* the conversations are open, with secrets and the same algorithm
  Sizes,        \* of the writes
  MaxSend, MaxRec, MaxCtl, \* bounds: bytes, records, control messages
  nil

VARIABLES
  ds,           \* conversation -> its Dstate, nil if there is none
  inq, ctlq, outq, \* conversation -> who holds the QLock, nil for nobody
  wire,         \* conversation -> blocks on their way from it
  fd, pc, arg,  \* process -> its conversation, its step and what it works on
  nctl,
  sent, rcvd,   \* history: conversation -> bytes written, bytes read from it
  lost, mixed   \* history: a write was interrupted; records were misread

ends == <<inq, ctlq, outq>>
vars == <<ds, ends, wire, fd, pc, arg, nctl, sent, rcvd, lost, mixed>>

Convs == {1, 2}
Other(s) == 3 - s
Open == <<"open1", "open2">>

(* What dsnew() makes.                                                     *)
dsnew ==
  [ref |-> 1, state |-> {}, fd |-> FALSE, diglen |-> 0, blocklen |-> 0, max |-> 0, maxpad |-> 0,
   insecret |-> 0, outsecret |-> 0, inkey |-> nil, outkey |-> nil, inmid |-> 0, outmid |-> 0,
   processed |-> <<>>, unprocessed |-> <<>>]

(* How much fits in a record, without and with padding.                    *)
Limits(d) ==
  LET fits(n) == (n - d.diglen - 1) - ((n - d.diglen - 1) % d.blocklen) IN
  [d EXCEPT !.max = fits(Hi), !.maxpad = IF d.blocklen = 1 THEN fits(Hi) ELSE fits(Lo)]

clear == [dig |-> 0, enc |-> nil, blk |-> 1]

setfd(d) ==
  Limits([d EXCEPT !.fd = TRUE, !.state = {"clear"}, !.blocklen = 1, !.diglen = 0, !.inmid = 0, !.outmid = 0])

parsehashalg(d, a) ==
  IF a.dig = 0 THEN d
  ELSE [d EXCEPT !.diglen = a.dig, !.state = (@ \ {"clear"}) \cup {"dig"}]

(* New keys for both ways, from the secrets; one that is too short for DES *)
(* is an error, after the block length was set.                            *)
short == 2
keyinit(a, x) == IF a.enc # "rc4" /\ x = short THEN nil ELSE [alg |-> a.enc, secret |-> x, pos |-> 0]
parseencryptalg(d, a) ==
  LET k == [d EXCEPT !.blocklen = a.blk, !.inkey = keyinit(a, d.insecret)]
      o == [k EXCEPT !.outkey = keyinit(a, d.outsecret)]
  IN IF k.inkey = nil THEN k
     ELSE IF o.outkey = nil THEN o
     ELSE [o EXCEPT !.state = (@ \ {"clear"}) \cup {"enc"}]

(* One secret serves for both ways if the other is not set.  The hash is   *)
(* named first.  After an error what was set before it stays.              *)
setalg(d, a) ==
  LET none == [d EXCEPT !.blocklen = 1, !.diglen = 0]
      c == Limits([none EXCEPT !.state = {"clear"}])
      o == [c EXCEPT !.outsecret = IF @ = 0 THEN d.insecret ELSE @,
                     !.insecret = IF @ = 0 THEN d.outsecret ELSE @]
      h == parsehashalg(o, a)
      e == parseencryptalg(h, a)
  IN IF ~d.fd THEN none
     ELSE IF a = clear \/ o.insecret = 0 THEN c
     ELSE IF a.enc = nil THEN Limits(h)
     ELSE IF "enc" \in e.state THEN Limits(e) ELSE e

setsecret(d, m) == IF m[2] = "in" THEN [d EXCEPT !.insecret = m[3]] ELSE [d EXCEPT !.outsecret = m[3]]

Init ==
  /\ IF ~Set THEN ds = [s \in Convs |-> nil] /\ fd = [p \in Proc |-> nil]
     ELSE /\ \E a \in Algs : ds = [s \in Convs |-> setalg([setfd(dsnew) EXCEPT !.insecret = 1], a)]
          /\ fd = [p \in Proc |-> CHOOSE s \in Convs : Open[s] \in Does[p]]
  /\ inq = [s \in Convs |-> nil] /\ ctlq = inq /\ outq = inq
  /\ wire = [s \in Convs |-> <<>>]
  /\ pc = [p \in Proc |-> "idle"] /\ arg = [p \in Proc |-> nil]
  /\ nctl = 0
  /\ sent = [s \in Convs |-> 0] /\ rcvd = [s \in Convs |-> <<>>]
  /\ lost = FALSE /\ mixed = FALSE

Go(p, l, a) == pc' = [pc EXCEPT ![p] = l] /\ arg' = [arg EXCEPT ![p] = a]
May(p, what) == pc[p] = "idle" /\ fd[p] # nil /\ what \in Does[p]
-----------------------------------------------------------------------------
(* Opening: clone takes the first Dstate that is not there, a file of a    *)
(* conversation makes it if it is not.                                     *)
Opened(p, s) ==
  /\ ds' = [ds EXCEPT ![s] = IF @ = nil THEN dsnew ELSE [@ EXCEPT !.ref = @ + 1]]
  /\ fd' = [fd EXCEPT ![p] = s]
  /\ UNCHANGED <<ends, wire, pc, arg, nctl, sent, rcvd, lost, mixed>>

dsclone(p) ==
  LET free == {s \in Convs : ds[s] = nil}
      s == CHOOSE s \in free : \A t \in free : s <= t
  IN fd[p] = nil /\ "clone" \in Does[p] /\ free # {} /\ Opened(p, s)

sslopen(p, s) == fd[p] = nil /\ Open[s] \in Does[p] /\ Opened(p, s)

(* The last close takes the Dstate out of the table before sslhangup()     *)
(* frees what it holds; nobody else can be using it.                       *)
sslclose(p) ==
  LET s == fd[p] IN
  /\ May(p, "close")
  /\ ds' = [ds EXCEPT ![s] = IF @.ref > 1 THEN [@ EXCEPT !.ref = @ - 1] ELSE nil]
  /\ fd' = [fd EXCEPT ![p] = nil]
  /\ UNCHANGED <<ends, wire, pc, arg, nctl, sent, rcvd, lost, mixed>>
-----------------------------------------------------------------------------
(* Reading.  The blocks of a record stay in unprocessed until they are all *)
(* there, for a note may come at any time.                                 *)
Bytes(b) == LET f[k \in 0..Len(b)] == IF k = 0 THEN 0 ELSE f[k - 1] + b[k].hi - b[k].lo IN f[Len(b)]

sslbread(p) ==
  LET s == fd[p] IN
  /\ May(p, "read") /\ ds[s].fd /\ inq[s] = nil
  /\ inq' = [inq EXCEPT ![s] = p]
  /\ Go(p, IF ds[s].processed = <<>> THEN "ensure" ELSE "take", nil)
  /\ UNCHANGED <<ds, ctlq, outq, wire, fd, nctl, sent, rcvd, lost, mixed>>

(* Fault seeded to test SslSafe: the header is taken to be of five bytes.  *)
NeedLong(u) == IF Bytes(u) < 5 THEN 5 ELSE u[1].rec.hdr + u[1].rec.len

(* What ensure() is asked for: three bytes, then the whole record.         *)
Need(u) ==
  IF Bytes(u) < 3 THEN 3 ELSE u[1].rec.hdr + u[1].rec.len

ensure(p) ==
  LET s == fd[p] IN
  /\ pc[p] = "ensure" /\ Bytes(ds[s].unprocessed) < Need(ds[s].unprocessed)
  /\ wire[Other(s)] # <<>>
  /\ wire' = [wire EXCEPT ![Other(s)] = Tail(@)]
  /\ ds' = [ds EXCEPT ![s].unprocessed = Append(@, Head(wire[Other(s)]))]
  /\ UNCHANGED <<ends, fd, pc, arg, nctl, sent, rcvd, lost, mixed>>

interrupted(p) ==
  LET s == fd[p] IN
  /\ pc[p] = "ensure" /\ Go(p, "idle", nil)
  /\ inq' = [inq EXCEPT ![s] = nil]
  /\ UNCHANGED <<ds, ctlq, outq, wire, fd, nctl, sent, rcvd, lost, mixed>>

(* The header is skipped and the record taken from the blocks.  If a       *)
(* header of three bytes is spread over two blocks, pullupblock() may put  *)
(* a third in front of them, and the header is read through a pointer to   *)
(* the block that was freed: the pad is what lies behind that block, and   *)
(* if it is in use again the length is not one either, and nothing that    *)
(* this process reads from then on is defined.                             *)
qtake(p) ==
  LET s == fd[p]  u == ds[s].unprocessed  r == u[1].rec
      spread == r.hdr = 3 /\ u[1].hi < 3
      blocks == CHOOSE k \in DOMAIN u : Bytes(SubSeq(u, 1, k)) = r.hdr + r.len
      pulled == <<[u[1] EXCEPT !.hi = 3], [u[2] EXCEPT !.lo = 3]>> \o SubSeq(u, 3, Len(u))
  IN /\ pc[p] = "ensure" /\ Bytes(u) >= Need(u)
     /\ \/ \E pad \in {r.pad} \cup (IF spread THEN {0} ELSE {}) :
             /\ ds' = [ds EXCEPT ![s].unprocessed = SubSeq(u, blocks + 1, Len(u))]
             /\ Go(p, "decode", [rec |-> r, pad |-> pad])
             /\ mixed' = (mixed \/ pad # r.pad)
             /\ UNCHANGED inq
        \/ \* "bad pad in ssl message"
           /\ spread /\ ds' = [ds EXCEPT ![s].unprocessed = pulled]
           /\ inq' = [inq EXCEPT ![s] = nil] /\ Go(p, "idle", nil) /\ UNCHANGED mixed
        \/ spread /\ Go(p, "astray", nil) /\ mixed' = TRUE /\ UNCHANGED <<ds, inq>>
     /\ UNCHANGED <<ctlq, outq, wire, fd, nctl, sent, rcvd, lost>>

(* decryptb() and checkdigestb() with what the conversation has: a record  *)
(* that was made otherwise is not what it was.                             *)
decryptb(d, r) == r.enc # (IF "enc" \in d.state THEN d.inkey ELSE nil)

(* Fault seeded to test SslSafe: the number of the record is left out.     *)
checkdigestbAny(d, r) == r.dig # nil /\ r.dig.secret = d.insecret /\ r.dig.len = d.diglen

checkdigestb(d, r) == r.dig # nil /\ r.dig = [secret |-> d.insecret, mid |-> d.inmid, len |-> d.diglen]

(* Where a cipher is after n bytes: ECB goes nowhere.                      *)
Moved(k, n) == IF k = nil \/ k.alg = "ecb" THEN k ELSE [k EXCEPT !.pos = @ + n]

(* ... that of the receiver of record r.  CBC goes on from the last block  *)
(* it was given, so that a record that was lost spoils the next one only.  *)
Received(k, r) ==
  IF k.alg = "cbc" /\ r.len > 0
  THEN [k EXCEPT !.pos = IF r.enc # nil /\ r.enc.alg = "cbc" THEN Moved(r.enc, r.len).pos ELSE -1]
  ELSE Moved(k, r.len)

(* With ctlq held: the record is freed on an error and its number is not   *)
(* counted.  Its length must be a multiple of the block of the cipher, and *)
(* it must have room for the digest.                                       *)
decode(p) ==
  LET s == fd[p]  d == ds[s]  r == arg[p].rec
      garbled == decryptb(d, r)
      unaligned == "enc" \in d.state /\ r.len % d.blocklen # 0
      bad == unaligned \/ ("dig" \in d.state /\ (garbled \/ ~checkdigestb(d, r)))
      d1 == [d EXCEPT !.inkey = IF "enc" \in d.state /\ ~unaligned THEN Received(@, r) ELSE @]
      misread == garbled \/ (r.dig = nil) # ("dig" \notin d.state)
  IN /\ pc[p] = "decode" /\ ctlq[s] = nil
     /\ IF bad THEN /\ ds' = [ds EXCEPT ![s] = d1] /\ inq' = [inq EXCEPT ![s] = nil]
                    /\ Go(p, "failed", r) /\ UNCHANGED mixed
        ELSE /\ ds' = [ds EXCEPT ![s] = [d1 EXCEPT !.inmid = @ + 1, !.processed = r.data]]
             /\ Go(p, "take", nil) /\ mixed' = (mixed \/ misread) /\ UNCHANGED inq
     /\ UNCHANGED <<ctlq, outq, wire, fd, nctl, sent, rcvd, lost>>

(* At most n bytes of the record are returned.                             *)
sslread(p, n) ==
  LET s == fd[p]  b == ds[s].processed  k == IF Len(b) < n THEN Len(b) ELSE n IN
  /\ pc[p] = "take"
  /\ ds' = [ds EXCEPT ![s].processed = SubSeq(@, k + 1, Len(@))]
  /\ rcvd' = [rcvd EXCEPT ![Other(s)] = @ \o SubSeq(b, 1, k)]
  /\ inq' = [inq EXCEPT ![s] = nil] /\ Go(p, "idle", nil)
  /\ UNCHANGED <<ctlq, outq, wire, fd, nctl, sent, lost, mixed>>

failed(p) ==
  /\ pc[p] = "failed" /\ Go(p, "idle", nil)
  /\ UNCHANGED <<ds, ends, wire, fd, nctl, sent, rcvd, lost, mixed>>
-----------------------------------------------------------------------------
(* Writing: sslwrite() cuts what it is given in pieces of at most max,     *)
(* sslbwrite() gives it as it is, and sslput() cuts those in records, with *)
(* out.q held.                                                             *)
Piece(d, from, n) ==
  LET l == IF n > d.max THEN d.max ELSE n IN [from |-> from, n |-> l, rest |-> n - l]

Begins(p, n, a) ==
  LET s == fd[p] IN
  /\ ds[s].fd /\ outq[s] = nil
  /\ sent[s] + n <= MaxSend /\ ds[s].outmid < MaxRec
  /\ outq' = [outq EXCEPT ![s] = p]
  /\ sent' = [sent EXCEPT ![s] = @ + n]
  /\ Go(p, "put", a)
  /\ UNCHANGED <<ds, inq, ctlq, wire, fd, nctl, rcvd, lost, mixed>>

sslwrite(p, n) ==
  May(p, "write") /\ Begins(p, n, Piece(ds[fd[p]], sent[fd[p]] + 1, n))
sslbwrite(p, n) ==
  May(p, "bwrite") /\ Begins(p, n, [from |-> sent[fd[p]] + 1, n |-> n, rest |-> 0])

(* How much of n bytes goes in the next record, and its padding.           *)
Cut(d, n) ==
  LET l == IF n > d.max THEN d.max ELSE n
      over == (l + d.diglen) % d.blocklen
  IN IF n > d.max \/ over = 0 THEN [l |-> l, pad |-> 0]
     ELSE IF l > d.maxpad THEN [l |-> d.maxpad, pad |-> 0]
     ELSE [l |-> l, pad |-> d.blocklen - over]

digestb(d) ==
  IF "dig" \in d.state THEN [secret |-> d.outsecret, mid |-> d.outmid, len |-> d.diglen] ELSE nil
encryptb(d) == IF "enc" \in d.state THEN d.outkey ELSE nil

Record(d, a) ==
  LET c == Cut(d, a.n) IN
  [hdr |-> IF c.pad > 0 THEN 3 ELSE 2, len |-> c.l + d.diglen + c.pad, pad |-> c.pad,
   dig |-> digestb(d), enc |-> encryptb(d), data |-> [k \in 1..c.l |-> a.from + k - 1]]

(* The record is written, in one block or in two, or a note interrupts the *)
(* write and it is not: then the ends are no longer in step.               *)
Blocks(r) ==
  LET n == r.hdr + r.len IN
  {<<[rec |-> r, lo |-> 0, hi |-> n]>>}
    \cup (IF n > 2 THEN {<<[rec |-> r, lo |-> 0, hi |-> 2], [rec |-> r, lo |-> 2, hi |-> n]>>} ELSE {})

sslput(p) ==
  LET s == fd[p]  d == ds[s]  a == arg[p]  r == Record(d, a)
      left == a.n - Len(r.data)
  IN /\ pc[p] = "put"
     /\ ds' = [ds EXCEPT ![s].outmid = @ + 1,
                         ![s].outkey = IF "enc" \in d.state THEN Moved(@, r.len) ELSE @]
     /\ \/ /\ \E b \in Blocks(r) : wire' = [wire EXCEPT ![s] = @ \o b]
           /\ IF left > 0 THEN Go(p, "put", [a EXCEPT !.from = @ + Len(r.data), !.n = left]) /\ UNCHANGED outq
              ELSE IF a.rest > 0 THEN Go(p, "put", Piece(d, a.from + a.n, a.rest)) /\ UNCHANGED outq
              ELSE Go(p, "idle", nil) /\ outq' = [outq EXCEPT ![s] = nil]
           /\ UNCHANGED lost
        \/ /\ "noted" \in Does[p] /\ lost' = TRUE
           /\ Go(p, "idle", nil) /\ outq' = [outq EXCEPT ![s] = nil]
           /\ UNCHANGED wire
     /\ UNCHANGED <<inq, ctlq, fd, nctl, sent, rcvd, mixed>>
-----------------------------------------------------------------------------
(* Control messages: in.ctlq and then out.q are locked.                    *)
ctl(p, m) ==
  LET s == fd[p] IN
  /\ May(p, m[1]) /\ nctl < MaxCtl /\ ctlq[s] = nil
  /\ ctlq' = [ctlq EXCEPT ![s] = p] /\ nctl' = nctl + 1 /\ Go(p, "ctl", m)
  /\ UNCHANGED <<ds, inq, outq, wire, fd, sent, rcvd, lost, mixed>>

ctlDone(p) ==
  LET s == fd[p]  m == arg[p] IN
  /\ pc[p] = "ctl" /\ outq[s] = nil
  /\ ds' = [ds EXCEPT ![s] = CASE m[1] = "fd" -> setfd(@) [] m[1] = "alg" -> setalg(@, m[2])
                               [] OTHER -> setsecret(@, m)]
  /\ ctlq' = [ctlq EXCEPT ![s] = nil] /\ Go(p, "idle", nil)
  /\ UNCHANGED <<inq, outq, wire, fd, nctl, sent, rcvd, lost, mixed>>

Messages == {<<"fd">>} \cup {<<"alg", a>> : a \in Algs} \cup {<<"secret", w, x>> : w \in {"in", "out"}, x \in {1, short}}

Next ==
  \E p \in Proc :
    \/ dsclone(p) \/ sslclose(p) \/ sslbread(p) \/ ensure(p) \/ interrupted(p) \/ qtake(p)
    \/ decode(p) \/ failed(p) \/ sslput(p) \/ ctlDone(p)
    \/ \E s \in Convs : sslopen(p, s)
    \/ \E n \in {2, Hi} : sslread(p, n)
    \/ \E n \in Sizes : sslwrite(p, n) \/ sslbwrite(p, n)
    \/ \E m \in Messages : ctl(p, m)

Spec == Init /\ [][Next]_vars
-----------------------------------------------------------------------------
(* What is read is what was written, in order and without holes, unless    *)
(* the reader took a record for something it is not; without digests a     *)
(* record that an interrupted write lost leaves a hole.                    *)
StreamExact ==
  \A s \in Convs :
    ~mixed /\ (lost => \A t \in Convs : ds[t] # nil => "dig" \in ds[t].state) =>
      \A k \in DOMAIN rcvd[s] : rcvd[s][k] = k

(* A record of the other end is refused only if the ends disagree, an      *)
(* interrupted write put them out of step, or the digest is no multiple    *)
(* of the block of the cipher: max and maxpad allow for the digest but are *)
(* cut to a multiple without it, and a record of that size is not aligned. *)
NoneRefused ==
  \A p \in Proc :
    Set /\ nctl = 0 /\ ~lost /\ pc[p] = "failed" => ds[fd[p]].diglen % ds[fd[p]].blocklen # 0

(* A reader does not wait while a record it did not return is there, other *)
(* than one of two bytes: a header and no data.                            *)
NoStall ==
  \A p \in Proc :
    LET s == fd[p] IN
    pc[p] = "ensure" /\ wire[Other(s)] = <<>> /\ ds[s].unprocessed # <<>> =>
      LET u == ds[s].unprocessed IN
      Bytes(u) >= Need(u) \/ Bytes(u) < u[1].rec.hdr + u[1].rec.len \/ u[1].rec.len = 0

SslSafe == StreamExact /\ NoneRefused /\ NoStall
=============================================================================
