------------------------------- MODULE Socks5 -------------------------------
(***************************************************************************)
(* The SOCKS5 exchange that precedes TLS on a connection through a local   *)
(* tunnel (net/socks5.c and its use in net/verify.c), with the output      *)
(* buffer every connection writes through (net/outbuf.h).  Bytes are       *)
(* bytes; what the proxy answers, how its answer is cut into reads and     *)
(* how much of a write the socket takes are the environment's.             *)
(***************************************************************************)
EXTENDS Integers, SequencesExt

CONSTANTS Host, Port,    \* the target: a sequence of bytes, and two bytes
          Hello,         \* the ClientHello that follows
          RespCap,       \* sizeof client->response
          OutCap,        \* capacity of the connection's output buffer
          Methods,       \* what a proxy may answer to the greeting
          Replies        \* what it may answer to the connect request

VARIABLE sk

Pending(b) == SubSeq(b.buf, b.off + 1, b.len)

\* The unsent tail slides down; what lies beyond it is dead.
Compact(b) == IF b.off = 0 THEN b ELSE [b EXCEPT !.buf = Pending(b), !.len = b.len - b.off, !.off = 0]

Consume(b, n) ==
  LET off == b.off + (IF n > b.len - b.off THEN b.len - b.off ELSE n)
  IN IF off = b.len THEN [b EXCEPT !.buf = <<>>, !.len = 0, !.off = 0] ELSE [b EXCEPT !.off = off]

\* qn_outbuf_queue refuses what does not fit after the slide.
Fits(b, p) == Len(p) <= OutCap /\ Len(p) <= OutCap - Compact(b).len

Queue(b, p) == LET k == Compact(b) IN [k EXCEPT !.buf = @ \o p, !.len = @ + Len(p)]

Greeting == <<5, 1, 0>>
Request == <<5, 1, 0, 3, Len(Host)>> \o Host \o Port

NewClient == [phase |-> "method", resp |-> <<>>, need |-> 2, action |-> "need", eaten |-> 0]

Fail(c) == [c EXCEPT !.phase = "failed", !.action = "failed"]

MethodComplete(c) ==
  IF c.resp # <<5, 0>> THEN Fail(c)
  ELSE [c EXCEPT !.phase = "connect", !.resp = <<>>, !.need = 4, !.action = "send"]

ConnectHeader(c) ==
  IF SubSeq(c.resp, 1, 3) # <<5, 0, 0>> THEN Fail(c)
  ELSE CASE c.resp[4] = 1 -> [c EXCEPT !.need = 10]
         [] c.resp[4] = 3 -> [c EXCEPT !.need = 5]
         [] OTHER -> Fail(c)

\* The length byte of a domain name counted as part of the name.
DomainLengthShort(c) == [c EXCEPT !.need = 6 + c.resp[5]]

DomainLength(c) ==
  IF c.resp[5] = 0 \/ 7 + c.resp[5] > RespCap THEN Fail(c) ELSE [c EXCEPT !.need = 7 + c.resp[5]]

Byte(c, b) ==
  IF Len(c.resp) >= RespCap THEN Fail(c)
  ELSE
    LET k == [c EXCEPT !.resp = Append(@, b), !.eaten = @ + 1]
        h == IF k.need = 4 THEN ConnectHeader(k) ELSE k
        d == IF h.phase = "connect" /\ h.resp[4] = 3 /\ h.need = 5 /\ Len(h.resp) = 5
             THEN DomainLength(h) ELSE h
    IN CASE Len(k.resp) < k.need -> k
         [] k.phase = "method"   -> MethodComplete(k)
         [] d.phase = "connect" /\ Len(d.resp) = d.need /\ d.need > 5 ->
              [d EXCEPT !.phase = "ready", !.action = "ready"]
         [] OTHER                -> d

\* qn_socks5_feed: it returns at the first action, and bytes behind one are refused.
Feed(c, input) ==
  LET f == FoldLeft(LAMBDA a, b : IF a.action = "need" THEN Byte(a, b) ELSE a,
                    [c EXCEPT !.action = "need", !.eaten = 0], input)
  IN IF f.action \in {"send", "ready"} /\ f.eaten < Len(input) THEN Fail(f) ELSE f

NoProxy == [to |-> <<>>, got |-> <<>>, fed |-> <<>>, method |-> FALSE, replied |-> FALSE]

Init == sk = [c |-> NewClient, st |-> "connect", out |-> [buf |-> <<>>, len |-> 0, off |-> 0], p |-> NoProxy]

\* flush_out: the socket takes n of the pending bytes, then would block or is done.
Flushed(s, n) ==
  [s EXCEPT !.p.got = @ \o SubSeq(Pending(s.out), 1, n), !.out = Consume(s.out, n)]

Flush(s) == {Flushed(s, n) : n \in 0..(s.out.len - s.out.off)}

\* The dial succeeded: the greeting is queued and flushed.
Connected ==
  /\ sk.st = "connect"
  /\ sk' \in Flush([sk EXCEPT !.st = "method", !.out = Queue(sk.out, Greeting)])

Writable ==
  /\ sk.st \in {"method", "socks", "tls"} /\ Pending(sk.out) # <<>>
  /\ sk' \in Flush(sk)

\* A write or a read fails, or the connection times out: it is retired.
Broken == sk.st \in {"method", "socks"} /\ sk' = [sk EXCEPT !.st = "broken"]

Queued(s, p, st) ==
  IF Fits(s.out, p) THEN [s EXCEPT !.out = Queue(@, p), !.st = st] ELSE [s EXCEPT !.st = "local"]

\* EPOLLIN in C_SOCKS_METHOD or C_SOCKS_CONNECT.
Absorbed(input) ==
  LET c == Feed(sk.c, input)
      s == [sk EXCEPT !.c = c, !.p.to = SubSeq(@, Len(input) + 1, Len(@)), !.p.fed = @ \o input]
  IN CASE c.action = "failed" -> [s EXCEPT !.st = "failed"]
       [] c.action = "send"   -> Queued(s, Request, "socks")
       [] c.action = "ready"  -> Queued(s, Hello, "tls")
       [] OTHER               -> s

Read ==
  /\ sk.st \in {"method", "socks"}
  /\ \E n \in 1..Len(sk.p.to) : \E s \in {Absorbed(SubSeq(sk.p.to, 1, n))} :
       sk' \in (IF s.st \in {"failed", "local"} THEN {s} ELSE Flush(s))

Eof == sk.st \in {"method", "socks"} /\ sk.p.to = <<>> /\ sk' = [sk EXCEPT !.st = "eof"]

Says(p, m) == [p EXCEPT !.to = @ \o m]

\* The proxy answers the greeting as soon as it sees the version, or later, and
\* the request once it has all of it.
Answer ==
  /\ ~sk.p.method /\ sk.p.got # <<>>
  /\ \E m \in Methods : sk' = [sk EXCEPT !.p = [Says(sk.p, m) EXCEPT !.method = TRUE]]

Reply ==
  /\ ~sk.p.replied /\ IsPrefix(Greeting \o Request, sk.p.got)
  /\ \E r \in Replies : sk' = [sk EXCEPT !.p = [Says(sk.p, r) EXCEPT !.replied = TRUE]]

Over == sk.st \in {"failed", "local", "broken", "eof"} \/ (sk.st = "tls" /\ Pending(sk.out) = <<>>)
Done == Over /\ UNCHANGED sk

Next == Connected \/ Writable \/ Broken \/ Read \/ Eof \/ Answer \/ Reply \/ Done

TypeOK ==
  /\ sk.st \in {"connect", "method", "socks", "tls", "failed", "local", "broken", "eof"}
  /\ sk.c.phase \in {"method", "connect", "ready", "failed"}
  /\ Len(sk.c.resp) <= RespCap
  /\ sk.out.len = Len(sk.out.buf) /\ sk.out.off <= sk.out.len /\ sk.out.len <= OutCap

\* A connect reply as the protocol frames it: granted, an IPv4 address or a name.
Granted(r) ==
  /\ Len(r) >= 4 /\ SubSeq(r, 1, 3) = <<5, 0, 0>>
  /\ \/ r[4] = 1 /\ Len(r) = 10
     \/ r[4] = 3 /\ Len(r) >= 5 /\ r[5] > 0 /\ Len(r) = 7 + r[5] /\ Len(r) <= RespCap

Accepted == {<<5, 0>> \o r : r \in {q \in Replies : Granted(q)}}

(***************************************************************************)
(* However the proxy's bytes are cut into reads and the client's writes    *)
(* into pieces: the proxy sees the greeting, then the request, then the    *)
(* hello, byte for byte and never out of turn; TLS starts exactly on a     *)
(* complete grant, with nothing behind it; and the client gives up only on *)
(* bytes that no grant begins with, or that came before it asked for them. *)
(***************************************************************************)
SocksInv ==
  /\ TypeOK
  /\ LET turn == CASE sk.st = "tls" -> Greeting \o Request \o Hello
                   [] sk.c.phase = "connect" -> Greeting \o Request
                   [] OTHER -> Greeting
     IN sk.st \in {"method", "socks", "tls"} => sk.p.got \o Pending(sk.out) = turn
  /\ sk.st = "tls" => sk.p.fed \in Accepted
  /\ sk.st = "failed" => \/ ~\E a \in Accepted : IsPrefix(sk.p.fed, a)
                         \/ Len(sk.p.fed) > 2 /\ ~IsPrefix(Greeting \o Request, sk.p.got)
  /\ sk.st # "local"
=============================================================================
