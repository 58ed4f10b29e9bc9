-------------------------------- MODULE Tls --------------------------------
(* The measurement client's TLS session (net/tls13.c, net/tls12.c) as the   *)
(* verifier drives it: records arrive in any segmentation, carry handshake  *)
(* messages in any packing, and each one moves the session forward or ends  *)
(* it. A hash is the sequence of what was hashed, a key is the label and    *)
(* the transcript it was derived from, so two sides agree on a secret       *)
(* exactly when they hashed the same messages in the same order.            *)
(*                                                                          *)
(* A message is [t, f]: its type and its form ("ok", "bad", or the name of  *)
(* a hello). On the wire it is the units h (its header) and b (its body; a  *)
(* ServerHelloDone has none). A header or a record of which only a part has *)
(* arrived waits in the session and changes nothing else, so a unit and a   *)
(* record arrive whole. Sequence numbers do not reach UINT64_MAX here, and  *)
(* records of at most 2^14 bytes always fit the verifier's buffer.          *)
EXTENDS Integers, FiniteSets, SequencesExt

CONSTANTS Hello,      \* the server hellos that may be sent, by name
          Messages,   \* the other handshake messages, [t, f]
          Configs,    \* [allow12, strict, shares, groups, chrome, room]
          Unread,     \* records the server may be ahead
          MaxFlaws,   \* messages of one server against the protocol
          MaxSent,    \* handshake messages of one server
          MaxPost     \* messages after the server's Finished

VARIABLE tl

Key(e, g, tr) == [e |-> e, g |-> g, tr |-> tr]
NoKey == Key("none", "none", <<>>)

\* A Finished value: keyed by the agreed secret, over a transcript.
Mac(g, tr) == [g |-> g, tr |-> tr]

HasBody(m) == m.t # "done"
\* What of a message goes into a hash: its header, then its body.
Header(m) == m.t \o "-" \o m.f
Hashed(m) == IF HasBody(m) THEN <<Header(m), "body">> ELSE <<Header(m)>>

\* qn_tls_init and qn_tls_start: one ClientHello sent, no transcript yet,
\* for the hash is known only once the server has chosen a suite.
NewSession ==
  [st |-> "wait_sh", ver |-> "none", hrr |-> FALSE, group |-> "none", suite |-> "none",
   tron |-> FALSE, tr |-> <<>>, trfin |-> <<>>, ems |-> FALSE, alpn |-> "none", alps |-> FALSE,
   certreq |-> FALSE, cert |-> FALSE, comp |-> FALSE, cv |-> FALSE, step |-> "cert",
   share |-> "none", ccs |-> FALSE, rd |-> NoKey, rseq |-> 0, wr |-> NoKey,
   out |-> <<>>, done |-> FALSE, app |-> 0, rc |-> "ok", took |-> <<>>]

Rc(s, rc) == [s EXCEPT !.rc = rc]
Emit(s, t, mac) == [s EXCEPT !.out = Append(@, [t |-> t, mac |-> mac])]

\* derive_keys: a fresh key starts at sequence number 0.
ReadWith(s, k) == [s EXCEPT !.rd = k, !.rseq = 0]

-----------------------------------------------------------------------------
(* ServerHello *)

\* A second ClientHello restarts the transcript: the first hello goes in as
\* the hash of itself, then the retry request, then the new hello.
SecondHello(s, m, h, room) ==
  IF ~room THEN Rc(s, "space")
  ELSE Emit([s EXCEPT !.ver = "13", !.hrr = TRUE, !.group = h.share, !.suite = h.suite,
                      !.tron = TRUE,
                      !.tr = <<"message_hash">> \o Hashed(m) \o <<"hello2">>], "hello2", <<>>)

\* The extension loop: what a hello may carry, whatever it selects.
ExtensionsRc(c, h) ==
  IF ~h.form THEN "proto"
  ELSE IF h.share # "none" /\ h.share \notin c.groups THEN "unsupported"
  ELSE IF h.hrr /\ h.share \in c.shares THEN "proto"
  ELSE IF ~h.hrr /\ h.cookie THEN "proto"
  ELSE "ok"

HelloRetry(s, c, m, h, room) ==
  IF \/ h.ver # "13" \/ ~h.sid \/ h.ems \/ h.alpn # "none" \/ h.suite \notin {"a13", "b13"}
     \/ ~h.cookie /\ h.share = "none"
  THEN Rc(s, "proto")
  ELSE SecondHello(s, m, h, room)

\* What a final hello selects, and why it may be refused.
SelectionRc(s, c, h) ==
  IF h.ver = "12"
  THEN IF ~c.allow12 \/ h.suite # "a12" THEN "unsupported"
       ELSE IF h.share # "none" THEN "proto" ELSE "ok"
  ELSE IF h.ver = "13"
  THEN IF \/ s.hrr /\ h.suite # s.suite
          \/ ~h.sid \/ h.ems \/ h.alpn # "none"
       THEN "proto"
       ELSE IF h.suite \notin {"a13", "b13"} \/ h.share = "none" THEN "unsupported"
       ELSE IF \/ s.hrr /\ s.group # "none" /\ h.share # s.group
               \/ ~s.hrr /\ h.share \notin c.shares
       THEN "proto" ELSE "ok"
  ELSE "unsupported"

\* The suite is known: hash the hello that was sent and this one, unless the
\* retry already started the transcript and hs_feed hashed this one.
\* Mutant: hashed again after a retry.
TranscriptTwice(s, m) ==
  IF s.hrr THEN s.tr \o Hashed(m) ELSE <<"hello1">> \o Hashed(m)

Transcript(s, m) == IF s.hrr THEN s.tr ELSE <<"hello1">> \o Hashed(m)

\* on_server_hello
OnServerHello(s, c, m, room) ==
  LET h == Hello[m.f]
      ext == ExtensionsRc(c, h)
      sel == SelectionRc(s, c, h)
      tr == Transcript(s, m)
      s1 == [s EXCEPT !.ver = h.ver, !.suite = h.suite, !.tron = TRUE, !.tr = tr,
                      !.ems = h.ems, !.alpn = h.alpn]
  IN  IF s.st # "wait_sh" \/ (h.hrr /\ s.hrr) THEN Rc(s, "proto")
      ELSE IF ext # "ok" THEN Rc(s, ext)
      ELSE IF h.hrr THEN HelloRetry(s, c, m, h, room)
      ELSE IF sel # "ok" THEN Rc(s, sel)
      ELSE IF h.ver = "12" THEN [s1 EXCEPT !.st = "wait_cert", !.step = "cert"]
      ELSE ReadWith([s1 EXCEPT !.st = "wait_ee", !.share = h.share,
                               !.wr = Key("hs", h.share, tr)], Key("hs", h.share, tr))

-----------------------------------------------------------------------------
(* TLS 1.3 *)

\* on_encrypted_extensions: the form stands for the extension list; "alps"
\* carries application settings and h2, "alps1" settings without h2.
OnEncryptedExtensions(s, c, m) ==
  IF s.st # "wait_ee" \/ m.f = "bad" THEN Rc(s, "proto")
  ELSE IF m.f \in {"alps", "alps1"} /\ (~c.chrome \/ m.f = "alps1") THEN Rc(s, "proto")
  ELSE [s EXCEPT !.st = "wait_fin", !.alps = m.f = "alps",
                 !.alpn = IF m.f = "alps" THEN "h2" ELSE "http1"]

OnCertificateRequest(s, m) ==
  IF s.st # "wait_fin" \/ s.certreq \/ s.cert \/ m.f = "bad" THEN Rc(s, "proto")
  ELSE [s EXCEPT !.certreq = TRUE]

\* on_certificate, plain or compressed; a compressed chain is never read.
OnCertificate(s, c, m) ==
  IF s.st # "wait_fin" \/ s.cert \/ s.cv \/ m.f = "bad" THEN Rc(s, "proto")
  ELSE IF m.t = "cert" THEN [s EXCEPT !.cert = TRUE]
  ELSE [s EXCEPT !.comp = TRUE, !.rc = IF c.strict THEN "unsupported" ELSE "ok"]

\* Form "alg": signed with an algorithm that was not offered.
OnCertificateVerify(s, m) ==
  IF s.st # "wait_fin" \/ ~(s.cert \/ s.comp) \/ s.cv \/ m.f = "bad" THEN Rc(s, "proto")
  ELSE IF m.f = "alg" THEN Rc(s, "unsupported")
  ELSE [s EXCEPT !.cv = TRUE]

\* send_client_flight: the application keys are fixed by the transcript up to
\* the server's Finished; the client's own messages come after it.
ClientFlight(s, room) ==
  LET tr1 == IF s.certreq THEN Append(s.tr, "client_cert") ELSE s.tr
      app == Key("app", s.share, s.tr)
  IN  IF ~room THEN Rc(s, "space")
      ELSE ReadWith(Emit([s EXCEPT !.tr = Append(tr1, "client_fin"), !.wr = app, !.st = "ready",
                                   !.rc = "done"], "fin", tr1), app)

\* on_server_finished: the code checks the transcript before this message.
OnFinished13(s, m, mac, room) ==
  IF s.st # "wait_fin" \/ ~(s.cert \/ s.comp) \/ ~s.cv \/ m.f = "bad" THEN Rc(s, "proto")
  ELSE IF mac # Mac(s.share, s.trfin) THEN Rc(s, "badmac")
  ELSE ClientFlight(s, room)

Dispatch13(s, c, m, mac, room) ==
  CASE m.t = "ee" -> OnEncryptedExtensions(s, c, m)
    [] m.t \in {"cert", "comp"} -> OnCertificate(s, c, m)
    [] m.t = "certreq" -> OnCertificateRequest(s, m)
    [] m.t = "cv" -> OnCertificateVerify(s, m)
    [] m.t = "fin" -> OnFinished13(s, m, mac, room)
    [] m.t = "ticket" -> IF s.st = "ready" THEN s ELSE Rc(s, "proto")
    [] m.t = "update" -> Rc(s, IF s.st # "ready" \/ m.f = "bad" THEN "proto" ELSE "unsupported")
    [] OTHER -> Rc(s, "proto")

-----------------------------------------------------------------------------
(* TLS 1.2 *)

\* on_hello_done: ClientKeyExchange, the key block, ChangeCipherSpec and the
\* client's Finished. With the extended master secret the key is bound to
\* the transcript through ClientKeyExchange.
OnHelloDone(s, room) ==
  LET tr1 == Append(s.tr, "client_kx")
  IN  IF ~room THEN Rc(s, "space")
      ELSE Emit([s EXCEPT !.tr = Append(tr1, "client_fin"), !.st = "wait_ccs",
                          !.wr = Key("t12", s.share, IF s.ems THEN tr1 ELSE <<>>)], "kx", tr1)

\* qn_tls12_on_ccs
OnCcs12(s) ==
  IF s.st = "wait_ccs" THEN [ReadWith(s, s.wr) EXCEPT !.st = "wait_fin"] ELSE s

\* The group of a ServerKeyExchange; form "curve" is one that is not supported.
KxGroup(m) == IF m.f = "p256" THEN "p256" ELSE "x25519"

\* qn_tls12_dispatch
Dispatch12(s, m, mac, room) ==
  LET at(step) == s.st = "wait_cert" /\ s.step = step
  IN  CASE m.t = "cert" -> IF ~at("cert") \/ m.f = "bad" THEN Rc(s, "proto")
                           ELSE [s EXCEPT !.cert = TRUE, !.step = "kx"]
        [] m.t = "kx" -> IF ~at("kx") \/ m.f = "bad" THEN Rc(s, "proto")
                         ELSE IF m.f = "curve" THEN Rc(s, "unsupported")
                         ELSE [s EXCEPT !.share = KxGroup(m), !.step = "req_or_done"]
        [] m.t = "certreq" -> IF ~at("req_or_done") \/ s.certreq THEN Rc(s, "proto")
                              ELSE [s EXCEPT !.certreq = TRUE, !.rc = "unsupported"]
        [] m.t = "done" -> IF ~at("req_or_done") THEN Rc(s, "proto")
                           ELSE OnHelloDone([s EXCEPT !.step = "flight_done"], room)
        [] m.t = "fin" -> IF s.st # "wait_fin" \/ m.f = "bad" THEN Rc(s, "proto")
                          ELSE IF mac # Mac(s.share, s.trfin) THEN Rc(s, "badmac")
                          ELSE [s EXCEPT !.st = "ready", !.rc = "done"]
        [] m.t = "ticket" -> IF s.st # "wait_ccs" \/ m.f = "bad" THEN Rc(s, "proto") ELSE s
        [] OTHER -> Rc(s, "proto")

\* qn_tls13_dispatch
Dispatch(s, c, m, mac, room) ==
  IF m.t = "hello" THEN OnServerHello(s, c, m, room)
  ELSE IF s.ver = "12" THEN Dispatch12(s, m, mac, room)
  ELSE Dispatch13(s, c, m, mac, room)

-----------------------------------------------------------------------------
(* Records *)

\* tr_update; after READY nothing reads the transcript any more.
TrUpdate(s, x) == IF s.tron /\ s.st # "ready" THEN [s EXCEPT !.tr = Append(@, x)] ELSE s

Name(m) == IF m.t = "hello" THEN m.f
           ELSE IF m.f \in {"bad", "wrong", "alps1", "curve", "alg"} THEN "bad" ELSE m.t

\* The end of a message: dispatched, and a completed handshake remembered.
\* took is history: the messages the session accepted.
Complete(s, c, u, room) ==
  LET s1 == [Dispatch(s, c, u.m, u.mac, room) EXCEPT
               !.took = IF s.st = "ready" THEN @ ELSE Append(@, Name(u.m))]
  IN  IF s1.rc = "done" THEN [s1 EXCEPT !.done = TRUE, !.rc = "ok"] ELSE s1

\* hs_feed, one unit. The transcript is saved before the header of a
\* Finished goes into it.
HsUnit(s, c, u, room) ==
  LET head == u.p = "h"
      s1 == IF head /\ u.m.t = "fin" THEN [s EXCEPT !.trfin = s.tr] ELSE s
      s2 == TrUpdate(s1, IF head THEN Header(u.m) ELSE "body")
  IN  IF s.rc # "ok" THEN s
      ELSE IF head /\ HasBody(u.m) THEN s2
      ELSE Complete(s2, c, u, room)

\* Sequence numbers, modulo more than the records under way.
NextSeq(n) == (n + 1) % (Unread + 2)

\* open_record and qn_tls12_open: the record opens under the key and the
\* sequence number the session is at.
Opened(s, r) ==
  IF r.key = s.rd /\ r.seq = s.rseq THEN [s EXCEPT !.rseq = NextSeq(@)] ELSE Rc(s, "badmac")

\* The record's content, by its inner type.
Content(s, c, r, room) ==
  CASE r.inner = "alert" -> [s EXCEPT !.st = "closed", !.rc = "alert"]
    [] r.inner = "hs" -> FoldLeft(LAMBDA a, u : HsUnit(a, c, u, room), s, r.units)
    [] r.inner = "app" -> IF s.st # "ready" THEN Rc(s, "proto") ELSE [s EXCEPT !.app = @ + 1]
    [] OTHER -> Rc(s, "proto")

\* handle_record
HandleRecord(s, c, r, room) ==
  IF r.type = "ccs"
  THEN IF s.ccs \/ s.st \in {"ready", "closed"} THEN Rc(s, "proto")
       ELSE LET s1 == [s EXCEPT !.ccs = TRUE]
            IN  IF s.ver = "12" THEN OnCcs12(s1) ELSE s1
  ELSE LET plain == s.rd = NoKey
           s1 == IF plain THEN s ELSE Opened(s, r)
           r1 == IF plain THEN [r EXCEPT !.inner = r.type] ELSE r
       IN  IF ~plain /\ s.ver # "12" /\ r.type # "app" THEN Rc(s, "proto")
           ELSE IF s1.rc # "ok" THEN s1
           ELSE Content(s1, c, r1, room)

\* One record of the input: its header is checked, then it is handled.
Arrive(s, c, r, room) ==
  IF s.rc # "ok" THEN s
  ELSE IF r.type = "bad" THEN Rc(s, "proto")
  ELSE HandleRecord(s, c, r, room)

\* qn_tls_recv over everything one read returned.
TlsRecv(s, c, recs) ==
  LET s1 == FoldLeft(LAMBDA a, r : Arrive(a, c, r, c.room),
                     [s EXCEPT !.done = FALSE, !.app = 0, !.out = <<>>, !.rc = "ok"], recs)
  IN  IF s1.rc # "ok" THEN s1 ELSE Rc(s1, IF s1.done THEN "done" ELSE "more")

-----------------------------------------------------------------------------
(* The server: any order of messages, packed into records in any way. It    *)
(* keeps its own transcript and keys; a server that followed the protocol   *)
(* so far has no flaws. The client's flights reach it at once.           *)

NewServer == [tr |-> <<"hello1">>, key |-> NoKey, seq |-> 0, sent |-> <<>>, ver |-> "none",
              share |-> "none", ems |-> FALSE, k12 |-> NoKey, want |-> <<>>, heard |-> <<>>,
              fresh |-> TRUE, alert |-> FALSE, ccs |-> FALSE, app |-> 0, post |-> 0, flaws |-> 0]

Init ==
  \E c \in Configs :
    tl = [c |-> c, s |-> NewSession, v |-> NewServer, wire |-> <<>>,
          complete |-> FALSE, given |-> 0, lost |-> 0, over |-> FALSE,
          cfin |-> <<>>]

\* What the client sent joins the server's transcript; with TLS 1.2 the
\* server now knows the keys, with TLS 1.3 it already does.
Hears(v, out) ==
  FoldLeft(LAMBDA a, o :
    CASE o.t = "hello2" -> [a EXCEPT !.tr = Append(@, "hello2"), !.heard = Append(@, "hello2")]
      [] o.t = "kx" ->
           LET tr1 == Append(a.tr, "client_kx")
           IN  [a EXCEPT !.k12 = Key("t12", a.share, IF a.ems THEN tr1 ELSE <<>>), !.want = tr1,
                         !.tr = Append(tr1, "client_fin"), !.heard = Append(@, "kx")]
      [] OTHER -> a, v, out)

\* The messages of a complete server flight, by name: the reference for what
\* a server may send, in which order.
RetryNames(c) ==
  {n \in DOMAIN Hello : LET h == Hello[n] IN
     /\ h.hrr /\ h.form /\ h.ver = "13" /\ h.sid /\ ~h.ems /\ h.alpn = "none"
     /\ h.suite \in {"a13", "b13"} /\ h.share \in (c.groups \ c.shares) \cup {"none"}
     /\ h.cookie \/ h.share # "none"}
FinalNames(c, retry) ==
  {n \in DOMAIN Hello : LET h == Hello[n] IN
     /\ ~h.hrr /\ h.form /\ ~h.cookie /\ h.ver = "13" /\ h.sid /\ ~h.ems /\ h.alpn = "none"
     /\ IF retry = "none" THEN h.share \in c.shares /\ h.suite \in {"a13", "b13"}
        ELSE LET r == Hello[retry]
             IN  /\ h.suite = r.suite
                 /\ h.share \in (IF r.share = "none" THEN c.shares ELSE {r.share})}
Names12 == {n \in DOMAIN Hello : LET h == Hello[n] IN
              ~h.hrr /\ h.form /\ ~h.cookie /\ h.ver = "12" /\ h.suite = "a12" /\ h.share = "none"}
Follow13 == [ee |-> {"certreq", "cert", "comp"}, certreq |-> {"cert", "comp"}, cert |-> {"cv"},
             comp |-> {"cv"}, cv |-> {"fin"}, fin |-> {"ticket"}]
Follow12 == [cert |-> {"kx"}, kx |-> {"certreq", "done"}, certreq |-> {"done"},
             done |-> {"ticket", "ccs"}, ticket |-> {"ccs"}, ccs |-> {"fin"}, fin |-> {}]
MayFollow(c, v) ==
  LET last == Last(v.sent)
      table == IF v.ver = "13" THEN Follow13 ELSE Follow12
  IN  IF v.sent = <<>> THEN RetryNames(c) \cup FinalNames(c, "none") \cup Names12
      ELSE IF last \in DOMAIN table THEN table[last]
      ELSE IF last \notin DOMAIN Hello THEN {}
      ELSE IF ~Hello[last].hrr THEN (IF v.ver = "13" THEN {"ee"} ELSE {"cert"})
      ELSE FinalNames(c, last)
Flown(v) == v.sent # <<>> /\ Last(v.sent) = "fin"

\* A legal server waits for the client's answer to a retry and to the end of
\* a TLS 1.2 flight, and starts a new record when its keys change.
Waited(v, n) ==
  /\ n \in DOMAIN Hello /\ v.sent # <<>> => v.heard = <<"hello2">>
  /\ v.ver = "12" /\ n \in {"ticket", "ccs", "fin"} => "kx" \in ToSet(v.heard)
\* Where the server has no share of the client's for a group, it cannot know
\* the secret.
Shared(c, v, g) ==
  IF g \in c.shares \/ (v.heard # <<>> /\ Hello[v.sent[1]].share = g) THEN g ELSE "unknown"

\* The server's own view after it sent m.
Advance(c, v, m) ==
  LET tr == IF v.tr = <<"hello1">> /\ m.t = "hello" /\ Hello[m.f].hrr
            THEN <<"message_hash">> \o Hashed(m) ELSE v.tr \o Hashed(m)
      h == Hello[m.f]
      g == Shared(c, v, h.share)
      v1 == [v EXCEPT !.tr = tr, !.fresh = FALSE]
      cert == IF "certreq" \in ToSet(v.sent) THEN <<"client_cert">> ELSE <<>>
  IN  IF m.t = "hello"
      THEN IF h.hrr \/ v.ver # "none" THEN v1
           ELSE IF h.ver = "13"
           THEN [v1 EXCEPT !.ver = "13", !.share = g, !.key = Key("hs", g, tr), !.seq = 0,
                           !.fresh = TRUE]
           ELSE [v1 EXCEPT !.ver = "12", !.ems = h.ems]
      ELSE IF m.t = "kx" /\ v.ver = "12" THEN [v1 EXCEPT !.share = KxGroup(m)]
      ELSE IF m.t = "fin" /\ v.key.e = "hs"
      THEN [v1 EXCEPT !.key = Key("app", v.share, tr), !.seq = 0, !.want = tr \o cert,
                      !.fresh = TRUE]
      ELSE v1

Record(v, inner, units) ==
  [type |-> IF v.key.e \in {"hs", "app"} THEN "app" ELSE inner,
   inner |-> inner, key |-> v.key, seq |-> v.seq, units |-> units]

UnitsOf(v, m) ==
  LET mac == IF m.t = "fin" /\ m.f = "ok" THEN Mac(v.share, v.tr) ELSE Mac("none", <<>>)
      u(p) == [p |-> p, m |-> m, mac |-> mac]
  IN  IF HasBody(m) THEN <<u("h"), u("b")>> ELSE <<u("h")>>

\* Room on the wire; nothing is sent to a client that has gone.
MaySend == ~tl.over /\ ~tl.v.alert /\ Len(tl.wire) < Unread
           /\ tl.v.post < MaxPost /\ Len(tl.v.sent) < MaxSent
\* Only a record of which nothing was read can take more.
CanJoin == tl.wire # <<>> /\ Last(tl.wire).inner = "hs"

\* A handshake message; its first `cut` units go into the open record or a
\* new one, the others into one more record.
Sent(m, join, cut, legal) ==
  LET v == tl.v
      u == UnitsOf(v, m)
      first == SubSeq(u, 1, cut)
      rest == SubSeq(u, cut + 1, Len(u))
      w == IF join THEN [tl.wire EXCEPT ![Len(tl.wire)].units = @ \o first]
           ELSE Append(tl.wire, Record(v, "hs", first))
      v1 == IF join THEN v ELSE [v EXCEPT !.seq = NextSeq(@)]
      v2 == IF rest = <<>> THEN v1 ELSE [v1 EXCEPT !.seq = NextSeq(@)]
  IN  [tl EXCEPT
        !.wire = IF rest = <<>> THEN w ELSE Append(w, Record(v1, "hs", rest)),
        !.v = [Advance(tl.c, v2, m) EXCEPT
                 !.flaws = IF legal THEN @ ELSE @ + 1,
                 !.sent = IF v.key.e = "app" THEN @ ELSE Append(@, Name(m)),
                 !.post = IF v.key.e \in {"app", "t12"} THEN @ + 1 ELSE @]]

SendMessage ==
  /\ MaySend /\ (Flown(tl.v) => tl.v.key.e \in {"app", "t12"})
  /\ \E may \in {MayFollow(tl.c, tl.v)},
        m \in Messages \cup {[t |-> "hello", f |-> n] : n \in DOMAIN Hello},
        join \in (IF CanJoin THEN BOOLEAN ELSE {FALSE}), cut \in 1..2 :
       LET legal == Name(m) \in may /\ Waited(tl.v, Name(m)) /\ ~(join /\ tl.v.fresh)
       IN  /\ ~legal => tl.v.flaws < MaxFlaws
           /\ Name(m) \notin may => tl.wire = <<>>
           /\ cut = 2 => HasBody(m)
           /\ tl.v.flaws > 0 => ~join /\ (cut = 1 => ~HasBody(m))
           /\ tl' = Sent(m, join, cut, legal)

\* ChangeCipherSpec: the key change of TLS 1.2, once the server has keys; a
\* placeholder in TLS 1.3.
SendCcs ==
  LET v == tl.v
      switch == v.ver = "12" /\ v.k12 # NoKey
      legal == IF v.ver = "12" THEN "ccs" \in MayFollow(tl.c, v) /\ Waited(v, "ccs")
               ELSE ~v.ccs /\ v.sent # <<>> /\ v.key.e # "app"
  IN  /\ ~legal => v.flaws < MaxFlaws
      /\ MaySend /\ v.key.e # "t12"
      /\ tl' = [tl EXCEPT
           !.wire = Append(@, [Record([v EXCEPT !.key = NoKey], "ccs", <<>>) EXCEPT !.seq = 0]),
           !.v = [v EXCEPT
             !.ccs = TRUE, !.fresh = TRUE,
             !.key = IF switch THEN v.k12 ELSE @, !.seq = IF switch THEN 0 ELSE @,
             !.sent = IF v.ver = "12" THEN Append(@, "ccs") ELSE @,
             !.flaws = IF legal THEN @ ELSE @ + 1]]

\* Application data, an alert, or a record that is none of these.
SendOther ==
  \E inner \in {"app", "alert", "none", "bad"} :
    LET v == tl.v
        r == Record(v, inner, <<>>)
        legal == \/ inner = "alert"
                 \/ inner = "app" /\ (v.key.e = "app" \/ (v.ver = "12" /\ Flown(v)))
    IN  /\ MaySend /\ (~legal => v.flaws < MaxFlaws)
        /\ tl' = [tl EXCEPT
             !.wire = Append(@, IF inner = "bad" THEN [r EXCEPT !.type = "bad"] ELSE r),
             !.v = [v EXCEPT
               !.seq = NextSeq(@), !.fresh = TRUE, !.post = @ + 1,
               !.alert = inner = "alert", !.app = IF inner = "app" THEN @ + 1 ELSE @,
               !.flaws = IF legal THEN @ ELSE @ + 1]]

-----------------------------------------------------------------------------
(* The verifier's side of a readable socket *)

\* The part of verify.c's read handler around qn_tls_recv: the handshake is
\* complete once, an alert or a refusal ends the connection with whatever
\* was decoded in the same read, other data is passed on.
Received(n) ==
  LET s == TlsRecv(tl.s, tl.c, SubSeq(tl.wire, 1, n))
      bad == s.rc \notin {"more", "done"}
      fin == SelectSeq(s.out, LAMBDA o : o.t # "hello2")
  IN  [tl EXCEPT
        !.s = [s EXCEPT !.out = <<>>, !.app = 0, !.done = FALSE],
        !.wire = IF bad THEN <<>> ELSE SubSeq(@, n + 1, Len(@)),
        !.v = Hears(@, s.out),
        !.complete = @ \/ s.rc = "done",
        !.cfin = IF fin # <<>> THEN fin[1].mac ELSE @,
        !.given = IF bad THEN @ ELSE @ + s.app,
        !.lost = IF bad THEN s.app ELSE 0,
        !.over = bad]
OnReadable == ~tl.over /\ \E n \in DOMAIN tl.wire : tl' = Received(n)

\* The server says no more.
Done == (tl.over \/ tl.wire = <<>>) /\ UNCHANGED tl

Next == SendMessage \/ SendCcs \/ SendOther \/ OnReadable \/ Done

-----------------------------------------------------------------------------
(* What holds *)

TypeOK ==
  /\ tl.s.st \in {"wait_sh", "wait_ee", "wait_cert", "wait_ccs", "wait_fin", "ready", "closed"}
  /\ tl.s.rc \in {"ok", "more", "done", "alert", "proto", "badmac", "unsupported", "space"}
  /\ Len(tl.wire) <= Unread + 1
  /\ tl.complete \in BOOLEAN /\ tl.over \in BOOLEAN

\* The message orders a finished handshake may have had. The protocol's own,
\* with three liberties the code takes: a compressed chain does not count as
\* the chain for what may follow it, TLS 1.2 may follow a retry, and tickets
\* may repeat.
Ordered13(c, took) ==
  \E o \in {SubSeq(took, 1, i) : i \in 1..2} :
    LET at(n) == {i \in DOMAIN took : took[i] = n}
        before(S, T) == \A i \in S, j \in T : i < j
    IN  /\ IF Len(o) = 1 THEN o[1] \in FinalNames(c, "none")
           ELSE o[1] \in RetryNames(c) /\ o[2] \in FinalNames(c, o[1])
        /\ at("ee") = {Len(o) + 1} /\ at("fin") = {Len(took)}
        /\ ToSet(took) \subseteq ToSet(o) \cup {"ee", "certreq", "cert", "comp", "cv", "fin"}
        /\ \A n \in {"certreq", "cert", "cv"} : Cardinality(at(n)) <= 1
        /\ at("cv") # {} /\ at("cert") \cup at("comp") # {}
        /\ before(at("cert") \cup at("comp"), at("cv"))
        /\ before(at("comp") \cup at("certreq"), at("cert"))
Ordered12(c, took) ==
  \E o \in {<<n>> : n \in Names12} \cup {<<r, n>> : r \in RetryNames(c), n \in Names12} :
    LET base == SelectSeq(took, LAMBDA n : n # "ticket")
    IN  /\ base = o \o <<"cert", "kx", "done", "fin">>
        /\ \A i \in DOMAIN took : took[i] = "ticket" => took[i - 1] \in {"done", "ticket"}

\* A handshake the client calls complete was a whole flight in a legal order,
\* both sides hashed the same messages, and the client's Finished is the one
\* the server expects.
CompleteMeansAgreed ==
  tl.complete =>
    /\ Ordered13(tl.c, tl.s.took) \/ Ordered12(tl.c, tl.s.took)
    /\ tl.v.share # "unknown" /\ tl.v.want = tl.cfin
    /\ tl.s.rd.e \in {"app", "t12"} /\ tl.s.wr = tl.s.rd

\* Whatever the packing and the segmentation, a server that keeps to the
\* protocol is never refused for it: only for what the client does not
\* support, or for want of room.
Unsupported ==
  LET took == ToSet(tl.s.took)
  IN  \/ \E n \in took \cap DOMAIN Hello : Hello[n].ver = "12" /\ ~tl.c.allow12
      \/ "comp" \in took /\ tl.c.strict
      \/ "certreq" \in took /\ tl.s.ver = "12"
LegalIsServed ==
  tl.v.flaws = 0 =>
    /\ tl.s.rc \notin {"proto", "badmac"}
    /\ tl.s.rc = "unsupported" => Unsupported
    /\ tl.s.rc = "alert" => tl.v.alert
    /\ ~tl.over /\ tl.wire = <<>> =>
         /\ tl.complete <=> Flown(tl.v)
         /\ tl.given = tl.v.app
    /\ tl.s.rc = "alert" => tl.given + tl.lost = tl.v.app

\* Nothing decoded before the handshake is complete is passed on.
TlsInv ==
  /\ TypeOK /\ CompleteMeansAgreed /\ LegalIsServed
  /\ tl.given > 0 => tl.complete
  /\ tl.given + tl.lost <= tl.v.app
====
