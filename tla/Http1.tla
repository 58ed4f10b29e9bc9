------------------------------- MODULE Http1 -------------------------------
(***************************************************************************)
(* The HTTP/1.1 response parser of src/net/http1.c and its caller in       *)
(* src/net/verify.c (absorb_app, absorb_h1, absorb_h1_eof), fed by a       *)
(* server whose bytes arrive cut up in any way.  The wire carries units: a *)
(* header or size line of one or two units, a body byte, a colo text.      *)
(* Every unit means to the parser what its state makes of it.              *)
(***************************************************************************)
EXTENDS Observation, SequencesExt, FiniteSetsExt

CONSTANTS Responses,   \* what the server may send: see Encode
          MaxSent,     \* responses it sends at most
          Unread,      \* units that may be unread when it sends the next one
          HeadCap,     \* units the head buffer holds
          LineCap,     \* units of a trace line
          EarlyCap,    \* units set aside before the request has left
          Wants        \* values of cfg.want_bytes

VARIABLE h1            \* [k connection, p parser, wire, sent, cut, mixed, open]

(***************************************************************************)
(* The server.  A response is [ok, status, te, lens, parts, trailer, by]:  *)
(* header syntax, status, Transfer-Encoding codings, Content-Length        *)
(* values, body parts (each a sequence of "x", "colo" and "nl"), a trailer *)
(* field, and how the body is framed on the wire.                          *)
(***************************************************************************)
U(is) == [is |-> is, n |-> 0, head |-> << >>]
Units(part) == [i \in 1..Len(part) |-> U(part[i])]
BodyOf(r) == FlattenSeq(r.parts)
Chunk(part) == << [U("size") EXCEPT !.n = Len(part)] >> \o Units(part) \o << U("cr"), U("lf") >>
Encode(r) ==
  << U("b"), [U("end") EXCEPT !.head = << r >>] >> \o
  IF r.by = "chunked"
  THEN FlattenSeq([i \in 1..Len(r.parts) |-> Chunk(r.parts[i])]) \o << U("size") >> \o
       (IF r.trailer THEN << U("b") >> ELSE <<>>) \o << U("stop") >>
  ELSE Units(BodyOf(r))

(***************************************************************************)
(* The parser.  x is what one qn_http1_feed works on: the parser, the      *)
(* event it fills, its return code.                                        *)
(***************************************************************************)
NewParser == [st |-> "HEAD", headN |-> 0, junk |-> FALSE, left |-> 0, status |-> 0,
              responses |-> 0, opened |-> 1, crlf |-> 0, line |-> <<>>, over |-> FALSE]
Rc(x, rc) == [x EXCEPT !.rc = rc]

ResetResponse(p) ==
  [p EXCEPT !.headN = 0, !.junk = FALSE, !.left = 0, !.status = 0, !.st = "HEAD",
            !.crlf = 0, !.line = <<>>, !.over = FALSE]

Complete(x) ==
  [x EXCEPT !.ev = [@ EXCEPT !.facts = @ \cup {"done"}, !.index = x.p.responses + 1,
                             !.status = x.p.status],
            !.p = [ResetResponse(x.p) EXCEPT !.responses = @ + 1]]

(* te_append over the elements of the header's lines.                         *)
Te(codings) ==
  LET real == SelectSeq(codings, LAMBDA e : e \notin {"", "bad"})
  IN  [malformed |-> Len(real) # Len(codings), codings |-> Len(real),
       chunkedSeen |-> Len(SelectSeq(real, LAMBDA e : e = "chunked")),
       chunkedLast |-> real # <<>> /\ Last(real) = "chunked"]

(* The framing that parse_head takes from a final head.                        *)
Framed(x, r) ==
  LET te == Te(r.te)
      haveTe == r.te # <<>>
  IN  CASE haveTe /\ (te.malformed \/ te.codings = 0 \/ te.chunkedSeen > 1) -> Rc(x, "protocol")
        [] haveTe /\ r.lens # {} -> Rc(x, "protocol")
        [] r.status \in {204, 304} -> Complete(x)
        [] haveTe -> [x EXCEPT !.p.st = IF te.chunkedLast THEN "CHUNK_SIZE" ELSE "EOF_BODY"]
        [] r.lens # {} -> IF Max(r.lens) = 0 THEN Complete(x)
                          ELSE [x EXCEPT !.p.left = Max(r.lens), !.p.st = "FIXED"]
        [] OTHER -> [x EXCEPT !.p.st = "EOF_BODY"]

(* parse_head                                                                 *)
ParseHead(x, r) ==
  LET y == [x EXCEPT !.p.status = r.status, !.p.headN = 0,
                     !.ev.status = r.status, !.ev.index = x.p.responses + 1]
  IN  CASE ~r.ok \/ x.p.junk \/ Cardinality(r.lens) > 1 \/ r.status = 101 -> Rc(y, "protocol")
        [] r.status < 200 -> [y EXCEPT !.ev.facts = @ \cup {"info"}, !.p = ResetResponse(@)]
        [] x.p.responses >= x.p.opened -> Rc(y, "protocol")
        [] OTHER -> Framed([y EXCEPT !.ev.facts = @ \cup {"headers"}], r)

(* body, scan_trace and scan_line: a line counts when its end arrives.         *)
Body(x, u) ==
  LET y == [x EXCEPT !.ev.index = x.p.responses + 1, !.ev.status = x.p.status,
                     !.ev.bytes = @ + 1, !.ev.facts = @ \cup {"body"}]
  IN  CASE u.is \in {"nl", "lf", "end", "size", "stop"} ->
             [y EXCEPT !.p.line = <<>>, !.p.over = FALSE,
                       !.ev.facts = IF x.p.line = << "colo" >> /\ ~x.p.over
                                    THEN @ \cup {"colo"} ELSE @]
        [] u.is = "cr" -> y
        [] Len(x.p.line) >= LineCap -> [y EXCEPT !.p.over = TRUE]
        [] OTHER -> [y EXCEPT !.p.line = Append(@, u.is)]

(* One unit of a line that ends with a unit of kind end.                       *)
Buffered(x, u) == [x EXCEPT !.p.headN = @ + 1, !.p.junk = @ \/ u.is # "b"]

(* qn_http1_feed, by the state of the parser.                                  *)
Step(x, u) ==
  CASE x.rc # "ok" -> x
    [] x.p.st \in {"HEAD", "CHUNK_SIZE", "TRAILERS"} /\ x.p.headN >= HeadCap -> Rc(x, "space")
    [] x.p.st = "HEAD" ->
         IF u.is = "end" THEN ParseHead(x, u.head[1]) ELSE Buffered(x, u)
    [] x.p.st \in {"FIXED", "CHUNK_DATA"} ->
         LET y == [Body(x, u) EXCEPT !.p.left = @ - 1]
         IN  IF y.p.left # 0 THEN y
             ELSE IF x.p.st = "FIXED" THEN Complete(y)
             ELSE [y EXCEPT !.p.st = "CHUNK_CRLF", !.p.crlf = 0]
    [] x.p.st = "CHUNK_SIZE" ->
         IF u.is # "size" THEN Buffered(x, u)
         ELSE IF x.p.junk THEN Rc(x, "protocol")
         ELSE [x EXCEPT !.p.headN = 0, !.p.left = u.n,
                        !.p.st = IF u.n # 0 THEN "CHUNK_DATA" ELSE "TRAILERS"]
    [] x.p.st = "CHUNK_CRLF" ->
         IF u.is # (IF x.p.crlf = 0 THEN "cr" ELSE "lf") THEN Rc(x, "protocol")
         ELSE IF x.p.crlf = 0 THEN [x EXCEPT !.p.crlf = 1]
         ELSE [x EXCEPT !.p.crlf = 2, !.p.headN = 0, !.p.st = "CHUNK_SIZE"]
    [] x.p.st = "TRAILERS" ->
         IF u.is # "stop" THEN Buffered(x, u)
         ELSE Complete(IF x.p.headN = 0 THEN x
                       ELSE [x EXCEPT !.ev.facts = @ \cup {"trailers"}])
    [] x.p.st = "EOF_BODY" -> Body(x, u)

Feed(p, units) == FoldLeft(Step, [p |-> p, ev |-> NoEvent, rc |-> "ok"], units)

(***************************************************************************)
(* verify.c: what a connection makes of the parser's events.               *)
(***************************************************************************)
Init ==
  \E want \in Wants :
    h1 = [k |-> NewConn(want), p |-> NewParser, wire |-> <<>>, sent |-> <<>>,
          cut |-> FALSE, mixed |-> FALSE, open |-> TRUE]

(* absorb_h1; the response of the flow request is opened with the request.     *)
AbsorbH1(s, units) ==
  LET x == Feed(s.p, units)
      e == x.ev
      flow == e.index = 2 \/ s.k.flowSent
      k == [s.k EXCEPT !.ob = ApplyHttp(@, e),
                       !.flowBytes = IF flow THEN @ + e.bytes ELSE @,
                       !.traceBytes = IF flow THEN @ ELSE @ + e.bytes]
      end == IF "done" \in e.facts THEN Ended(k, e.index) ELSE k
  IN  IF x.rc # "ok"
      THEN [s EXCEPT !.p = x.p, !.open = FALSE,
                     !.k = IF x.rc = "space" THEN Fail(@, "unsupported", "h1-space")
                           ELSE Fail(@, "protocol-invalid", "h1-protocol")]
      ELSE [s EXCEPT !.k = end, !.open = ~Failed(end),
                     !.p = IF end.flowSent /\ ~k.flowSent THEN [x.p EXCEPT !.opened = @ + 1] ELSE x.p,
                     !.mixed = @ \/ ("done" \in e.facts /\ e.index > s.p.responses + 1)]

(* absorb_app with qn_request_gate_app                                         *)
AbsorbApp(s, units) ==
  CASE units = <<>> -> s
    [] ~s.k.gate.flushed ->
         IF Len(s.k.early) + Len(units) > EarlyCap
         THEN [s EXCEPT !.k = Fail(@, "unsupported", "early-app-space"), !.open = FALSE]
         ELSE [s EXCEPT !.k.early = @ \o units]
    [] OTHER -> AbsorbH1(s, units)

(* request_flush_commit: the data set aside is parsed as one piece.            *)
FlushCommit ==
  /\ h1.open /\ ~h1.k.gate.flushed
  /\ h1' = AbsorbApp([h1 EXCEPT !.k = MarkFlushed(@)], h1.k.early)

(* One read: any part of what the server has sent.                             *)
Read ==
  /\ h1.open
  /\ \E n \in 1..Len(h1.wire) :
       h1' = AbsorbApp([h1 EXCEPT !.wire = SubSeq(@, n + 1, Len(@))], SubSeq(h1.wire, 1, n))

Serve(r) ==
  /\ h1.open /\ Len(h1.sent) < MaxSent /\ Len(h1.wire) <= Unread /\ ~h1.cut
  /\ \A i \in 1..Len(h1.sent) : h1.sent[i].by # "close"
  /\ h1' = [h1 EXCEPT !.sent = Append(@, r), !.wire = @ \o Encode(r)]

(* The server stops within the bytes that have not been read.                  *)
Cut ==
  /\ h1.open /\ ~h1.cut /\ h1.wire # <<>>
  /\ \E n \in 0..(Len(h1.wire) - 1) :
       h1' = [h1 EXCEPT !.wire = SubSeq(@, 1, n), !.cut = TRUE]

(* A closed connection counts as the end of the response whatever the framing.  *)
EofRcLenient(p) == IF p.st = "HEAD" THEN "ok" ELSE "done"

(* qn_http1_eof                                                               *)
EofRc(p) == IF p.st = "EOF_BODY" THEN "done"
            ELSE IF p.st = "HEAD" /\ p.headN = 0 THEN "ok" ELSE "protocol"

(* absorb_h1_eof                                                              *)
AbsorbH1Eof(s) ==
  LET x == Complete([p |-> s.p, ev |-> NoEvent, rc |-> "ok"])
      k == [s.k EXCEPT !.ob = ApplyHttp(@, x.ev)]
  IN  CASE EofRc(s.p) = "protocol" -> Fail(s.k, "protocol-invalid", "h1-eof-protocol")
        [] EofRc(s.p) = "ok" -> s.k
        [] x.ev.index = 1 /\ ~k.traceDone ->
             LET t == [k EXCEPT !.traceDone = TRUE]
             IN  IF k.want # 0 THEN Fail(t, "inconclusive", "trace-only-closed")
                 ELSE Note(t, "trace-closed")
        [] x.ev.index = 2 ->
             LET f == [k EXCEPT !.flowDone = TRUE]
             IN  IF k.flowBytes < k.want THEN Fail(f, "inconclusive", "short-flow") ELSE f
        [] OTHER -> k

Eof ==
  /\ h1.open /\ h1.wire = <<>>
  /\ h1' = [h1 EXCEPT !.open = FALSE,
                      !.k = IF h1.k.st = "body" THEN AbsorbH1Eof(h1) ELSE Note(@, "peer-closed")]

Done == ~h1.open /\ UNCHANGED h1

Next == FlushCommit \/ Read \/ (\E r \in Responses : Serve(r)) \/ Cut \/ Eof \/ Done

(***************************************************************************)
(* Properties                                                              *)
(***************************************************************************)
TypeOK ==
  /\ h1.p.responses <= h1.p.opened /\ h1.p.opened \in 1..2
  /\ h1.p.headN <= HeadCap /\ Len(h1.p.line) <= LineCap /\ Len(h1.k.early) <= EarlyCap
  /\ h1.k.ob.verified => h1.k.gate.queued

Finals == SelectSeq(h1.sent, LAMBDA r : r.status >= 200)
ColoLine(body) ==
  \E i \in 1..(Len(body) - 1) :
    body[i] = "colo" /\ body[i + 1] = "nl" /\ (i = 1 \/ body[i - 1] = "nl")
Delivered == h1.wire = <<>> /\ h1.k.early = <<>> /\ ~h1.cut
Acceptable ==
  \A i \in 1..Len(h1.sent) : h1.sent[i].by # "refuse"
Whole(i) == Len(Finals) >= i /\ (Finals[i].by # "close" \/ ~h1.open)

(* However the server's bytes are cut into reads and whatever is set aside      *)
(* until a request has left, absorb_h1 concludes what the responses say.  The   *)
(* marker is claimed only for a first response with status 200 and a complete   *)
(* colo line, a transfer only for the bytes of the second one.  A stream that   *)
(* ends where the server ended it is never refused, and gives the status, the   *)
(* body length, the marker and the end of each response exactly; a response     *)
(* cut short never completes.  Left out of the second half: one read with the   *)
(* end of a response and a further 1xx head, whose event has one index for both.*)
H1Inv ==
  /\ TypeOK
  /\ Rung(h1.k) \in {"EDGE", "FLOWING"} =>
       Len(Finals) >= 1 /\ Finals[1].status = 200 /\ ColoLine(BodyOf(Finals[1]))
  /\ Rung(h1.k) = "FLOWING" => Len(Finals) >= 2 /\ Len(BodyOf(Finals[2])) >= h1.k.want
  /\ h1.cut /\ ~h1.mixed /\ Last(h1.sent).status >= 200 /\ Last(h1.sent).by # "close" =>
       Cardinality({d \in {"trace", "flow"} :
                      IF d = "trace" THEN h1.k.traceDone ELSE h1.k.flowDone}) < Len(Finals)
  /\ Delivered /\ ~h1.mixed /\ Acceptable /\ h1.k.reason \notin {"h1-protocol", "early-app-space"} =>
       LET o == h1.k.ob
       IN  /\ o.final = (Len(Finals) >= 1)
           /\ o.final => /\ o.status = Finals[1].status
                         /\ o.body = Len(BodyOf(Finals[1])) /\ h1.k.traceBytes = o.body
                         /\ o.colo = ColoLine(BodyOf(Finals[1]))
                         /\ o.complete = Whole(1)
           /\ Len(Finals) >= 2 => /\ h1.k.flowBytes = Len(BodyOf(Finals[2]))
                                  /\ h1.k.flowDone = Whole(2)
  /\ h1.k.reason = "h1-protocol" =>
       \/ ~Acceptable \/ Len(Finals) > h1.p.opened
=============================================================================
