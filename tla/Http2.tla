------------------------------- MODULE Http2 -------------------------------
(***************************************************************************)
(* The HTTP/2 client of src/net/http2.c and its caller absorb_h2 in        *)
(* src/net/verify.c.  The server answers on stream 1 (trace) and stream 3  *)
(* (flow), mixes in SETTINGS, PING and GOAWAY, respects the flow-control   *)
(* windows, and its bytes arrive cut up in any way.  A frame on the wire   *)
(* is two header units, the second with the frame's fields, then its       *)
(* payload; a unit of a header block is one HPACK field.                   *)
(***************************************************************************)
EXTENDS Observation, SequencesExt, FiniteSetsExt

CONSTANTS Answers,    \* what the server may answer: see FramesOf
          Controls,   \* connection frames it may mix in
          Illegal,    \* frames that must be refused
          MaxControls,\* connection frames it sends at most
          Window,     \* initial window of the connection and of each stream
          Step,       \* H2_WINDOW_STEP: credit withheld is less than this
          MaxFrame,   \* H2_MAX_FRAME_IN
          BlockCap,   \* fields of a header block
          LineCap,    \* units of a trace line
          ControlCap, \* units of control output for one feed
          Unread,     \* units that may be unread when the server sends on
          EarlyCap,   \* units set aside before the request has left
          Wants       \* values of cfg.want_bytes

VARIABLE h2     \* [k connection, q parser, server fields, open]

(***************************************************************************)
(* The server.  An answer is [info, block, cont, parts, pad, trailer]: a   *)
(* 1xx head first, the fields of the final head, whether they need a       *)
(* CONTINUATION, the DATA frames, padding, and trailers.                   *)
(***************************************************************************)
U(is) == [is |-> is, n |-> 0, frame |-> << >>]
Fr(t, flags, sid, pay) == [t |-> t, flags |-> flags, sid |-> sid, pay |-> pay]
Units(f) ==
  << U("hdr"), [U("start") EXCEPT !.frame = << f >>] >> \o
  [i \in 1..Len(f.pay) |-> IF f.pay[i] = "pad1" THEN [U("pad") EXCEPT !.n = 1] ELSE U(f.pay[i])]
Padded(pay, on) == IF on THEN << "pad1" >> \o pay \o << "x" >> ELSE pay
PadFlag(on) == IF on THEN {"PADDED"} ELSE {}
FramesOf(sid, a) ==
  (IF a.info THEN << Fr("HEADERS", {"END_HEADERS"}, sid, << "s103" >>) >> ELSE <<>>) \o
  (LET end == IF a.parts = <<>> /\ ~a.trailer THEN {"END_STREAM"} ELSE {}
   IN  IF a.cont
       THEN << Fr("HEADERS", end \cup {"PRIORITY"}, sid, << "prio", a.block[1] >>),
               Fr("CONTINUATION", {"END_HEADERS"}, sid, Tail(a.block)) >>
       ELSE << Fr("HEADERS", end \cup {"END_HEADERS"} \cup PadFlag(a.pad), sid,
                  Padded(a.block, a.pad)) >>) \o
  [i \in 1..Len(a.parts) |->
     Fr("DATA", PadFlag(a.pad) \cup
                (IF i = Len(a.parts) /\ ~a.trailer THEN {"END_STREAM"} ELSE {}), sid,
        Padded(a.parts[i], a.pad))] \o
  (IF a.trailer THEN << Fr("HEADERS", {"END_HEADERS", "END_STREAM"}, sid, << "reg" >>) >> ELSE <<>>)

(***************************************************************************)
(* The parser.  x is what one qn_h2_feed works on: the parser, an event    *)
(* for each stream, the control frames to send, the return code.           *)
(***************************************************************************)
NewParser == [hdr |-> FALSE, f |-> << >>, got |-> 0, dstart |-> 0, dend |-> 0, setN |-> 0,
              block |-> <<>>, hbOpen |-> FALSE, hbStream |-> 0, hbEnd |-> FALSE, scratch |-> <<>>,
              streams |-> <<>>, conn |-> 0]
NewStream(id) == [id |-> id, st |-> "OPEN", head |-> FALSE, line |-> <<>>, over |-> FALSE,
                  consumed |-> 0]

(* qn_h2_open_stream                                                          *)
OpenStream(q, id) == [q EXCEPT !.streams = Append(@, NewStream(id))]
Index(q, sid) == SelectInSeq(q.streams, LAMBDA s : s.id = sid)
Rc(x, rc) == [x EXCEPT !.rc = rc]
Fact(x, i, facts) == [x EXCEPT !.ev[i] = [@ EXCEPT !.index = i, !.facts = @ \cup facts]]

(* begin_frame                                                                *)
BeginFrame(x, f) ==
  LET padded == f.t \in {"DATA", "HEADERS", "PUSH"} /\ "PADDED" \in f.flags
      start == (IF padded THEN 1 ELSE 0) + (IF f.t = "HEADERS" /\ "PRIORITY" \in f.flags THEN 1 ELSE 0)
      i == Index(x.q, f.sid)
      y == [x EXCEPT !.q = [@ EXCEPT !.f = << f >>, !.got = 0, !.dstart = start, !.setN = 0,
                                     !.dend = Len(f.pay), !.scratch = <<>>]]
      stream == f.sid # 0 /\ f.t \in {"DATA", "HEADERS", "CONTINUATION", "RST", "PUSH"}
  IN  IF \/ Len(f.pay) > MaxFrame \/ start > Len(f.pay)
         \/ f.t = "DATA" /\ f.sid = 0
         \/ x.q.hbOpen # (f.t = "CONTINUATION")
         \/ f.t = "CONTINUATION" /\ f.sid # x.q.hbStream
         \/ stream /\ i = 0
         \/ stream /\ i # 0 /\ (\/ x.q.streams[i].st = "CLOSED"
                                \/ f.t = "DATA" /\ ~x.q.streams[i].head)
      THEN Rc(y, "protocol") ELSE y

(* scan_trace and take_trace_line, for one unit of stream i.                   *)
ScanTrace(x, i, u) ==
  LET s == x.q.streams[i]
  IN  IF u.is = "nl"
      THEN [x EXCEPT !.q.streams[i] = [s EXCEPT !.line = <<>>, !.over = FALSE],
                     !.ev[i].facts = IF s.line = << "colo" >> /\ ~s.over THEN @ \cup {"colo"} ELSE @]
      ELSE [x EXCEPT !.q.streams[i] = IF Len(s.line) < LineCap
                                      THEN [s EXCEPT !.line = Append(@, u.is)]
                                      ELSE [s EXCEPT !.over = TRUE]]

(* Only the bytes of the body are counted, not the padding.                    *)
CreditBody(x, i, inside) ==
  IF inside THEN [x EXCEPT !.q.conn = @ + 1, !.q.streams[i].consumed = @ + 1] ELSE x

(* Every byte of a DATA frame is credit to give back, its padding included.    *)
Credit(x, i, inside) == [x EXCEPT !.q.conn = @ + 1, !.q.streams[i].consumed = @ + 1]

(* check_setting, on the last part of a setting                                *)
CheckSetting(x, u) ==
  [x EXCEPT !.q.setN = (@ + 1) % 2,
            !.rc = IF x.q.setN = 1 /\ u.is = "bad" THEN "protocol" ELSE @]

(* consume_payload, for one unit                                              *)
ConsumePayload(x, u) ==
  LET q == x.q
      f == q.f[1]
      i == Index(q, f.sid)
      pads == q.dstart > 0 /\ "PADDED" \in f.flags /\ q.got = 0
      dend == IF pads THEN Len(f.pay) - u.n ELSE q.dend
      inside == q.got >= q.dstart /\ q.got < dend
      y == [x EXCEPT !.q.dend = dend, !.q.got = @ + 1]
  IN  CASE pads /\ u.n > Len(f.pay) - q.dstart -> Rc(x, "protocol")
        [] f.t = "DATA" ->
             LET c == Credit(y, i, inside)
             IN  IF inside THEN ScanTrace([Fact(c, i, {"body"}) EXCEPT !.ev[i].bytes = @ + 1], i, u)
                 ELSE c
        [] f.t \in {"HEADERS", "CONTINUATION"} ->
             IF ~inside THEN y
             ELSE IF Len(q.block) >= BlockCap THEN Rc(x, "space")
             ELSE [y EXCEPT !.q.block = Append(@, u.is)]
        [] f.t = "SETTINGS" -> CheckSetting(y, u)
        [] OTHER -> [y EXCEPT !.q.scratch = Append(@, u.is)]

(* parse_hpack: z has whether the block is acceptable so far, its status count *)
(* and status, and whether a regular field or any field was seen.              *)
StatusOf(field) == CASE field = "s200" -> 200 [] field = "s404" -> 404
                     [] field = "s103" -> 103 [] field = "s101" -> 101 [] OTHER -> 0
Field(z, field) ==
  CASE field = "update" -> [z EXCEPT !.ok = @ /\ ~z.regular /\ z.count = 0 /\ z.updates < 2,
                                     !.updates = @ + 1]
    [] StatusOf(field) # 0 -> [z EXCEPT !.ok = @ /\ ~z.trailers /\ ~z.regular /\ z.count = 0,
                                        !.count = @ + 1, !.status = StatusOf(field)]
    [] field = "reg" -> [z EXCEPT !.regular = TRUE]
    [] OTHER -> [z EXCEPT !.ok = FALSE]
ParseHpack(block, trailers) ==
  FoldLeft(Field, [ok |-> TRUE, trailers |-> trailers, regular |-> FALSE, count |-> 0,
                   updates |-> 0, status |-> 0], block)

(* complete_hblock                                                            *)
CompleteBlock(x) ==
  LET i == Index(x.q, x.q.f[1].sid)
      trailers == x.q.streams[i].head
      z == ParseHpack(x.q.block, trailers)
      y == [x EXCEPT !.q.block = <<>>, !.ev[i] = [@ EXCEPT !.index = i,
                     !.status = IF z.count > 0 THEN z.status ELSE @]]
      end == x.q.hbEnd
      f == Fact([y EXCEPT !.q.streams[i] = [@ EXCEPT !.head = TRUE,
                            !.st = IF end THEN "CLOSED" ELSE IF trailers THEN @ ELSE "HEADERS"],
                          !.q.hbEnd = FALSE], i,
                {IF trailers THEN "trailers" ELSE "headers"} \cup (IF end THEN {"done"} ELSE {}))
  IN  CASE ~z.ok \/ (~trailers /\ z.count # 1) -> Rc(x, "protocol")
        [] ~trailers /\ z.status < 200 ->
             IF z.status = 101 \/ end THEN Rc(x, "protocol") ELSE Fact(y, i, {"info"})
        [] OTHER -> f

(* emit_ack: a PING answer takes two units of control output.                  *)
Size(ctl) == Len(ctl) + Len(SelectSeq(ctl, LAMBDA c : c.t = "PING"))
Ack(x, t, pay) ==
  LET c == Append(x.ctl, [t |-> t, pay |-> pay, sid |-> 0])
  IN  IF Size(c) > ControlCap THEN Rc(x, "space") ELSE [x EXCEPT !.ctl = c]

(* finish_frame                                                               *)
FinishFrame(x) ==
  LET q == x.q
      f == q.f[1]
      i == Index(q, f.sid)
      ack == "ACK" \in f.flags
      len == Len(f.pay)
      headers == [x EXCEPT !.q = [@ EXCEPT !.hbOpen = "END_HEADERS" \notin f.flags,
                                           !.hbStream = f.sid, !.hbEnd = "END_STREAM" \in f.flags]]
  IN  CASE f.t = "DATA" ->
             IF "END_STREAM" \in f.flags
             THEN Fact([x EXCEPT !.q.streams[i].st = "CLOSED"], i, {"done"}) ELSE x
        [] f.t = "HEADERS" ->
             IF f.sid = 0 THEN Rc(x, "protocol")
             ELSE IF headers.q.hbOpen THEN headers ELSE CompleteBlock(headers)
        [] f.t = "CONTINUATION" ->
             IF "END_HEADERS" \in f.flags THEN CompleteBlock([x EXCEPT !.q.hbOpen = FALSE]) ELSE x
        [] f.t = "SETTINGS" ->
             IF f.sid # 0 \/ (ack /\ len # 0) \/ (~ack /\ len % 2 # 0) THEN Rc(x, "protocol")
             ELSE IF ack THEN x ELSE Ack(x, "SETTINGS", <<>>)
        [] f.t = "PING" ->
             IF f.sid # 0 \/ len # 2 THEN Rc(x, "protocol")
             ELSE IF ack THEN x ELSE Ack(x, "PING", q.scratch)
        [] f.t = "RST" ->
             IF f.sid = 0 \/ len # 1 THEN Rc(x, "protocol")
             ELSE Fact([x EXCEPT !.q.streams[i].st = "CLOSED"], i, {"reset"})
        [] f.t = "GOAWAY" ->
             IF f.sid # 0 \/ len < 2 THEN Rc(x, "protocol") ELSE [x EXCEPT !.goaway = TRUE]
        [] f.t = "WINDOW_UPDATE" ->
             IF len # 1 \/ q.scratch = << "zero" >> THEN Rc(x, "protocol") ELSE x
        [] f.t = "PUSH" -> Rc(x, "protocol")
        [] OTHER -> x

(* One unit of qn_h2_feed: a frame is finished with its last unit.             *)
Finished(y) ==
  IF y.rc = "ok" /\ y.q.got = Len(y.q.f[1].pay)
  THEN [FinishFrame(y) EXCEPT !.q.hdr = FALSE, !.q.f = << >>]
  ELSE y
Unit(x, u) ==
  CASE x.rc # "ok" -> x
    [] x.q.f = << >> /\ ~x.q.hdr -> [x EXCEPT !.q.hdr = TRUE]
    [] x.q.f = << >> /\ x.q.hdr /\ u.is # "start" -> Rc(x, "protocol")
    [] OTHER -> Finished(IF x.q.f = << >> THEN BeginFrame(x, u.frame[1]) ELSE ConsumePayload(x, u))

(* credit_worth_publishing and replenish_windows: all the credit or none.      *)
Replenish(x, force) ==
  LET withheld == {i \in DOMAIN x.q.streams : x.q.streams[i].consumed > 0}
      worth == \/ force /\ (x.q.conn > 0 \/ withheld # {})
               \/ x.q.conn >= Step
               \/ \E i \in withheld : x.q.streams[i].consumed >= Step
      streams == [j \in 1..Cardinality(withheld) |->
                    LET i == SetToSortSeq(withheld, <)[j]
                    IN  [t |-> "CREDIT", pay |-> x.q.streams[i].consumed, sid |-> x.q.streams[i].id]]
      all == (IF x.q.conn > 0 THEN << [t |-> "CREDIT", pay |-> x.q.conn, sid |-> 0] >> ELSE <<>>)
             \o streams
  IN  CASE ~worth -> x
        [] Size(x.ctl \o all) > ControlCap -> Rc(x, "space")
        [] OTHER -> [x EXCEPT !.ctl = @ \o all,
                       !.q = [@ EXCEPT !.conn = 0,
                                !.streams = [i \in DOMAIN @ |-> [@[i] EXCEPT !.consumed = 0]]]]

(* qn_h2_feed                                                                 *)
Drain(x) == x.goaway \/ \E i \in 1..2 : x.ev[i].facts \cap {"done", "reset"} # {}
Fed(x) == IF x.rc = "ok" THEN Replenish(x, Drain(x)) ELSE x
Feed(q, units) ==
  Fed(FoldLeft(Unit, [q |-> q, ev |-> << NoEvent, NoEvent >>, ctl |-> <<>>, goaway |-> FALSE,
                      rc |-> "ok"], units))

(***************************************************************************)
(* verify.c: what a connection makes of the parser's events.               *)
(***************************************************************************)
\* Without a transfer the second stream is never opened, and its answer is no matter.
Init ==
  \E want \in Wants, a \in Answers : \E b \in IF want = 0 THEN {a} ELSE Answers :
    h2 = [k |-> NewConn(want), q |-> OpenStream(NewParser, 1), wire |-> <<>>,
          answers |-> << a, b >>, pos |-> << 0, 0 >>, ctls |-> 0, asked |-> <<>>, acked |-> <<>>,
          bad |-> FALSE, reset |-> FALSE, win |-> << Window, Window, Window >>, open |-> TRUE]

(* One turn of the loop of absorb_h2, for the event of stream index i.         *)
Event(s, e) ==
  LET k == [s.k EXCEPT !.ob = ApplyHttp(@, e),
                       !.traceBytes = IF e.index = 1 THEN @ + e.bytes ELSE @,
                       !.flowBytes = IF e.index = 2 THEN @ + e.bytes ELSE @]
      end == IF "reset" \in e.facts THEN Fail(k, "reset", "h2-reset")
             ELSE IF "done" \in e.facts THEN Ended(k, e.index) ELSE k
  IN  IF Failed(s.k) \/ e.facts = {} THEN s
      ELSE [s EXCEPT !.k = end,
                     !.q = IF end.flowSent /\ ~k.flowSent THEN OpenStream(@, 3) ELSE @]

(* absorb_h2; what it queues for the server leaves in order.                   *)
CreditFor(x, sid) ==
  FoldLeft(LAMBDA n, c : IF c.t = "CREDIT" /\ c.sid = sid THEN n + c.pay ELSE n, 0, x.ctl)
GoAway(k) ==
  IF ~Failed(k) /\ k.st # "idle"
  THEN Fail(Note(k, "h2-goaway"), "peer-rejected", "h2-goaway") ELSE Note(k, "h2-goaway")
Opened(s) == [s EXCEPT !.open = ~Failed(s.k)]
Absorbed(s, x) ==
  CASE x.rc = "space" -> [s EXCEPT !.open = FALSE, !.k = Fail(@, "unsupported", "h2-space")]
    [] x.rc = "protocol" ->
         [s EXCEPT !.open = FALSE, !.k = Fail(@, "protocol-invalid", "h2-protocol")]
    [] OTHER ->
         Opened([FoldLeft(Event,
                   [s EXCEPT !.q = x.q,
                      !.acked = @ \o SelectSeq(x.ctl, LAMBDA c : c.t # "CREDIT"),
                      !.win = << @[1] + CreditFor(x, 0), @[2] + CreditFor(x, 1),
                                 @[3] + CreditFor(x, 3) >>], x.ev)
                 EXCEPT !.k = IF x.goaway THEN GoAway(@) ELSE @])
AbsorbH2(s, units) == Absorbed(s, Feed(s.q, units))

AbsorbApp(s, units) ==
  CASE units = <<>> -> s
    [] ~s.k.gate.flushed ->
         IF Len(s.k.early) + Len(units) > EarlyCap
         THEN [s EXCEPT !.k = Fail(@, "unsupported", "early-app-space"), !.open = FALSE]
         ELSE [s EXCEPT !.k.early = @ \o units]
    [] OTHER -> AbsorbH2(s, units)

FlushCommit ==
  /\ h2.open /\ ~h2.k.gate.flushed
  /\ h2' = AbsorbApp([h2 EXCEPT !.k = MarkFlushed(@)], h2.k.early)

Read ==
  /\ h2.open
  /\ \E n \in 1..Len(h2.wire) :
       h2' = AbsorbApp([h2 EXCEPT !.wire = SubSeq(@, n + 1, Len(@))], SubSeq(h2.wire, 1, n))

(***************************************************************************)
(* The server's steps                                                      *)
(***************************************************************************)
StreamId(i) == 2 * i - 1
Frames(i) == FramesOf(StreamId(i), h2.answers[i])
SentOf(i) == SubSeq(Frames(i), 1, h2.pos[i])
InBlock == \E i \in 1..2 : h2.pos[i] > 0 /\ "END_HEADERS" \notin Frames(i)[h2.pos[i]].flags
                           /\ Frames(i)[h2.pos[i]].t = "HEADERS"
MaySend == h2.open /\ ~h2.bad /\ ~h2.reset /\ Len(h2.wire) <= Unread

Answer(i) ==
  /\ MaySend /\ h2.pos[i] < Len(Frames(i))
  /\ i = 2 => h2.k.flowSent
  /\ LET f == Frames(i)[h2.pos[i] + 1]
         n == IF f.t = "DATA" THEN Len(f.pay) ELSE 0
     IN  /\ n <= h2.win[1] /\ n <= h2.win[i + 1]
         /\ h2' = [h2 EXCEPT !.wire = @ \o Units(f), !.pos[i] = @ + 1,
                             !.win = [@ EXCEPT ![1] = @ - n, ![i + 1] = @ - n]]

Control(f) ==
  /\ MaySend /\ ~InBlock /\ h2.ctls < MaxControls
  /\ h2' = [h2 EXCEPT !.wire = @ \o Units(f), !.ctls = @ + 1,
                      !.asked = IF f.t \in {"SETTINGS", "PING"} /\ "ACK" \notin f.flags
                                THEN Append(@, [t |-> f.t, sid |-> 0,
                                                pay |-> IF f.t = "PING" THEN f.pay ELSE <<>>])
                                ELSE @]

Misbehave(f) ==
  /\ MaySend
  /\ h2' = [h2 EXCEPT !.wire = @ \o Units(f), !.bad = TRUE]

Reset(i) ==
  /\ MaySend /\ ~InBlock /\ h2.pos[i] < Len(Frames(i))
  /\ i = 2 => h2.k.flowSent
  /\ h2' = [h2 EXCEPT !.wire = @ \o Units(Fr("RST", {}, StreamId(i), << "code" >>)), !.reset = TRUE]

(* got = 0: the server closes.                                                *)
Eof ==
  /\ h2.open /\ h2.wire = <<>>
  /\ h2' = [h2 EXCEPT !.open = FALSE,
                      !.k = IF h2.k.st = "idle" THEN Note(@, "peer-closed")
                            ELSE Fail(@, "peer-rejected", "peer-closed")]

Done == ~h2.open /\ UNCHANGED h2

Next == \/ FlushCommit \/ Read \/ Eof \/ Done
        \/ \E i \in 1..2 : Answer(i) \/ Reset(i)
        \/ \E f \in Controls : Control(f)
        \/ \E f \in Illegal : Misbehave(f)

(***************************************************************************)
(* Properties                                                              *)
(***************************************************************************)
TypeOK ==
  /\ Len(h2.q.streams) \in 1..2 /\ Len(h2.q.block) <= BlockCap
  /\ \A i \in DOMAIN h2.q.streams : Len(h2.q.streams[i].line) <= LineCap
  /\ Len(h2.k.early) <= EarlyCap

BodySent(i) ==
  LET a == h2.answers[i]
      n == Len(SelectSeq(SentOf(i), LAMBDA f : f.t = "DATA"))
  IN  FlattenSeq(SubSeq(a.parts, 1, n))
HeadSent(i) ==
  \E j \in DOMAIN SentOf(i) :
    /\ SentOf(i)[j].t \in {"HEADERS", "CONTINUATION"} /\ "END_HEADERS" \in SentOf(i)[j].flags
    /\ ~(h2.answers[i].info /\ j = 1)
ColoLine(body) ==
  \E i \in 1..(Len(body) - 1) :
    body[i] = "colo" /\ body[i + 1] = "nl" /\ (i = 1 \/ body[i - 1] = "nl")
IsOk(i) == "s200" \in ToSet(h2.answers[i].block)
Parsed == h2.wire = <<>> /\ h2.k.early = <<>> /\ ~h2.bad
          /\ h2.k.reason \notin {"h2-space", "early-app-space"}

(* Flow control.  What replenish_windows gives back and what it still holds is  *)
(* exactly what DATA frames, padding included, have used of each window, and    *)
(* once a read is handled less than a step is held back: a server that has      *)
(* data to send is never left with a used-up window.                            *)
CreditReturned ==
  h2.open /\ h2.wire = <<>> /\ h2.k.early = <<>> =>
    /\ h2.win[1] = Window - h2.q.conn /\ h2.q.conn < Step
    /\ \A i \in DOMAIN h2.q.streams :
         /\ h2.win[i + 1] = Window - h2.q.streams[i].consumed
         /\ h2.q.streams[i].consumed < Step

(* However the server's frames are cut into reads, absorb_h2 concludes what     *)
(* they say.  A marker needs a 200 head and a complete colo line in the body of *)
(* stream 1, a transfer the bytes of stream 3.  When everything sent has been   *)
(* parsed, status, body, marker and ends are exactly those sent, every SETTINGS *)
(* and PING has been answered in order with its own payload, and legal frames   *)
(* have not been refused; an illegal one always has.  And credit is returned.   *)
H2Inv ==
  /\ TypeOK
  /\ Rung(h2.k) \in {"EDGE", "FLOWING"} => HeadSent(1) /\ IsOk(1) /\ ColoLine(BodySent(1))
  /\ Rung(h2.k) = "FLOWING" => Len(BodySent(2)) >= h2.k.want
  /\ Parsed =>
       LET o == h2.k.ob
       IN  /\ h2.k.reason # "h2-protocol"
           /\ o.final = HeadSent(1) /\ (o.final => (o.status = 200) = IsOk(1))
           /\ o.body = Len(BodySent(1)) /\ h2.k.traceBytes = o.body
           /\ o.colo = ColoLine(BodySent(1)) /\ o.complete = (h2.pos[1] = Len(Frames(1)))
           /\ h2.k.flowBytes = Len(BodySent(2))
           /\ h2.k.flowDone = (h2.pos[2] = Len(Frames(2)))
           /\ h2.acked = h2.asked
  /\ h2.bad /\ h2.wire = <<>> /\ h2.k.early = <<>> => Failed(h2.k)
  /\ CreditReturned
=============================================================================
