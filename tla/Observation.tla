---------------------------- MODULE Observation ----------------------------
(***************************************************************************)
(* What verification concludes from the HTTP events of a connection:       *)
(* src/net/observation.c, the request gate (src/net/request_gate.c), the   *)
(* flow report (src/net/flowmeter.h) and the parts of src/net/verify.c     *)
(* that HTTP/1 and HTTP/2 share.  A connection is one record k; an event   *)
(* is a set of facts about the response with an index (1 trace, 2 flow).   *)
(***************************************************************************)
EXTENDS Naturals, Sequences

NoEvent == [facts |-> {}, index |-> 0, bytes |-> 0, status |-> 0]

(* A marker needs a flushed request, a final 200 and a complete colo line.     *)
EdgePolicy(o) ==
  [o EXCEPT !.verified = o.flushed /\ o.final /\ o.status = 200 /\ o.colo]

(* qn_observation_apply_http: only the trace response is evidence, and its     *)
(* first final head is its status.                                            *)
ApplyHttp(o, e) ==
  IF e.index # 1 THEN o
  ELSE EdgePolicy([o EXCEPT
         !.trailers = @ \/ "trailers" \in e.facts,
         !.final = @ \/ "headers" \in e.facts,
         !.status = IF "headers" \in e.facts /\ ~o.final THEN e.status ELSE @,
         !.body = @ + e.bytes,
         !.complete = @ \/ "done" \in e.facts,
         !.colo = @ \/ "colo" \in e.facts])

(* qn_observation_fail: the last outcome stands, with the first reason.        *)
Fail(k, outcome, why) ==
  [k EXCEPT !.term = outcome, !.reason = IF @ = "" THEN why ELSE @]
Note(k, why) == [k EXCEPT !.reason = IF @ = "" THEN why ELSE @]
Failed(k) == k.term # "none"

(* qn_request_gate_begin, mark_flushed and request_begin                       *)
Begin(k, index) ==
  LET g == [k EXCEPT !.gate = [queued |-> TRUE, flushed |-> FALSE, index |-> index],
                     !.early = <<>>]
  IN  IF index = 1 THEN [g EXCEPT !.ob.flushed = FALSE] ELSE g
MarkFlushed(k) ==
  LET g == [k EXCEPT !.gate.flushed = TRUE, !.early = <<>>]
  IN  IF k.gate.index = 1 THEN [g EXCEPT !.ob = EdgePolicy([@ EXCEPT !.flushed = TRUE])]
      ELSE g

(* send_trace as far as HTTP goes: the first request is queued.                *)
NewConn(want) ==
  Begin([want |-> want, st |-> "body", traceDone |-> FALSE, flowSent |-> FALSE,
         flowDone |-> FALSE, traceBytes |-> 0, flowBytes |-> 0, requested |-> 0,
         term |-> "none", reason |-> "", early |-> <<>>,
         gate |-> [queued |-> FALSE, flushed |-> FALSE, index |-> 0],
         ob |-> [flushed |-> FALSE, final |-> FALSE, status |-> 0, trailers |-> FALSE,
                 body |-> 0, complete |-> FALSE, colo |-> FALSE, verified |-> FALSE]], 1)

StartIdle(k) == [k EXCEPT !.st = "idle"]
SendFlow(k) ==
  [Begin(k, 2) EXCEPT !.flowSent = TRUE, !.requested = k.want]

(* The end of a response, where absorb_h1 and absorb_h2 agree.                 *)
Ended(k, index) ==
  CASE index = 1 /\ ~k.traceDone ->
         LET t == [k EXCEPT !.traceDone = TRUE]
         IN  IF k.want = 0 THEN StartIdle(t) ELSE SendFlow(t)
    [] index = 2 ->
         LET f == [k EXCEPT !.flowDone = TRUE]
         IN  IF k.flowBytes < k.want THEN Fail(f, "inconclusive", "short-flow")
             ELSE StartIdle(f)
    [] OTHER -> k

(* qn_flow_report_of through flow_finalize: completed needs a request.         *)
FlowCompleted(k) == k.requested # 0 /\ k.flowBytes >= k.requested

(* qn_observation_classify on a connection whose handshake is complete.        *)
Rung(k) ==
  CASE ~k.ob.final -> "TLS"
    [] k.ob.final /\ ~k.ob.verified -> "HTTP"
    [] k.ob.verified /\ ~FlowCompleted(k) -> "EDGE"
    [] OTHER -> "FLOWING"
=============================================================================
