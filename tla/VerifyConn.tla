---------------------------- MODULE VerifyConn ----------------------------
(***************************************************************************)
(* One connection of the verification pass (src/net/verify.c): connect,    *)
(* optional SOCKS5 exchange, TLS handshake, trace request, optional bulk   *)
(* transfer, idle hold.  The state of the connection is one record; each   *)
(* helper of verify.c is an operator from a record to a record, and the    *)
(* branches of the event loop are the actions.  Messages are counted in    *)
(* units; what a read delivers after decryption is a batch of HTTP facts.  *)
(* The clock is read by every handler and may advance before each sweep,   *)
(* since a turn of the loop takes at most 100 ms.                          *)
(***************************************************************************)
EXTENDS Naturals

CONSTANTS Timeout,      \* cfg.timeout_ms
          TraceBudget,  \* trace_budget_ms
          FlowBudget,   \* flow_budget_ms
          Idles,        \* values of cfg.idle_ms
          Grace,        \* what start_idle adds to the deadline of a hold
          OutCap,       \* units the output buffer holds
          EarlyCap,     \* reads the early-data buffer holds
          MaxNow        \* bound on the clock

ConnParameters ==
    /\ {Timeout, TraceBudget, FlowBudget, OutCap, EarlyCap} \subseteq Nat \ {0}
    /\ Idles \cup {Grace, MaxNow} \subseteq Nat

VARIABLES c,      \* the connection
          armOut, \* EPOLLOUT is in the interest set (EPOLLIN always is after connect)
          now,    \* qn_now_ms
          pc,     \* "wait", "in" (the rest of the event after EPOLLOUT), "sweep", "end"
          cfg     \* what this connection is for: see the next four definitions

vars == <<c, armOut, now, pc, cfg>>

WithSocks == cfg.socks      \* cfg.socks_enabled
WantFlow == cfg.flow        \* cfg.want_bytes # 0
Idle == cfg.idle            \* cfg.idle_ms
Http1 == cfg.http1          \* the peer negotiates HTTP/1.1 (HTTP/2 otherwise)

Open == c.st \notin {"done", "stopped"}

(* What the HTTP layer reads out of one TLS read: frames that ask for a reply,  *)
(* the end of the response being read (with all or part of the bytes asked      *)
(* for), a GOAWAY, or bytes the parser or the peer turns into a failure.        *)
NoFacts == [ctl |-> FALSE, end |-> "no", goaway |-> FALSE, bad |-> FALSE]
Batches ==
    [ctl : IF Http1 THEN {FALSE} ELSE BOOLEAN,
     end : IF c.st = "idle" THEN {"no"} ELSE {"no", "full", "short"},
     goaway : IF Http1 THEN {FALSE} ELSE BOOLEAN,
     bad : {FALSE}]
    \cup {[NoFacts EXCEPT !.bad = TRUE]}

Both(a, b) ==
    [ctl    |-> a.ctl \/ b.ctl,
     end    |-> IF a.end # "no" THEN a.end ELSE b.end,
     goaway |-> a.goaway \/ b.goaway,
     bad    |-> a.bad \/ b.bad]

(* Reads set aside until the request has left; they are then parsed as one.     *)
NoEarly == [n |-> 0, facts |-> NoFacts]
NoRequest == [queued |-> FALSE, flushed |-> FALSE, index |-> 0]

Init ==
    /\ c = [st |-> "connect", out |-> 0, gate |-> NoRequest, early |-> NoEarly,
            connected |-> FALSE, hs |-> FALSE, traceDone |-> FALSE,
            flowSent |-> FALSE, flowDone |-> FALSE, admitted |-> FALSE,
            deadline |-> Timeout, overall |-> 0, until |-> 0,
            eof |-> FALSE, term |-> "none"]
    /\ armOut = TRUE /\ now = 0 /\ pc = "wait"
    /\ cfg \in [socks : BOOLEAN, flow : BOOLEAN, http1 : BOOLEAN, idle : Idles]

(***************************************************************************)
(* Helpers.  A failure of local origin is "local" (a system call) or       *)
(* "no-room" (the output buffer is full); any other is the peer's or the   *)
(* path's.                                                                 *)
(***************************************************************************)
Fail(k, why) == [k EXCEPT !.term = why]
Failed(k) == k.term # "none"
Local == {"local", "no-room"}

(* queue / tls_payload: one unit, if the buffer has room.                      *)
HasRoom(k, n) == k.out + n <= OutCap
Queued(k, n) == [k EXCEPT !.out = @ + n]

(* request_begin                                                             *)
RequestBegin(k, index) ==
    [k EXCEPT !.gate = [queued |-> TRUE, flushed |-> FALSE, index |-> index],
              !.early = NoEarly]

StartTls(k) ==
    [k EXCEPT !.connected = TRUE, !.deadline = now + Timeout,
              !.out = IF @ < OutCap THEN @ + 1 ELSE @, !.st = "handshake"]

SendTrace(k) ==
    IF ~HasRoom(k, 1) THEN Fail(k, "no-room")
    ELSE [RequestBegin(Queued(k, 1), 1) EXCEPT
              !.deadline = now + Timeout, !.overall = now + TraceBudget, !.st = "body"]

SendFlow(k) ==
    IF ~HasRoom(k, 1) THEN Fail(k, "no-room")
    ELSE [RequestBegin(Queued(k, 1), 2) EXCEPT
              !.flowSent = TRUE,
              !.deadline = now + Timeout, !.overall = now + FlowBudget]

(* start_idle; room is whether the stability pool admits the hold, if there is  *)
(* to be one.                                                                  *)
Rooms == IF Idle = 0 THEN {FALSE} ELSE BOOLEAN

StartIdle(k, room) ==
    LET until == IF room THEN now + Idle ELSE now
    IN  [k EXCEPT !.st = "idle", !.admitted = room, !.until = until,
                  !.deadline = until + Grace, !.overall = 0]

(* The DONE fact of a response, of whichever request is being answered.         *)
ResponseEnds(k, b, room) ==
    IF b.end = "no" \/ k.st = "idle" THEN k
    ELSE IF ~k.traceDone
    THEN LET t == [k EXCEPT !.traceDone = TRUE]
         IN  IF WantFlow THEN SendFlow(t) ELSE StartIdle(t, room)
    ELSE LET f == [k EXCEPT !.flowDone = TRUE]
         IN  IF b.end = "short" THEN Fail(f, "short-flow") ELSE StartIdle(f, room)

(* absorb_h2 and absorb_h1                                                    *)
Absorb(k, b, room) ==
    IF b.bad THEN Fail(k, "protocol")
    ELSE IF b.ctl /\ ~HasRoom(k, 1) THEN Fail(k, "no-room")
    ELSE LET r == ResponseEnds(IF b.ctl THEN Queued(k, 1) ELSE k, b, room)
         IN  IF ~Failed(r) /\ b.goaway /\ r.st # "idle" THEN Fail(r, "goaway") ELSE r

(* absorb_app with qn_request_gate_app: data is parsed only once the request    *)
(* that asks for it has left; before that it is set aside.                      *)
AbsorbApp(k, b, room) ==
    IF ~k.gate.queued THEN Fail(k, "protocol")
    ELSE IF ~k.gate.flushed
    THEN IF k.early.n < EarlyCap
         THEN [k EXCEPT !.early = [n |-> @.n + 1, facts |-> Both(@.facts, b)]] ELSE Fail(k, "early-app-space")
    ELSE Absorb([k EXCEPT !.deadline = now + Timeout], b, room)

(* The early data is dropped when its request has left.                        *)
FlushCommitDrops(k, room) ==
    IF ~k.gate.queued \/ k.gate.flushed \/ k.out # 0 THEN k
    ELSE [k EXCEPT !.gate.flushed = TRUE]

(* request_flush_commit: with nothing pending the request has left; the data    *)
(* set aside for it is absorbed now, which may queue the next request.          *)
FlushCommit(k, room) ==
    IF ~k.gate.queued \/ k.gate.flushed \/ k.out # 0 THEN k
    ELSE LET g == [k EXCEPT !.gate.flushed = TRUE, !.early = NoEarly]
         IN  IF k.early.n = 0 THEN g ELSE AbsorbApp(g, k.early.facts, room)

(* flush_out: any part of what is pending, or an error of send(2).              *)
Flush(k) == {[k EXCEPT !.out = n] : n \in 0..k.out}
            \cup {Fail(k, why) : why \in {"network", "local"}}

(***************************************************************************)
(* What a handler ends with: a local failure stops the whole run, another  *)
(* failure retires the connection (finish types it), else it is re-armed.  *)
(***************************************************************************)
Finish(k) ==
    [k EXCEPT !.st = "done",
              !.term = IF @ # "none" THEN @
                       ELSE IF k.connected THEN "success" ELSE "dead"]

Settle(k, arm, then) ==
    IF Failed(k)
    THEN /\ c' = IF k.term \in Local THEN [k EXCEPT !.st = "stopped"] ELSE Finish(k)
         /\ armOut' = FALSE /\ pc' = "end"
    ELSE c' = k /\ armOut' = arm /\ pc' = then

(* EPOLLOUT, EPOLLERR or EPOLLHUP while connecting.                            *)
EvConnect ==
    /\ pc = "wait" /\ c.st = "connect"
    /\ \/ \E why \in {"network", "local"} : Settle(Fail(c, why), FALSE, "sweep")
       \/ LET d == [c EXCEPT !.deadline = now + Timeout]
              k == IF WithSocks THEN [d EXCEPT !.out = 1, !.st = "socks_method"]
                                ELSE StartTls(d)
          IN  \E f \in Flush(k) : Settle(f, f.out > 0, "sweep")
    /\ UNCHANGED now

(* EPOLLOUT with output pending.  EPOLLIN of the same event comes after it, or  *)
(* EPOLLERR and EPOLLHUP without EPOLLIN.                                       *)
EvOut ==
    /\ pc = "wait" /\ Open /\ c.st # "connect" /\ armOut /\ c.out > 0
    /\ \E f \in Flush(c), room \in Rooms :
          LET k == IF Failed(f) THEN f ELSE FlushCommit(f, room)
          IN  Settle(k, IF k.out = 0 THEN FALSE ELSE armOut, "in")
    /\ UNCHANGED now

Reading == pc \in {"wait", "in"} /\ Open /\ c.st # "connect"

(* EPOLLIN during the SOCKS5 exchange: refused, more to come, or the next       *)
(* message; a failed write retires the connection whatever its origin.          *)
SocksNext ==
    IF c.st = "socks_connect" THEN StartTls(c)
    ELSE IF HasRoom(c, 1) THEN [Queued(c, 1) EXCEPT !.st = "socks_connect"]
    ELSE Fail(c, "no-room")

EvSocks ==
    /\ Reading /\ c.st \in {"socks_method", "socks_connect"}
    /\ \/ Settle(Fail(c, "socks"), FALSE, "sweep")
       \/ \E k \in {c, SocksNext} :
             \/ \E n \in 0..k.out : Settle([k EXCEPT !.out = n], n > 0, "sweep")
             \/ k.out > 0 /\ Settle(Fail(k, "network"), FALSE, "sweep")
    /\ UNCHANGED now

(* The tail of every EPOLLIN handler past the handshake: what application data  *)
(* the read brought, if any, is absorbed; then flush what the read queued,      *)
(* commit the request, re-arm.                                                 *)
AfterRead(k, room) ==
    IF Failed(k) THEN Settle(k, FALSE, "sweep")
    ELSE \E f \in (IF k.out > 0 THEN Flush(k) ELSE {k}) :
            LET m == IF Failed(f) THEN f ELSE FlushCommit(f, room)
            IN  Settle(m, m.out > 0, "sweep")

Absorbed(k, room) == {k} \cup {AbsorbApp(k, b, room) : b \in IF Failed(k) THEN {} ELSE Batches}

(* qn_tls_recv may queue a record of its own (a second hello, a key update);    *)
(* without room for it the read fails as unsupported.                          *)
TlsOutput == {c} \cup {IF HasRoom(c, 1) THEN Queued(c, 1) ELSE Fail(c, "tls")}

(* EPOLLIN during the handshake: more to come, a failure, or completion, with   *)
(* application data of the same read behind it.  A peer can answer a hello with  *)
(* another, or complete the handshake, only when it has all of the hello.        *)
EvHandshake ==
    /\ Reading /\ c.st = "handshake"
    /\ \/ \E k \in (IF c.out = 0 THEN TlsOutput ELSE {c}) : AfterRead(k, FALSE)
       \/ Settle(Fail(c, "tls"), FALSE, "sweep")
       \/ /\ c.out = 0
          /\ LET t == IF HasRoom(c, 1) THEN SendTrace([Queued(c, 1) EXCEPT !.hs = TRUE])
                                       ELSE Fail(c, "tls")
             IN  \E room \in Rooms : \E k \in Absorbed(t, room) : AfterRead(k, room)
    /\ UNCHANGED now

(* EPOLLIN after the handshake: a TLS failure, or records with or without       *)
(* application data.                                                           *)
EvApp ==
    /\ Reading /\ c.st \in {"body", "idle"}
    /\ \/ Settle(Fail(c, "tls"), FALSE, "sweep")
       \/ \E t \in TlsOutput, room \in Rooms : \E k \in Absorbed(t, room) : AfterRead(k, room)
    /\ UNCHANGED now

(* An end of the stream is taken for the end of the response.                  *)
ClosedIsDone ==
    IF c.st \in {"body", "idle"} THEN {c} ELSE {Fail(c, "peer-closed")}

(* What the end of the stream means for HTTP/1.1: a body that runs to the end   *)
(* is complete, an end inside a response is an error, and an end before the     *)
(* first byte of a response is neither (qn_http1_eof, absorb_h1_eof).           *)
AbsorbH1Eof ==
    IF ~c.gate.flushed THEN {c}
    ELSE {c, Fail(c, "protocol")}
         \cup (IF ~c.traceDone
               THEN {LET t == [c EXCEPT !.traceDone = TRUE]
                     IN  IF WantFlow THEN Fail(t, "trace-only-closed") ELSE t}
               ELSE {[c EXCEPT !.flowDone = TRUE],
                     Fail([c EXCEPT !.flowDone = TRUE], "short-flow")})

(* read(2) returns 0, or fails, or only EPOLLERR/EPOLLHUP is reported.          *)
Closed ==
    IF c.hs /\ Http1 /\ c.st = "body" THEN AbsorbH1Eof
    ELSE IF c.st = "idle" THEN {c} ELSE {Fail(c, "peer-closed")}

EvEof ==
    /\ Reading
    /\ \E k \in Closed : c' = [Finish(k) EXCEPT !.eof = TRUE]
    /\ armOut' = FALSE /\ pc' = "end" /\ UNCHANGED now

EvError ==
    /\ Reading
    /\ \E why \in {"network", "local"} : Settle(Fail(c, why), FALSE, "sweep")
    /\ UNCHANGED now

(* EPOLLERR/EPOLLHUP alone with no pending socket error.                        *)
EvHangup ==
    /\ Reading
    /\ c' = Finish(IF c.st = "idle" THEN c ELSE Fail(c, "hangup"))
    /\ armOut' = FALSE /\ pc' = "end" /\ UNCHANGED now

(* Nothing (more) is reported for this connection in this turn.                 *)
Quiet ==
    /\ pc \in {"wait", "in"} /\ Open
    /\ pc' = "sweep" /\ UNCHANGED <<c, armOut, now>>

(***************************************************************************)
(* The sweep: end of the hold, then the budget of the stage, then its      *)
(* deadline.                                                               *)
(***************************************************************************)
Swept(t) ==
    IF c.st = "idle" /\ t >= c.until THEN Finish(c)
    ELSE IF c.overall # 0 /\ t >= c.overall THEN Finish(Fail(c, "timeout"))
    ELSE IF t >= c.deadline THEN Finish(Fail(c, "timeout"))
    ELSE c

Sweep ==
    /\ pc = "sweep"
    /\ \E t \in {now, now + 1} :
          /\ t <= MaxNow /\ now' = t
          /\ c' = Swept(t)
          /\ pc' = IF Swept(t).st = "done" THEN "end" ELSE "wait"
    /\ UNCHANGED armOut

Over == pc = "end" /\ UNCHANGED vars

Next == /\ EvConnect \/ EvOut \/ EvSocks \/ EvHandshake \/ EvApp \/ EvEof \/ EvError
           \/ EvHangup \/ Quiet \/ Sweep \/ Over
        /\ UNCHANGED cfg

Spec == Init /\ [][Next]_vars

-----------------------------------------------------------------------------
Horizon == MaxNow + Timeout + TraceBudget + FlowBudget + Idle + Grace

(* The shape of the connection.                                               *)
TypeOK ==
    /\ c.st \in {"connect", "socks_method", "socks_connect", "handshake", "body",
                 "idle", "done", "stopped"}
    /\ c.out \in 0..OutCap
    /\ c.gate \in [queued : BOOLEAN, flushed : BOOLEAN, index : 0..2]
    /\ c.early.n \in 0..EarlyCap
    /\ {c.connected, c.hs, c.traceDone, c.flowSent, c.flowDone, c.admitted, c.eof}
          \subseteq BOOLEAN
    /\ {c.deadline, c.overall, c.until} \subseteq 0..Horizon
    /\ armOut \in BOOLEAN /\ now \in 0..MaxNow
    /\ pc \in {"wait", "in", "sweep", "end"}

(* Output never gets stuck: whenever the loop waits with bytes pending, EPOLLOUT *)
(* is armed, on every path that may have queued them (hello, SOCKS request,      *)
(* Finished and trace, replies to frames, the flow request queued while early    *)
(* data was absorbed).                                                         *)
OutputIsArmed == pc = "wait" /\ Open /\ c.out > 0 => armOut

(* A request that is not marked flushed still has bytes on their way, so the     *)
(* commit is still to come; and data set aside is waiting for exactly that       *)
(* commit.  No early answer is forgotten.                                       *)
EarlyDataIsNotForgotten ==
    pc = "wait" /\ Open =>
        /\ c.gate.queued /\ ~c.gate.flushed => c.out > 0
        /\ c.early.n > 0 => c.gate.queued /\ ~c.gate.flushed

(* The stages keep their order whatever arrives when: the flow request goes out  *)
(* after the trace is complete, nothing completes before its own request left,   *)
(* and a hold starts only when everything asked for has been answered.           *)
StagesInOrder ==
    /\ c.flowSent => c.traceDone
    /\ c.traceDone => c.hs /\ (c.gate.flushed \/ c.gate.index = 2)
    /\ c.flowDone => c.flowSent /\ c.gate.flushed
    /\ c.st = "idle" => c.traceDone /\ (WantFlow => c.flowDone)

(* No conduct of the peer keeps a connection beyond the sum of the budgets of     *)
(* its stages, although every parsed read renews the deadline.                   *)
LifetimeBounded ==
    Open => now <= (IF WithSocks THEN 3 ELSE 2) * Timeout + TraceBudget
                   + (IF WantFlow THEN FlowBudget ELSE 0) + Idle + Grace

(* A connection admitted to the hold, and not failed by the peer or the path, is  *)
(* held to the end.  The sweep times it out only when a read parsed during the    *)
(* hold has moved the deadline to before that end, which takes a timeout_ms       *)
(* shorter than idle_ms; no budget of an earlier stage reaches into the hold.     *)
HoldIsNotTimedOut ==
    c.admitted /\ c.term = "timeout" => c.deadline < c.until /\ Timeout < Idle

(* A connection between two events of qn_verify_run: it is never stuck with       *)
(* something that only it could set in motion, its stages are in order, and it    *)
(* neither outlives its budgets nor is cut short by one that is over.             *)
ConnInv ==
    /\ TypeOK /\ OutputIsArmed /\ EarlyDataIsNotForgotten /\ StagesInOrder
    /\ LifetimeBounded /\ HoldIsNotTimedOut

(* A success means that the handshake is complete and every request of the pass  *)
(* was answered in full, however the connection ended.  The one exception is an  *)
(* HTTP/1.1 peer that closes before the first byte of an answer, which           *)
(* absorb_h1_eof does not call a failure.                                       *)
SuccessMeansAnswered ==
    c.term = "success" =>
        /\ c.hs
        /\ (c.traceDone /\ (WantFlow => c.flowDone)) \/ (Http1 /\ c.eof)
=============================================================================
