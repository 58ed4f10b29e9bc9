-------------------------------- MODULE Probe --------------------------------
(* One probe slot of a worker: probe_launch, dispatch_probe and on_timeout of   *)
(* src/net/engine.c, against the kernel's socket and a peer that connects,      *)
(* refuses, answers, closes or resets at any moment.                            *)
(*                                                                             *)
(* Every system call is a step, so the socket may change between any two of     *)
(* them; events are reported by an edge-triggered epoll or, on the fallback, by *)
(* a level-triggered select.  Lengths are counted in units.                     *)
EXTENDS Integers, FiniteSets

CONSTANTS Hello,      \* length of the TLS payload
          SndBuf,     \* room in the socket's send buffer
          Need,       \* length at which rx_complete holds
          RxBuf,      \* QN_PROBE_BUF
          PeerMax,    \* bound: units the peer sends
          MaxLaunch   \* bound: probes launched

ProbeParameters == /\ {Hello, SndBuf, Need, RxBuf} \subseteq Nat \ {0}
                   /\ PeerMax \in Nat /\ MaxLaunch \in Nat

Stages == {"tcp", "banner", "tls"}
Kinds == {"hello", "alert", "garbage", "oversize"}   \* what the peer's bytes turn out to be
Errnos == {"none", "refused", "reset", "pipe", "timedout", "unreach", "local"}
Flags == {"IN", "OUT", "ERR", "HUP"}

VARIABLES p,         \* the qn_probe: state, stage, bytes left to send, bytes read, armed, tls
          k,         \* the socket: state, SO_ERROR, free send room, unread bytes, FIN, sent by peer
          ready,     \* epoll holds an edge for the socket
          pc, fl,    \* the worker's place in its loop, the flags being dispatched
          ev,        \* the event of the last probe that ended
          tfo,       \* e->tfo
          launches,
          waiting,   \* history: an answer was unread when the worker last polled
          backend    \* "epoll", or "select" if epfd < 0; chosen when the engine starts

vars == <<p, k, ready, pc, fl, ev, tfo, launches, waiting>>

FreeProbe == [st |-> "free", stage |-> "tcp", left |-> 0, rx |-> 0, armed |-> FALSE, tls |-> "none"]
NoSocket == [tcp |-> "none", err |-> "none", room |-> 0, inq |-> 0, fin |-> FALSE,
             nospace |-> FALSE, spoke |-> 0, kind |-> "hello", up |-> FALSE]
NoEvent == [result |-> "none", tls |-> "none", origin |-> "none", rx |-> 0,
            up |-> FALSE, late |-> FALSE]

Init == /\ p = FreeProbe /\ k = NoSocket /\ ready = FALSE /\ pc = "fill" /\ fl = {}
        /\ ev = NoEvent /\ tfo = TRUE /\ launches = 0 /\ waiting = FALSE
        /\ backend \in {"epoll", "select"}

-----------------------------------------------------------------------------
(* Conversions *)

errno_to_result(e) ==
  CASE e = "none" -> "open" [] e = "refused" -> "refused" [] e = "timedout" -> "timeout"
    [] e \in {"reset", "pipe"} -> "reset" [] e = "unreach" -> "unreach" [] OTHER -> "error"

errno_origin(e) ==
  CASE e = "none" -> "none" [] e \in {"refused", "reset", "pipe"} -> "peer"
    [] e \in {"timedout", "unreach"} -> "path" [] OTHER -> "local"

result_origin(r) ==
  CASE r \in {"refused", "reset"} -> "peer" [] r \in {"timeout", "unreach"} -> "path"
    [] r = "error" -> "local" [] OTHER -> "none"

\* The verdict that an errno gives a TLS probe, or the one it already had.
TlsOf(e, resets) == IF p.stage # "tls" THEN p.tls
                    ELSE IF e \in resets THEN "reset"
                    ELSE IF e = "timedout" THEN "silence" ELSE p.tls

\* qn_tls_classify on the bytes read so far.
Classify(n) == IF n = 0 THEN "silence"
               ELSE IF n < Need \/ k.kind = "oversize" THEN "garbage" ELSE k.kind

rx_complete(n) == n >= Need \/ (p.stage = "tls" /\ k.kind = "oversize")

-----------------------------------------------------------------------------
(* The kernel's socket *)

\* What epoll would report of the socket now.
Mask == IF k.tcp \in {"none", "syn"} THEN {}
        ELSE {f \in Flags :
                \/ f = "IN" /\ (k.inq > 0 \/ k.fin \/ k.tcp = "dead")
                \/ f = "OUT" /\ (k.room > 0 \/ k.tcp = "dead")
                \/ f = "ERR" /\ k.err # "none"
                \/ f = "HUP" /\ k.tcp = "dead"}

\* worker_select watches a reading probe for input and any other for output.
SelectMask == Mask \cap (IF p.st = "recv" THEN {"IN"} ELSE {"OUT"})

Edge == ready' = (backend = "epoll")
Quiet == UNCHANGED <<p, pc, fl, ev, tfo, launches, waiting>>

SynAck == /\ k.tcp = "syn" /\ k' = [k EXCEPT !.tcp = "up", !.up = TRUE] /\ Edge /\ Quiet
ConnectFails == /\ k.tcp = "syn"
                /\ \E e \in {"refused", "unreach", "timedout"} :
                     k' = [k EXCEPT !.tcp = "dead", !.err = e]
                /\ Edge /\ Quiet
PeerSends == /\ k.tcp = "up" /\ ~k.fin /\ k.spoke < PeerMax
             /\ k' = [k EXCEPT !.inq = @ + 1, !.spoke = @ + 1] /\ Edge /\ Quiet
PeerCloses == /\ k.tcp = "up" /\ ~k.fin /\ k' = [k EXCEPT !.fin = TRUE] /\ Edge /\ Quiet
PeerResets == /\ k.tcp = "up"
              /\ \E e \in {"reset", "timedout"} : k' = [k EXCEPT !.tcp = "dead", !.err = e]
              /\ Edge /\ Quiet
\* Freed send room is an edge only for a sender that was refused room.
PeerAcks == /\ k.tcp = "up" /\ k.room < SndBuf
            /\ k' = [k EXCEPT !.room = @ + 1, !.nospace = FALSE]
            /\ ready' = (ready \/ (k.nospace /\ backend = "epoll")) /\ Quiet

Kernel == SynAck \/ ConnectFails \/ PeerSends \/ PeerCloses \/ PeerResets \/ PeerAcks

-----------------------------------------------------------------------------
(* Ending a probe *)

Ended(result, tls, origin, late) ==
  [result |-> result, tls |-> tls, origin |-> origin, rx |-> p.rx, up |-> k.up,
   late |-> late]

\* probe_release: the deadline is disarmed, the socket leaves epoll and is closed.
Release(next) ==
  /\ p' = FreeProbe /\ k' = NoSocket /\ ready' = FALSE /\ fl' = {} /\ pc' = next

\* probe_finish_obs within a dispatch.
FinishObs(result, tls, origin) ==
  /\ ev' = Ended(result, tls, origin, FALSE)
  /\ Release("expire") /\ UNCHANGED <<tfo, launches, waiting>>
Finish(result, tls) == FinishObs(result, tls, result_origin(result))

-----------------------------------------------------------------------------
(* probe_launch *)

MayLaunch == pc = "fill" /\ p.st = "free" /\ launches < MaxLaunch

\* Mutant: the deadline is left to the first event.
LaunchedUnarmed(stage, st, left, tcp) ==
  /\ p' = [FreeProbe EXCEPT !.st = st, !.stage = stage, !.left = left]
  /\ \E kind \in Kinds :
       k' = [NoSocket EXCEPT !.tcp = tcp, !.up = (tcp = "up"), !.kind = kind, !.room = SndBuf]
  /\ ready' = (backend = "epoll" /\ tcp = "up")
  /\ launches' = launches + 1 /\ pc' = "wait" /\ ev' = NoEvent /\ UNCHANGED <<fl, waiting>>
\* The socket is registered and the deadline armed.
Launched(stage, st, left, tcp) ==
  /\ p' = [FreeProbe EXCEPT !.st = st, !.stage = stage, !.left = left, !.armed = TRUE]
  /\ \E kind \in Kinds :
       k' = [NoSocket EXCEPT !.tcp = tcp, !.up = (tcp = "up"), !.kind = kind, !.room = SndBuf]
  /\ ready' = (backend = "epoll" /\ tcp = "up")
  /\ launches' = launches + 1 /\ pc' = "wait" /\ ev' = NoEvent /\ UNCHANGED <<fl, waiting>>

\* A plain connect, at once or in progress; TFO was off, unusable for the stage,
\* without a payload, or is found unsupported here and turned off for good.
LaunchConnect(stage, tcp) ==
  /\ MayLaunch /\ tfo' \in {tfo, FALSE} /\ (stage # "tls" => tfo' = tfo)
  /\ Launched(stage, "connect", 0, tcp)

\* sendto(MSG_FASTOPEN): n units ride on the SYN, none without a cookie.
LaunchTfo(n) ==
  /\ MayLaunch /\ tfo /\ Launched("tls", "send", Hello - n, "syn") /\ UNCHANGED tfo

\* connect or sendto fails in a way that is evidence about the target.
LaunchEnds(e) ==
  /\ MayLaunch /\ tfo' \in {tfo, FALSE}
  /\ ev' = [NoEvent EXCEPT !.result = errno_to_result(e), !.origin = errno_origin(e)]
  /\ launches' = launches + 1 /\ pc' = "wait" /\ UNCHANGED <<p, k, ready, fl, waiting>>

\* The retry paths leave the slot free and no socket open.
LaunchRetry == /\ MayLaunch /\ tfo' \in {tfo, FALSE} /\ launches' = launches + 1 /\ pc' = "wait"
               /\ UNCHANGED <<p, k, ready, fl, ev, waiting>>

NoLaunch == /\ pc = "fill" /\ p.st # "free" /\ pc' = "wait"
            /\ UNCHANGED <<p, k, ready, fl, ev, tfo, launches, waiting>>

Launch == \/ \E stage \in Stages, tcp \in {"syn", "up"} : LaunchConnect(stage, tcp)
          \/ \E n \in 0..Hello : LaunchTfo(n)
          \/ \E e \in {"refused", "unreach", "local"} : LaunchEnds(e)
          \/ LaunchRetry
          \/ NoLaunch

-----------------------------------------------------------------------------
(* The worker's poll *)

Unanswered == p.st = "recv" /\ (k.inq > 0 \/ k.fin)

\* epoll_wait or select reports the probe: its edge is spent, its flags are read.
WaitReports ==
  /\ pc = "wait" /\ waiting' = Unanswered
  /\ IF backend = "epoll" THEN ready /\ fl' = Mask ELSE fl' = SelectMask
  /\ fl' # {}
  /\ ready' = FALSE /\ pc' = "connect" /\ UNCHANGED <<p, k, ev, tfo, launches>>

\* The wait times out.
WaitSilent ==
  /\ pc = "wait" /\ waiting' = Unanswered
  /\ IF backend = "epoll" THEN ~ready \/ Mask = {} ELSE SelectMask = {}
  /\ pc' = "expire" /\ UNCHANGED <<p, k, ready, fl, ev, tfo, launches>>

\* Other probes filled the batch of QN_EPOLL_BATCH events.
WaitCrowded ==
  /\ pc = "wait" /\ backend = "epoll" /\ ready /\ waiting' = FALSE
  /\ pc' = "expire" /\ UNCHANGED <<p, k, ready, fl, ev, tfo, launches>>

-----------------------------------------------------------------------------
(* dispatch_probe *)

Goto(next) == /\ pc' = next /\ UNCHANGED <<p, k, ready, fl, ev, tfo, launches, waiting>>

\* on_connected
OnConnected ==
  CASE p.stage = "tcp" -> Finish("open", p.tls)
    [] p.stage = "banner" ->
         /\ p' = [p EXCEPT !.st = "recv", !.rx = 0, !.armed = TRUE] /\ pc' = "send"
         /\ UNCHANGED <<k, ready, fl, ev, tfo, launches, waiting>>
    [] OTHER ->
         \/ Finish("error", p.tls)                       \* build_payload failed
         \/ /\ p' = [p EXCEPT !.st = "send", !.left = Hello] /\ pc' = "send"
            /\ UNCHANGED <<k, ready, fl, ev, tfo, launches, waiting>>

\* What SO_ERROR says of a connect: a bare hangup counts as a reset.
ConnectError == IF k.err = "none" /\ fl \cap {"ERR", "HUP"} # {} THEN "reset" ELSE k.err

DispatchConnect ==
  /\ pc = "connect"
  /\ IF p.st = "connect" /\ fl \cap {"OUT", "ERR", "HUP"} # {}
     THEN IF ConnectError # "none"
          THEN FinishObs(errno_to_result(ConnectError), p.tls, errno_origin(ConnectError))
          ELSE OnConnected
     ELSE Goto("send")

\* send() on the socket: some units, no room, or the error pending on it.
SendError == IF k.err # "none" THEN k.err ELSE "pipe"

\* The tail of on_writable, and the input flag its caller adds.
AfterSend ==
  /\ p' = [p EXCEPT !.st = "recv", !.rx = 0, !.armed = TRUE]
  /\ fl' = fl \cup {"IN"}
  /\ pc' = "recv" /\ UNCHANGED <<k, ready, ev, tfo, launches, waiting>>

\* on_writable, one send() at a time.
DispatchSend ==
  /\ pc = "send"
  /\ IF ~(p.st = "send" /\ "OUT" \in fl) THEN Goto("recv")
     ELSE IF p.left = 0 THEN AfterSend
     ELSE IF k.tcp = "dead" THEN
       FinishObs(errno_to_result(SendError), TlsOf(SendError, {"reset", "pipe"}),
                 errno_origin(SendError))
     ELSE IF k.room = 0 THEN
       /\ k' = [k EXCEPT !.nospace = TRUE] /\ pc' = "recv"
       /\ UNCHANGED <<p, ready, fl, ev, tfo, launches, waiting>>
     ELSE \E n \in 1..(IF k.room < p.left THEN k.room ELSE p.left) :
            /\ k' = [k EXCEPT !.room = @ - n] /\ p' = [p EXCEPT !.left = @ - n]
            /\ UNCHANGED <<ready, pc, fl, ev, tfo, launches, waiting>>

\* The tail of on_readable: an answer, or the end of the stream, is classified.
Answered(eof) ==
  IF p.stage # "tls" THEN Finish("open", p.tls)
  ELSE LET tls == Classify(p.rx) IN
       CASE eof /\ p.rx = 0 -> FinishObs("open", tls, "peer")
         [] tls = "garbage" -> FinishObs("open", tls, "protocol")
         [] tls = "alert" -> FinishObs("open", tls, "peer")
         [] OTHER -> Finish("open", tls)

\* Mutant: one recv() and then back to the poll.
RecvSomeOnce ==
  \E n \in 1..(IF k.inq < RxBuf - p.rx THEN k.inq ELSE RxBuf - p.rx) :
    /\ k' = [k EXCEPT !.inq = @ - n] /\ p' = [p EXCEPT !.rx = @ + n]
    /\ pc' = "err" /\ UNCHANGED <<ready, fl, ev, tfo, launches, waiting>>
RecvSome ==
  \E n \in 1..(IF k.inq < RxBuf - p.rx THEN k.inq ELSE RxBuf - p.rx) :
    /\ k' = [k EXCEPT !.inq = @ - n] /\ p' = [p EXCEPT !.rx = @ + n]
    /\ UNCHANGED <<ready, pc, fl, ev, tfo, launches, waiting>>

\* on_readable, one recv() at a time: pending bytes come before a pending error.
DispatchRecv ==
  /\ pc = "recv"
  /\ IF ~(p.st = "recv" /\ "IN" \in fl) THEN Goto("err")
     ELSE IF p.rx = RxBuf \/ (p.rx > 0 /\ rx_complete(p.rx)) THEN Answered(FALSE)
     ELSE IF k.inq > 0 THEN RecvSome
     ELSE IF k.err # "none" THEN
       FinishObs(errno_to_result(k.err), TlsOf(k.err, {"reset"}), errno_origin(k.err))
     ELSE IF k.fin \/ k.tcp = "dead" THEN Answered(TRUE)
     ELSE Goto("err")

\* The tail of dispatch_probe: an error or hangup that nothing above consumed.
DispatchErr ==
  /\ pc = "err"
  /\ IF fl \cap {"ERR", "HUP"} = {} THEN Goto("expire")
     ELSE IF k.err = "none" THEN
       LET tls == IF p.stage = "tls" THEN Classify(p.rx) ELSE p.tls IN
       FinishObs("open", tls, IF tls = "garbage" THEN "protocol" ELSE "peer")
     ELSE FinishObs(errno_to_result(k.err), TlsOf(k.err, {"reset"}), errno_origin(k.err))

-----------------------------------------------------------------------------
(* on_timeout *)

TimeoutEvent(result, tls, origin) == Ended(result, tls, origin, waiting)

\* Mutant: the deadline discards a partial answer.
TimeoutVerdictSilent ==
  IF p.stage = "banner" /\ p.st = "recv" THEN TimeoutEvent("open", p.tls, "none")
  ELSE TimeoutEvent("timeout", IF p.stage = "tls" /\ p.st # "connect" THEN "silence" ELSE p.tls, "path")
TimeoutVerdict ==
  IF p.rx > 0
  THEN LET tls == IF p.stage = "tls" THEN Classify(p.rx) ELSE p.tls IN
       TimeoutEvent("open", tls, CASE tls = "garbage" -> "protocol"
                                   [] tls = "alert" -> "peer" [] OTHER -> "none")
  ELSE IF p.stage = "banner" /\ p.st = "recv" THEN TimeoutEvent("open", p.tls, "none")
  ELSE TimeoutEvent("timeout",
                    IF p.stage # "tls" THEN p.tls
                    ELSE IF p.st = "connect" THEN "none" ELSE "silence", "path")

\* The deadline is due when the worker sweeps its wheel.
OnTimeout ==
  /\ pc = "expire" /\ p.armed
  /\ ev' = TimeoutVerdict /\ Release("fill") /\ UNCHANGED <<tfo, launches, waiting>>
\* It is not due yet.
SweepNothing == /\ pc = "expire" /\ Goto("fill")

Worker == \/ Launch \/ WaitReports \/ WaitSilent \/ WaitCrowded \/ DispatchConnect
          \/ DispatchSend \/ DispatchRecv \/ DispatchErr \/ OnTimeout \/ SweepNothing

Next == Kernel \/ Worker

\* The worker keeps running, and a deadline that stays armed comes due: every
\* delay is finite and each of the at most three arms of a probe is later.
Spec == Init /\ [][Next /\ UNCHANGED backend]_<<vars, backend>> /\ WF_vars(Worker) /\ SF_vars(OnTimeout)

-----------------------------------------------------------------------------
(* Properties *)

\* Every variable keeps its type.
TypeOK ==
  /\ p \in [st : {"free", "connect", "send", "recv"}, stage : Stages, left : 0..Hello,
            rx : 0..RxBuf, armed : BOOLEAN,
            tls : {"none", "silence", "reset", "hello", "alert", "garbage"}]
  /\ k \in [tcp : {"none", "syn", "up", "dead"}, err : Errnos, room : 0..SndBuf,
            inq : 0..PeerMax, fin : BOOLEAN, nospace : BOOLEAN, spoke : 0..PeerMax,
            kind : Kinds, up : BOOLEAN]
  /\ ready \in BOOLEAN /\ fl \subseteq Flags /\ tfo \in BOOLEAN /\ waiting \in BOOLEAN
  /\ pc \in {"fill", "wait", "connect", "send", "recv", "err", "expire"}
  /\ launches \in 0..MaxLaunch

AtRest == pc \in {"fill", "wait", "expire"}

\* What the socket offers that the probe's state could act on.
Actionable == \/ p.st = "connect" /\ k.tcp \in {"up", "dead"}
              \/ p.st = "send" /\ (k.tcp = "dead" \/ (k.tcp = "up" /\ (k.room > 0 \/ p.left = 0)))
              \/ p.st = "recv" /\ (k.inq > 0 \/ k.fin \/ k.tcp = "dead")

\* No wakeup is lost: between dispatches, whatever a probe could act on is still
\* to be reported, although an edge is reported once and dispatch_probe moves a
\* probe through several states on one report.
NoLostWakeup == AtRest /\ Actionable => IF backend = "epoll" THEN ready ELSE SelectMask # {}

\* A probe in flight has a deadline and a free slot has neither a deadline nor a
\* socket, on every path of probe_launch, dispatch_probe and on_timeout.
LiveHasDeadline == (p.st # "free") = p.armed /\ (p.st = "free") = (k.tcp = "none")

\* A target is reported open only if its connection came up, whichever handler
\* reports it and whatever order the socket's events arrived in.
OpenMeansConnected == ev.result = "open" => ev.up

\* An answer that was waiting when the worker polled, with room for it in the
\* batch, is never reported as a timeout, even when the deadline is swept right
\* after the poll.
AnswerBeatsDeadline == ev.result = "timeout" => ~ev.late

\* A slot between two dispatches: a timer and a socket exactly while it is in use,
\* and a wakeup to come for whatever it could act on.
SlotInv == TypeOK /\ LiveHasDeadline /\ NoLostWakeup

\* The verdict on_readable, dispatch_probe or on_timeout reports is what the
\* socket did: open only if it connected, a timeout only if nothing was waiting.
VerdictIsTrue == OpenMeansConnected /\ AnswerBeatsDeadline

\* Every probe that is launched ends, whatever the peer does.
ProbeEnds == p.st # "free" ~> p.st = "free"
=============================================================================
