------------------------------ MODULE MCProbe ------------------------------
(* The engine and its probes in the long run, one of the two in a behaviour: the *)
(* engine with one worker, a ring smaller than its jobs and two runs, or one slot *)
(* with two-unit messages, a send buffer smaller than the payload, and one more   *)
(* unit from the peer than completes an answer.                                   *)
EXTENDS Engine

VARIABLES p, k, ready, pc, fl, ev, tfo, launches, waiting, backend, part

P == INSTANCE Probe WITH Hello <- 2, SndBuf <- 1, Need <- 2, RxBuf <- 3, PeerMax <- 3,
                         MaxLaunch <- 2

ASSUME P!ProbeParameters

probeVars == <<p, k, ready, pc, fl, ev, tfo, launches, waiting>>

PartInit == /\ part \in {"engine", "slot"}
            /\ Init /\ P!Init
            /\ part = "slot" \/ backend = "epoll"

PartNext == /\ UNCHANGED <<part, backend>>
            /\ \/ part = "engine" /\ Next /\ UNCHANGED probeVars
               \/ part = "slot" /\ P!Next /\ UNCHANGED vars

\* The fairness of Engine, for the behaviours that move it.
EngineFair ==
  /\ \A w \in Workers : /\ WF_vars(part = "engine" /\ Worker(w))
                        /\ SF_vars(part = "engine" /\ Draw(w))
                        /\ \A s \in Slots : SF_vars(part = "engine" /\ EndProbe(w, s))
                        /\ WF_vars(part = "engine" /\ \E n \in 1..RCap : Poll(w, n))
  /\ WF_vars(part = "engine" /\ \E w \in Workers : SpawnOk(w))
  /\ WF_vars(part = "engine" /\ StartDone) /\ WF_vars(part = "engine" /\ Unwind)
  /\ WF_vars(part = "engine" /\ FinalizeDone) /\ WF_vars(part = "engine" /\ Join)
  /\ WF_vars(part = "engine" /\ Settle)

\* The fairness of Probe, for the behaviours that move it.
SlotFair == /\ WF_probeVars(part = "slot" /\ P!Worker)
            /\ SF_probeVars(part = "slot" /\ P!OnTimeout)

PartSpec == /\ PartInit /\ [][PartNext]_<<vars, probeVars, part, backend>>
            /\ EngineFair /\ SlotFair

\* Every probe in a slot has its timer and its socket, and no wakeup is lost (Probe).
SlotInv == P!SlotInv

\* What is reported is what happened: the totals and the outcome of a run, also the second
\* one on the same engine (qn_engine_finalize; ReportIsTrue of Engine), and the verdict that
\* on_readable, dispatch_probe or on_timeout gives on a socket (VerdictIsTrue of Probe).
\* With it, what the truth of the totals rests on (IInv of Engine).
ReportsAreTrue == IInv /\ ReportIsTrue /\ P!VerdictIsTrue

\* Every probe that probe_launch starts ends, whatever the peer does (Probe).
ProbeEnds == P!ProbeEnds
=============================================================================
