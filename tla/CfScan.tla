------------------------------- MODULE CfScan -------------------------------
(***************************************************************************)
(* The Cloudflare scan of src/task/task_cf.c: the sweep and the rows it    *)
(* retains, the TLS screen, the calibration rounds, the finalists, their   *)
(* verification in batches, the tunnel stage's use of the rows, and the    *)
(* final order; with the callers' sequence of src/ui/app.c and src/main.c. *)
(*                                                                         *)
(* The engine below it gives every job it draws one event, in any order    *)
(* (module Engine); the scheduler never draws an address twice (Draw);     *)
(* qn_verify_run and the tunnel workers are seen through their results     *)
(* (Verifier, TunnelStage).  An address is a number, and so is its block.  *)
(***************************************************************************)
EXTENDS Ranking, FiniteSetsExt, SequencesExt

CONSTANTS Addrs,         \* the addresses of the loaded ranges
          BlockOf(_),    \* the /24 an address is in
          Plans,         \* resolved plans: [cap, limit, planned, finalists,
                         \*   batch, samples, tunnel, rank, ui]; limit is 0
                         \*   unless the mode is "reachable", tunnel is 0 when off
          SweepEvents, TlsEvents, RttEvents,  \* what a probe of each stage may
                         \*   report: [is : STRING, us : Nat]
          VerifyResults, \* what the deep verifier may say of an address
          TunnelResults, \* what the tunnel stage may say of one
          Oversample, Extra   \* CF_CALIBRATION_OVERSAMPLE, CF_CALIBRATION_EXTRA

VARIABLE cf              \* the cf_scan, and where its caller is

Keep == INSTANCE TopK WITH Better <- LAMBDA a, b :
          LET Latency(r) == IF r.samples.rtt = << >> THEN 2147483647
                            ELSE SamplesMin(r.samples)
          IN Latency(a) < Latency(b)

Indices == 1..Len(cf.rec)
Count(rec, Test(_)) == Cardinality({i \in 1..Len(rec) : Test(rec[i])})
Ranked(rec) == [i \in 1..Len(rec) |-> FinalizeRank(rec[i], cf.plan.rank)]

NewRow(a, us) ==
  [addr |-> a, rung |-> "TCP", term |-> "SUCCESS", verified |-> FALSE,
   colo |-> FALSE, held |-> FALSE, kbps |-> 0, confidence |-> 0,
   tunnel |-> "untested", score |-> 0,
   samples |-> IF us = 0 THEN NoSamples ELSE SamplesAdd(NoSamples, us)]

\* cf_scan_init: the plan is resolved, nothing is known yet.
Init ==
  \E p \in Plans :
    cf = [plan |-> p, at |-> "next", step |-> -1, phase |-> "SWEEP",
          drawn |-> {}, flying |-> {}, full |-> FALSE, failed |-> FALSE,
          rec |-> << >>, reached |-> 0, late |-> 0, dropped |-> 0, replaced |-> 0,
          truncated |-> FALSE, active |-> << >>, todo |-> {}, finalist |-> << >>,
          nfinalist |-> 0, ready |-> FALSE, round |-> 0,
          base |-> [i \in 1..p.cap |-> 0], spr |-> [i \in 1..p.cap |-> SprtInit(0)],
          clean |-> 0, inconclusive |-> 0, localErrors |-> 0, suspected |-> 0, edges |-> 0,
          verified |-> FALSE, vstate |-> "none", offset |-> 0,
          queued |-> {}, passed |-> 0, tfailed |-> 0, tskipped |-> 0, outcome |-> "none",
          \* history: the opens of the sweep, the addresses chosen as finalists
          opens |-> {}, chosen |-> << >>]

-----------------------------------------------------------------------------
(* The sweep.                                                              *)

\* cf_next_sweep, on an address the scheduler has not drawn yet.
DrawSweep(a) ==
  /\ cf.at = "engine" /\ cf.phase = "SWEEP" /\ ~cf.full
  /\ Cardinality(cf.drawn) < cf.plan.planned /\ a \notin cf.drawn
  /\ cf' = [cf EXCEPT !.drawn = @ \cup {a}, !.flying = @ \cup {a}]

\* Mutant: a late open is appended like any other.
RetainLate(c, row) ==
  [c EXCEPT !.rec = Append(@, row), !.full = Len(c.rec) + 1 >= c.plan.limit]

\* What becomes of an open: discarded once the target is met, else retained;
\* without a target the best cap survive.
Retain(c, row) ==
  IF c.plan.limit > 0
  THEN IF Len(c.rec) >= c.plan.limit
       THEN [c EXCEPT !.late = @ + 1, !.full = TRUE]
       ELSE [c EXCEPT !.rec = Append(@, row), !.full = Len(c.rec) + 1 >= c.plan.limit]
  ELSE LET was == Len(c.rec) = c.plan.cap
           kept == Keep!Kept(c.rec, c.plan.cap, row)
       IN [c EXCEPT !.rec = Keep!Offer(@, c.plan.cap, row),
                    !.truncated = @ \/ was,
                    !.replaced = @ + (IF was /\ kept THEN 1 ELSE 0),
                    !.dropped = @ + (IF was /\ ~kept THEN 1 ELSE 0)]

\* cf_on_sweep.  A local failure makes the engine's run a failed one.
OnSweep(a, ev) ==
  /\ cf.at = "engine" /\ cf.phase = "SWEEP" /\ a \in cf.flying
  /\ LET c == [cf EXCEPT !.flying = @ \ {a}, !.failed = @ \/ ev.is = "local"]
     IN cf' = IF ev.is # "open" THEN c
              ELSE Retain([c EXCEPT !.reached = @ + 1, !.opens = @ \cup {<<a, ev.us>>}],
                          NewRow(a, ev.us))

-----------------------------------------------------------------------------
(* The TLS screen and the measuring rounds, over the active rows.          *)

TlsTerm(is) ==
  CASE is = "alert" -> "PEER_REJECTED" [] is = "reset" -> "RESET"
    [] is = "timeout" -> "TIMEOUT" [] is = "garbage" -> "PROTOCOL_INVALID"
    [] OTHER -> "INCONCLUSIVE"

\* cf_on_tls; "none" is an event without a TLS outcome, which changes nothing.
OnTls(i, ev) ==
  /\ cf.at = "engine" /\ cf.phase = "TLS" /\ i \in cf.todo
  /\ LET c == [cf EXCEPT !.todo = @ \ {i}]
     IN cf' =
        CASE ev.is = "local" ->
               [c EXCEPT !.rec[i].term = "LOCAL_ERROR", !.localErrors = @ + 1, !.failed = TRUE]
          [] ev.is = "hello" ->
               [c EXCEPT !.rec[i].rung = "TLS", !.rec[i].term = "SUCCESS", !.clean = @ + 1,
                         !.rec[i].samples = IF ev.us = 0 THEN @ ELSE SamplesAdd(@, ev.us)]
          [] ev.is = "none" -> c
          [] OTHER -> [c EXCEPT !.rec[i].term = TlsTerm(ev.is), !.inconclusive = @ + 1]

\* cf_on_rtt: the first samples freeze a baseline, the later ones are tested
\* against it, and a loss counts against the row at once.
OnRtt(i, ev) ==
  /\ cf.at = "engine" /\ cf.phase = "RTT" /\ i \in cf.todo
  /\ LET c == [cf EXCEPT !.todo = @ \ {i}]
         s == SamplesAdd(c.rec[i].samples, ev.us)
     IN cf' =
        CASE ev.is = "local" -> [c EXCEPT !.localErrors = @ + 1, !.failed = TRUE]
          [] ev.is = "lost" -> [c EXCEPT !.rec[i].samples = SamplesLost(@),
                                         !.spr[i] = SprtPush(@, FALSE)]
          [] c.base[i] = 0 -> [c EXCEPT !.rec[i].samples = s,
                                        !.base[i] = IF Len(s.rtt) >= 3 THEN Median(s) ELSE 0]
          [] OTHER -> [c EXCEPT !.rec[i].samples = s,
                                !.spr[i] = SprtPush(@, WithinBaseline(c.base[i], ev.us))]

-----------------------------------------------------------------------------
(* Choosing rows.                                                          *)

\* choose_diverse over an order of row indices: first one row of each block
\* for a quarter of the places, then the others in order.
ChooseDiverse(rec, order, keep) ==
  LET tls == SelectSeq(order, LAMBDA i : HasTls(rec[i]))
      reserve == Lesser(keep, Greater(keep \div 4, 1))
      fresh == SelectSeq(tls, LAMBDA i : \A j \in 1..Len(tls) :
                 BlockOf(rec[tls[j]].addr) = BlockOf(rec[i].addr) =>
                   \E k \in 1..j : tls[k] = i)
      first == SubSeq(fresh, 1, Lesser(reserve, Len(fresh)))
      rest == SelectSeq(tls, LAMBDA i : i \notin ToSet(first))
  IN first \o SubSeq(rest, 1, Lesser(keep - Len(first), Len(rest)))

CalibrationLimit(c) ==
  Lesser(Greater(c.plan.finalists * Oversample, c.plan.finalists + Extra), Len(c.rec))

\* finalize_calibrated_finalists
Finalize(c) ==
  IF ~c.ready THEN c
  ELSE LET cohort == ToSet(c.finalist)
           rec == [i \in 1..Len(c.rec) |->
                    IF i \in cohort THEN FinalizeRank(c.rec[i], c.plan.rank) ELSE c.rec[i]]
           pick == ChooseDiverse(rec, SortIndices(rec, c.finalist), c.plan.finalists)
       IN [c EXCEPT !.rec = rec, !.finalist = pick, !.nfinalist = Len(pick),
                    !.active = << >>, !.ready = FALSE, !.base = [i \in DOMAIN @ |-> 0],
                    !.chosen = [k \in 1..Len(pick) |-> rec[pick[k]].addr]]

Rounds(c) == Lesser(MaxSamples, 2 * Greater(c.plan.samples, 1))

-----------------------------------------------------------------------------
(* cf_scan_next_phase and what its callers do around it.                   *)

StartSweep ==
  /\ cf.at = "next" /\ cf.step = -1
  /\ cf' = [cf EXCEPT !.step = 0, !.at = "engine"]

StartTls ==
  /\ cf.at = "next" /\ cf.step = 0 /\ cf.rec # << >>
  /\ cf' = [cf EXCEPT !.step = 1, !.at = "engine", !.phase = "TLS",
                      !.active = [i \in Indices |-> i], !.todo = Indices]

\* Step 2 ranks and sorts every row and draws the calibration cohort.
Calibrated ==
  LET rec == CfSort(Ranked(cf.rec))
  IN [cf EXCEPT !.rec = rec, !.step = 2, !.nfinalist = 0,
                !.base = [i \in DOMAIN @ |-> 0],
                !.finalist = ChooseDiverse(rec, [i \in 1..Len(rec) |-> i], CalibrationLimit(cf))]

StartRtt ==
  /\ cf.at = "next" /\ cf.step = 1 /\ Calibrated.finalist # << >>
  /\ LET c == Calibrated
         cohort == ToSet(c.finalist)
     IN cf' = [c EXCEPT
                 !.rec = [i \in DOMAIN @ |->
                           IF i \in cohort THEN [@[i] EXCEPT !.samples = NoSamples] ELSE @[i]],
                 !.spr = [i \in DOMAIN @ |->
                           IF i \in cohort THEN SprtInit(Rounds(c)) ELSE @[i]],
                 !.active = c.finalist, !.todo = cohort, !.ready = TRUE,
                 !.round = 1, !.phase = "RTT", !.at = "engine"]

\* Only rows whose test is still open are measured again.
StillOpen(c) == SelectSeq(c.active, LAMBDA i : SprtStatus(c.spr[i]) = "continue")
AnotherRound(c) == c.ready /\ c.round < Rounds(c) /\ StillOpen(c) # << >>

NextRound ==
  /\ cf.at = "next" /\ cf.step = 2 /\ AnotherRound(cf)
  /\ cf' = [cf EXCEPT !.active = StillOpen(cf), !.todo = ToSet(StillOpen(cf)),
                      !.round = @ + 1, !.at = "engine"]

\* Mutant: the rows shown while the verifier runs are put in order as well.
ShownSorted(c) == IF c.plan.ui THEN [c EXCEPT !.rec = CfSort(Ranked(@))] ELSE c

\* advance_phase re-ranks the rows it shows while the verifier runs.
Shown(c) ==
  IF c.plan.ui THEN [c EXCEPT !.rec = [i \in DOMAIN @ |-> FinalizeRank(@[i], c.plan.rank)]]
  ELSE c

\* No phase is left; the interface verifies on another thread, if it can start it.
PhasesOver ==
  /\ cf.at = "next"
  /\ \/ cf.step = 0 /\ cf.rec = << >>
     \/ cf.step = 1 /\ Calibrated.finalist = << >>
     \/ cf.step = 2 /\ ~AnotherRound(cf)
  /\ \E at \in {"verify"} \cup (IF cf.plan.ui THEN {"finish"} ELSE {}) :
       cf' = [Shown(Finalize(IF cf.step = 2 THEN cf ELSE Calibrated))
                EXCEPT !.phase = "DONE", !.at = at]

\* The engine's run is over and every event of it applied.
EndPhase ==
  /\ cf.at = "engine" /\ cf.flying = {} /\ cf.todo = {}
  /\ cf.phase = "SWEEP" => cf.full \/ Cardinality(cf.drawn) = cf.plan.planned
  /\ cf' = [cf EXCEPT !.at = IF cf.failed THEN "finish" ELSE "next"]

\* The user stops the scan or the engine fails: jobs are left without result.
AbortPhase ==
  /\ cf.at = "engine"
  /\ cf' = [cf EXCEPT !.flying = {}, !.todo = {}, !.at = "finish"]

-----------------------------------------------------------------------------
(* cf_scan_verify: batches of finalists, each applied under the lock.      *)

VerifyNothing ==
  /\ cf.at = "verify" /\ cf.nfinalist = 0
  /\ cf' = [cf EXCEPT !.verified = TRUE, !.vstate = "COMPLETE", !.at = "tunnel"]

BatchSize(c) ==
  LET batch == IF c.plan.batch = 0 THEN c.nfinalist ELSE Lesser(c.plan.batch, c.nfinalist)
  IN Lesser(batch, c.nfinalist - c.offset)

\* apply_verify_result
Applied(r, v) == [r EXCEPT !.rung = v.rung, !.term = v.term, !.kbps = v.kbps,
                           !.held = v.held, !.colo = v.colo,
                           !.confidence = v.confidence, !.verified = TRUE]

\* The rows a batch is about.
BatchRows(c) == [k \in 1..BatchSize(c) |-> c.finalist[c.offset + k]]

VerifyBatch ==
  /\ cf.at = "verify" /\ cf.offset < cf.nfinalist
  /\ LET rows == BatchRows(cf)
     IN \E v \in [DOMAIN rows -> VerifyResults] :
          cf' = [cf EXCEPT
                   !.rec = [i \in DOMAIN @ |->
                             IF i \in ToSet(rows)
                             THEN Applied(@[i], v[CHOOSE k \in DOMAIN rows : rows[k] = i])
                             ELSE @[i]],
                   !.offset = @ + Len(rows), !.vstate = "COMPLETE"]

\* A batch that does not complete ends the stage: the rows of the batches
\* before it keep their results, the counters keep their old values.
VerifyStops ==
  /\ cf.at = "verify" /\ cf.offset < cf.nfinalist
  /\ \E state \in {"PARTIAL", "CANCELLED", "INFRA"} :
       /\ state = "CANCELLED" => cf.plan.ui
       /\ cf' = [cf EXCEPT !.vstate = state,
                    !.at = IF cf.plan.ui \/ state = "INFRA" THEN "finish" ELSE "tunnel"]

\* recount_verified
Recounted(c) ==
  [c EXCEPT !.suspected = Count(c.rec, LAMBDA r : r.term = "INTERFERENCE"),
            !.inconclusive = Count(c.rec, LAMBDA r : r.term \notin {"SUCCESS", "LOCAL_ERROR"}),
            !.localErrors = Count(c.rec, LAMBDA r : r.term = "LOCAL_ERROR"),
            !.clean = Count(c.rec, HasTls), !.edges = Count(c.rec, HasMarker)]

VerifyEnds ==
  /\ cf.at = "verify" /\ cf.nfinalist > 0 /\ cf.offset = cf.nfinalist
  /\ cf' = [Recounted(cf) EXCEPT !.verified = TRUE, !.at = "tunnel"]

-----------------------------------------------------------------------------
(* cf_scan_tunnel, its workers seen through what they commit.              *)

NoTunnel ==
  /\ cf.at = "tunnel" /\ cf.plan.tunnel = 0
  /\ cf' = [cf EXCEPT !.at = "finish"]

BadLink ==
  /\ cf.at = "tunnel" /\ cf.plan.tunnel > 0
  /\ cf' = [cf EXCEPT !.outcome = "FAILED", !.at = "finish"]

\* select_tunnel_candidates
Selected(c) ==
  LET rows == SelectSeq([i \in 1..Len(c.rec) |-> i],
                        LAMBDA i : c.rec[i].verified /\ HasMarker(c.rec[i]))
  IN ToSet(SubSeq(rows, 1, Lesser(c.plan.tunnel, Len(rows))))

\* commit_tunnel_result
Committed(c, i, state) ==
  [c EXCEPT !.rec[i].tunnel = state, !.queued = @ \ {i},
            !.passed = @ + (IF state = "passed" THEN 1 ELSE 0),
            !.tskipped = @ + (IF state \in TunnelSkipped THEN 1 ELSE 0),
            !.tfailed = @ + (IF state \in TunnelFailed THEN 1 ELSE 0)]

\* The rows are ranked and sorted once more before any is selected.
StartTunnel ==
  /\ cf.at = "tunnel" /\ cf.plan.tunnel > 0
  /\ LET c == [cf EXCEPT !.rec = CfSort(Ranked(@)), !.passed = 0,
                         !.tfailed = 0, !.tskipped = 0]
         rows == Selected(c)
     IN cf' = IF rows = {} THEN [c EXCEPT !.outcome = "INCOMPLETE", !.at = "finish"]
              ELSE [c EXCEPT !.queued = rows, !.at = "tunnelling",
                      !.rec = [i \in DOMAIN @ |->
                                IF i \in rows THEN [@[i] EXCEPT !.tunnel = "queued"] ELSE @[i]]]

CommitTunnel(i, state) ==
  /\ cf.at = "tunnelling" /\ i \in cf.queued
  /\ cf' = Committed(cf, i, state)

\* No usable xray, or no memory for the workers: every row gets one and the same result.
TunnelRefused ==
  /\ cf.at = "tunnelling" /\ cf.passed + cf.tfailed + cf.tskipped = 0
  /\ \E state \in {"missing", "config", "start"} :
       cf' = [FoldSet(LAMBDA i, c : Committed(c, i, state), cf, cf.queued)
                EXCEPT !.outcome = IF state = "missing" THEN "INCOMPLETE" ELSE "FAILED",
                       !.at = "finish"]

\* A thread that could not be created makes the stage a failed one.
EndTunnel ==
  /\ cf.at = "tunnelling" /\ cf.queued = {}
  /\ \E outcome \in {"FAILED", IF cf.tfailed + cf.tskipped = 0 THEN "SUCCESS" ELSE "INCOMPLETE"}
                    \cup (IF cf.plan.ui THEN {"CANCELLED"} ELSE {}) :
       cf' = [cf EXCEPT !.outcome = outcome, !.at = "finish"]

\* cf_scan_finish
Finish ==
  /\ cf.at = "finish"
  /\ cf' = [cf EXCEPT !.rec = CfSort(Ranked(@)), !.phase = "DONE", !.at = "done"]

Done == cf.at = "done" /\ UNCHANGED cf

Next ==
  \/ \E a \in Addrs : DrawSweep(a) \/ \E ev \in SweepEvents : OnSweep(a, ev)
  \/ \E i \in Indices : \/ \E ev \in TlsEvents : OnTls(i, ev)
                       \/ \E ev \in RttEvents : OnRtt(i, ev)
                       \/ \E state \in TunnelResults : CommitTunnel(i, state)
  \/ StartSweep \/ StartTls \/ StartRtt \/ NextRound \/ PhasesOver
  \/ EndPhase \/ AbortPhase
  \/ VerifyNothing \/ VerifyBatch \/ VerifyStops \/ VerifyEnds
  \/ NoTunnel \/ BadLink \/ StartTunnel \/ TunnelRefused \/ EndTunnel
  \/ Finish \/ Done

-----------------------------------------------------------------------------
(* Properties.                                                             *)

TypeOK ==
  /\ cf.at \in {"next", "engine", "verify", "tunnel", "tunnelling", "finish", "done"}
  /\ cf.phase \in {"SWEEP", "TLS", "RTT", "DONE"}
  /\ cf.flying \subseteq cf.drawn /\ cf.drawn \subseteq Addrs
  /\ ToSet(cf.active) \cup ToSet(cf.finalist) \cup cf.todo \cup cf.queued \subseteq Indices
  /\ cf.nfinalist <= Len(cf.finalist) /\ cf.offset <= cf.nfinalist

\* Every open of the sweep is one of: a row, discarded as late, turned away or
\* displaced; a target is never exceeded and one address never has two rows.
Accounted ==
  /\ cf.reached = Cardinality(cf.opens)
  /\ cf.reached = Len(cf.rec) + (IF cf.plan.limit > 0 THEN cf.late
                                 ELSE cf.dropped + cf.replaced)
  /\ Len(cf.rec) <= IF cf.plan.limit > 0 THEN cf.plan.limit ELSE cf.plan.cap
  /\ cf.plan.limit > 0 => (cf.full <=> Len(cf.rec) = cf.plan.limit)
  /\ \A i, j \in Indices : cf.rec[i].addr = cf.rec[j].addr => i = j
  /\ \A i \in Indices : \E us \in {o[2] : o \in cf.opens} : <<cf.rec[i].addr, us>> \in cf.opens

\* Without a target no open that was let go was faster than one that was kept.
BestKept ==
  LET kept == {o \in cf.opens : \E i \in Indices : cf.rec[i].addr = o[1]}
      slow(o) == IF o[2] = 0 THEN 2147483647 ELSE o[2]
  IN cf.plan.limit = 0 =>
       /\ Len(cf.rec) = Lesser(cf.plan.cap, cf.reached)
       /\ \A o \in kept, q \in cf.opens \ kept : slow(o) <= slow(q)

\* The counters shown agree with the rows, except while a verification is
\* under way and after one that did not complete.
CountsAgree ==
  (cf.offset = 0 \/ cf.verified) => /\ cf.clean = Count(cf.rec, HasTls)
                                    /\ cf.edges = Count(cf.rec, HasMarker)

\* The rows of cf_scan are accounted for through every phase: what the sweep
\* retains, displaces and discards, which rows the best-K heap keeps, and what
\* the counters of cf_on_tls and recount_verified say of them.
CfInv == TypeOK /\ Accounted /\ BestKept /\ CountsAgree

\* finalist[] holds indexes into rec[], and rec[] is sorted several times: the
\* rows that cf_scan_verify marks are, batch after batch, exactly the addresses
\* that were chosen; a tunnel is only ever tried for a verified row with a
\* marker; queued = passed + failed + skipped; and the rows handed out at the
\* end are in the order of their own scores, a passed tunnel before any other
\* row and a failed one behind every untested row with a marker.
RowsAreTheirs ==
  /\ cf.at = "verify" => \A k \in 1..cf.nfinalist : cf.rec[cf.finalist[k]].addr = cf.chosen[k]
  /\ {cf.rec[i].addr : i \in {j \in Indices : cf.rec[j].verified}}
       = {cf.chosen[k] : k \in 1..cf.offset}
  /\ \A i \in Indices : cf.rec[i].tunnel # "untested" =>
                           cf.rec[i].verified /\ HasMarker(cf.rec[i])
  /\ Count(cf.rec, LAMBDA r : r.tunnel # "untested")
       = Cardinality(cf.queued) + cf.passed + cf.tfailed + cf.tskipped
  /\ cf.at = "done" =>
       /\ \A i \in Indices : cf.rec[i].score = Score(cf.rec[i], cf.plan.rank)
       /\ \A i, j \in Indices : i < j =>
            /\ RowPrecedes(cf.rec[i], cf.rec[j])
            /\ cf.rec[j].tunnel = "passed" => cf.rec[i].tunnel = "passed"
            /\ cf.rec[i].tunnel \in TunnelFailed =>
                 ~(cf.rec[j].tunnel = "untested" /\ HasMarker(cf.rec[j]))
=============================================================================
