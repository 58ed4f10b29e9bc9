------------------------------- MODULE Ranking -------------------------------
(***************************************************************************)
(* What the Cloudflare scan ranks its rows by: the samples of a row and    *)
(* their statistics, the score and the final order (src/core/stats.c), and *)
(* the sequential test that says when a row has been measured enough       *)
(* (src/core/sprt.c).  Pure definitions, with the code's own numbers.      *)
(***************************************************************************)
EXTENDS Integers, Sequences, TLC

MaxSamples == 12                         \* QN_MAX_SAMPLES

Lesser(a, b) == IF a <= b THEN a ELSE b
Greater(a, b) == IF a >= b THEN a ELSE b

-----------------------------------------------------------------------------
(* qn_samples: round trips in microseconds, and how many were lost.        *)

NoSamples == [rtt |-> << >>, lost |-> 0]

SamplesAdd(s, us) == IF Len(s.rtt) < MaxSamples
                     THEN [s EXCEPT !.rtt = Append(@, us)] ELSE s
SamplesLost(s) == [s EXCEPT !.lost = Lesser(@ + 1, 255)]

Sorted(s) == SortSeq(s.rtt, LAMBDA a, b : a < b)

SamplesMin(s) == IF s.rtt = << >> THEN 0 ELSE Sorted(s)[1]

Median(s) ==
  LET v == Sorted(s)
      n == Len(v)
  IN IF n = 0 THEN 0
     ELSE IF n % 2 = 1 THEN v[n \div 2 + 1]
     ELSE (v[n \div 2] + v[n \div 2 + 1]) \div 2

P90(s) == LET v == Sorted(s)
              n == Len(v)
          IN IF n = 0 THEN 0 ELSE v[(n * 9 - 1) \div 10 + 1]

DeltaMean(s) ==
  LET n == Len(s.rtt)
      gap[k \in 1..n] == IF k = 1 THEN 0
                         ELSE gap[k - 1] + (IF s.rtt[k] > s.rtt[k - 1]
                                            THEN s.rtt[k] - s.rtt[k - 1]
                                            ELSE s.rtt[k - 1] - s.rtt[k])
  IN IF n < 2 THEN 0 ELSE gap[n] \div (n - 1)

LossPct(s) == LET total == Len(s.rtt) + s.lost
              IN IF total = 0 THEN 100 ELSE (s.lost * 100) \div total

\* qn_rtt_within_baseline
WithinBaseline(base, us) == base # 0 /\ us # 0 /\ us <= base + base \div 2 + 5000

-----------------------------------------------------------------------------
(* Classification of a row, and its score.                                 *)

EdgePoints == [TCP |-> 800, TLS |-> 2200, HTTP |-> 2800,
               EDGE |-> 3400, FLOWING |-> 3700, STABLE |-> 4000]

HasTls(r) == r.term = "SUCCESS" /\ r.rung \in {"TLS", "HTTP", "EDGE", "FLOWING", "STABLE"}
HasMarker(r) == r.term = "SUCCESS" /\ r.rung \in {"EDGE", "FLOWING", "STABLE"}

TunnelFailed == {"config", "start", "socks", "probe", "marker"}
TunnelSkipped == {"missing", "cancelled"}

\* The share of points left when value is that far towards worst.
Quality(value, worst, points) ==
  IF value >= worst THEN 0 ELSE points - (value * points) \div worst
Present(value, quality) == IF value = 0 THEN 0 ELSE quality

EdgeScore(r) == EdgePoints[r.rung] + (IF r.verified /\ r.colo THEN 500 ELSE 0)
LatencyScore(r) == Present(Median(r.samples), Quality(Median(r.samples), 600000, 1500))
                   + Present(P90(r.samples), Quality(P90(r.samples), 900000, 1000))
StabilityScore(r) == Quality(DeltaMean(r.samples), 150000, 750)
                     + (100 - LossPct(r.samples)) * 7
                     + (IF r.rung = "STABLE" /\ r.held THEN 50 ELSE 0)
ConfidenceScore(r) == Lesser(r.confidence, 1000)
ThroughputScore(r) == IF r.kbps >= 100000 THEN 1000 ELSE r.kbps \div 100

TunnelScore(state) == IF state = "passed" THEN 30000
                      ELSE IF state \in TunnelFailed THEN 0 ELSE 15000

\* What the four policies make of the components.
Weigh(policy, edge, latency, stability, confidence, throughput) ==
  CASE policy = "latency" -> edge + latency * 2 + stability \div 2 + confidence \div 2
    [] policy = "stability" -> edge + stability * 2 + latency \div 2 + confidence
    [] policy = "throughput" -> edge + throughput * 3 + latency \div 2 + stability \div 2
    [] OTHER -> edge + latency + stability + confidence + throughput

\* qn_cf_score_policy
Score(r, policy) ==
  IF r.term # "SUCCESS" \/ r.rung = "NONE" THEN 0
  ELSE TunnelScore(r.tunnel)
       + Weigh(policy, EdgeScore(r), LatencyScore(r), StabilityScore(r),
               ConfidenceScore(r), ThroughputScore(r))

\* qn_cf_finalize_rank; the statistics it stores are those of the samples.
FinalizeRank(r, policy) == [r EXCEPT !.score = Score(r, policy)]

\* qn_cf_sort and sort_record_indices: by score, then by address.
RowPrecedes(a, b) == a.score > b.score \/ (a.score = b.score /\ a.addr < b.addr)
CfSort(rec) == SortSeq(rec, RowPrecedes)
SortIndices(rec, idx) == SortSeq(idx, LAMBDA i, j : RowPrecedes(rec[i], rec[j]))

-----------------------------------------------------------------------------
(* The sequential probability ratio test, in thousandths of a nat, for the *)
(* one set of hypotheses the scan uses: 500 against 900 in a thousand,     *)
(* with 50 in a thousand for either error.                                 *)

SprtUp == 587
SprtDown == -1610
SprtAccept == 2944
SprtReject == -2945
SprtMin == 3

SprtInit(nmax) == [n |-> 0, llr |-> 0, nmax |-> Greater(nmax, SprtMin)]

SprtStatus(t) ==
  IF t.n < SprtMin THEN "continue"
  ELSE IF t.llr >= SprtAccept THEN "accept"
  ELSE IF t.llr <= SprtReject THEN "reject"
  ELSE IF t.n >= t.nmax THEN IF t.llr >= 0 THEN "accept" ELSE "reject"
  ELSE "continue"

SprtPush(t, good) ==
  [t EXCEPT !.n = Lesser(@ + 1, 65535),
            !.llr = Greater(-1000000, Lesser(1000000,
                      @ + (IF good THEN SprtUp ELSE SprtDown)))]
=============================================================================
