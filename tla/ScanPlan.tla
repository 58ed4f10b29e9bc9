------------------------------ MODULE ScanPlan ------------------------------
(***************************************************************************)
(* qn_scan_plan_resolve of src/core/scan_plan.c: from what the user asked  *)
(* (req) and what the machine offers (env) to the numbers every later      *)
(* stage allocates and counts by.  A request field that the code pairs     *)
(* with an _auto or _all flag is Auto or All here.  The 64-bit sums cannot *)
(* overflow for the 32-bit counts that validation admits.                  *)
(***************************************************************************)
EXTENDS Integers, FiniteSetsExt

CONSTANTS Requests, Environments,
          CoverageScale, MinCoverage,   \* 1000000 and 100 in the code
          FdReserve,                    \* QN_PLAN_FD_RESERVE, 64
          SmallSet, CandidateFloor, CandidateCeiling,   \* 65536, 4096, 65536
          FinalistsFull, FinalistsPart  \* 1024 and 256

VARIABLE pl

Auto == -1
All == -2
Error == [valid |-> FALSE]

Given(v) == v \notin {Auto, All}
UpTo(v, most) == IF v > most THEN most ELSE v
AtLeast(v, least) == IF v < least THEN least ELSE v
CeilDiv(a, b) == (a + b - 1) \div b
RoundUp(a, page) == CeilDiv(a, page) * page

\* qn_scan_request_validate
Valid(r) ==
  /\ r.coverage \in MinCoverage..CoverageScale
  /\ r.mode = "budget" => r.budget > 0
  /\ r.mode = "reachable" => r.reachable > 0
  /\ r.candidate # 0 /\ r.finalists # 0 /\ r.output # 0 /\ r.memory # 0
  /\ Given(r.candidate) /\ Given(r.finalists) => r.finalists <= r.candidate
  /\ r.mode = "reachable" /\ Given(r.candidate) => r.reachable <= r.candidate
  /\ r.scan # 0 /\ r.verify # 0 /\ r.stability # 0
  /\ r.tunnel.on => r.tunnel.target # 0 /\ r.tunnel.concurrency \in 1..32

\* qn_coverage_count: whole scales first, then the rest, rounded up.
CoverageCount(total, coverage) ==
  (total \div CoverageScale) * coverage
    + CeilDiv((total % CoverageScale) * coverage, CoverageScale)

\* resolve_scope
Scope(r, e) ==
  LET mode == IF r.mode # "auto" THEN r.mode
              ELSE IF e.total <= SmallSet THEN "full" ELSE "coverage"
      coverage == IF r.mode = "auto" THEN CoverageScale \div 10 ELSE r.coverage
      planned == CASE mode = "coverage" -> CoverageCount(e.total, coverage)
                   [] mode = "budget" -> UpTo(r.budget, e.total)
                   [] OTHER -> e.total
  IN [ok |-> mode = "reachable" => r.reachable <= e.total,
      planned |-> planned, reachable |-> IF mode = "reachable" THEN r.reachable ELSE 0,
      full |-> \/ mode = "full"
               \/ mode = "coverage" /\ coverage = CoverageScale
               \/ mode = "budget" /\ planned = e.total]

AutoScan(e) == UpTo(32 * AtLeast(e.cpus, 1), IF e.fds > FdReserve THEN e.fds - FdReserve ELSE 1)
AutoVerify(e) == UpTo(AtLeast(4 * AtLeast(e.cpus, 1), IF e.mobile THEN 4 ELSE 8),
                      IF e.mobile THEN 32 ELSE 64)
AutoStability(e) == UpTo(32 * AtLeast(e.cpus, 1), IF e.mobile THEN 128 ELSE 512)
AutoMemory(e) ==
  LET preferred == (IF e.mobile THEN 128 ELSE 256) * e.mib IN
  IF e.available = 0 THEN preferred ELSE UpTo(preferred, e.available \div 2)

TunnelFds(r) == IF r.tunnel.on THEN 3 * r.tunnel.concurrency ELSE 0

\* Mutant: an automatic verifier keeps its slots when descriptors are short.
ConcurrencyUnchecked(r, e) ==
  LET scan == IF r.scan = Auto THEN AutoScan(e) ELSE r.scan
      verify == IF r.verify = Auto THEN AutoVerify(e) ELSE r.verify
      stability == IF r.stability = Auto THEN AutoStability(e) ELSE r.stability
      phase == Max({verify + stability, TunnelFds(r), scan})
  IN [ok |-> e.fds >= FdReserve + 2, scan |-> scan, verify |-> verify,
      stability |-> stability, fds |-> FdReserve + phase]
\* resolve_concurrency
Concurrency(r, e) ==
  LET room == IF e.fds > FdReserve THEN e.fds - FdReserve ELSE 0
      verify0 == IF r.verify = Auto THEN AutoVerify(e) ELSE r.verify
      stability0 == IF r.stability = Auto THEN AutoStability(e) ELSE r.stability
      tight == verify0 + stability0 > room
      stability == IF ~tight THEN stability0
                   ELSE IF room > verify0 THEN room - verify0 ELSE 1
      verify == IF tight /\ verify0 + stability > room THEN room - 1 ELSE verify0
      scan == UpTo(IF r.scan = Auto THEN AutoScan(e) ELSE r.scan, room)
  IN [ok |-> /\ room >= 2 /\ TunnelFds(r) <= room
             /\ tight => r.verify = Auto /\ r.stability = Auto
             /\ r.scan # Auto => r.scan <= room,
      scan |-> scan, verify |-> verify, stability |-> stability,
      fds |-> FdReserve + Max({verify + stability, TunnelFds(r), scan})]

\* The automatic candidate capacity, before the memory is added up.
AutoCandidate(s, e, memory) ==
  LET byMemory == UpTo((memory \div 2) \div e.candidateBytes, CandidateCeiling)
      wanted == AtLeast(byMemory, s.reachable)
  IN UpTo(IF s.planned >= CandidateFloor THEN AtLeast(wanted, CandidateFloor) ELSE wanted,
          s.planned)

\* memory_estimate
Estimate(p, e) ==
  LET verifier == (p.verify + p.stability) * e.slotBytes + p.batch * e.resultBytes
                    + e.verifierFixed
      tunnel == IF p.tunnelTarget = 0 THEN 0
                ELSE p.tunnelConcurrency
                       * (e.slotBytes + e.resultBytes + e.verifierFixed + e.tunnelWorker)
      candidate == RoundUp(p.candidate * e.candidateBytes + e.candidateFixed, e.page)
      working == RoundUp(e.working, e.page)
  IN [transient |-> Max({verifier, tunnel}), working |-> working,
      total |-> candidate + Max({verifier, tunnel}) + working]

\* The memory does not hold the automatic capacity: candidates are what is left.
Shrunk(p, candidate) ==
  LET finalists == UpTo(p.finalists, candidate) IN
  [p EXCEPT !.candidate = candidate, !.finalists = finalists,
            !.output = UpTo(@, finalists), !.batch = UpTo(@, finalists), !.shrunk = TRUE]

Adjusted(p, r, e) ==
  LET est == Estimate(p, e)
      fixed == est.working + est.transient
      left == ((p.memory - fixed) \div e.page) * e.page
      candidate == UpTo((left - e.candidateFixed) \div e.candidateBytes, p.planned)
      q == Shrunk(p, candidate)
  IN IF est.total <= p.memory THEN p
     ELSE IF \/ r.candidate # Auto \/ fixed + e.candidateFixed >= p.memory
             \/ left <= e.candidateFixed \/ candidate < p.reachable \/ candidate = 0
             \/ p.finalists > candidate /\ Given(r.finalists)
             \/ Estimate(q, e).total > p.memory
          THEN Error
     ELSE q

\* qn_scan_plan_resolve
Resolve(r, e) ==
  LET s == Scope(r, e)
      c == Concurrency(r, e)
      memory == IF r.memory = Auto THEN AutoMemory(e) ELSE r.memory
      candidate == IF r.candidate = Auto THEN AutoCandidate(s, e, memory) ELSE r.candidate
      finalists == CASE r.finalists = All -> candidate
                     [] r.finalists = Auto ->
                          UpTo(candidate, IF s.full THEN FinalistsFull ELSE FinalistsPart)
                     [] OTHER -> r.finalists
      target == IF ~r.tunnel.on THEN 0
                ELSE IF r.tunnel.target = All THEN finalists ELSE UpTo(r.tunnel.target, finalists)
      p == [valid |-> TRUE, planned |-> s.planned, reachable |-> s.reachable, full |-> s.full,
            scan |-> c.scan, verify |-> c.verify, stability |-> c.stability, fds |-> c.fds,
            memory |-> memory, candidate |-> candidate, finalists |-> finalists,
            tunnelTarget |-> target, tunnelConcurrency |-> UpTo(r.tunnel.concurrency, target),
            output |-> IF r.output = All THEN finalists ELSE UpTo(r.output, finalists),
            batch |-> UpTo(AtLeast(4 * c.verify, 32), finalists), shrunk |-> FALSE]
  IN IF ~Valid(r) THEN Error
     ELSE IF ~s.ok \/ ~c.ok \/ memory = 0 \/ candidate = 0 THEN Error
     ELSE IF s.reachable > candidate \/ finalists > candidate THEN Error
     ELSE Adjusted(p, r, e)

Init == \E r \in Requests, e \in Environments : pl = [at |-> "asked", req |-> r, env |-> e, plan |-> Error]

Next ==
  \/ pl.at = "asked" /\ pl' = [pl EXCEPT !.at = "resolved", !.plan = Resolve(pl.req, pl.env)]
  \/ pl.at = "resolved" /\ UNCHANGED pl

-----------------------------------------------------------------------------
\* The plan that every stage allocates and counts by is consistent: the
\* capacities are ordered, each stage fits the descriptors and the memory the
\* plan says it has, what the user fixed is used as it was given, and coverage
\* is the smallest number of addresses that reaches the asked share.  Only
\* memory adjustment may leave a tunnel target above the finalists.
PlanFits ==
  LET r == pl.req  e == pl.env  p == pl.plan IN
  p.valid =>
    /\ 1 <= p.output /\ p.output <= p.finalists /\ p.finalists <= p.candidate
    /\ p.batch \in 1..p.finalists
    /\ p.planned \in 1..e.total /\ (p.full => p.planned = e.total)
    /\ p.reachable <= p.candidate
    /\ r.candidate = Auto => p.candidate <= p.planned
    /\ p.verify > 0 /\ p.stability > 0 /\ p.scan > 0
    /\ p.verify + p.stability + FdReserve <= e.fds /\ p.scan + FdReserve <= e.fds
    /\ TunnelFds(r) + FdReserve <= e.fds /\ p.fds <= e.fds
    /\ Estimate(p, e).total <= p.memory
    /\ Given(r.candidate) => p.candidate = r.candidate
    /\ Given(r.finalists) => p.finalists = r.finalists
    /\ Given(r.verify) => p.verify = r.verify
    /\ r.tunnel.on => /\ p.tunnelConcurrency \in 1..p.tunnelTarget
                      /\ p.tunnelTarget <= p.finalists \/ p.shrunk
    /\ r.mode = "coverage" =>
         /\ p.planned * CoverageScale >= e.total * r.coverage
         /\ (p.planned - 1) * CoverageScale < e.total * r.coverage
=============================================================================
