------------------------------- MODULE MCTasks -------------------------------
(***************************************************************************)
(* What decides which probes go out and what becomes of their results: the *)
(* Cloudflare scan, the port scan and host discovery, the drawing of       *)
(* addresses, the resolving of a plan, and the pacing of a worker.  They   *)
(* share no state; a behaviour is one of them.                             *)
(***************************************************************************)
EXTENDS Integers

CONSTANT Off             \* a model value: the component is not in the behaviour

VARIABLES cf, ps, hd, dr, pl, pa

vars == << cf, ps, hd, dr, pl, pa >>

\* Three addresses in two /24 blocks; a heap, a full target, and a CLI run.
Block24(a) == a \div 2
Ev(is, us) == [is |-> is, us |-> us]
Plan(cap, limit, fin, batch, samples, tunnel, rank, ui) ==
  [cap |-> cap, limit |-> limit, planned |-> 3, finalists |-> fin, batch |-> batch,
   samples |-> samples, tunnel |-> tunnel, rank |-> rank, ui |-> ui]
Verdict(rung, term, marker) ==
  [rung |-> rung, term |-> term, kbps |-> 0, held |-> FALSE, colo |-> marker, confidence |-> 0]

Cf == INSTANCE CfScan WITH
  Addrs <- 1..3, BlockOf <- Block24, Oversample <- 2, Extra <- 0,
  Plans <- {Plan(3, 0, 2, 1, 1, 1, "balanced", FALSE), Plan(2, 0, 1, 0, 1, 0, "latency", TRUE),
            Plan(3, 2, 2, 1, 1, 1, "throughput", TRUE), Plan(1, 0, 1, 0, 3, 1, "stability", FALSE)},
  SweepEvents <- {Ev("open", 40000), Ev("open", 300000), Ev("refused", 0), Ev("local", 0)},
  TlsEvents <- {Ev("hello", 40000), Ev("alert", 0), Ev("none", 0), Ev("local", 0)},
  RttEvents <- {Ev("open", 40000), Ev("lost", 0), Ev("local", 0)},
  VerifyResults <- {Verdict("EDGE", "SUCCESS", TRUE), Verdict("TCP", "TIMEOUT", FALSE)},
  TunnelResults <- {"passed", "probe", "cancelled"}

Ps == INSTANCE PortScan WITH Ports <- {1, 2, 3}, MaxRetries <- 2

Hd == INSTANCE Discover WITH NHosts <- 3, NPorts <- 2, Batch <- 2, Stalls <- 1,
  Copies <- 2, Junk <- 1, Methods <- {"auto", "icmp", "tcp"}

\* Overlapping, repeated, adjacent and capped prefixes; two short last blocks.
P(af, addr, bits) == [af |-> af, addr |-> addr, bits |-> bits]
RoundFunctions == << [r \in 0..3 |-> (3 * r + 1) % 4], [r \in 0..3 |-> (r * r + 2) % 4],
                     [r \in 0..3 |-> 3 - r], [r \in 0..3 |-> (r + 1) \div 2] >>
Dr == INSTANCE Draw WITH Workers <- {"a", "b"},
  RangeLists <- { << P(4, 3, 2), P(4, 0, 2), P(4, 6, 3), P(4, 6, 3) >>,
                  << P(4, 7, 3), P(6, 8, 1), P(6, 5, 3), P(4, 5, 3), P(6, 9, 4), P(4, 6, 3) >> },
  Selections <- {"uniform", "exact", "blocks"}, Explores <- {1, 3}, Rounds <- RoundFunctions,
  Span <- 2, MaxBlocks <- 4, Attempts <- 1, W4 <- 3, W6 <- 4, CapBits <- 1

Auto == -1
All == -2
Tunnel(on, target, concurrency) == [on |-> on, target |-> target, concurrency |-> concurrency]
Asked == [mode : {"auto", "full", "coverage", "budget", "reachable"}, coverage : {150},
          budget : {70}, reachable : {30}, candidate : {Auto, 40}, finalists : {Auto, All, 20},
          output : {All, 20}, memory : {Auto, 3000000}, scan : {Auto}, verify : {Auto, 40},
          stability : {Auto},
          tunnel : {Tunnel(FALSE, 0, 1), Tunnel(TRUE, All, 3), Tunnel(TRUE, 25, 30)}]
Machines == [total : {1, 25, 1234, 100000}, available : {0, 3500000}, fds : {65, 68, 150, 1024},
             cpus : {1, 5}, mobile : BOOLEAN, mib : {1048576}, candidateBytes : {700},
             candidateFixed : {100}, slotBytes : {20000}, resultBytes : {900},
             verifierFixed : {5000}, tunnelWorker : {65536}, page : {4096}, working : {10000}]
Pl == INSTANCE ScanPlan WITH Requests <- Asked, Environments <- Machines, CoverageScale <- 1000,
  MinCoverage <- 1, FdReserve <- 64, SmallSet <- 100, CandidateFloor <- 64,
  CandidateCeiling <- 900, FinalistsFull <- 60, FinalistsPart <- 30

\* A rate that divides unevenly and one below the workers asked for; a window that
\* learns; a governor that sees heat.  A token is 6/5 of what a millisecond adds at
\* one probe a second, where the code has 1024/1000.
Pace(rate, workers, id, adaptive, rtts, temps, ends) ==
  [rate |-> rate, workers |-> workers, id |-> id, slots |-> 3, adaptive |-> adaptive,
   timeout |-> 15, rtts |-> rtts, temps |-> temps, ends |-> ends]
Pa == INSTANCE Pacing WITH
  Configs <- {Pace(3, 2, 1, TRUE, {0}, {0}, 6), Pace(2, 5, 0, FALSE, {0}, {0}, 6),
              Pace(0, 1, 0, TRUE, {0, 1000, 9000}, {0}, 4),
              Pace(0, 1, 0, FALSE, {0}, {0, 68000, 72000, 83000}, 1)},
  Token <- 6, Second <- 5, Delays <- {0, 1, 3}, WindowFloor <- 1, StartWindow <- 3,
  CutInterval <- 3, Learned <- 2, DeadlineFloor <- 5, ThermalPoll <- 2, MaxWait <- 3,
  MaxClock <- 9, MaxRuns <- 2

Init ==
  \/ Cf!Init /\ ps = Off /\ hd = Off /\ dr = Off /\ pl = Off /\ pa = Off
  \/ Ps!Init /\ cf = Off /\ hd = Off /\ dr = Off /\ pl = Off /\ pa = Off
  \/ Hd!Init /\ cf = Off /\ ps = Off /\ dr = Off /\ pl = Off /\ pa = Off
  \/ Dr!Init /\ cf = Off /\ ps = Off /\ hd = Off /\ pl = Off /\ pa = Off
  \/ Pl!Init /\ cf = Off /\ ps = Off /\ hd = Off /\ dr = Off /\ pa = Off
  \/ Pa!Init /\ cf = Off /\ ps = Off /\ hd = Off /\ dr = Off /\ pl = Off

Next ==
  \/ cf # Off /\ Cf!Next /\ UNCHANGED << ps, hd, dr, pl, pa >>
  \/ ps # Off /\ Ps!Next /\ UNCHANGED << cf, hd, dr, pl, pa >>
  \/ hd # Off /\ Hd!Next /\ UNCHANGED << cf, ps, dr, pl, pa >>
  \/ dr # Off /\ Dr!Next /\ UNCHANGED << cf, ps, hd, pl, pa >>
  \/ pl # Off /\ Pl!Next /\ UNCHANGED << cf, ps, hd, dr, pa >>
  \/ pa # Off /\ Pa!Next /\ UNCHANGED << cf, ps, hd, dr, pl >>

Spec == Init /\ [][Next]_vars

\* The rows and counters of a Cloudflare scan are accounted for (CfScan).
CfInv == cf # Off => Cf!CfInv
\* Results reach the rows they are about, through every sort (CfScan).
RowsAreTheirs == cf # Off => Cf!RowsAreTheirs
\* The counters of a port scan are the ports in each state (PortScan).
PortsInv == ps # Off => Ps!PortsInv
\* A probe is answered at most once, and the silent hosts are asked (Discover).
DiscoverInv == hd # Off => Hd!DiscoverInv
\* Every address of the ranges is drawn exactly once (Draw, Cidr).
DrawsEachOnce == dr # Off => Dr!DrawsEachOnce
\* A resolved plan is consistent and within its budgets (ScanPlan).
PlanFits == pl # Off => Pl!PlanFits
\* The rate, the window and the deadline keep their bounds and starve no one (Pacing).
PacingInv == pa # Off => Pa!PacingInv
=============================================================================
