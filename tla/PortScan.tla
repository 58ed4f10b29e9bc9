------------------------------ MODULE PortScan ------------------------------
(***************************************************************************)
(* The port scan of src/task/task_ports.c: a sweep of the ports, rounds    *)
(* that confirm the silent ones, banners of the open ones.  The engine     *)
(* gives each job of a phase at most one event, in any order, and drops    *)
(* or cancels what is left when the user stops it (module Engine).         *)
(***************************************************************************)
EXTENDS Integers, Sequences, FiniteSets, SequencesExt

CONSTANTS Ports,         \* the ports asked for, without repeats
          MaxRetries     \* bound: cfg->retries

VARIABLE ps              \* the port_scan, and where its caller is

States == {"UNKNOWN", "OPEN", "CLOSED", "FILTERED", "UNREACHABLE", "RESET",
           "LOCAL_ERROR", "CANCELLED"}
Results == {"OPEN", "REFUSED", "TIMEOUT", "UNREACH", "RESET", "ERROR"}

InState(st) == {p \in Ports : ps.pstate[p] = st}

\* port_scan_init
Init ==
  \E r \in 0..MaxRetries :
    ps = [retries |-> r, at |-> "next", step |-> -1, phase |-> "SWEEP", round |-> 0,
          todo |-> {}, pstate |-> [p \in Ports |-> "UNKNOWN"], open |-> << >>,
          scanned |-> 0, refused |-> 0, filtered |-> 0, unreachable |-> 0,
          reset |-> 0, localErrors |-> 0, cancelled |-> 0]

Moved(s, p, st) == [s EXCEPT !.pstate[p] = st]

\* Mutant: a port that answers a retry is still counted as filtered.
UnfilteredKept(s, p) == s
\* A port that was silent is so no longer.
Unfiltered(s, p) == IF s.pstate[p] = "FILTERED" /\ s.filtered > 0
                    THEN [s EXCEPT !.filtered = @ - 1] ELSE s

Undecided(s, p) == s.pstate[p] \in {"UNKNOWN", "FILTERED"}

\* ps_record_open
RecordOpen(s, p) == IF Len(s.open) >= Cardinality(Ports) THEN s
                    ELSE [s EXCEPT !.open = Append(@, [port |-> p, banner |-> 0])]

\* ps_on_result
Judged(s, p, res) ==
  CASE res = "OPEN" -> IF s.pstate[p] = "OPEN" THEN s
                       ELSE RecordOpen(Moved(Unfiltered(s, p), p, "OPEN"), p)
    [] res = "REFUSED" -> IF s.pstate[p] = "CLOSED" THEN s
                          ELSE [Moved(Unfiltered(s, p), p, "CLOSED") EXCEPT !.refused = @ + 1]
    [] res = "TIMEOUT" -> IF s.pstate[p] # "UNKNOWN" THEN s
                          ELSE [Moved(s, p, "FILTERED") EXCEPT !.filtered = @ + 1]
    [] ~Undecided(s, p) -> s
    [] res = "UNREACH" -> [Moved(Unfiltered(s, p), p, "UNREACHABLE")
                             EXCEPT !.unreachable = @ + 1]
    [] res = "RESET" -> [Moved(Unfiltered(s, p), p, "RESET") EXCEPT !.reset = @ + 1]
    [] OTHER -> [Moved(Unfiltered(s, p), p, "LOCAL_ERROR") EXCEPT !.localErrors = @ + 1]

OnResult(p, res) ==
  /\ ps.at \in {"engine", "stopping"} /\ ps.phase \in {"SWEEP", "RETRY"} /\ p \in ps.todo
  /\ ps' = Judged([ps EXCEPT !.todo = @ \ {p}, !.scanned = @ + 1], p, res)

OnCancelled(p) ==
  /\ ps.at = "stopping" /\ ps.phase \in {"SWEEP", "RETRY"} /\ p \in ps.todo
  /\ ps' = [ps EXCEPT !.todo = @ \ {p}, !.cancelled = @ + 1,
                      !.pstate[p] = IF @ = "UNKNOWN" THEN "CANCELLED" ELSE @]

\* ps_on_banner: token i is the place of the port in open; no body, no banner.
OnBanner(i, body) ==
  /\ ps.at \in {"engine", "stopping"} /\ ps.phase = "BANNER" /\ i \in ps.todo
  /\ ps' = [ps EXCEPT !.todo = @ \ {i}, !.open[i].banner = IF body THEN ps.open[i].port ELSE @]

-----------------------------------------------------------------------------
(* port_scan_next_phase, and its callers.                                  *)

StartSweep ==
  /\ ps.at = "next" /\ ps.step = -1
  /\ ps' = [ps EXCEPT !.step = 0, !.at = "engine", !.todo = Ports]

\* ps_build_retry: only what stayed silent is asked again.
RetrySet == InState("FILTERED")

StartRetry ==
  /\ ps.at = "next" /\ ps.step >= 0 /\ ps.round < ps.retries /\ RetrySet # {}
  /\ ps' = [ps EXCEPT !.round = @ + 1, !.phase = "RETRY", !.todo = RetrySet, !.at = "engine"]

NoRetry == ps.at = "next" /\ ps.step >= 0 /\ (ps.round = ps.retries \/ RetrySet = {})

StartBanner ==
  /\ NoRetry /\ ps.phase # "BANNER" /\ ps.open # << >>
  /\ ps' = [ps EXCEPT !.round = ps.retries, !.phase = "BANNER",
                      !.todo = DOMAIN ps.open, !.at = "engine"]

PhasesOver ==
  /\ NoRetry /\ (ps.phase = "BANNER" \/ ps.open = << >>)
  /\ ps' = [ps EXCEPT !.round = ps.retries, !.phase = "DONE", !.at = "finish"]

\* A local failure among the results makes the run a failed one, which ends the scan.
EndPhase ==
  /\ ps.at = "engine" /\ ps.todo = {}
  /\ ps' = [ps EXCEPT !.at = IF ps.localErrors > 0 THEN "finish" ELSE "next"]

Stop == ps.at = "engine" /\ ps' = [ps EXCEPT !.at = "stopping"]

Stopped == ps.at = "stopping" /\ ps' = [ps EXCEPT !.todo = {}, !.at = "finish"]

\* port_scan_finish
Finish ==
  /\ ps.at = "finish"
  /\ ps' = [ps EXCEPT !.phase = "DONE", !.at = "done",
                      !.open = SetToSortSeq(ToSet(@), LAMBDA a, b : a.port < b.port)]

Done == ps.at = "done" /\ UNCHANGED ps

Next ==
  \/ \E p \in Ports : OnCancelled(p) \/ \E res \in Results : OnResult(p, res)
  \/ \E i \in DOMAIN ps.open, body \in BOOLEAN : OnBanner(i, body)
  \/ StartSweep \/ StartRetry \/ StartBanner \/ PhasesOver
  \/ EndPhase \/ Stop \/ Stopped \/ Finish \/ Done

-----------------------------------------------------------------------------
TypeOK ==
  /\ ps.pstate \in [Ports -> States] /\ ps.round \in 0..ps.retries
  /\ ps.at \in {"next", "engine", "stopping", "finish", "done"}
  /\ ps.phase \in {"SWEEP", "RETRY", "BANNER", "DONE"}

\* Through sweep, confirming rounds and a stop at any moment, every counter of
\* port_scan is the number of ports in that state (a port whose retry was
\* cancelled stays filtered and is counted as cancelled too); open holds each
\* open port once, with its own banner; a port that has been decided is never
\* probed again; and a scan that was not stopped leaves no port undecided
\* except the ones that stayed silent in every round.
PortsInv ==
  /\ TypeOK
  /\ ps.filtered = Cardinality(InState("FILTERED"))
  /\ ps.refused = Cardinality(InState("CLOSED"))
  /\ ps.unreachable = Cardinality(InState("UNREACHABLE"))
  /\ ps.reset = Cardinality(InState("RESET"))
  /\ ps.localErrors = Cardinality(InState("LOCAL_ERROR"))
  /\ ps.cancelled >= Cardinality(InState("CANCELLED"))
  /\ {ps.open[i].port : i \in DOMAIN ps.open} = InState("OPEN")
  /\ Len(ps.open) = Cardinality(InState("OPEN"))
  /\ \A i \in DOMAIN ps.open : ps.open[i].banner \in {0, ps.open[i].port}
  /\ ps.phase \in {"SWEEP", "RETRY"} => \A p \in ps.todo : Undecided(ps, p)
  /\ ps.phase = "DONE" /\ ps.at = "finish" => InState("UNKNOWN") \cup InState("CANCELLED") = {}
  /\ ps.scanned >= Cardinality(Ports \ (InState("UNKNOWN") \cup InState("CANCELLED")))
=============================================================================
