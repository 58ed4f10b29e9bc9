---------------------------- MODULE TunnelStage ----------------------------
(***************************************************************************)
(* The tunnel stage (src/task/task_cf.c cf_scan_tunnel and tunnel_worker,  *)
(* src/net/tunnel_runtime.c qn_tunnel_run): worker threads take candidates *)
(* from a shared counter and, for each, lease a loopback port, write a     *)
(* private config, have it checked by a child, start Xray on the port,     *)
(* probe through it, and clean up.  Several scanners may run on the same   *)
(* machine: their port sequences start at the same number and they share   *)
(* the loopback ports.                                                     *)
(***************************************************************************)
EXTENDS Naturals, FiniteSets

CONSTANTS Procs,        \* running scanners
          Threads,      \* worker threads of each (tunnel_concurrency)
          Count,        \* candidates queued in each
          MaxAttempts,  \* tunnel_attempts
          Span,         \* XRAY_PORT_SPAN
          MaxTurns,     \* bound: turns of socks_ready before its deadline
          AllowCancel   \* the user may cancel

ASSUME StageAssumption ==
    /\ IsFiniteSet(Procs) /\ IsFiniteSet(Threads)
    /\ {Count, MaxAttempts, Span, MaxTurns} \subseteq Nat \ {0}
    /\ Threads # {} /\ Cardinality(Threads) <= Count    \* workers = min(.., count)
    /\ "main" \notin Threads
    /\ AllowCancel \in BOOLEAN

VARIABLES stage,    \* stage[p]: "start", "run", "inline", "end"
          created,  \* created[p]: threads that pthread_create started
          outcome,  \* outcome[p]: tunnel_outcome
          next,     \* next[p]: the shared candidate counter
          seq,      \* seq[p]: port_sequence, as an offset modulo Span
          cancel,   \* cancel[p]
          rec,      \* rec[p][i]: the record's tunnel_state
          queued, passed, failed, skipped,   \* the stage's counters
          w,        \* w[p][t]: a worker; the thread "main" runs the inline worker
          inherit   \* inherit[p][t]: ports a forked, not yet executing child holds

vars == <<stage, created, outcome, next, seq, cancel, rec, queued, passed, failed, skipped,
          w, inherit>>
pool == <<stage, created, outcome, next, rec, queued, passed, failed, skipped>>

Items == 1..Count
Ports == 0..Span-1
All == Threads \cup {"main"}
Skips == {"BINARY_MISSING", "CANCELLED"}
Fails == {"CONFIG_INVALID", "START_FAILED", "SOCKS_FAILED", "PROBE_FAILED", "NO_MARKER"}
Terminal == {"PASSED"} \cup Skips \cup Fails
NoOne == <<"none", "none">>
Fresh == [pc |-> "off", item |-> 0, att |-> 0, turn |-> 0, port |-> 0, lease |-> FALSE,
          file |-> FALSE, child |-> "none", via |-> NoOne, res |-> "none"]

Init ==
    /\ stage = [p \in Procs |-> "start"]
    /\ created = [p \in Procs |-> {}]
    /\ outcome = [p \in Procs |-> "INCOMPLETE"]
    /\ next = [p \in Procs |-> 0] /\ seq = [p \in Procs |-> 0]
    /\ cancel = [p \in Procs |-> FALSE]
    /\ rec = [p \in Procs |-> [i \in Items |-> "UNTESTED"]]
    /\ passed = [p \in Procs |-> 0] /\ failed = [p \in Procs |-> 0]
    /\ skipped = [p \in Procs |-> 0] /\ queued = [p \in Procs |-> 0]
    /\ w = [p \in Procs |-> [t \in All |-> Fresh]]
    /\ inherit = [p \in Procs |-> [t \in All |-> {}]]

(***************************************************************************)
(* The loopback ports.  A port is taken by an open lease, by a child that  *)
(* listens on it, or by a copy of a lease in a child that has not closed   *)
(* its inherited descriptors yet.                                          *)
(***************************************************************************)
Listens(q, u, port) == w[q][u].child = "up" /\ w[q][u].port = port
Taken(port) ==
    \E q \in Procs, u \in All :
        \/ w[q][u].lease /\ w[q][u].port = port
        \/ Listens(q, u, port)
        \/ port \in inherit[q][u]

(* What a child forked by thread t finds open: every lease of its process.      *)
OpenLeases(p) == {w[p][u].port : u \in {x \in All : w[p][x].lease}}

(***************************************************************************)
(* cf_scan_tunnel up to the start of the workers.                          *)
(***************************************************************************)
(* The whole queue is committed with one result, and the stage ends.           *)
CommitAll(p, res, out) ==
    /\ rec' = [rec EXCEPT ![p] = [i \in Items |-> res]]
    /\ queued' = [queued EXCEPT ![p] = Count]
    /\ IF res \in Skips THEN skipped' = [skipped EXCEPT ![p] = Count] /\ UNCHANGED failed
                        ELSE failed' = [failed EXCEPT ![p] = Count] /\ UNCHANGED skipped
    /\ outcome' = [outcome EXCEPT ![p] = out]
    /\ stage' = [stage EXCEPT ![p] = "end"]
    /\ UNCHANGED <<created, next, passed, w>>

(* The stage ends before anything is queued: the link does not parse or there   *)
(* is no memory for the selection (FAILED), or no record has a marker.          *)
EndUnqueued(p, out) ==
    /\ outcome' = [outcome EXCEPT ![p] = out]
    /\ stage' = [stage EXCEPT ![p] = "end"]
    /\ UNCHANGED <<created, next, rec, queued, passed, failed, skipped, w>>

(* pthread_create stops at the first failure: threads are interchangeable, so    *)
(* any subset stands for a prefix.                                              *)
StartThreads(p) ==
    \E c \in SUBSET Threads :
        /\ created' = [created EXCEPT ![p] = c]
        /\ rec' = [rec EXCEPT ![p] = [i \in Items |-> "QUEUED"]]
        /\ queued' = [queued EXCEPT ![p] = Count]
        /\ w' = [w EXCEPT ![p] = [t \in All |->
                    IF t \in c THEN [Fresh EXCEPT !.pc = "take"] ELSE Fresh]]
        /\ stage' = [stage EXCEPT ![p] = "run"]
        /\ UNCHANGED <<outcome, next, passed, failed, skipped>>

(* qn_xray_find: a path that was given is usable or not; only a search of PATH     *)
(* can come back empty.                                                           *)
XrayFind(given) ==
    {"found", "CONFIG_INVALID"} \cup IF given THEN {} ELSE {"BINARY_MISSING"}

StartStage(p) ==
    /\ stage[p] = "start"
    /\ \/ EndUnqueued(p, "FAILED")
       \/ EndUnqueued(p, "INCOMPLETE")
       \/ \E r \in XrayFind(FALSE) \ {"found"} :
             CommitAll(p, r, IF r = "BINARY_MISSING" THEN "INCOMPLETE" ELSE "FAILED")
       \/ CommitAll(p, "START_FAILED", "FAILED")         \* no memory for the threads
       \/ StartThreads(p)
    /\ UNCHANGED <<seq, cancel, inherit>>

(* The joins have returned: some threads were never created and the caller      *)
(* works through what is left, or the stage is over.                           *)
Joined(p) == \A t \in created[p] : w[p][t].pc = "done"

FinalOutcome(p) ==
    IF cancel[p] THEN "CANCELLED"
    ELSE IF passed[p] = Count THEN "SUCCESS" ELSE "INCOMPLETE"

Join(p) ==
    /\ stage[p] = "run" /\ Joined(p)
    /\ IF created[p] = Threads
       THEN /\ stage' = [stage EXCEPT ![p] = "end"]
            /\ outcome' = [outcome EXCEPT ![p] = FinalOutcome(p)]
            /\ UNCHANGED w
       ELSE /\ stage' = [stage EXCEPT ![p] = "inline"]
            /\ w' = [w EXCEPT ![p]["main"].pc = "take"]
            /\ UNCHANGED outcome
    /\ UNCHANGED <<created, next, rec, queued, passed, failed, skipped, seq, cancel, inherit>>

InlineEnds(p) ==
    /\ stage[p] = "inline" /\ w[p]["main"].pc = "done"
    /\ stage' = [stage EXCEPT ![p] = "end"]
    /\ outcome' = [outcome EXCEPT ![p] = "FAILED"]
    /\ UNCHANGED <<created, next, rec, queued, passed, failed, skipped, seq, cancel, w, inherit>>

(***************************************************************************)
(* tunnel_worker and qn_tunnel_run.                                        *)
(***************************************************************************)
Set(p, t, k) == w' = [w EXCEPT ![p][t] = k]
At(p, t, pc) == w[p][t].pc = pc
OnlyW == UNCHANGED <<pool, seq, cancel, inherit>>

(* Two threads may read the counter before either writes it back.               *)
TakeStale(p, t) ==
    /\ At(p, t, "take")
    /\ IF next[p] >= Count
       THEN Set(p, t, [Fresh EXCEPT !.pc = "done"]) /\ UNCHANGED next
       ELSE /\ Set(p, t, [Fresh EXCEPT !.pc = "find", !.item = next[p] + 1])
            /\ next' \in {next, [next EXCEPT ![p] = @ + 1]}
    /\ UNCHANGED <<stage, created, outcome, seq, cancel, rec, queued, passed, failed, skipped,
                   inherit>>

Take(p, t) ==
    /\ At(p, t, "take")
    /\ next' = [next EXCEPT ![p] = @ + 1]
    /\ Set(p, t, IF next[p] >= Count THEN [Fresh EXCEPT !.pc = "done"]
                 ELSE [Fresh EXCEPT !.pc = "find", !.item = next[p] + 1])
    /\ UNCHANGED <<stage, created, outcome, seq, cancel, rec, queued, passed, failed, skipped,
                   inherit>>

(* qn_tunnel_run looks for Xray again, for every candidate.  It is given the path  *)
(* the stage resolved, so an executable that has gone is an unusable path, not a   *)
(* missing binary.                                                                *)
Find(p, t) ==
    /\ At(p, t, "find")
    /\ \E r \in XrayFind(TRUE) :
          Set(p, t, IF r = "found" THEN [w[p][t] EXCEPT !.pc = "attempt"]
                    ELSE [w[p][t] EXCEPT !.res = r, !.pc = "commit"])
    /\ OnlyW

(* The head of the attempt loop; a cancellation ends the candidate here.         *)
Attempt(p, t) ==
    /\ At(p, t, "attempt")
    /\ LET k == [w[p][t] EXCEPT !.att = @ + 1, !.turn = 0]
       IN  Set(p, t, IF cancel[p] THEN [k EXCEPT !.res = "CANCELLED", !.pc = "commit"]
                     ELSE [k EXCEPT !.pc = "reserve"])
    /\ OnlyW

(* The sequence is read but not advanced.                                        *)
ReserveStuck(p, t) ==
    /\ At(p, t, "reserve")
    /\ Set(p, t, [w[p][t] EXCEPT !.port = seq[p], !.pc = "bind"])
    /\ OnlyW

(* reserve_port: the next number of the sequence, then a bind, at most once      *)
(* around the span.                                                             *)
Reserve(p, t) ==
    /\ At(p, t, "reserve")
    /\ seq' = [seq EXCEPT ![p] = (@ + 1) % Span]
    /\ Set(p, t, [w[p][t] EXCEPT !.port = seq[p], !.pc = "bind"])
    /\ UNCHANGED <<pool, cancel, inherit>>

(* The bind takes a free port.  Otherwise the next number is tried; a socket       *)
(* error or a full round ends the attempt.                                        *)
Bind(p, t) ==
    /\ At(p, t, "bind")
    /\ LET k == w[p][t]
       IN  \/ /\ ~Taken(k.port)
              /\ Set(p, t, [k EXCEPT !.lease = TRUE, !.turn = 0, !.pc = "config"])
           \/ /\ Taken(k.port) /\ k.turn + 1 < Span
              /\ Set(p, t, [k EXCEPT !.turn = @ + 1, !.pc = "reserve"])
           \/ Set(p, t, [k EXCEPT !.res = "START_FAILED", !.pc = "decide"])
    /\ OnlyW

(* No memory for the config (the only early return that holds a lease), a link     *)
(* that cannot be built, or a config in memory.                                   *)
Config(p, t) ==
    /\ At(p, t, "config")
    /\ \/ Set(p, t, [w[p][t] EXCEPT !.lease = FALSE, !.res = "START_FAILED", !.pc = "decide"])
       \/ Set(p, t, [w[p][t] EXCEPT !.res = "CONFIG_INVALID", !.pc = "out"])
       \/ Set(p, t, [w[p][t] EXCEPT !.pc = "temp"])
    /\ OnlyW

(* create_private_config: a file that cannot be completed is unlinked at once.     *)
WriteConfig(p, t) ==
    /\ At(p, t, "temp")
    /\ \/ Set(p, t, [w[p][t] EXCEPT !.res = "START_FAILED", !.pc = "out"])
       \/ Set(p, t, [w[p][t] EXCEPT !.file = TRUE, !.pc = "check"])
    /\ OnlyW

(* config_check: fork; the child holds copies of this process's leases until it   *)
(* closes them, and is always reaped before the check returns.  A failed fork,    *)
(* a rejected config and a check that takes too long are all an invalid config.   *)
CheckForks(p, t) ==
    /\ At(p, t, "check")
    /\ Set(p, t, [w[p][t] EXCEPT !.child = "check", !.pc = "checking"])
    /\ inherit' = [inherit EXCEPT ![p][t] = OpenLeases(p)]
    /\ UNCHANGED <<pool, seq, cancel>>

CheckEnds(p, t) ==
    /\ At(p, t, "checking")
    /\ inherit' = [inherit EXCEPT ![p][t] = {}]
    /\ \/ Set(p, t, [w[p][t] EXCEPT !.child = "none", !.pc = "spawn"])
       \/ Set(p, t, [w[p][t] EXCEPT !.child = "none", !.pc = "out",
                        !.res = IF cancel[p] THEN "CANCELLED" ELSE "CONFIG_INVALID"])
    /\ UNCHANGED <<pool, seq, cancel>>

(* release_port, then fork of the Xray child (which may fail).                    *)
ReleasePort(p, t) ==
    /\ At(p, t, "spawn") /\ w[p][t].lease
    /\ Set(p, t, [w[p][t] EXCEPT !.lease = FALSE])
    /\ OnlyW

Spawn(p, t) ==
    /\ At(p, t, "spawn") /\ ~w[p][t].lease
    /\ \/ /\ Set(p, t, [w[p][t] EXCEPT !.child = "starting", !.pc = "ready"])
          /\ inherit' = [inherit EXCEPT ![p][t] = OpenLeases(p)]
       \/ /\ Set(p, t, [w[p][t] EXCEPT !.res = "START_FAILED", !.pc = "out"])
          /\ UNCHANGED inherit
    /\ UNCHANGED <<pool, seq, cancel>>

(* socks_ready, one turn of its loop: an exited child is reaped, then a             *)
(* cancellation is seen.                                                          *)
SocksWait(p, t) ==
    /\ At(p, t, "ready")
    /\ Set(p, t, IF w[p][t].child = "dead"
                 THEN [w[p][t] EXCEPT !.child = "none", !.res = "START_FAILED", !.pc = "out"]
                 ELSE IF cancel[p] THEN [w[p][t] EXCEPT !.res = "CANCELLED", !.pc = "out"]
                 ELSE [w[p][t] EXCEPT !.pc = "connect"])
    /\ OnlyW

(* The readiness loop has no deadline.                                            *)
SocksConnectForever(p, t) ==
    /\ At(p, t, "connect")
    /\ Set(p, t, [w[p][t] EXCEPT !.pc =
                     IF \E q \in Procs, u \in All : Listens(q, u, w[p][t].port)
                     THEN "probe" ELSE "ready"])
    /\ OnlyW

(* The second half of the turn: a TCP connection to the port, whoever listens       *)
(* there, ends the loop; after a failed one the deadline may.                      *)
SocksConnect(p, t) ==
    /\ At(p, t, "connect")
    /\ LET k == w[p][t]
       IN  \/ /\ \E q \in Procs, u \in All : Listens(q, u, k.port)
              /\ Set(p, t, [k EXCEPT !.pc = "probe"])
           \/ /\ k.turn + 1 < MaxTurns
              /\ Set(p, t, [k EXCEPT !.turn = @ + 1, !.pc = "ready"])
           \/ Set(p, t, [k EXCEPT !.res = "START_FAILED", !.pc = "out"])
    /\ OnlyW

(* classify_probe: what an answer that proves no tunnel is called.                  *)
Unproved == {"SOCKS_FAILED", "PROBE_FAILED", "NO_MARKER"}

(* qn_verify_run through the port and its classification: only a proxy that            *)
(* listens there when the probe connects can carry it.                            *)
Probe(p, t) ==
    /\ At(p, t, "probe")
    /\ \/ cancel[p] /\ Set(p, t, [w[p][t] EXCEPT !.res = "CANCELLED", !.pc = "out"])
       \/ \E r \in Unproved :
             Set(p, t, [w[p][t] EXCEPT !.res = r, !.pc = "out"])
       \/ \E q \in Procs, u \in All :
             /\ Listens(q, u, w[p][t].port)
             /\ Set(p, t, [w[p][t] EXCEPT !.res = "PASSED", !.via = <<q, u>>, !.pc = "out"])
    /\ OnlyW

(* out: the child is stopped and reaped, the file unlinked, the lease closed.      *)
Out(p, t) ==
    /\ At(p, t, "out")
    /\ Set(p, t, [w[p][t] EXCEPT !.child = "none", !.file = FALSE, !.lease = FALSE,
                                 !.pc = "decide"])
    /\ inherit' = [inherit EXCEPT ![p][t] = {}]
    /\ UNCHANGED <<pool, seq, cancel>>

(* Another attempt, or the end of this candidate.                                *)
Decide(p, t) ==
    /\ At(p, t, "decide")
    /\ Set(p, t, IF w[p][t].res \in {"PASSED", "CONFIG_INVALID", "CANCELLED"}
                    \/ w[p][t].att = MaxAttempts
                 THEN [w[p][t] EXCEPT !.pc = "commit"]
                 ELSE [w[p][t] EXCEPT !.pc = "attempt", !.res = "none"])
    /\ OnlyW

(* commit_tunnel_result, then the next candidate.                                *)
Commit(p, t) ==
    /\ At(p, t, "commit")
    /\ LET r == w[p][t].res
       IN  /\ rec' = [rec EXCEPT ![p][w[p][t].item] = r]
           /\ passed'  = IF r = "PASSED" THEN [passed EXCEPT ![p] = @ + 1] ELSE passed
           /\ skipped' = IF r \in Skips THEN [skipped EXCEPT ![p] = @ + 1] ELSE skipped
           /\ failed'  = IF r \in Fails THEN [failed EXCEPT ![p] = @ + 1] ELSE failed
    /\ Set(p, t, [w[p][t] EXCEPT !.pc = "take"])
    /\ UNCHANGED <<stage, created, outcome, next, queued, seq, cancel, inherit>>

Work(p, t) ==
    \/ Take(p, t) \/ Find(p, t) \/ Attempt(p, t) \/ Reserve(p, t) \/ Bind(p, t)
    \/ Config(p, t) \/ WriteConfig(p, t)
    \/ CheckForks(p, t) \/ CheckEnds(p, t) \/ ReleasePort(p, t) \/ Spawn(p, t)
    \/ SocksWait(p, t) \/ SocksConnect(p, t) \/ Probe(p, t) \/ Out(p, t) \/ Decide(p, t) \/ Commit(p, t)

(***************************************************************************)
(* The Xray child: closes inherited descriptors, binds its port or exits,  *)
(* and may exit later.  The user may cancel.                               *)
(***************************************************************************)
ChildExecs(p, t) ==
    /\ w[p][t].child \in {"check", "starting"} /\ inherit[p][t] # {}
    /\ inherit' = [inherit EXCEPT ![p][t] = {}]
    /\ UNCHANGED <<pool, seq, cancel, w>>

ChildBinds(p, t) ==
    /\ w[p][t].child = "starting" /\ inherit[p][t] = {}
    /\ Set(p, t, [w[p][t] EXCEPT !.child = IF Taken(w[p][t].port) THEN "dead" ELSE "up"])
    /\ OnlyW

ChildExits(p, t) ==
    /\ w[p][t].child = "up"
    /\ Set(p, t, [w[p][t] EXCEPT !.child = "dead"])
    /\ OnlyW

Cancel(p) ==
    /\ AllowCancel /\ ~cancel[p] /\ stage[p] # "end"
    /\ cancel' = [cancel EXCEPT ![p] = TRUE]
    /\ UNCHANGED <<pool, seq, w, inherit>>

Over == (\A p \in Procs : stage[p] = "end") /\ UNCHANGED vars

Next ==
    \/ \E p \in Procs : StartStage(p) \/ Join(p) \/ InlineEnds(p) \/ Cancel(p)
    \/ \E p \in Procs, t \in All : Work(p, t)
    \/ \E p \in Procs, t \in All : ChildExecs(p, t) \/ ChildBinds(p, t) \/ ChildExits(p, t)
    \/ Over

(* Threads keep running; every loop of a worker has a deadline or a bound.        *)
Fairness ==
    \A p \in Procs : /\ WF_vars(StartStage(p) \/ Join(p) \/ InlineEnds(p))
                     /\ \A t \in All : WF_vars(Work(p, t))

Spec == Init /\ [][Next]_vars
FairSpec == Spec /\ Fairness

-----------------------------------------------------------------------------
(* A worker that has left an attempt owns nothing: no lease, no config file with    *)
(* credentials, no child running or unreaped, whichever of the error paths it took. *)
NothingLeftBehind ==
    \A p \in Procs, t \in All :
        w[p][t].pc \in {"off", "take", "find", "attempt", "decide", "commit", "done"} =>
            /\ ~w[p][t].lease /\ ~w[p][t].file /\ w[p][t].child = "none"
            /\ inherit[p][t] = {}

(* queued = passed + failed + skipped when the stage is over and every queued        *)
(* candidate has a terminal state; the stage calls itself a success only if it       *)
(* queued something and all of it passed, so a missing Xray or an empty queue is      *)
(* never a successful empty run.                                                   *)
QueuedBalances ==
    \A p \in Procs : stage[p] = "end" =>
        /\ passed[p] + failed[p] + skipped[p] = queued[p]
        /\ queued[p] > 0 => \A i \in Items : rec[p][i] \in Terminal
        /\ passed[p] = Cardinality({i \in Items : rec[p][i] = "PASSED"})
        /\ outcome[p] = "SUCCESS" =>
              queued[p] > 0 /\ \A i \in Items : rec[p][i] = "PASSED"

(* Every candidate leaves the queue once: a worker that is about to commit a result   *)
(* finds its candidate still queued, so no terminal state is replaced, not by another *)
(* worker and not by the inline worker that follows a failed pthread_create.          *)
CommittedOnce ==
    \A p \in Procs, t \in All :
        At(p, t, "commit") => rec[p][w[p][t].item] = "QUEUED"

(* A pass came through the Xray child this worker started for this candidate, never   *)
(* through that of another worker of the scanner, although the port is let go before  *)
(* Xray binds it.                                                                     *)
PassedThroughOwnChild ==
    \A p \in Procs, t \in All :
        w[p][t].res = "PASSED" /\ w[p][t].via[1] = p => w[p][t].via = <<p, t>>

(* The same among scanners.  Another process may take the port between release_port   *)
(* and the bind of Xray; docs/TUNNEL-VERIFICATION.md:79-82 says that such a race can  *)
(* never become a false tunnel success.  socks_ready takes any listener for the child. *)
RaceIsNoSuccess ==
    \A p \in Procs, t \in All :
        w[p][t].res = "PASSED" => w[p][t].via[1] = p

(* What the books rest on.  A worker is in one attempt at one candidate;             *)
(* what it may own depends on how far the attempt has got.                           *)
Working == {"find", "attempt", "reserve", "bind", "config", "temp", "check", "checking",
            "spawn", "ready", "connect", "probe", "out", "decide", "commit"}
Worker == [pc : {"off", "take", "done"} \cup Working, item : 0..Count, att : 0..MaxAttempts,
           turn : Nat, port : Ports, lease : BOOLEAN, file : BOOLEAN,
           child : {"none", "check", "starting", "up", "dead"},
           via : {NoOne} \cup (Procs \X All), res : Terminal \cup {"none"}]

WorkerOk(k, inh) ==
    /\ k.pc \notin {"checking", "ready", "connect", "probe", "out"} => k.child = "none" /\ inh = {}
    /\ k.pc \in {"off", "take", "done", "find", "attempt", "reserve", "bind", "decide", "commit"} =>
          ~k.lease
    /\ k.pc \notin {"check", "checking", "spawn", "ready", "connect", "probe", "out"} => ~k.file
    /\ k.pc = "find" => k.att = 0
    /\ k.pc = "attempt" => k.att < MaxAttempts
    /\ k.pc \in {"out", "decide", "commit"} => k.res # "none"

Busy(p) == {t \in All : w[p][t].pc \in Working}
Finished(p) == {t \in All : w[p][t].pc = "done"}
Having(p, states) == {i \in Items : rec[p][i] \in states}

(* The candidates up to the counter are in the hands of one worker each, or have    *)
(* their result; the others wait.                                                  *)
Handed(p) ==
    /\ \A t \in Busy(p) : /\ w[p][t].item \in Items /\ w[p][t].item <= next[p]
                          /\ rec[p][w[p][t].item] = "QUEUED"
    /\ \A t, u \in Busy(p) : w[p][t].item = w[p][u].item => t = u
    /\ \A i \in Items : /\ rec[p][i] # "UNTESTED"
                        /\ i > next[p] => rec[p][i] = "QUEUED"
                        /\ rec[p][i] = "QUEUED" => i > next[p] \/ \E t \in Busy(p) : w[p][t].item = i

(* Who works: the threads that were created, then the caller if some were not.        *)
Crew(p) ==
    /\ stage[p] = "start" => \A t \in All : w[p][t].pc = "off"
    /\ stage[p] = "run" => \A t \in All : w[p][t].pc # "off" <=> t \in created[p]
    /\ stage[p] = "inline" => /\ \A t \in created[p] : w[p][t].pc = "done"
                             /\ \A t \in Threads \ created[p] : w[p][t].pc = "off"
                             /\ w[p]["main"].pc # "off"
    /\ stage[p] = "end" => \A t \in All : w[p][t].pc \in {"off", "done"}
    /\ Finished(p) # {} => next[p] >= Count
    /\ next[p] <= Count + Cardinality(Finished(p))

Books(p) ==
    /\ passed[p] = Cardinality(Having(p, {"PASSED"})) /\ failed[p] = Cardinality(Having(p, Fails))
    /\ skipped[p] = Cardinality(Having(p, Skips))
    /\ stage[p] = "start" => next[p] = 0 /\ queued[p] = 0 /\ \A i \in Items : rec[p][i] = "UNTESTED"
    /\ stage[p] \in {"run", "inline"} => queued[p] = Count /\ Handed(p)
    /\ stage[p] = "end" =>
          \/ queued[p] = 0 /\ \A i \in Items : rec[p][i] = "UNTESTED"
          \/ queued[p] = Count /\ \A i \in Items : rec[p][i] \in Terminal
    /\ outcome[p] = "SUCCESS" => stage[p] = "end" /\ queued[p] = Count /\ passed[p] = Count

StageTypes ==
    /\ stage \in [Procs -> {"start", "run", "inline", "end"}] /\ created \in [Procs -> SUBSET Threads]
    /\ outcome \in [Procs -> {"SUCCESS", "CANCELLED", "INCOMPLETE", "FAILED"}]
    /\ next \in [Procs -> Nat] /\ seq \in [Procs -> Ports] /\ cancel \in [Procs -> BOOLEAN]
    /\ rec \in [Procs -> [Items -> Terminal \cup {"UNTESTED", "QUEUED"}]]
    /\ {queued, passed, failed, skipped} \subseteq [Procs -> Nat]
    /\ w \in [Procs -> [All -> Worker]] /\ inherit \in [Procs -> [All -> SUBSET Ports]]

(* The inductive invariant of the stage, its types included.                          *)
StageIInv ==
    /\ StageTypes
    /\ \A p \in Procs : /\ \A t \in All : WorkerOk(w[p][t], inherit[p][t])
                        /\ Crew(p) /\ Books(p)

(* The books of the stage (cf_scan_tunnel): one commit for each candidate, at the end *)
(* totals and an outcome that agree with the candidates, and nothing left behind;     *)
(* with what they rest on.                                                            *)
StageInv == StageIInv /\ CommittedOnce /\ QueuedBalances /\ NothingLeftBehind

(* The stage ends, whatever the children do.                                        *)
StageEnds == \A p \in Procs : <>(stage[p] = "end")
=============================================================================
