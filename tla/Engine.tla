------------------------------- MODULE Engine -------------------------------
(* The scan engine of src/net/engine.c: worker threads that draw indices from   *)
(* a shared cursor, launch probes into slots and push one event per job, and     *)
(* the owner thread that starts them, polls their rings, stops or joins them     *)
(* and settles the run's outcome.                                                *)
(*                                                                               *)
(* A job is the index it was drawn at.  The result ring is a bounded queue       *)
(* (Ring.tla shows that it is one).  What a probe does between its launch and    *)
(* its end, and the pacing that may end a fill early, are free choices here.     *)
EXTENDS Integers, Sequences, FiniteSets, Functions

CONSTANTS Workers,    \* the worker threads
          NoWorker,   \* UINT32_MAX in fatal_worker
          Domain,     \* task->domain
          Chunk,      \* QN_CLAIM_CHUNK
          NSlots,     \* nslots
          RCap,       \* ring_cap
          Tries,      \* QN_LAUNCH_TRIES
          Answers,    \* what the task's next() may answer
          MaxRuns     \* bound: engine runs (scan phases)

ASSUME EngineAssumption ==
  /\ IsFiniteSet(Workers) /\ Workers # {} /\ NoWorker \notin Workers
  /\ Domain \in Nat \ {0} /\ Chunk \in Nat \ {0}
  /\ NSlots \in Nat \ {0} /\ RCap \in Nat /\ RCap >= 2 * NSlots + 2
  /\ Tries \in Nat \ {0} /\ MaxRuns \in Nat
  /\ Answers \subseteq {"job", "exhausted", "stop_condition", "cancelled", "fatal"}

Idx == 0..(Domain - 1)
NoJob == -1
Slots == 1..NSlots
JobOrNone == Idx \cup {NoJob}

VARIABLES
  \* shared between the threads
  cursor, stopping, stopCond, fatal, fatalErrno, fatalWorker, alive,
  \* each worker's own fields and statistics
  wpc, wret, drained, reason, hand, pending, tries, cur, end,
  slot, freelist, inflight, ring, dropped,
  claimed, completed, skipped, unattempted, localFail,
  \* the owner
  owner, spawned, status, final, runs,
  \* history: events applied per index, and how undrawn indices were left
  got, left

shared == <<cursor, stopping, stopCond, fatal, fatalErrno, fatalWorker, alive>>
claimVars == <<drained, reason, cur, end>>
jobVars == <<hand, pending, tries>>
slotVars == <<slot, freelist, inflight>>
ringVars == <<ring, dropped>>
stats == <<claimed, completed, skipped, unattempted, localFail>>
workerVars == <<wpc, wret, claimVars, jobVars, slotVars, ringVars, stats>>
ownerVars == <<owner, spawned, status, final, runs>>
history == <<got, left>>
vars == <<shared, workerVars, ownerVars, history>>

NoFinal == [accounted |-> FALSE, failed |-> FALSE, worker |-> NoWorker,
            outcome |-> "none"]

WorkerPc == {"off", "loop", "fill", "launch", "filled", "events",
             "fatal_cas", "fatal_errno", "fatal_flag", "fatal_stop",
             "retire", "retire_tail", "exit", "dead"}
OwnerPc == {"idle", "starting", "unwinding", "running", "joining", "drain",
            "closed", "failed"}

LiveSlots(w) == {s \in Slots : slot[w][s] # NoJob}
B(x) == IF x = NoJob THEN 0 ELSE 1

\* The jobs of worker w that still owe an event, and its claims that do not.
Owed(w) == inflight[w] + B(hand[w]) + B(pending[w])
Settled(w) == completed[w] + skipped[w] + unattempted[w]

-----------------------------------------------------------------------------
\* qn_engine_init leaves an idle engine, every slot on its worker's freelist.
Init ==
  /\ cursor = 0 /\ stopping = FALSE /\ stopCond = FALSE /\ alive = 0
  /\ fatal = FALSE /\ fatalErrno = FALSE /\ fatalWorker = NoWorker
  /\ wpc = [w \in Workers |-> "off"] /\ wret = [w \in Workers |-> "retire"]
  /\ drained = [w \in Workers |-> FALSE] /\ reason = [w \in Workers |-> "job"]
  /\ hand = [w \in Workers |-> NoJob] /\ pending = [w \in Workers |-> NoJob]
  /\ tries = [w \in Workers |-> 0]
  /\ cur = [w \in Workers |-> 0] /\ end = [w \in Workers |-> 0]
  /\ slot = [w \in Workers |-> [s \in Slots |-> NoJob]]
  /\ freelist = [w \in Workers |-> [s \in Slots |-> NSlots + 1 - s]]
  /\ inflight = [w \in Workers |-> 0]
  /\ ring = [w \in Workers |-> << >>] /\ dropped = [w \in Workers |-> 0]
  /\ claimed = [w \in Workers |-> 0] /\ completed = [w \in Workers |-> 0]
  /\ skipped = [w \in Workers |-> 0] /\ unattempted = [w \in Workers |-> 0]
  /\ localFail = [w \in Workers |-> 0]
  /\ owner = "idle" /\ spawned = {} /\ status = "idle"
  /\ final = NoFinal /\ runs = 0
  /\ got = [i \in Idx |-> 0] /\ left = [i \in Idx |-> "no"]

-----------------------------------------------------------------------------
(* Parts of the worker's steps.                                                *)

Bump(counter, w, n) == counter' = [counter EXCEPT ![w] = @ + n]
Goto(w, pc) == wpc' = [wpc EXCEPT ![w] = pc]

\* qn_ring_push, the result ignored.
Push(w, i) ==
  IF Len(ring[w]) < RCap
  THEN ring' = [ring EXCEPT ![w] = Append(@, i)] /\ UNCHANGED dropped
  ELSE Bump(dropped, w, 1) /\ UNCHANGED ring

\* The statistics and the event every job owes, whatever ends it.
Complete(w, i, isLocal) ==
  /\ Push(w, i)
  /\ Bump(completed, w, 1)
  /\ Bump(localFail, w, IF isLocal THEN 1 ELSE 0)
  /\ UNCHANGED <<claimed, skipped, unattempted>>

Finish(w, s, isLocal) ==
  /\ Complete(w, slot[w][s], isLocal)
  /\ slot' = [slot EXCEPT ![w][s] = NoJob]
  /\ freelist' = [freelist EXCEPT ![w] = Append(@, s)]
  /\ inflight' = [inflight EXCEPT ![w] = @ - 1]

\* Mutant: has_pending is not cleared after the launch.
ForgetPendingKept(w) == /\ hand' = [hand EXCEPT ![w] = NoJob]
                        /\ pending' = [pending EXCEPT ![w] = hand[w]]
                        /\ tries' = [tries EXCEPT ![w] = 0]
ForgetPending(w) == /\ hand' = [hand EXCEPT ![w] = NoJob]
                    /\ pending' = [pending EXCEPT ![w] = NoJob]
                    /\ tries' = [tries EXCEPT ![w] = 0]

-----------------------------------------------------------------------------
(* worker_main and worker_fill.                                                *)

LoopTop(w) ==
  /\ wpc[w] = "loop"
  /\ Goto(w, IF stopping THEN "retire" ELSE "fill")
  /\ UNCHANGED <<shared, wret, claimVars, jobVars, slotVars, ringVars, stats,
                 ownerVars, history>>

\* The fill returns: the window is full, no slot is free, the ring has no room,
\* the task is drained, or no token is ready.
FillReturn(w) ==
  /\ wpc[w] = "fill"
  /\ Goto(w, "filled")
  /\ UNCHANGED <<shared, wret, claimVars, jobVars, slotVars, ringVars, stats,
                 ownerVars, history>>

\* Mutant: no reservation.
RingRoomUnchecked(w) == TRUE
\* Room in the ring for every event already owed and for one more job.
RingRoom(w) == Len(ring[w]) + inflight[w] + 1 < RCap
MayFill(w) == wpc[w] = "fill" /\ freelist[w] # << >> /\ RingRoom(w)

TakePending(w) ==
  /\ MayFill(w) /\ pending[w] # NoJob
  /\ hand' = [hand EXCEPT ![w] = pending[w]]
  /\ pending' = [pending EXCEPT ![w] = NoJob]
  /\ Goto(w, "launch")
  /\ UNCHANGED <<shared, wret, claimVars, tries, slotVars, ringVars, stats,
                 ownerVars, history>>

\* claim_next: the index drawn and the worker's chunk afterwards.
NeedsChunk(w) == cur[w] >= end[w]
Drawn(w) == IF NeedsChunk(w) THEN cursor ELSE cur[w]

\* Mutant: the chunk is one index too long.
ClaimNextOverlaps(w) ==
  /\ cursor' = IF NeedsChunk(w) THEN cursor + Chunk ELSE cursor
  /\ end' = [end EXCEPT ![w] = IF NeedsChunk(w) THEN cursor + Chunk + 1 ELSE @]
  /\ cur' = [cur EXCEPT ![w] = Drawn(w) + 1]
ClaimNext(w) ==
  /\ cursor' = IF NeedsChunk(w) THEN cursor + Chunk ELSE cursor
  /\ end' = [end EXCEPT ![w] = IF NeedsChunk(w) THEN cursor + Chunk ELSE @]
  /\ cur' = [cur EXCEPT ![w] = Drawn(w) + 1]

MayClaim(w) == MayFill(w) /\ pending[w] = NoJob /\ ~drained[w]

ClaimPastDomain(w) ==
  /\ MayClaim(w) /\ Drawn(w) >= Domain
  /\ ClaimNext(w)
  /\ drained' = [drained EXCEPT ![w] = TRUE]
  /\ reason' = [reason EXCEPT ![w] = "exhausted"]
  /\ Goto(w, "filled")
  /\ UNCHANGED <<stopping, stopCond, fatal, fatalErrno, fatalWorker, alive, wret,
                 jobVars, slotVars, ringVars, stats, ownerVars, history>>

ClaimJob(w) ==
  /\ MayClaim(w) /\ Drawn(w) < Domain /\ "job" \in Answers
  /\ ClaimNext(w)
  /\ hand' = [hand EXCEPT ![w] = Drawn(w)]
  /\ Bump(claimed, w, 1)
  /\ Goto(w, "launch")
  /\ UNCHANGED <<stopping, stopCond, fatal, fatalErrno, fatalWorker, alive, wret,
                 drained, reason, pending, tries, slotVars, ringVars,
                 completed, skipped, unattempted, localFail, ownerVars, history>>

\* next() declines the index it was given: it is claimed, and skipped.
ClaimDeclined(w, rc) ==
  /\ MayClaim(w) /\ Drawn(w) < Domain /\ rc \in Answers \ {"job"}
  /\ ClaimNext(w)
  /\ Bump(claimed, w, 1) /\ Bump(skipped, w, 1)
  /\ left' = [left EXCEPT ![Drawn(w)] = "declined"]
  /\ drained' = [drained EXCEPT ![w] = TRUE]
  /\ reason' = [reason EXCEPT ![w] = rc]
  /\ stopCond' = (stopCond \/ rc = "stop_condition")
  /\ stopping' = (stopping \/ rc = "cancelled")
  /\ wret' = [wret EXCEPT ![w] = "filled"]
  /\ Goto(w, IF rc = "fatal" THEN "fatal_cas" ELSE "filled")
  /\ UNCHANGED <<fatal, fatalErrno, fatalWorker, alive, jobVars, slotVars, ringVars,
                 completed, unattempted, localFail, ownerVars, got>>

-----------------------------------------------------------------------------
(* probe_launch and what worker_fill does with its result.                     *)

\* The connection is under way: the top free slot holds the probe.
LaunchOk(w) ==
  /\ wpc[w] = "launch"
  /\ LET s == freelist[w][Len(freelist[w])]
     IN slot' = [slot EXCEPT ![w][s] = hand[w]]
  /\ freelist' = [freelist EXCEPT ![w] = SubSeq(@, 1, Len(@) - 1)]
  /\ inflight' = [inflight EXCEPT ![w] = @ + 1]
  /\ ForgetPending(w)
  /\ Goto(w, "fill")
  /\ UNCHANGED <<shared, wret, claimVars, ringVars, stats, ownerVars, history>>

\* connect() failed at once: the probe takes its slot, finishes and returns it.
LaunchEnds(w, isLocal) ==
  /\ wpc[w] = "launch"
  /\ Complete(w, hand[w], isLocal)
  /\ ForgetPending(w)
  /\ Goto(w, "fill")
  /\ UNCHANGED <<shared, wret, claimVars, slotVars, ownerVars, history>>

\* Mutant: retried for ever, the count of tries stuck at its limit.
LaunchRetryForever(w) ==
  /\ wpc[w] = "launch"
  /\ pending' = [pending EXCEPT ![w] = hand[w]]
  /\ hand' = [hand EXCEPT ![w] = NoJob]
  /\ tries' = [tries EXCEPT ![w] = IF inflight[w] > 0 \/ @ = Tries THEN @ ELSE @ + 1]
  /\ Goto(w, "filled")
  /\ UNCHANGED <<shared, wret, claimVars, slotVars, ringVars, stats,
                 ownerVars, history>>
\* A local shortage: the job is kept for a retry while probes are in flight,
\* and while tries remain; otherwise job_abandon reports it.
LaunchRetry(w) ==
  /\ wpc[w] = "launch"
  /\ inflight[w] > 0 \/ tries[w] + 1 < Tries
  /\ pending' = [pending EXCEPT ![w] = hand[w]]
  /\ hand' = [hand EXCEPT ![w] = NoJob]
  /\ tries' = [tries EXCEPT ![w] = IF inflight[w] > 0 THEN @ ELSE @ + 1]
  /\ Goto(w, "filled")
  /\ UNCHANGED <<shared, wret, claimVars, slotVars, ringVars, stats,
                 ownerVars, history>>

LaunchAbandon(w) ==
  /\ wpc[w] = "launch"
  /\ inflight[w] = 0 /\ tries[w] + 1 >= Tries
  /\ Complete(w, hand[w], TRUE)
  /\ ForgetPending(w)
  /\ Goto(w, "fill")
  /\ UNCHANGED <<shared, wret, claimVars, slotVars, ownerVars, history>>

-----------------------------------------------------------------------------
(* The wait, the events of one batch and the expired deadlines.                *)

WorkDone(w) == drained[w] /\ pending[w] = NoJob /\ inflight[w] = 0

BreakDrained(w) ==
  /\ wpc[w] = "filled" /\ WorkDone(w)
  /\ Goto(w, "retire")
  /\ UNCHANGED <<shared, wret, claimVars, jobVars, slotVars, ringVars, stats,
                 ownerVars, history>>

WaitReturns(w) ==
  /\ wpc[w] = "filled" /\ ~WorkDone(w)
  /\ Goto(w, "events")
  /\ UNCHANGED <<shared, wret, claimVars, jobVars, slotVars, ringVars, stats,
                 ownerVars, history>>

WaitFails(w) ==
  /\ wpc[w] = "filled" /\ ~WorkDone(w)
  /\ wret' = [wret EXCEPT ![w] = "retire"]
  /\ Goto(w, "fatal_cas")
  /\ UNCHANGED <<shared, claimVars, jobVars, slotVars, ringVars, stats,
                 ownerVars, history>>

FinishProbe(w, s, isLocal) ==
  /\ wpc[w] = "events" /\ slot[w][s] # NoJob
  /\ Finish(w, s, isLocal)
  /\ UNCHANGED <<shared, wpc, wret, claimVars, jobVars, ownerVars, history>>

EventsDone(w) ==
  /\ wpc[w] = "events"
  /\ Goto(w, "loop")
  /\ UNCHANGED <<shared, wret, claimVars, jobVars, slotVars, ringVars, stats,
                 ownerVars, history>>

-----------------------------------------------------------------------------
(* engine_fatal, one shared access per step.                                   *)

FatalCas(w) ==
  /\ wpc[w] = "fatal_cas"
  /\ IF fatalWorker = NoWorker
     THEN fatalWorker' = w /\ Goto(w, "fatal_errno")
     ELSE UNCHANGED fatalWorker /\ Goto(w, "fatal_stop")
  /\ UNCHANGED <<cursor, stopping, stopCond, fatal, fatalErrno, alive, wret,
                 claimVars, jobVars, slotVars, ringVars, stats, ownerVars, history>>

FatalErrno(w) ==
  /\ wpc[w] = "fatal_errno"
  /\ fatalErrno' = TRUE
  /\ Goto(w, "fatal_flag")
  /\ UNCHANGED <<cursor, stopping, stopCond, fatal, fatalWorker, alive, wret,
                 claimVars, jobVars, slotVars, ringVars, stats, ownerVars, history>>

FatalFlag(w) ==
  /\ wpc[w] = "fatal_flag"
  /\ fatal' = TRUE
  /\ Goto(w, "fatal_stop")
  /\ UNCHANGED <<cursor, stopping, stopCond, fatalErrno, fatalWorker, alive, wret,
                 claimVars, jobVars, slotVars, ringVars, stats, ownerVars, history>>

FatalStop(w) ==
  /\ wpc[w] = "fatal_stop"
  /\ stopping' = TRUE
  /\ Goto(w, wret[w])
  /\ UNCHANGED <<cursor, stopCond, fatal, fatalErrno, fatalWorker, alive, wret,
                 claimVars, jobVars, slotVars, ringVars, stats, ownerVars, history>>

-----------------------------------------------------------------------------
(* worker_retire: cancel the live probes, report the retained job, account for *)
(* the rest of the chunk, and leave.                                           *)

RetireProbe(w, s) ==
  /\ wpc[w] = "retire" /\ slot[w][s] # NoJob
  /\ Finish(w, s, FALSE)
  /\ UNCHANGED <<shared, wpc, wret, claimVars, jobVars, ownerVars, history>>

RetirePending(w) ==
  /\ wpc[w] = "retire" /\ LiveSlots(w) = {}
  /\ IF pending[w] # NoJob
     THEN /\ Complete(w, pending[w], fatal)
          /\ pending' = [pending EXCEPT ![w] = NoJob]
     ELSE UNCHANGED <<pending, ringVars, stats>>
  /\ Goto(w, "retire_tail")
  /\ UNCHANGED <<shared, wret, claimVars, hand, tries, slotVars, ownerVars, history>>

ChunkTail(w) == {i \in Idx : cur[w] <= i /\ i < end[w]}
Deliberate(w) == reason[w] \in {"exhausted", "stop_condition"} \/ stopCond
Lost(w) == LET tail == IF end[w] > Domain THEN Domain ELSE end[w]
           IN IF tail > cur[w] THEN tail - cur[w] ELSE 0

RetireTail(w) ==
  /\ wpc[w] = "retire_tail"
  /\ Bump(claimed, w, Lost(w))
  /\ IF Deliberate(w) THEN Bump(skipped, w, Lost(w)) /\ UNCHANGED unattempted
                      ELSE Bump(unattempted, w, Lost(w)) /\ UNCHANGED skipped
  /\ left' = [i \in Idx |-> IF i \notin ChunkTail(w) THEN left[i]
                            ELSE IF Deliberate(w) THEN "declined" ELSE "owed"]
  /\ cur' = [cur EXCEPT ![w] = end[w]]
  /\ Goto(w, "exit")
  /\ UNCHANGED <<shared, wret, drained, reason, end, jobVars, slotVars, ringVars,
                 completed, localFail, ownerVars, got>>

Exit(w) ==
  /\ wpc[w] = "exit"
  /\ alive' = alive - 1
  /\ Goto(w, "dead")
  /\ UNCHANGED <<cursor, stopping, stopCond, fatal, fatalErrno, fatalWorker, wret,
                 claimVars, jobVars, slotVars, ringVars, stats, ownerVars, history>>

-----------------------------------------------------------------------------
(* The owner: qn_engine_start.                                                 *)

\* The caller starts another phase unless the last one failed.
StartBegin ==
  /\ owner = "idle" \/ (owner = "closed" /\ final.outcome # "failed")
  /\ runs < MaxRuns /\ runs' = runs + 1
  /\ owner' = "starting" /\ spawned' = {} /\ status' = "running" /\ final' = NoFinal
  /\ cursor' = 0 /\ stopping' = FALSE /\ stopCond' = FALSE /\ alive' = 0
  /\ fatal' = FALSE /\ fatalErrno' = FALSE /\ fatalWorker' = NoWorker
  /\ wpc' = [w \in Workers |-> "off"]
  /\ got' = [i \in Idx |-> 0] /\ left' = [i \in Idx |-> "no"]
  /\ UNCHANGED <<wret, claimVars, jobVars, slotVars, ringVars, stats>>

ResetStats(w) ==
  /\ claimed' = [claimed EXCEPT ![w] = 0] /\ completed' = [completed EXCEPT ![w] = 0]
  /\ skipped' = [skipped EXCEPT ![w] = 0] /\ unattempted' = [unattempted EXCEPT ![w] = 0]
  /\ localFail' = [localFail EXCEPT ![w] = 0]

\* The fields the start loop resets before it creates worker w's thread.
ResetWorker(w) ==
  /\ drained' = [drained EXCEPT ![w] = FALSE]
  /\ reason' = [reason EXCEPT ![w] = "job"]
  /\ pending' = [pending EXCEPT ![w] = NoJob] /\ tries' = [tries EXCEPT ![w] = 0]
  /\ cur' = [cur EXCEPT ![w] = 0] /\ end' = [end EXCEPT ![w] = 0]
  /\ slot' = [slot EXCEPT ![w] = [s \in Slots |-> NoJob]]
  /\ freelist' = [freelist EXCEPT ![w] = [s \in Slots |-> NSlots + 1 - s]]
  /\ inflight' = [inflight EXCEPT ![w] = 0]
  /\ ring' = [ring EXCEPT ![w] = << >>] /\ dropped' = [dropped EXCEPT ![w] = 0]
  /\ ResetStats(w)

SpawnOk(w) ==
  /\ owner = "starting" /\ w \notin spawned
  /\ ResetWorker(w)
  /\ spawned' = spawned \cup {w}
  /\ alive' = alive + 1
  /\ Goto(w, "loop")
  /\ UNCHANGED <<cursor, stopping, stopCond, fatal, fatalErrno, fatalWorker, wret,
                 hand, owner, status, final, runs, history>>

\* No epoll instance or no thread: the workers already started are stopped.
\* final.worker is the local failed_worker.
SpawnFail(w) ==
  /\ owner = "starting" /\ w \notin spawned
  /\ ResetWorker(w)
  /\ stopping' = TRUE
  /\ owner' = "unwinding"
  /\ final' = [final EXCEPT !.worker = w]
  /\ UNCHANGED <<cursor, stopCond, fatal, fatalErrno, fatalWorker, alive, wpc, wret,
                 hand, spawned, status, runs, history>>

\* They are joined, and the failed worker is recorded as the fatal one.
Unwind ==
  /\ owner = "unwinding"
  /\ \A v \in spawned : wpc[v] = "dead"
  /\ alive' = 0 /\ fatal' = TRUE /\ fatalErrno' = TRUE /\ fatalWorker' = final.worker
  /\ status' = "fatal" /\ owner' = "failed"
  /\ UNCHANGED <<cursor, stopping, stopCond, workerVars, spawned, final, runs, history>>

StartDone ==
  /\ owner = "starting" /\ spawned = Workers
  /\ owner' = "running"
  /\ UNCHANGED <<shared, workerVars, spawned, status, final, runs, history>>

-----------------------------------------------------------------------------
(* The owner: poll, done, stop, join and finalize.                             *)

\* One ring's batch, each event applied to the task.
Poll(w, n) ==
  /\ owner \in {"running", "drain"}
  /\ n \in 1..Len(ring[w])
  /\ got' = [i \in Idx |-> got[i] + Cardinality({k \in 1..n : ring[w][k] = i})]
  /\ ring' = [ring EXCEPT ![w] = SubSeq(@, n + 1, Len(@))]
  /\ UNCHANGED <<shared, wpc, wret, claimVars, jobVars, slotVars, dropped, stats,
                 ownerVars, left>>

\* qn_engine_done loads alive, then looks at each ring in turn: a true answer is one
\* step here because none of them can change back meanwhile (DoneIsStable).
RingsEmpty == \A w \in Workers : ring[w] = << >>
Done == alive = 0 /\ RingsEmpty

\* qn_engine_finalize(e, false), which its callers reach only when Done.
FinalizeDone ==
  /\ owner = "running" /\ Done
  /\ owner' = "joining"
  /\ UNCHANGED <<shared, workerVars, spawned, status, final, runs, history>>

\* qn_engine_finalize(e, true), at any time.
FinalizeCancel ==
  /\ owner = "running"
  /\ stopping' = TRUE
  /\ owner' = "joining"
  /\ UNCHANGED <<cursor, stopCond, fatal, fatalErrno, fatalWorker, alive,
                 workerVars, spawned, status, final, runs, history>>

SettledStatus == IF fatal THEN "fatal"
                 ELSE IF stopping THEN "cancelled"
                 ELSE IF stopCond THEN "stopped" ELSE "complete"

Join ==
  /\ owner = "joining" /\ \A w \in Workers : wpc[w] = "dead"
  /\ status' = SettledStatus
  /\ owner' = "drain"
  /\ UNCHANGED <<shared, workerVars, spawned, final, runs, history>>

\* The total of a counter over the elements of S: the units it has counted.
SumOver(counter, S) == Cardinality(UNION {{x} \X (1..counter[x]) : x \in S})
Sum(counter) == SumOver(counter, DOMAIN counter)

\* qn_engine_accounted on a snapshot with these totals.
Accounted(c, d, s, u) == /\ d <= c /\ s <= c - d /\ u <= c - d - s
                         /\ c = d + s + u

\* engine_outcome.
Outcome(accounted) ==
  IF fatal \/ ~accounted \/ Sum(dropped) > 0 \/ Sum(localFail) > 0 THEN "failed"
  ELSE IF status = "cancelled" THEN "cancelled"
  ELSE IF Sum(unattempted) > 0 THEN "incomplete" ELSE "success"

Settle ==
  /\ owner = "drain" /\ RingsEmpty
  /\ LET ok == Accounted(Sum(claimed), Sum(completed), Sum(skipped), Sum(unattempted))
     IN final' = [accounted |-> ok, failed |-> fatal,
                  worker |-> IF fatal THEN fatalWorker ELSE NoWorker,
                  outcome |-> Outcome(ok)]
  /\ owner' = "closed"
  /\ UNCHANGED <<shared, workerVars, spawned, status, runs, history>>

\* The process has nothing left to run.
Finished ==
  /\ owner = "failed" \/ (owner = "closed" /\ (runs = MaxRuns \/ final.outcome = "failed"))
  /\ UNCHANGED vars

-----------------------------------------------------------------------------
Fill(w) == \/ FillReturn(w) \/ TakePending(w) \/ ClaimPastDomain(w) \/ ClaimJob(w)
           \/ \E rc \in Answers \ {"job"} : ClaimDeclined(w, rc)
Launch(w) == \/ LaunchOk(w) \/ LaunchRetry(w) \/ LaunchAbandon(w)
             \/ \E isLocal \in BOOLEAN : LaunchEnds(w, isLocal)
Wait(w) == \/ BreakDrained(w) \/ WaitReturns(w) \/ WaitFails(w) \/ EventsDone(w)
           \/ \E s \in Slots, isLocal \in BOOLEAN : FinishProbe(w, s, isLocal)
Fatal(w) == FatalCas(w) \/ FatalErrno(w) \/ FatalFlag(w) \/ FatalStop(w)
Retire(w) == \/ RetirePending(w) \/ RetireTail(w) \/ Exit(w)
             \/ \E s \in Slots : RetireProbe(w, s)

Worker(w) == LoopTop(w) \/ Fill(w) \/ Launch(w) \/ Wait(w) \/ Fatal(w) \/ Retire(w)
Start == \/ StartBegin \/ StartDone \/ Unwind
         \/ \E w \in Workers : SpawnOk(w) \/ SpawnFail(w)
Finalize == FinalizeDone \/ FinalizeCancel \/ Join \/ Settle

Next == \/ \E w \in Workers : Worker(w)
        \/ Start \/ Finalize
        \/ \E w \in Workers, n \in 1..RCap : Poll(w, n)
        \/ Finished

Spec == Init /\ [][Next]_vars

-----------------------------------------------------------------------------
(* Fairness.  The scheduler runs every thread.  A fill eventually draws (tokens *)
(* refill and the window is at least one) and every probe eventually ends (its  *)
(* deadline is armed), so these two are strongly fair.  Nothing makes a caller   *)
(* cancel or start a run.                                                        *)

Draw(w) == \/ TakePending(w) \/ ClaimPastDomain(w) \/ ClaimJob(w)
           \/ \E rc \in Answers \ {"job"} : ClaimDeclined(w, rc)
EndProbe(w, s) == \E isLocal \in BOOLEAN : FinishProbe(w, s, isLocal)

Fairness ==
  /\ \A w \in Workers : /\ WF_vars(Worker(w))
                        /\ SF_vars(Draw(w))
                        /\ \A s \in Slots : SF_vars(EndProbe(w, s))
                        /\ WF_vars(\E n \in 1..RCap : Poll(w, n))
  /\ WF_vars(\E w \in Workers : SpawnOk(w))
  /\ WF_vars(StartDone) /\ WF_vars(Unwind)
  /\ WF_vars(FinalizeDone) /\ WF_vars(Join) /\ WF_vars(Settle)

FairSpec == Spec /\ Fairness

-----------------------------------------------------------------------------
(* Properties.                                                                 *)

TypeShared == /\ cursor \in Nat /\ alive \in Int
              /\ stopping \in BOOLEAN /\ stopCond \in BOOLEAN
              /\ fatal \in BOOLEAN /\ fatalErrno \in BOOLEAN
              /\ fatalWorker \in Workers \cup {NoWorker}
TypePc == wpc \in [Workers -> WorkerPc] /\ wret \in [Workers -> {"filled", "retire"}]
TypeClaim == /\ drained \in [Workers -> BOOLEAN]
             /\ reason \in [Workers -> {"job", "exhausted", "stop_condition",
                                       "cancelled", "fatal"}]
             /\ cur \in [Workers -> Nat] /\ end \in [Workers -> Nat]
TypeJob == /\ hand \in [Workers -> JobOrNone] /\ pending \in [Workers -> JobOrNone]
           /\ tries \in [Workers -> 0..(Tries - 1)]
TypeSlot == /\ slot \in [Workers -> [Slots -> JobOrNone]]
            /\ freelist \in [Workers -> Seq(Slots)]
            /\ inflight \in [Workers -> Int]
TypeRing == ring \in [Workers -> Seq(Idx)] /\ dropped \in [Workers -> Nat]
TypeStats == /\ claimed \in [Workers -> Nat] /\ completed \in [Workers -> Nat]
             /\ skipped \in [Workers -> Nat] /\ unattempted \in [Workers -> Nat]
             /\ localFail \in [Workers -> Nat]
TypeOwner ==
  /\ owner \in OwnerPc /\ spawned \in SUBSET Workers /\ runs \in Nat
  /\ status \in {"idle", "running", "complete", "stopped", "cancelled", "fatal"}
  /\ final \in [accounted : BOOLEAN, failed : BOOLEAN, worker : Workers \cup {NoWorker},
                outcome : {"none", "failed", "cancelled", "incomplete", "success"}]
TypeHistory == got \in [Idx -> Nat] /\ left \in [Idx -> {"no", "declined", "owed"}]

\* The type of every variable (qn_engine, qn_worker and qn_wstats).
TypeOK == /\ TypeShared /\ TypePc /\ TypeClaim /\ TypeJob /\ TypeSlot /\ TypeRing
          /\ TypeStats /\ TypeOwner /\ TypeHistory

\* The reservation in worker_fill leaves room for the event of every job in
\* flight, in hand or retained, so no push of a result ever finds the ring full.
NoDrop == \A w \in Workers : dropped[w] = 0

\* Each worker's counters: an index it claimed was completed, skipped or left
\* unattempted, or its job is in flight, in hand or retained for a retry.
WorkerAccounting == \A w \in Workers : claimed[w] = Settled(w) + Owed(w)

\* probe_launch and probe_release keep the freelist and the live slots apart:
\* every slot is on the freelist exactly once or holds a probe, and inflight
\* counts the probes.
SlotsConserved ==
  \A w \in Workers :
    /\ inflight[w] = Cardinality(LiveSlots(w))
    /\ Range(freelist[w]) = Slots \ LiveSlots(w)
    /\ Len(freelist[w]) = NSlots - inflight[w]

\* The induction behind the four properties above.  For each worker: the job in
\* hand is the one being launched; the freelist names every free slot once; and
\* the ring has room for the event of every job the worker still holds.
WorkerInv(w) ==
  /\ wpc[w] = "launch" <=> hand[w] # NoJob
  /\ wpc[w] = "launch" => pending[w] = NoJob /\ freelist[w] # << >>
  /\ \A j, k \in DOMAIN freelist[w] : j # k => freelist[w][j] # freelist[w][k]
  /\ Len(ring[w]) + Owed(w) < RCap

\* A thread that is not running holds no position in worker_main.
OwnerInv ==
  /\ owner \in {"idle", "drain", "closed"} => \A w \in Workers : wpc[w] \in {"off", "dead"}
  /\ owner = "starting" => \A w \in Workers \ spawned : wpc[w] = "off"

\* worker_fill's reservation, seen from every step of every worker and of the
\* owner: the first half of the inductive invariant.
RoomInv == /\ TypeOK /\ OwnerInv /\ NoDrop /\ WorkerAccounting /\ SlotsConserved
           /\ \A w \in Workers : WorkerInv(w)

\* Where a drawn job is: in a worker's hand, retained, in a slot, in a ring.
Places(i) ==
       {<<w, "hand", 0>> : w \in {v \in Workers : hand[v] = i}}
  \cup {<<w, "pending", 0>> : w \in {v \in Workers : pending[v] = i}}
  \cup (UNION {{<<w, "slot", s>> : s \in {t \in Slots : slot[w][t] = i}} : w \in Workers})
  \cup (UNION {{<<w, "ring", k>> : k \in {l \in DOMAIN ring[w] : ring[w][l] = i}} : w \in Workers})

\* No index is ever worked on twice, reported twice, or both reported and left:
\* chunks are disjoint, and a retained job is forgotten when it is launched.
ExactlyOnce ==
  \A i \in Idx : Cardinality(Places(i)) + got[i] + (IF left[i] # "no" THEN 1 ELSE 0) <= 1

\* The indices the run left without a report: declined by the task, or owed to it.
LeftAs(how) == {i \in Idx : left[i] = how}

\* The totals a finalized run reports are the events the task received, the
\* indices deliberately left and the indices still owed, and they account for
\* every claimed index.
FinalCountsAreTrue ==
  owner = "closed" =>
    /\ final.accounted
    /\ Sum(completed) = Sum(got)
    /\ Sum(skipped) = Cardinality(LeftAs("declined"))
    /\ Sum(unattempted) = Cardinality(LeftAs("owed"))

\* A run that ends as a success reported every index of the domain that the
\* task did not decline; indices beyond the last chunk are left only when the
\* task declined one.
SuccessIsComplete ==
  owner = "closed" /\ final.outcome = "success" =>
    \A i \in Idx : \/ got[i] = 1
                   \/ left[i] = "declined"
                   \/ i >= cursor /\ \E j \in Idx : left[j] = "declined"

\* engine_fatal publishes the flag last: whoever sees it also sees the error
\* and the worker, and a failure recorded by a worker fails the run.
FatalIsWhole ==
  /\ fatal => fatalErrno /\ fatalWorker # NoWorker
  /\ owner = "closed" /\ fatalWorker # NoWorker =>
       final.outcome = "failed" /\ final.worker = fatalWorker

\* Work still owed is never reported as a finished or a stopped run.
OwedMeansInterrupted ==
  owner = "closed" /\ (\E w \in Workers : unattempted[w] > 0) =>
    status \in {"cancelled", "fatal"}

\* What the task is told of a run is the truth: each index at most once, and by
\* qn_engine_finalize the totals, a success, an interruption and a failure, of
\* this run and not of the one before it.
ReportIsTrue == /\ ExactlyOnce /\ FinalCountsAreTrue /\ SuccessIsComplete
                /\ OwedMeansInterrupted /\ FatalIsWhole

\* The jobs worker w still has to report, and those its owner has not read yet.
Holds(w, i) == \/ hand[w] = i \/ pending[w] = i
               \/ \E s \in Slots : slot[w][s] = i
               \/ i \in Range(ring[w])

\* Within a worker a job is in one place.
OnePlace(w) ==
  /\ IsInjective(ring[w])
  /\ \A s, t \in Slots : slot[w][s] = slot[w][t] /\ slot[w][s] # NoJob => s = t
  /\ \A s \in Slots : slot[w][s] \notin Range(ring[w])
  /\ \A i \in {hand[w], pending[w]} \ {NoJob} :
       i \notin Range(ring[w]) /\ \A s \in Slots : slot[w][s] # i

\* An index below the cursor has one fate: one worker holds its job, or it is in
\* what one worker has left of its chunk, or it was reported, or it was left.
OneFate(i) ==
  /\ \A v, w \in Workers : Holds(v, i) /\ Holds(w, i) => v = w
  /\ \A v, w \in Workers : i \in ChunkTail(v) /\ i \in ChunkTail(w) => v = w
  /\ \A v, w \in Workers : ~(Holds(v, i) /\ i \in ChunkTail(w))
  /\ got[i] > 0 \/ left[i] # "no" => \A w \in Workers : ~Holds(w, i) /\ i \notin ChunkTail(w)
  /\ got[i] <= 1 /\ (got[i] > 0 => left[i] = "no")
  /\ i < cursor <=> \/ got[i] > 0 \/ left[i] # "no"
                    \/ \E w \in Workers : Holds(w, i) \/ i \in ChunkTail(w)

\* The cursor accounts for every index of the run.
Fate == \A i \in Idx : OneFate(i)

\* A worker takes its chunk from below the cursor, and gives up what it has left
\* of it, its slots and its retained job before it ends.
Chunked(w) ==
  /\ cur[w] < end[w] => end[w] <= cursor
  /\ wpc[w] \in {"retire_tail", "exit", "dead", "off"} => LiveSlots(w) = {} /\ pending[w] = NoJob
  /\ wpc[w] \in {"exit", "dead", "off"} => end[w] <= cur[w]

\* Why a worker of this run stops: the engine is stopping, or the task is drained,
\* because the domain is used up or because it declined an index.  What it leaves
\* of its chunk is owed only if the engine is stopping.
Reasoned(w) ==
  /\ wpc[w] \in {"retire", "retire_tail", "exit", "dead"} => stopping \/ drained[w]
  /\ drained[w] =>
       /\ cursor >= Domain \/ \E j \in Idx : left[j] = "declined"
       /\ reason[w] # "job"
       /\ reason[w] = "cancelled" => stopping
       /\ reason[w] = "fatal" =>
            stopping \/ wpc[w] \in {"fatal_cas", "fatal_errno", "fatal_flag", "fatal_stop"}
  /\ unattempted[w] > 0 => stopping

\* engine_fatal: the worker that won the exchange publishes the error, then the
\* flag, and no other worker does.
FatalInv ==
  /\ fatal => fatalErrno /\ fatalWorker # NoWorker
  /\ fatalWorker # NoWorker /\ ~fatal => wpc[fatalWorker] \in {"fatal_errno", "fatal_flag"}
  /\ \A w \in Workers : wpc[w] \in {"fatal_errno", "fatal_flag"} => fatalWorker = w
  /\ \A w \in Workers : wpc[w] = "fatal_flag" => fatalErrno

\* The statistics of the workers of this run against the indices: a completed job
\* was read by the owner or is in a ring, and what was skipped or left unattempted
\* is what was declined or is owed.
Unread == [w \in Workers |-> Len(ring[w])]
CountInv ==
  /\ SumOver(completed, spawned) = Sum(got) + SumOver(Unread, spawned)
  /\ SumOver(skipped, spawned) = Cardinality(LeftAs("declined"))
  /\ SumOver(unattempted, spawned) = Cardinality(LeftAs("owed"))

\* The threads qn_engine_start created that have not left worker_main.
Running == {w \in Workers : wpc[w] \notin {"off", "dead"}}

\* What the owner knows: which threads run, what their rings hold between runs,
\* and the status it settled once they had ended.
RunInv ==
  /\ alive = Cardinality(Running)
  /\ \A w \in Workers : wpc[w] # "off" <=> w \in spawned
  /\ owner \in {"running", "joining", "drain", "closed"} => spawned = Workers
  /\ owner \in {"idle", "closed"} => RingsEmpty
  /\ owner = "starting" => \A w \in Workers \ spawned : ring[w] = << >>
  /\ owner = "unwinding" => final.worker # NoWorker
  /\ owner = "failed" => alive = 0
  /\ owner \in {"drain", "closed"} => status = SettledStatus

\* The report of a closed run is engine_outcome of its final statistics.
FinalInv ==
  owner = "closed" =>
    LET ok == Accounted(Sum(claimed), Sum(completed), Sum(skipped), Sum(unattempted))
    IN final = [accounted |-> ok, failed |-> fatal,
                worker |-> IF fatal THEN fatalWorker ELSE NoWorker,
                outcome |-> Outcome(ok)]

\* Where every index is, what the counters count, why the workers stop and what is
\* published: the second half of the inductive invariant.
FateInv == /\ \A w \in Workers : OnePlace(w) /\ Chunked(w)
           /\ \A w \in spawned : Reasoned(w)
           /\ Fate /\ FatalInv /\ CountInv /\ RunInv /\ FinalInv

\* The inductive invariant of the engine.
IInv == RoomInv /\ FateInv

\* qn_engine_done is final, and may look at one thing after another: once the workers of
\* a running engine have left, none comes back and a ring that was seen empty stays empty.
\* So the loads of alive and then of each ring add up to Done.
DoneIsStable ==
  [][owner = "running" /\ owner' = "running" /\ alive = 0 =>
       alive' = 0 /\ \A w \in Workers : ring[w] = << >> => ring'[w] = << >>]_vars

\* Every run that is started ends: it is closed, or its start fails.
RunEnds == owner = "starting" ~> owner \in {"closed", "failed"}

-----------------------------------------------------------------------------
(* What the proofs take from the theory of finite sets.                        *)

Counting ==
  /\ Cardinality({}) = 0 /\ \A x : Cardinality({x}) = 1
  /\ \A a, b \in Int : IsFiniteSet(a..b)
  /\ \A S : IsFiniteSet(S) => Cardinality(S) \in Nat /\ (Cardinality(S) = 0 => S = {})
  /\ \A S : IsFiniteSet(S) => \A T \in SUBSET S : IsFiniteSet(T)
  /\ \A S : IsFiniteSet(S) => \A x : x \notin S => Cardinality(S \cup {x}) = Cardinality(S) + 1
  /\ \A S : IsFiniteSet(S) => \A x \in S : Cardinality(S \ {x}) = Cardinality(S) - 1
=============================================================================
