# Qanat Scanner: TLA+ models and proofs

Qanat is a network scanner for a phone: worker threads probe many addresses at
once, a background thread verifies the best of them over TLS and HTTP, an
optional stage tests them as tunnel endpoints, and the result is exported and
remembered.  This directory models the way from the first menu page or argument
to the exit code: the threads, processes and peers that meet on it, the decoders
of what peers send, the decisions that turn events into rows, and the files that
outlive a run.  TLC checks the models on small instances, and TLAPS proves, for every
size, the safety properties of the scan engine and its result ring, the two
refinements between them and what they promise, the safety of the file replacements
and the books of the tunnel stage.

Every definition is translated from the source; `PROJECT.json` names, for each
one, the file and lines it stands for, the runs, the mutants that show each
property can fail, the findings, the hazards and the theorems.

## 1. The system

```
            keys, signals                      addresses, limits
                 |                                    |
  +--------------v---------------+      +-------------v------------+
  | front end: app.c / main.c    |----->| task: cf, ports, discover|
  | main loop, one bg thread     |<-----| next(), on_event, phases |
  +---+-----------+----------+---+      +-------------+------------+
      |           |          |                        | jobs, events
      | verify    | tunnel   | exports, history       v
  +---v------+ +--v-------+ +v---------+   +----------+-----------+
  | verify.c | | tunnel_  | | export.c |   | engine.c: workers,   |
  | TLS,HTTP | | runtime.c| | store.c  |   | slots, wheel, rings  |
  +----------+ +----------+ +----------+   +----------------------+
```

| Part | State | Operations | What makes it hard |
|---|---|---|---|
| Result ring (`core/ring.c`) | two indices, a cached copy of each, slots, drop count | push, pop a batch, reset | two threads, no lock, indices that wrap, stale caches |
| Timeout wheel (`core/timewheel.c`) | slot lists, cursor, deadlines | arm, disarm, expire, next timeout | rounding, deadlines longer than a turn, a sweep that is late |
| Engine (`net/engine.c`) | shared cursor and flags; per worker: chunk, job in hand, retained job, slots, ring, counters | start, claim, launch, finish, fail, poll, stop, join, finalize | many workers, cancellation and fatal errors at any moment, exact accounting, restarts |
| Probe (`net/engine.c`, `probe_tls.c`) | stage, bytes left, bytes read, timer; the socket | launch, on_connected, on_writable, on_readable, on_timeout | edge-triggered readiness, fast open, deadline against late answer |
| Verification pass (`net/verify.c`) | slots, two pools of tokens, per-candidate results | plan pools, dial, events, sweep, cancel, account | holds that last seconds beside dials, failures in the middle |
| Verification connection (`net/verify.c`) | stage, output buffer, request gate, early data, three deadlines | one handler per stage | answers before the request has left, deadlines that every read renews |
| Tunnel stage (`task_cf.c`, `tunnel_runtime.c`) | candidate counter, results; per worker: port lease, config file, child | reserve, write, check, spawn, wait, probe, clean up, commit | fork, ports shared with the whole machine, a dozen error paths, failing thread creation |
| Front ends (`ui/app.c`, `main.c`) | scan lifecycle, one background thread, cancel flag, outcome | keys, pump, advance, export, exit | keys at any moment, a thread that ends between two looks at it, two front ends that must agree |
| History (`core/store.c`) | table in each process, file, lock, temporary file | load, observe, merge, save | several scanners, kills, crashes, failing steps, a clock that steps back |
| Other files (`export.c`, `scan_plan.c`, `ranges.c`, `xray_install.c`, `cidr.c`) | destination, temporary file, directory | write, sync, rename; read a snapshot | kills and crashes between steps, an editor at work on the file |
| Tasks (`task_cf.c`, `task_ports.c`, `task_discover.c`) | records, phases, finalists | next job, apply event, next phase, finish | indexes kept across sorts; events in any order; ICMP replies that come late |
| Drawing (`bandit.c`, `perm.c`, `cidr.c`) | ranges, blocks with shared counters | draw the address of a step | workers that add to a counter and take it back |
| Pacing (`net/engine.c`) | tokens, window, deadline, thermal level | refill, sample, cut, poll | rounding, a clock that jumps, state kept across runs |
| Protocols (`http1.c`, `http2.c`, `tls12.c`, `tls13.c`, `certscan.h`, `socks5.c`) | parser state, windows, transcript | feed, send, eof | input cut anywhere, flow control, retries |
| Request and plan (`scan_plan.c`, `scan_editor.c`, `menu.c`, `main.c`) | request, editor, plan that waits | edit, save, restore, resolve, review, confirm | a plan that outlives its request, options checked twice, sums of products |
| Keys (`ui/input.c`) | byte ring, decoder state | read, next key | Escape against a sequence that is cut |
| Drawing of cells, text parsers, crypto, platform | - | - | text and bytes; no shared state |

### What each part owes its callers

* The ring hands out exactly what was pushed, in order, whole, and loses nothing
  that was accepted.
* The wheel fires every deadline, none early, and lets the worker sleep no longer
  than the next one; a sweep ends.
* The engine gives each index one fate: reported once, deliberately declined, or
  owed because the run was interrupted.  Its totals say how many of each, its
  outcome is a success only if nothing is owed, and every run ends.
* A probe in a slot always has a deadline, loses no readiness, and reports what
  the socket did.
* The verifier keeps to its pools, never lets holds delay dials, types every
  candidate, and leaves the caller's results alone when it fails.
* A connection never gets stuck with output unarmed or an early answer
  forgotten, and no peer keeps it beyond its budgets.
* The tunnel stage leaves nothing behind and counts each candidate once.
* The front ends give exit code 0 only to a scan that was done, agree with each
  other, stop when told to, and end.
* The history survives other scanners and crashes, and can always be read; every
  other file is replaced whole or not at all.
* A task books each event to the row, port or host it is about, and its counters
  are what its rows show.
* A sweep draws every address of its ranges once; a plan fits the machine; a rate
  is kept in both directions.
* A decoder concludes what the peer sent, however the bytes are cut.
* The plan that runs is the plan that was shown and confirmed.

## 2. Modules

| Module | Models | Notes |
|---|---|---|
| `BoundedFifo` | abstract | the queue a ring promises to be |
| `Ring` | `ring.c` | implements `BoundedFifo`; each atomic access is a step, a copy takes two |
| `TimeWheel` | `timewheel.c` | each iteration of the loop in `qn_tw_expire` is a step |
| `JobLedger` | abstract | the fate of each index as a task may rely on it |
| `Engine` | `engine.c`, threads and accounting | implements `JobLedger`; the ring is a bounded queue, as `Ring` justifies |
| `Pacing` | `engine.c`, one worker's rate, window, deadline and thermal cap | turn by turn; probes only start and end |
| `Probe` | `engine.c`, one slot | each system call is a step; the socket and the peer are the environment |
| `Verifier` | `verify.c`, `qn_verify_run` | the pass; a connection is its stage |
| `VerifyConn` | `verify.c`, one connection | helpers are operators from a record to a record; what TLS and HTTP make of a read is an input |
| `Observation` | `observation.c`, `request_gate.c`, `flowmeter.h` | what HTTP events make of a connection; used by the next two |
| `Http1`, `Http2` | `http1.c`, `http2.c` with their callers in `verify.c` | a server that sends legal and illegal streams, cut into any reads |
| `Tls` | `tls13.c`, `tls12.c` | messages in any packing; a hash is what was hashed, a key is the transcript it came from |
| `CertScan` | `certscan.h` | both cursors, byte by byte, against the set of well-framed messages |
| `Socks5` | `socks5.c`, `outbuf.h` | byte by byte, partial reads and writes |
| `TunnelStage` | `cf_scan_tunnel`, `qn_tunnel_run` | the worker threads of a scanner, the children they fork and the ports of the machine |
| `CfScan` | `task_cf.c` and the callers' sequence | the rows from the sweep to the final order; uses `Ranking` (`stats.c`, `sprt.c`) and `TopK` (`topk.c`) |
| `PortScan` | `task_ports.c` | the state of each port, the counters and the open list |
| `Discover` | `task_discover.c` | batches of echo requests over a network that loses, repeats, delays and invents; then the TCP sweep |
| `Cidr`, `Draw` | `cidr.c`; `perm.c`, `bandit.c` | pure definitions; every atomic operation on the shared counters is a step |
| `ScanPlan` | `qn_scan_plan_resolve` | a function from request and machine to plan, over a product of inputs |
| `ScanRequest` | `qn_scan_request` and what edits it | presets, editor fields, menu questions, options; pure definitions |
| `Launcher` | `menu.c`, `parse_args`, `main`, the plan view of `app.c` | from the first page or argument to a confirmed scan |
| `FrontEnd` | `qn_app_run`, `run_headless` | composes the outside of engine, verifier, tunnel stage and exports |
| `Input` | `input.c` | bytes to keys, in every cut into reads |
| `History` | `store.c` and its use in `task_cf.c` | several processes, kills and crashes |
| `Commit` | `export.c`, settings, `ranges.c`, `xray_install.c` | four ways to replace a file, two calls at once, kills and crashes |
| `Snapshot` | `qn_cidr_set_load_snapshot` | a reader against an editor |
| `EngineJobs` | - | `Engine` as an implementation of `JobLedger` |
| `RingProofs`, `CommitProofs`, `StageProofs` | - | proofs about `Ring`, `Commit` and `TunnelStage` |
| `EngineControl`, `EngineRoom`, `EngineFate`, `EngineCounts`, `EngineProofs` | - | proofs about `Engine`, by subject; the theorems are in the last |
| `MCWorker` | - | `TimeWheel`, `Ring` |
| `MCProbe` | - | `Engine`, `Probe` |
| `MCVerify` | - | `Verifier`, `TunnelStage` |
| `MCStorage` | - | `History`, `Commit`, `Snapshot`, `Launcher` |
| `MCTasks` | - | `CfScan`, `PortScan`, `Discover`, `Draw`, `ScanPlan`, `Pacing` |
| `MCProtocols` | - | `VerifyConn` and the six decoders |

The `MC` modules are instances for TLC of components that share no state.  A module that a
run checks alone (`TimeWheel`, `EngineJobs`, `TunnelStage`, `FrontEnd`, `Launcher`) has the
sets its `.cfg` files name at its end.

How they fit together: `Engine` relies on `Ring` being a queue and on `Probe`
ending every probe (`ProbeEnds`); `Verifier` relies on `VerifyConn` for the life
of one connection, and `VerifyConn` on `Http1`, `Http2`, `Tls` and `Socks5` for
what a read means; `CfScan`, `PortScan` and `Discover` rely on `Engine` giving each
job one event (`ImplementsLedger`), `CfScan` on `Draw` never giving an address twice;
`FrontEnd` relies on `Engine` ending each run (`RunEnds`), on `Verifier` and
`TunnelStage` ending, and on the way each settles its outcome; `Launcher` ends
where `FrontEnd` begins.  Each of these is checked in the module it is about and
assumed, in that form, in the module that uses it.

### State and actions

* **Ring.**  `tail`, `tailCache`, `head`, `headCache` are the fields of
  `qn_ring`; `prod` and `cons` are the positions inside `qn_ring_push` and
  `qn_ring_pop_batch`.  `PushCheck`, `PushCopy`, `PushPublish`, `PopCheck`,
  `PopCopy`, `PopPublish`, `Reset`.  A slot being written holds `Torn`.
* **TimeWheel.**  `slot`, `cursor`, `nowMs`, `armed`, `deadline` are the wheel and
  its nodes; `clock` is the real time, which runs ahead of `nowMs`.
* **Engine.**  Variables follow `qn_engine` and `qn_worker`.  A worker is a small
  program (`loop`, `fill`, `launch`, `filled`, `events`, ...), the owner another
  (`idle`, `starting`, `running`, `drain`, `closed`, ...).  `got` and `left` are
  history: what the task was told about each index.
* **Probe.**  `p` is the `qn_probe`, `k` the socket, `ready` the edge epoll holds.
  `LaunchConnect`/`LaunchTfo`, `DispatchConnect`/`Send`/`Recv`/`Err`, `OnTimeout`.
* **Verifier.**  `slot`, `plan`, `activeLive`, `stabLive`, `res`, `state`.  A pass of
  the loop is `Top`, the dials, `Wait`, the events, the sweep.
* **VerifyConn.**  `c` is the `conn`; `Flush`, `FlushCommit`, `AbsorbApp`,
  `StartIdle`, `SendTrace`, `SendFlow` are the helpers; `EvConnect`, `EvOut`,
  `EvSocks`, `EvHandshake`, `EvApp`, `EvEof` and the sweep are the actions.
* **TunnelStage.**  `w[p][t]` is a worker thread inside `run_attempt`; `inherit`
  holds the lease sockets a forked child has not closed yet.
* **FrontEnd.**  `pc` walks through one turn of the main loop: keys, pump, advance,
  render, test.  `bg` is the thread and the atomics it shares, `cfg` the kind of
  session.  `env` draws once how each piece would end if nobody interfered, and
  `Headless(env, export)` is what `run_headless` makes of the same draw.  `hist`
  is history: what the pieces reported, and whether something happened for which
  the code does not keep its promise (section 6).
* **History.**  `mem[p]` is the `qn_store` of a process; a save is `LockOpen`,
  `MergeDisk`, `WriteTmp`, `SyncTmp`, `Rename`, `SyncParentDir`, or `Fail`.
  `Cap`, the size of the tables, is drawn at the start.
  `durable` is the set of files the name may lead to if the machine stops now: a rename
  adds to it, a sync of the directory leaves one.  `dirsync`, drawn at the start, says
  whether the file system can sync a directory at all.
* **Pacing.**  `pa` holds tokens, window, deadline, samples and the governor; a turn
  of `worker_main` is a step whose delay the environment chooses.  `credit` is
  history: what a bucket without rounding would hold.
* **CfScan, PortScan, Discover.**  One record each (`cf`, `ps`, `hd`) with the fields of
  `cf_scan`, `port_scan` and `host_discover`, and `at`, where the caller is; `todo` is what the
  engine still owes an event for.  `chosen` (`CfScan`) and `asked`, `copies`, `junk`
  (`Discover`) are history.
* **Draw.**  `dr` holds the normalised ranges, the blocks' counters and, for each worker,
  where it is between the atomic operations of a draw.  `twice` and `probed` are history.
* **Http1, Http2, Tls, Socks5, CertScan, Input.**  One record each: the decoder's state,
  the bytes on the wire and what the other side has sent.  One step reads some of
  the wire; the rest of the steps are the other side's.
* **Commit, Snapshot.**  `co` holds the calls, the destination and, as in `History`, what
  may be found after a crash; `sn` the files, the path and the loader between its system
  calls.
* **Launcher.**  `la.at` is the page or the stage, `la.c` the configuration, `la.seen` the
  `SEEN_` flags, `la.ed` the editor, and the flags of `qn_app` that concern the plan
  keep their names without the prefix.  `base` and `live` are history.

## 3. Runs

Where a component can be configured, the configuration is a variable drawn in
`Init` and never changed (`load`, `backend`, `cfg`, `Cap`, the plan in `cf`), so one run
covers all of them.  The invariants that say how the pieces of a component fit
together are the conjuncts of one definition.  Components that share no state are
checked side by side in one run: a behaviour moves one of them and leaves the others
as they were (`part`, or the value `Off`), so that their states add up instead of
multiplying.

| Run | What it checks | Bounds, and why they are enough |
|---|---|---|
| `worker` | `WheelInv` (`ListsPartitionArmed`, `NeverOversleeps`), `SweepIsPunctual` (`CaughtUpMeansNothingDue`, `SweepTerminates`); `RingInv` (`CachesAreConservative`, `InOrderAndWhole` and the `RingIInv` of section 4), refinement `ImplementsBoundedFifo` with `Drains` | wheel: eight slots, two nodes, delays inside and beyond a turn with a sweep one tick late, or short delays with a sweep three ticks late, and more than one turn of clock; ring: two slots, indices modulo 4, five pushes and a reset, so the indices wrap and the ring fills and empties with either cache stale |
| `timewheel_long` | expected violation of `RearmLandsPastNow` | four slots, a delay beyond the turn and a sweep two ticks late: the smallest case |
| `engine` | `IInv` (the inductive invariant of section 4), `ReportIsTrue` (`ExactlyOnce`, `FinalCountsAreTrue`, `SuccessIsComplete`, `OwedMeansInterrupted`, `FatalIsWhole`), refinement `ImplementsLedger` with `DoneIsStable` | two workers, three indices in chunks of two: one chunk is cut by the end of the domain and the workers compete for it; every answer of a task, two launch attempts |
| `probe` | engine: `RunEnds`; slot: `SlotInv` (`LiveHasDeadline`, `NoLostWakeup`), `ProbeEnds`; both: `ReportsAreTrue` (`ReportIsTrue` and the `IInv` it rests on, with `NoDrop`, `SlotsConserved`, `WorkerAccounting`; `OpenMeansConnected`, `AnswerBeatsDeadline`) | engine: one worker, five indices and the smallest ring the code allows for its slots, so that the reservation is what stops the fill, and two runs, so that the second starts from what the first left; slot: a hello of two units through a buffer of one, an answer of up to three, two probes one after the other |
| `verify` | `PoolInv` (`PoolsMatchSlots`, `NoUnadmittedHold`, `HoldsNeverBlockDials`, `EndIsAccounted`), `RunEnds`; `StageInv` (`CommittedOnce`, `QueuedBalances`, `NothingLeftBehind` and the `StageIInv` of section 4), `PassedThroughOwnChild`, `TunnelEnds` | pass: three candidates, one or two tokens in each pool, one to four descriptors, so every plan with fewer slots than candidates; tunnel stage: two threads, two candidates, two attempts, five ports: a port is drawn again after the sequence wraps |
| `two_scanners` | expected violation of `RaceIsNoSuccess` | two scanners, one candidate and one attempt each, two ports: the smallest case |
| `app` | `AppInv` (`OneOwner`), `OutcomeIsTrue` (`SuccessMeansComplete`, `FrontEndsAgree`), `StopStops` | six kinds of session with up to two phases or two scans |
| `app_live` | `SessionEnds` (`QuitEnds`, `ScanEnds`) | one Cloudflare scan with the network view |
| `storage` | `StoreInv` (`LockGuardsSave`, `FileIsLoadable`, `SavedSurvives`), `KeepsBothSides`; `CommitInv` (`FailedLeavesIt`, `CleansUp`, `Unbroken`, `Survives` and the `CommitIInv` of section 4); `SnapshotIsOneVersion`; `ScanIsConfirmed` (`LaunchInv`) | history: two processes, two addresses, tables of one or two rows, and two scans over no file or over one that earlier scans left, with rows at the ceiling of their counters, so a scan can load before, save after and crash during that of another; commit: two calls, files of two pieces, over no file, a whole one and a cut one; snapshot: files of up to two lines, changed or replaced twice in up to three ticks, by something that is not a regular file too; launcher: a line of every kind in the editor, an option of every kind that `main` tells apart, and three answers, arguments or changes in all, enough to prepare a plan, change what it was made from in each way, and confirm |
| `tasks` | `CfInv` (`Accounted`, `BestKept`, `CountsAgree`), `RowsAreTheirs`; `PortsInv`; `DiscoverInv`; `DrawsEachOnce`; `PlanFits`; `PacingInv` | `CfScan`: three addresses in two blocks, four plans (a heap that overflows, a reached target, batches of one, each ranking, each front end), events that pass, fail and are local; ports: three ports, two rounds; discovery: three hosts in batches of two, replies twice and one from nobody; drawing: two workers, two lists with overlapping, nested, adjacent and capped prefixes; plans: 720 requests on each of 128 machines (address counts, memory, descriptors, cores), every pair resolved; pacing: rates that divide unevenly, delays up to three units, temperatures on both sides of each threshold, two runs |
| `protocols` | `H1Inv`, `H2Inv` (with `CreditReturned`), `TlsInv` (`CompleteMeansAgreed`, `LegalIsServed`), `FramingIsExact`, `SocksInv`, `KeysAreTyped`; `ConnectionInv` (`OutputIsArmed`, `EarlyDataIsNotForgotten`, `StagesInOrder`, `LifetimeBounded`, `HoldIsNotTimedOut`), `SuccessIsEarned` (`SuccessMeansAnswered`) | responses of every framing and two to refuse, up to three of them; two streams with continuations, padding, trailers and up to two control frames or an illegal one; hellos of both versions, retries and selections to refuse, one flaw in a handshake; certificate messages of up to sixteen bytes; grants of both forms at and past the limit; three keys of every kind; two units unread at a time, so that reads cut everywhere; connection: budgets of two or three clock units and holds of none, two or four, so that each of the three deadlines can be the first, an output buffer of three messages and room for two early reads |
| `link_file` | expected violation of `LinkFileWorks` | the options of the documented command, in any order |

`engine` uses symmetry between the workers; it checks only safety and its
definitions never choose between workers.  Deadlock is checked everywhere except in
`worker`, `timewheel_long` and `probe`, where a bounded counter (pushes, clock,
launches) runs out in the middle of what would go on for ever; the other models
have an explicit final step.

Each property a run lists has a mutant in `PROJECT.json`: a definition with a plausible
mistake under which TLC finds the property violated in the same run.

### Fairness

* `Ring`, `TimeWheel`: a thread that can go on does (weak fairness of the consumer,
  the producer and the loop of the sweep).
* `Engine`: weak fairness for each thread and for the owner's calls.  Two
  assumptions are strong: a worker whose fill is again and again allowed to draw
  does draw (tokens refill and the window is at least one), and a probe in a slot
  ends, which is `ProbeEnds` of module `Probe`.  Nobody has to cancel or to start.
* `Probe`: weak fairness of the worker, strong fairness of `OnTimeout`: a deadline
  is finite and is renewed at most twice in the life of a probe.  Nothing is
  assumed of the peer or the kernel.
* `Verifier`: weak fairness of the loop; `epoll_wait` is not interrupted for ever;
  a connection that the sweep meets again and again is at some time expired,
  which is `LifetimeBounded` of `VerifyConn`.
* `Engine`, `Probe` and `Verifier` take it that a deadline that has passed is acted on.  The verifier looks at its deadlines itself; the engine has them from
  the wheel, where run `timewheel_long` shows a case in which the sweep does not end: a
  deadline of more than 8176 ms and a sweep two ticks or more behind.  What `RunEnds` of the
  engine and `ProbeEnds` say is therefore said of the other cases (`SweepIsPunctual`).
* `TunnelStage`: weak fairness of the threads; nothing is assumed of the children.
* `FrontEnd`: weak fairness of the main loop, of the background thread and of the
  end of an engine run (`RunEnds`); keys and signals may never come.

Where components share a run, each keeps its own fairness, for the behaviours that
move it.  The other modules state safety only: their steps are answers to what a
peer, a user or an editor does next, and none of these has to do anything.

## 4. Proofs

TLAPS checks these theorems to the last leaf.  Each holds for every value of the
constants that satisfies the stated assumption; the assumptions are evaluated by TLC on
the instances of section 3.

| Theorem | Module | Says |
|---|---|---|
| `Inductive` | `EngineProofs` | `Spec => []IInv`, the inductive invariant of the engine |
| `ReportTrue` | `EngineProofs` | `Spec => []ReportIsTrue`: `ExactlyOnce`, `FinalCountsAreTrue`, `SuccessIsComplete`, `OwedMeansInterrupted`, `FatalIsWhole` |
| `LedgerImplemented` | `EngineProofs` | `Spec => ImplementsLedger`: the engine refines `JobLedger`, and `DoneIsStable`: once no worker is alive none appears and a ring that is empty stays so, which is why `qn_engine_done` may look at one after the other |
| `RoomInductive`, `TypeCorrect`, `NeverDrops`, `Accounting`, `Conservation` | `EngineProofs` | the half of `IInv` that stands alone: no push finds its ring full, each worker's counters balance, no slot is leaked or given out twice |
| `RingCorrect` | `RingProofs` | `Spec => []RingInv`: stale caches err on the safe side, results come out in order and whole |
| `RingIsBoundedFifo` | `RingProofs` | `Spec => Fifo!Spec`: the ring refines `BoundedFifo`, refusals included |
| `CommitCorrect` | `CommitProofs` | `Spec => []CommitInv`: a file is replaced whole or not at all, and what was reported durable survives |
| `StageCorrect` | `StageProofs` | `Spec => []StageInv`: one commit for each candidate, totals that add up, nothing left behind |

### Assumptions

* `EngineAssumption`: finitely many workers, positive sizes, and a ring of
  `2 * NSlots + 2` events or more, as `qn_engine_init` sizes it.
* `RingParameters`: two slots or more, and indices that wrap at a multiple of the capacity
  that is at least twice the capacity.  `pow2_ceil` gives a power of two from 2 to 2^31 and
  the indices have 32 bits, so both hold.
* `CommitParameters`: a file that was there before was written by none of the calls and is
  on the disk.  It may be whole, cut or absent.
* `StageAssumption`: sizes are positive and there are no more threads than candidates, as
  `cf_scan_tunnel` chooses them; the caller is not one of its threads.

`MaxRuns`, `MaxPush` and `MaxTurns` bound what TLC explores and are arbitrary in the proofs.

### The engine

*Why `IInv`.*  None of the properties is inductive alone.  `IInv` has two halves.

`RoomInv` is about one worker at a time.  A push cannot fail because `worker_fill` draws
a job only when the ring has room for it and for everything the worker already owes; so
the invariant says, at every step, that the events in the ring and those still owed (in
flight, in hand, retained) are fewer than the capacity: the last conjunct of `WorkerInv`.
What is owed counts live slots, so `inflight` must be their number, which needs the
freelist to be free of repeats and disjoint from the live slots, and a job in hand must be
the one being launched, with a free slot to go to.

`FateInv` is about all of them.  `ExactlyOnce` needs to know that the chunks of the workers
are disjoint and below the cursor, and that an index below the cursor is in exactly one
place: `OneFate` says which, and `OnePlace` that a worker has it once.  The totals need
`CountInv`: over the workers of this run, completed events are those the task got and those
still in a ring, and what was skipped or unattempted is what was declined or is owed.
`SuccessIsComplete` and `OwedMeansInterrupted` need the reason why each worker stopped
(`Reasoned`, `Chunked`): the domain is used up, the task declined an index, or the engine
is stopping.  `FatalIsWhole` needs `FatalInv`, the order in which the one winner of the
exchange publishes a failure.  `RunInv` ties the threads to the owner's position and
`FinalInv` the report to the counters it was made from.

*How it is divided.*  `EngineRoom` proves `RoomInv`: a worker's step keeps its own part
(`Local`) and does not touch the others' (`Frame`).  `EngineControl` proves the types, the
positions of the threads, the publication of a failure and the report.  `EngineFate` proves
`Fate` and `OnePlace` over the moves a job can make, and maps each of these moves to a step of
`JobLedger` or to a stutter.  `EngineCounts` proves `CountInv` and that `IInv` implies
`ReportIsTrue`.  Each assumes all of `IInv` before the step and shows its part after it;
`EngineProofs` puts them together.

*Counting.*  A total is the cardinality of a set of units (`SumOver`), so that it needs no
recursion.  What the proofs use of finite sets and totals is gathered in `Counting` and
`Totals`; the last part of `EngineCounts` proves both from the theorems about finite sets.

### The ring

`RingIInv` says which true counts the wrapped indices stand for: `tail` is the number
published and `head` the number handed out, modulo their width, the producer's cached copy
is an earlier count of the consumer and the consumer's a count the producer has reached.
From it and arithmetic modulo the width (`ModSub`, `ModNear`), full and empty are
recognised correctly however stale the caches, and a slot being written is never one being
read.  The refinement maps the queue to what was published and not yet handed out.

### Replacing a file

`CommitIInv` says how far each call has got and what that makes of its temporary file
(`Sound`), and that whatever has the destination's name now, and every file it may lead to
after a crash, is what was there before or a whole and synced file of a call that is past its rename, and no older
than what was promised (`Placed`).  The proof treats the four ways to replace a file
separately, and a kill, a crash and a load once for all.

### The tunnel stage

`StageIInv` says for each worker what it may hold at each position (`WorkerOk`), for each
scanner who is at work (`Crew`) and what the counters count (`Books`), and that a candidate
up to the shared counter is in the hands of one worker or has its result (`Handed`).  The
steps of a worker inside an attempt leave the books alone (`Moves`); taking and committing a
candidate, starting and joining threads are the ones that matter.

### Only model-checked

* Liveness (`RunEnds`, `Drains`, `ProbeEnds`, `TunnelEnds`, `SessionEnds`, `SweepIsPunctual`'s
  termination, `CreditReturned`): fairness is outside the prover.
* `PassedThroughOwnChild`: it rests on the port sequence not coming round to a port between
  its release and Xray's bind, which is a matter of how many ports the others draw in that
  time against the span, and not true of every span; the run draws ports again after a wrap.
* `CfInv`, `PortsInv`, `DiscoverInv`, `DrawsEachOnce`, `PacingInv`, `KeysAreTyped` and the
  protocols: their operators recurse over data (sorting, drawing, decoding), and induction
  over data is outside the prover.  `PlanFits` is a function of its inputs, evaluated.
* `WheelInv`, `SlotInv`, the probe's part of `ReportsAreTrue`, `PoolInv`, `ConnectionInv`, `SuccessIsEarned`, `AppInv`,
  `OutcomeIsTrue`, `StoreInv`, `KeepsBothSides`, `SnapshotIsOneVersion` and `ScanIsConfirmed` are
  invariants of the same kind as those proved; they have no proof yet (section 8).

## 5. The findings with runs of their own

`timewheel_long`: `src/core/timewheel.c:83` says "Re-arm lands strictly past
now_tick, so the sweep terminates."  A deadline of a turn or more is clamped
relative to the time of the sweep; when the cursor is two ticks or more behind,
the node lands in a slot the sweep has yet to pass or is in, and the sweep does
not end.  `SweepTerminates` holds (run `worker`) when the wheel is never more than a
tick behind, or when no deadline is that long.

`link_file`: the command of `README.md:418` for a headless tunnel scan is refused,
whatever the link file holds.  `load_tunnel_link` copies the link into `tunnel_link`
and leaves `tunnel_link_file` set; the second `validate_options` (`main.c:1770`) then
finds both and reports that they are mutually exclusive.  A link file chosen in the
menu meets the same check.

`two_scanners`: `docs/TUNNEL-VERIFICATION.md:79-82` says of another process that takes the
port between its release and the bind of Xray that "such a race is detected as a startup
or SOCKS failure" and that it "can never become a false tunnel success."  `socks_ready`
(`tunnel_runtime.c:386`) is content with a connection to whoever listens, every inbound is
open (`tunnel_config.c:322`), and two scanners draw ports in the same order
(`tunnel_runtime.c:29`).  The Xray of one scanner may therefore serve the probe of the
other, whose record then says that its own candidate passed.  Among the workers of one
scanner this does not happen (`PassedThroughOwnChild`, run `verify`): they share the sequence.

## 6. Where code and text differ

These were met while modelling.  The properties say exactly what the code
guarantees; the difference to what a document or comment says is listed here.

* `engine.c:1510` accounts for claimed indices as completed, skipped or
  unattempted; `docs/ARCHITECTURE.md:79` leaves out the skipped ones.
* `engine.c:669` reports `QN_TLS_SILENCE` ("no answer after ClientHello",
  `probe.h:24`) for a fast-open probe whose connection never came up.
* `verify.c:1059` sets the deadline of a connection anew for every read it parses,
  in the hold too; with `timeout_ms` below `idle_ms` any frame early in the hold
  ends it as a timeout, while `README.md:302` says the connection is held for the
  configured period.  See `HoldIsNotTimedOut`.
* `verify.c:1424` makes a success of an HTTP/1.1 connection closed before the first
  byte of the answer; over HTTP/2 it is a rejection (`docs/TLS.md:60`).
  `SuccessMeansAnswered` is about both and makes this one exception.
* `verify.c:877` ends the pass as a local failure when replies to frames fill the
  output buffer; `README.md:383` and `verify.h:88` keep peers and local failures
  apart.
* `tunnel_runtime.c:386` accepts whoever listens on the port (section 5).
* `docs/TLS.md:40` says that certificate messages are checked "enough to preserve bounded
  framing and handshake order", the comment at `tls13.c:1115` that ordering is in scope,
  and `docs/TLS.md:89` that a ticket is accepted "only in the legal post-handshake
  sequence".  After a compressed chain the code takes further chains or a request;
  handshake bytes behind a ServerHello in its own record are taken unprotected; a TLS 1.2
  ServerHello may follow a retry; TLS 1.2 tickets may repeat before ChangeCipherSpec.
  `Ordered13` and `Ordered12` in `TlsInv` allow these.
* `app.c:1715`: q in the plan view during a scan ends the session without folding
  in the cancelled stage, so the exit code is 0 (`docs/ARCHITECTURE.md:236`,
  `docs/SCAN-PLAN.md:135`).  The same holds of a scan launched by a key typed
  after q.  `hist.lost` in `SuccessMeansComplete`.
* `app.c:268`: the network view may hold the one background thread when
  verification is due, which then fails; `app.c:537`: it may take the thread
  before `pump` has read the result of the ICMP stage, which is then lost.
  `main.c:1012` says that headless and interactive outcomes agree.
  `hist.disturbed` in `FrontEndsAgree`.
* `app.c:529`: x after the ICMP stage last looked at the flag does not keep the
  sweep from starting (`README.md:485`).  `Heard` in `KeyStop`.
* `app.c:431`: an ICMP-only discovery needs the engine in the interactive front
  end and not in the headless one.
* `store.c:404`: a full table drops rows that only the file has, while the comment
  at `store.c:380` says every address is kept.  See `KeepsBothSides`.
* `store.c:517`: a save whose directory sync fails reports failure with the new
  file in place; `docs/ARCHITECTURE.md:245` says the old one stays.
  `SavedSurvives` counts only the saves that report success.  The other files are
  the same: `docs/SCAN-PLAN.md:147` says that a failed commit leaves the prior
  destination intact, and a directory sync that fails after the rename does not
  (`late` in `CommitInv`).  `export.c:59` and `store.c:374` count `EINVAL`, `ENOTSUP`
  and `EROFS` as synced: where the file system cannot sync a directory (`dirsync` FALSE) they
  report a success that a crash may still undo, so `SavedSurvives` and `Survives` promise
  nothing after one there; the settings file and the Xray installation report them;
  the range update ignores the result.
* `main.c:1787` makes a run headless when input or output is no terminal, after the
  checks: tunnel traffic then needs no `--tunnel-confirm`, which `main.c:91`, `main.c:558`
  and `README.md:413` ask for.
* `main.c:703`: `--cf` after `--limit N` sets the full mode again, where `README.md:298`
  gives `--limit` the last word.
* `engine.c:405`, `461`, `492` cut the window also under `--no-adaptive`, and nothing
  then lets it grow; the thermal cap applies too.  `README.md:505` holds the window
  fixed, `main.c:166` pins it.

The following contradict no text; the properties are stated around them.

* Menu (`LaunchInv`): a link or Xray path left over with the stage off, a stage without
  a link before a host scan, and IPv6 chosen for hosts before a Cloudflare scan are
  accepted by the menu and refused by `main` with exit code 2.  The editor in the
  interface enables the stage without a link (`Leftover`).  Left and right on the review
  line drop a plan that waits.
* Plan: the tunnel target is not clamped again when finalists are cut to fit memory
  (`shrunk`).
* HTTP/1: a feed reports one event, so the end of an answer and a further 1xx head in
  one read share it (`mixed`); two 1xx heads in one read count once; a second final
  head is refused in the read that ends the first and kept as early data in another;
  early data is lost at the end of the stream.
* HTTP/2: `RST_STREAM` after `END_STREAM` is a protocol error.
* TLS: after a retry with a cookie only, a share of a group that was not offered is
  accepted; application data read together with an alert is discarded.
* SOCKS5: bytes that come in the same read before they were asked for are refused.
* Keys: a sequence whose rest is unread for 30 ms is cut (`raced`); one that is too
  long loses the byte that overflows.
* Pacing: refills round down, so the rate is a little below the one asked for; the
  first cut needs no interval.
* Ranges: a prefix nested in a capped IPv6 prefix is dropped although the cap hides its
  addresses.  Two changes of a file within one tick of the file system's clock cannot be
  told apart (`raced` in `Snapshot`).
* Discovery: with a cancel flag the wait for ICMP ends at the first silence of 25 ms; the
  displayed total stays an estimate where no host is left for TCP.

## 7. What is left out

Inside the modelled parts: in `Engine` pacing is a free choice of when to draw, and
`Pacing` has the rules; memory orderings are those the code asks for (acquire and
release), so steps interleave; in `VerifyConn` a read contains anything a protocol
module may conclude; header, extension and address syntax is a flag that says whether
it is well formed; hashes and keys are symbolic; floating-point sampling in the bandit
is any order; handshake times, notes and other values no decision depends on are
dropped; the wall clock of the history has two readings.

Not modelled, and why:

* Cryptography and the vendored libraries: arithmetic on wide words, out of TLC's reach;
  the repository checks them against test vectors.
* Text and byte conversion without state: `tls_hello.c`, `tls_fp.c`, `tls_cert.c`,
  `profile.c`, `tunnel_link.c`, `tunnel_config.c`, the HPACK integers and Huffman code, the
  formats of exports, the text of settings, port lists, addresses and host names, and the
  comparison of output paths in `validate_options`.
* Pure input and output: `netinfo.c`, `cpuinfo.c`, `util.c`, `term.c`, `screen.c`,
  `widgets.c`, the drawing in `app.c`, the doctor and fingerprint commands, and the displayed
  rate (`rate_sample`).
* Menu entries that change nothing a scan is checked for, and the range update of the
  menu, which is the one `Commit` models.

`PROJECT.json` names every part with its status.

## 8. Plan

1. Proofs, in the order of what they would say: `ListsPartitionArmed` of the wheel,
   `PoolsMatchSlots` of the verifier, `OneOwner` of the front end, `FileIsLoadable` and
   `LockGuardsSave` of the history.
2. `StageInv` with two scanners at once in a run: the theorem of section 4 covers them, the
   bounds of `verify` do not.
