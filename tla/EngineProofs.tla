---------------------------- MODULE EngineProofs ----------------------------
(* The theorems about Engine.  EngineControl keeps the types, the positions of   *)
(* the threads and the report; EngineRoom the room in the rings; EngineFate      *)
(* where every index is, and the ledger; EngineCounts what the counters count.   *)
(* Each needs the others' parts of the invariant only before a step.             *)
EXTENDS EngineControl, EngineRoom, EngineFate, EngineCounts

\* What a worker's step leaves to the owner: it is the step of a thread of this run.
LEMMA WorkerInRun ==
  ASSUME RoomInv, FateInv
  PROVE  \A w \in Workers : Worker(w) =>
           /\ w \in spawned /\ UNCHANGED <<spawned, owner>>
           /\ owner \notin {"idle", "closed", "failed"}
<1> SUFFICES ASSUME NEW w \in Workers, Worker(w)
             PROVE  /\ w \in spawned /\ UNCHANGED <<spawned, owner>>
                    /\ owner \notin {"idle", "closed", "failed"}
  OBVIOUS
<1>1. OwnStep(w) BY WorkerSteps
<1>2. RunInv BY DEF FateInv
<1> QED BY <1>1, <1>2, Counted, RunWorker

\* Every step keeps the room in the rings.
LEMMA StepRoom ==
  ASSUME RoomInv, [Next]_vars
  PROVE  RoomInv'
<1>1. TypeOK BY DEF RoomInv
<1>2. \A w \in Workers : wpc[w] = "launch" => hand[w] # NoJob BY DEF RoomInv, WorkerInv
<1>3. TypeOK' BY <1>1, <1>2, Counted, NextTypes
<1> QED BY <1>3, Counted, NextRoom

\* Every step keeps the rest of the invariant.
LEMMA StepFate ==
  ASSUME RoomInv, FateInv, [Next]_vars
  PROVE  FateInv'
<1>1. RoomInv' BY StepRoom
<1>2. Control' BY <1>1, Counted, NextControl
<1>3. Fate' /\ \A w \in Workers : OnePlace(w)' BY Counted, NextFates
<1>4. \A w \in Workers : Worker(w) => w \in spawned /\ UNCHANGED spawned BY WorkerInRun
<1>5. CountInv' BY <1>4, Totalled, NextCounts
<1> QED BY <1>2, <1>3, <1>5 DEF FateInv, Control

\* worker_fill's reservation holds in every reachable state: for any number of
\* workers, slots and indices, and any ring that qn_engine_init may size.
THEOREM RoomInductive == Spec => []RoomInv
<1>1. Init => RoomInv BY Counted, InitRoom
<1>2. RoomInv /\ [Next]_vars => RoomInv' BY StepRoom
<1> QED BY <1>1, <1>2, PTL DEF Spec

\* Every variable keeps its type.
THEOREM TypeCorrect == Spec => []TypeOK
<1>1. RoomInv => TypeOK BY DEF RoomInv
<1> QED BY <1>1, RoomInductive, PTL

\* No result is ever dropped: qn_ring_push of a worker never finds its ring full.
THEOREM NeverDrops == Spec => []NoDrop
<1>1. RoomInv => NoDrop BY DEF RoomInv
<1> QED BY <1>1, RoomInductive, PTL

\* Each worker's claimed count is the sum of what became of its claims.
THEOREM Accounting == Spec => []WorkerAccounting
<1>1. RoomInv => WorkerAccounting BY DEF RoomInv
<1> QED BY <1>1, RoomInductive, PTL

\* Slots are never leaked, and never given to two probes.
THEOREM Conservation == Spec => []SlotsConserved
<1>1. RoomInv => SlotsConserved BY DEF RoomInv
<1> QED BY <1>1, RoomInductive, PTL

\* The whole invariant of the engine holds in every reachable state: where every
\* index is, what the counters count, why the workers stop and what is published.
THEOREM Inductive == Spec => []IInv
<1>1. Init => IInv
  <2> SUFFICES ASSUME Init PROVE IInv OBVIOUS
  <2>1. RoomInv BY Counted, InitRoom
  <2>2. Control /\ Fate /\ CountInv /\ \A w \in Workers : OnePlace(w)
    BY Counted, Totalled, InitControl, InitFates, InitCounts
  <2> QED BY <2>1, <2>2 DEF IInv, FateInv, Control
<1>2. IInv /\ [Next]_vars => IInv'
  <2> SUFFICES ASSUME IInv, [Next]_vars PROVE IInv' OBVIOUS
  <2>1. RoomInv /\ FateInv BY DEF IInv
  <2> QED BY <2>1, StepRoom, StepFate DEF IInv
<1> QED BY <1>1, <1>2, PTL DEF Spec

\* What qn_engine_poll and qn_engine_finalize tell the task of a run is the truth,
\* for any number of workers, slots, indices and runs: no index is worked on or
\* reported twice; the totals are those of the events and of the indices left; a
\* success reported every index the task did not decline; work still owed means an
\* interrupted run; and a failure is published whole and fails the run.
THEOREM ReportTrue == Spec => []ReportIsTrue
<1>1. IInv => ReportIsTrue BY Totalled, IInvReport
<1> QED BY <1>1, Inductive, PTL

\* The engine implements the ledger its task sees, and qn_engine_done is final.
THEOREM LedgerImplemented == Spec => ImplementsLedger
<1>1. Init => Ledger!Init BY LedgerInit
<1>2. IInv /\ [Next]_vars => [Ledger!Next]_Ledger!vars
  <2> SUFFICES ASSUME IInv, [Next]_vars PROVE [Ledger!Next]_Ledger!vars OBVIOUS
  <2>1. \A w \in Workers : Worker(w) => UNCHANGED owner /\ owner \notin {"idle", "closed", "failed"}
    BY WorkerInRun DEF IInv
  <2> QED BY <2>1, Counted, LedgerStep
<1>3. IInv /\ [Next]_vars =>
        [owner = "running" /\ owner' = "running" /\ alive = 0 =>
           alive' = 0 /\ \A w \in Workers : ring[w] = << >> => ring'[w] = << >>]_vars
  BY Counted, DoneStep
<1>4. Spec => Ledger!Spec BY <1>1, <1>2, Inductive, PTL DEF Spec, Ledger!Spec
<1>5. Spec => DoneIsStable BY <1>3, Inductive, PTL DEF Spec, DoneIsStable
<1> QED BY <1>4, <1>5, PTL DEF ImplementsLedger
=============================================================================
