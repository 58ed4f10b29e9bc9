---------------------------- MODULE EngineControl ----------------------------
(* Every step of Engine keeps the type of every variable, and what its control   *)
(* rests on: which threads run, why a worker stops, how a failure is published   *)
(* and when the run is settled.  The type invariant is split as Engine.tla       *)
(* splits it, so that a step proves only the parts it changes.                   *)
EXTENDS Engine, TLAPS

-----------------------------------------------------------------------------
(* Types.                                                                       *)

\* A group of variables that a step leaves alone keeps its types.
LEMMA TypeUnchanged ==
  /\ TypeShared /\ UNCHANGED shared => TypeShared'
  /\ TypePc /\ UNCHANGED <<wpc, wret>> => TypePc'
  /\ TypeClaim /\ UNCHANGED claimVars => TypeClaim'
  /\ TypeJob /\ UNCHANGED jobVars => TypeJob'
  /\ TypeSlot /\ UNCHANGED slotVars => TypeSlot'
  /\ TypeRing /\ UNCHANGED ringVars => TypeRing'
  /\ TypeStats /\ UNCHANGED stats => TypeStats'
  /\ TypeOwner /\ UNCHANGED ownerVars => TypeOwner'
  /\ TypeHistory /\ UNCHANGED history => TypeHistory'
<1>1. TypeShared /\ UNCHANGED shared => TypeShared' BY Zenon DEF TypeShared, shared
<1>2. TypePc /\ UNCHANGED <<wpc, wret>> => TypePc' BY Zenon DEF TypePc
<1>3. TypeClaim /\ UNCHANGED claimVars => TypeClaim' BY Zenon DEF TypeClaim, claimVars
<1>4. TypeJob /\ UNCHANGED jobVars => TypeJob' BY Zenon DEF TypeJob, jobVars
<1>5. TypeSlot /\ UNCHANGED slotVars => TypeSlot' BY Zenon DEF TypeSlot, slotVars
<1>6. TypeRing /\ UNCHANGED ringVars => TypeRing' BY Zenon DEF TypeRing, ringVars
<1>7. TypeStats /\ UNCHANGED stats => TypeStats' BY Zenon DEF TypeStats, stats
<1>8. TypeOwner /\ UNCHANGED ownerVars => TypeOwner' BY Zenon DEF TypeOwner, ownerVars
<1>9. TypeHistory /\ UNCHANGED history => TypeHistory' BY Zenon DEF TypeHistory, history
<1> QED BY <1>1, <1>2, <1>3, <1>4, <1>5, <1>6, <1>7, <1>8, <1>9, Zenon

\* Steps that only move a worker, or touch the shared flags.
LEMMA TypeControl ==
  ASSUME TypeOK, NEW w \in Workers,
         \/ LoopTop(w) \/ FillReturn(w) \/ BreakDrained(w) \/ WaitReturns(w)
         \/ WaitFails(w) \/ EventsDone(w) \/ Exit(w) \/ Fatal(w)
  PROVE  TypeOK'
<1>1. TypePc'
  <2>0. wpc \in [Workers -> WorkerPc] /\ wret \in [Workers -> {"filled", "retire"}]
    BY Zenon DEF TypeOK, TypePc
  <2>1. \A pc \in WorkerPc : Goto(w, pc) => wpc' \in [Workers -> WorkerPc]
    BY <2>0, Zenon DEF Goto
  <2>2. wret' \in [Workers -> {"filled", "retire"}]
    BY <2>0, Zenon DEF LoopTop, FillReturn, BreakDrained, WaitReturns,
       WaitFails, EventsDone, Exit, Fatal, FatalCas, FatalErrno, FatalFlag, FatalStop
  <2>3. \E pc \in WorkerPc : Goto(w, pc)
    <3> USE DEF WorkerPc
    <3>1. CASE LoopTop(w) BY <3>1, Zenon DEF LoopTop
    <3>2. CASE FillReturn(w) BY <3>2, Zenon DEF FillReturn
    <3>3. CASE BreakDrained(w) BY <3>3, Zenon DEF BreakDrained
    <3>4. CASE WaitReturns(w) BY <3>4, Zenon DEF WaitReturns
    <3>5. CASE WaitFails(w) BY <3>5, Zenon DEF WaitFails
    <3>6. CASE EventsDone(w) BY <3>6, Zenon DEF EventsDone
    <3>7. CASE Exit(w) BY <3>7, Zenon DEF Exit
    <3>8. CASE Fatal(w)
      BY <2>0, <3>8, Zenon DEF Fatal, FatalCas, FatalErrno, FatalFlag, FatalStop
    <3> QED BY <3>1, <3>2, <3>3, <3>4, <3>5, <3>6, <3>7, <3>8, Zenon
  <2> QED BY <2>1, <2>2, <2>3, Zenon DEF TypePc
<1>2. TypeShared'
  <2>1. CASE Exit(w) BY <2>1 DEF Exit, TypeOK, TypeShared
  <2>2. CASE Fatal(w)
    BY <2>2, Zenon DEF Fatal, FatalCas, FatalErrno, FatalFlag, FatalStop, TypeOK, TypeShared
  <2>3. CASE UNCHANGED shared BY <2>3, TypeUnchanged, Zenon DEF TypeOK
  <2> QED BY <2>1, <2>2, <2>3, Zenon DEF LoopTop, FillReturn, BreakDrained, WaitReturns,
             WaitFails, EventsDone
<1>3. UNCHANGED <<claimVars, jobVars, slotVars, ringVars, stats, ownerVars, history>>
  BY Zenon DEF LoopTop, FillReturn, BreakDrained, WaitReturns,
     WaitFails, EventsDone, Exit, Fatal, FatalCas, FatalErrno, FatalFlag, FatalStop
<1> QED BY <1>1, <1>2, <1>3, TypeUnchanged, Zenon DEF TypeOK

\* Complete, for a job that is an index.
LEMMA TypeComplete ==
  ASSUME TypeRing, TypeStats, NEW w \in Workers, NEW i \in Idx,
         NEW isLocal \in BOOLEAN, Complete(w, i, isLocal)
  PROVE  TypeRing' /\ TypeStats'
<1>1. TypeRing'
  <2> USE DEF TypeRing, Complete, Push, Bump
  <2>1. CASE Len(ring[w]) < RCap
    <3>1. Append(ring[w], i) \in Seq(Idx) OBVIOUS
    <3> QED BY <2>1, <3>1, Zenon
  <2>2. CASE ~(Len(ring[w]) < RCap) BY <2>2
  <2> QED BY <2>1, <2>2, Zenon
<1>2. TypeStats' BY DEF TypeStats, Complete, Bump
<1> QED BY <1>1, <1>2, Zenon

\* worker_fill takes the retained job or draws an index.
LEMMA TypeFill ==
  ASSUME TypeOK, NEW w \in Workers, Draw(w)
  PROVE  TypeOK'
<1> USE EngineAssumption DEF TypeOK
<1>1. CASE TakePending(w)
  <2>1. TypePc' BY <1>1, Zenon DEF TakePending, TypePc, Goto, WorkerPc
  <2>2. TypeJob' BY <1>1, Zenon DEF TakePending, TypeJob, JobOrNone
  <2> QED BY <1>1, <2>1, <2>2, TypeUnchanged, Zenon DEF TakePending
<1>2. ASSUME ClaimNext(w)
      PROVE  /\ cursor' \in Nat /\ Drawn(w) \in Nat
             /\ end' \in [Workers -> Nat] /\ cur' \in [Workers -> Nat]
  BY <1>2 DEF ClaimNext, Drawn, TypeShared, TypeClaim
<1>3. CASE ClaimPastDomain(w)
  <2>1. TypePc' BY <1>3, Zenon DEF ClaimPastDomain, TypePc, Goto, WorkerPc
  <2>2. TypeShared' BY <1>2, <1>3, Zenon DEF ClaimPastDomain, TypeShared
  <2>3. TypeClaim' BY <1>2, <1>3, Zenon DEF ClaimPastDomain, TypeClaim
  <2> QED BY <1>3, <2>1, <2>2, <2>3, TypeUnchanged, Zenon DEF ClaimPastDomain
<1>4. CASE ClaimJob(w)
  <2>1. TypePc' BY <1>4, Zenon DEF ClaimJob, TypePc, Goto, WorkerPc
  <2>2. TypeShared' BY <1>2, <1>4, Zenon DEF ClaimJob, TypeShared
  <2>3. TypeClaim' BY <1>2, <1>4, Zenon DEF ClaimJob, TypeClaim
  <2>4. Drawn(w) \in Idx BY <1>2, <1>4 DEF ClaimJob, Idx
  <2>5. TypeJob' BY <1>4, <2>4, Zenon DEF ClaimJob, TypeJob, JobOrNone
  <2>6. TypeStats' BY <1>4 DEF ClaimJob, TypeStats, Bump
  <2> QED BY <1>4, <2>1, <2>2, <2>3, <2>5, <2>6, TypeUnchanged, Zenon DEF ClaimJob
<1>5. ASSUME NEW rc \in Answers \ {"job"}, ClaimDeclined(w, rc) PROVE TypeOK'
  <2>1. TypePc' BY <1>5, Zenon DEF ClaimDeclined, TypePc, Goto, WorkerPc
  <2>2. TypeShared' BY <1>2, <1>5, Zenon DEF ClaimDeclined, TypeShared
  <2>3. TypeClaim' BY <1>2, <1>5, Zenon DEF ClaimDeclined, TypeClaim
  <2>4. TypeStats' BY <1>5 DEF ClaimDeclined, TypeStats, Bump
  <2>5. TypeHistory' BY <1>5, Zenon DEF ClaimDeclined, TypeHistory
  <2> QED BY <1>5, <2>1, <2>2, <2>3, <2>4, <2>5, TypeUnchanged, Zenon DEF ClaimDeclined
<1> QED BY <1>1, <1>3, <1>4, <1>5, Zenon DEF Draw

\* probe_launch's outcomes: the job in hand is an index.
LEMMA TypeLaunch ==
  ASSUME TypeOK, NEW w \in Workers, Launch(w), hand[w] # NoJob
  PROVE  TypeOK'
<1> USE EngineAssumption DEF TypeOK
<1>1. hand[w] \in Idx BY Zenon DEF TypeJob, JobOrNone
<1>2. ASSUME ForgetPending(w) PROVE TypeJob'
  BY <1>2 DEF ForgetPending, TypeJob, JobOrNone
<1>3. ASSUME NEW pc \in WorkerPc, Goto(w, pc), UNCHANGED wret PROVE TypePc'
  BY <1>3, Zenon DEF Goto, TypePc
<1>4. "fill" \in WorkerPc /\ "filled" \in WorkerPc BY Zenon DEF WorkerPc
<1>5. CASE LaunchOk(w)
  <2>1. slot' \in [Workers -> [Slots -> JobOrNone]]
    BY <1>1, <1>5, Zenon DEF LaunchOk, TypeSlot, JobOrNone
  <2>2. freelist' \in [Workers -> Seq(Slots)]
    <3>1. SubSeq(freelist[w], 1, Len(freelist[w]) - 1) \in Seq(Slots)
      BY DEF TypeSlot
    <3> QED BY <1>5, <3>1, Zenon DEF LaunchOk, TypeSlot
  <2>3. inflight' \in [Workers -> Int] BY <1>5 DEF LaunchOk, TypeSlot
  <2> QED BY <1>2, <1>3, <1>4, <1>5, <2>1, <2>2, <2>3, TypeUnchanged, Zenon DEF LaunchOk, TypeSlot
<1>6. ASSUME NEW isLocal \in BOOLEAN, LaunchEnds(w, isLocal) PROVE TypeOK'
  <2>1. TypeRing' /\ TypeStats' BY <1>1, <1>6, TypeComplete, Zenon DEF LaunchEnds
  <2> QED BY <1>2, <1>3, <1>4, <1>6, <2>1, TypeUnchanged DEF LaunchEnds
<1>7. CASE LaunchRetry(w)
  <2>1. TypeJob'
    <3>1. inflight[w] > 0 \/ tries[w] + 1 \in 0..(Tries - 1)
      BY <1>7 DEF LaunchRetry, TypeJob
    <3> QED BY <1>7, <1>1, <3>1, Zenon DEF LaunchRetry, TypeJob, JobOrNone
  <2> QED BY <1>3, <1>4, <1>7, <2>1, TypeUnchanged, Zenon DEF LaunchRetry
<1>8. CASE LaunchAbandon(w)
  <2>1. TypeRing' /\ TypeStats' BY <1>1, <1>8, TypeComplete, Zenon DEF LaunchAbandon
  <2> QED BY <1>2, <1>3, <1>4, <1>8, <2>1, TypeUnchanged, Zenon DEF LaunchAbandon
<1> QED BY <1>5, <1>6, <1>7, <1>8, Zenon DEF Launch

\* A probe ends, in the event loop or in worker_retire.
LEMMA TypeFinish ==
  ASSUME TypeOK, NEW w \in Workers, NEW s \in Slots, slot[w][s] # NoJob,
         NEW isLocal \in BOOLEAN, Finish(w, s, isLocal)
  PROVE  TypeRing' /\ TypeStats' /\ TypeSlot'
<1> USE DEF TypeOK
<1>1. slot[w][s] \in Idx BY Zenon DEF TypeSlot, JobOrNone
<1>2. TypeRing' /\ TypeStats' BY <1>1, TypeComplete, Zenon DEF Finish
<1>3. slot' \in [Workers -> [Slots -> JobOrNone]] BY Zenon DEF Finish, TypeSlot, JobOrNone
<1>4. freelist' \in [Workers -> Seq(Slots)]
  <2>1. Append(freelist[w], s) \in Seq(Slots) BY DEF TypeSlot
  <2> QED BY <2>1, Zenon DEF Finish, TypeSlot
<1>5. inflight' \in [Workers -> Int] BY DEF Finish, TypeSlot
<1> QED BY <1>2, <1>3, <1>4, <1>5, Zenon DEF TypeSlot

\* The rest of a chunk is a natural number of indices.
LEMMA LostNat ==
  ASSUME TypeClaim, NEW w \in Workers
  PROVE  Lost(w) \in Nat
<1>1. cur[w] \in Nat /\ end[w] \in Nat /\ Domain \in Nat BY EngineAssumption, Zenon DEF TypeClaim
<1> QED BY <1>1 DEF Lost

\* worker_retire's steps, and a probe that ends in the event loop.
LEMMA TypeRetire ==
  ASSUME TypeOK, NEW w \in Workers, Retire(w) \/ \E s \in Slots : EndProbe(w, s)
  PROVE  TypeOK'
<1> USE DEF TypeOK
<1>0. \A pc \in WorkerPc : Goto(w, pc) /\ UNCHANGED wret => TypePc'
  BY Zenon DEF Goto, TypePc
<1>1. ASSUME NEW s \in Slots, NEW isLocal \in BOOLEAN, FinishProbe(w, s, isLocal)
      PROVE  TypeOK'
  BY <1>1, TypeFinish, TypeUnchanged, Zenon DEF FinishProbe
<1>2. ASSUME NEW s \in Slots, RetireProbe(w, s) PROVE TypeOK'
  BY <1>2, TypeFinish, TypeUnchanged, Zenon DEF RetireProbe
<1>3. CASE RetirePending(w)
  <2>1. TypePc'
    <3>1. "retire_tail" \in WorkerPc BY Zenon DEF WorkerPc
    <3> QED BY <1>0, <1>3, <3>1, Zenon DEF RetirePending
  <2>2. CASE pending[w] # NoJob
    <3>1. pending[w] \in Idx BY <2>2, Zenon DEF TypeJob, JobOrNone
    <3>2. fatal \in BOOLEAN BY Zenon DEF TypeShared
    <3>3. Complete(w, pending[w], fatal) BY <1>3, <2>2, Zenon DEF RetirePending
    <3>4. TypeRing' /\ TypeStats'
      <4>1. Complete(w, pending[w], TRUE) \/ Complete(w, pending[w], FALSE)
        BY <3>2, <3>3, Zenon DEF Complete, Bump
      <4> QED BY <3>1, <4>1, TypeComplete, Zenon
    <3>5. TypeJob' BY <1>3, <2>2, Zenon DEF RetirePending, TypeJob, JobOrNone
    <3> QED BY <1>3, <2>1, <3>4, <3>5, TypeUnchanged, Zenon DEF RetirePending
  <2>3. CASE pending[w] = NoJob
    <3>1. UNCHANGED <<jobVars, ringVars, stats>> BY <1>3, <2>3, Zenon DEF RetirePending, jobVars
    <3> QED BY <1>3, <2>1, <3>1, TypeUnchanged, Zenon DEF RetirePending
  <2> QED BY <2>2, <2>3, Zenon
<1>4. CASE RetireTail(w)
  <2>1. TypePc'
    <3>1. "exit" \in WorkerPc BY Zenon DEF WorkerPc
    <3> QED BY <1>0, <1>4, <3>1, Zenon DEF RetireTail
  <2>2. Lost(w) \in Nat BY LostNat, Zenon
  <2>3. TypeStats'
    <3> DEFINE n == Lost(w)
    <3>1. /\ claimed' = [claimed EXCEPT ![w] = @ + n]
          /\ \/ skipped' = [skipped EXCEPT ![w] = @ + n] /\ UNCHANGED unattempted
             \/ unattempted' = [unattempted EXCEPT ![w] = @ + n] /\ UNCHANGED skipped
          /\ UNCHANGED <<completed, localFail>>
      BY <1>4, Zenon DEF RetireTail, Bump
    <3>2. n \in Nat BY <2>2, Zenon
    <3> HIDE DEF n
    <3> QED BY <3>1, <3>2 DEF TypeStats
  <2>4. TypeClaim' BY <1>4, Zenon DEF RetireTail, TypeClaim
  <2>5. TypeHistory' BY <1>4, Zenon DEF RetireTail, TypeHistory
  <2> QED BY <1>4, <2>1, <2>3, <2>4, <2>5, TypeUnchanged, Zenon DEF RetireTail
<1>5. CASE Exit(w) BY <1>5, TypeControl, Zenon
<1> QED BY <1>1, <1>2, <1>3, <1>4, <1>5, Zenon DEF Retire, EndProbe

\* qn_engine_start resets a worker to well-typed fields.
LEMMA TypeReset ==
  ASSUME TypeOK, NEW w \in Workers, ResetWorker(w), UNCHANGED hand
  PROVE  TypeClaim' /\ TypeJob' /\ TypeSlot' /\ TypeRing' /\ TypeStats'
<1> USE EngineAssumption DEF TypeOK, ResetWorker
<1>1. TypeClaim' BY Zenon DEF TypeClaim
<1>2. TypeJob' BY DEF TypeJob, JobOrNone
<1>3. TypeSlot'
  <2>1. [s \in Slots |-> NSlots + 1 - s] \in Seq(Slots)
    <3>1. \A s \in 1..NSlots : NSlots + 1 - s \in 1..NSlots OBVIOUS
    <3> QED BY <3>1 DEF Slots
  <2>2. freelist' \in [Workers -> Seq(Slots)] BY <2>1, Zenon DEF TypeSlot
  <2>3. slot' \in [Workers -> [Slots -> JobOrNone]] BY Zenon DEF TypeSlot, JobOrNone
  <2>4. inflight' \in [Workers -> Int] BY DEF TypeSlot
  <2> QED BY <2>2, <2>3, <2>4, Zenon DEF TypeSlot
<1>4. TypeRing'
  <2>1. << >> \in Seq(Idx) OBVIOUS
  <2> QED BY <2>1, Zenon DEF TypeRing
<1>5. TypeStats' BY Zenon DEF TypeStats, ResetStats
<1> QED BY <1>1, <1>2, <1>3, <1>4, <1>5, Zenon

\* qn_engine_start, its loop over the workers and its failure path.
LEMMA TypeStart ==
  ASSUME TypeOK, Start
  PROVE  TypeOK'
<1> USE DEF TypeOK
<1>1. CASE StartBegin
  <2>1. TypeShared'
    <3>1. /\ cursor' = 0 /\ alive' = 0 /\ stopping' = FALSE /\ stopCond' = FALSE
          /\ fatal' = FALSE /\ fatalErrno' = FALSE /\ fatalWorker' = NoWorker
      BY <1>1, Zenon DEF StartBegin
    <3>2. cursor' \in Nat /\ alive' \in Int BY <3>1
    <3>3. /\ stopping' \in BOOLEAN /\ stopCond' \in BOOLEAN
          /\ fatal' \in BOOLEAN /\ fatalErrno' \in BOOLEAN BY <3>1, Zenon
    <3> QED BY <3>1, <3>2, <3>3, Zenon DEF TypeShared
  <2>2. TypePc' BY <1>1, Zenon DEF StartBegin, TypePc, WorkerPc
  <2>3. TypeOwner' BY <1>1 DEF StartBegin, TypeOwner, OwnerPc, NoFinal
  <2>4. TypeHistory' BY <1>1, Zenon DEF StartBegin, TypeHistory
  <2> QED BY <1>1, <2>1, <2>2, <2>3, <2>4, TypeUnchanged, Zenon DEF StartBegin
<1>2. CASE StartDone
  <2>1. TypeOwner' BY <1>2, Zenon DEF StartDone, TypeOwner, OwnerPc
  <2> QED BY <1>2, <2>1, TypeUnchanged, Zenon DEF StartDone, workerVars
<1>3. CASE Unwind
  <2>1. TypeOwner' BY <1>3, Zenon DEF Unwind, TypeOwner, OwnerPc
  <2>2. TypeShared' BY <1>3 DEF Unwind, TypeShared, TypeOwner
  <2> QED BY <1>3, <2>1, <2>2, TypeUnchanged, Zenon DEF Unwind, workerVars
<1>4. ASSUME NEW w \in Workers, SpawnOk(w) PROVE TypeOK'
  <2>1. TypeShared' BY <1>4 DEF SpawnOk, TypeShared
  <2>2. TypePc' BY <1>4, Zenon DEF SpawnOk, TypePc, Goto, WorkerPc
  <2>3. TypeOwner' BY <1>4 DEF SpawnOk, TypeOwner, OwnerPc
  <2> QED BY <1>4, <2>1, <2>2, <2>3, TypeReset, TypeUnchanged, Zenon DEF SpawnOk
<1>5. ASSUME NEW w \in Workers, SpawnFail(w) PROVE TypeOK'
  <2>1. TypeShared' BY <1>5, Zenon DEF SpawnFail, TypeShared
  <2>2. TypeOwner'
    <3>1. /\ final.accounted \in BOOLEAN /\ final.failed \in BOOLEAN
          /\ final.outcome \in {"none", "failed", "cancelled", "incomplete", "success"}
          /\ final = [accounted |-> final.accounted, failed |-> final.failed,
                      worker |-> final.worker, outcome |-> final.outcome]
      BY Zenon DEF TypeOwner
    <3>2. final' = [accounted |-> final.accounted, failed |-> final.failed,
                    worker |-> w, outcome |-> final.outcome]
      BY <1>5, <3>1, Zenon DEF SpawnFail
    <3> QED BY <1>5, <3>1, <3>2, Zenon DEF SpawnFail, TypeOwner, OwnerPc
  <2> QED BY <1>5, <2>1, <2>2, TypeReset, TypeUnchanged, Zenon DEF SpawnFail
<1> QED BY <1>1, <1>2, <1>3, <1>4, <1>5, Zenon DEF Start

\* qn_engine_finalize up to the outcome.
LEMMA TypeFinalize ==
  ASSUME TypeOK, Finalize
  PROVE  TypeOK'
<1> USE DEF TypeOK
<1>1. CASE FinalizeDone
  <2>1. TypeOwner' BY <1>1 DEF FinalizeDone, TypeOwner, OwnerPc
  <2> QED BY <1>1, <2>1, TypeUnchanged, Zenon DEF FinalizeDone, workerVars
<1>2. CASE FinalizeCancel
  <2>1. TypeOwner' BY <1>2, Zenon DEF FinalizeCancel, TypeOwner, OwnerPc
  <2>2. TypeShared' BY <1>2, Zenon DEF FinalizeCancel, TypeShared
  <2> QED BY <1>2, <2>1, <2>2, TypeUnchanged, Zenon DEF FinalizeCancel, workerVars
<1>3. CASE Join
  <2>1. TypeOwner' BY <1>3, Zenon DEF Join, TypeOwner, OwnerPc, SettledStatus
  <2> QED BY <1>3, <2>1, TypeUnchanged, Zenon DEF Join, workerVars
<1>4. CASE Settle
  <2>1. PICK ok \in BOOLEAN :
          final' = [accounted |-> ok, failed |-> fatal,
                    worker |-> IF fatal THEN fatalWorker ELSE NoWorker,
                    outcome |-> Outcome(ok)]
    BY <1>4, Zenon DEF Settle, Accounted
  <2>2. Outcome(ok) \in {"failed", "cancelled", "incomplete", "success"}
    BY Zenon DEF Outcome
  <2>3. fatal \in BOOLEAN /\ fatalWorker \in Workers \cup {NoWorker} BY Zenon DEF TypeShared
  <2>4. TypeOwner' BY <1>4, <2>1, <2>2, <2>3 DEF Settle, TypeOwner, OwnerPc
  <2> QED BY <1>4, <2>4, TypeUnchanged, Zenon DEF Settle, workerVars
<1> QED BY <1>1, <1>2, <1>3, <1>4, Zenon DEF Finalize

\* qn_engine_poll takes the first n events of a ring.
LEMMA TypePoll ==
  ASSUME Counting, TypeOK, NEW w \in Workers, NEW n \in 1..RCap, Poll(w, n)
  PROVE  TypeOK'
<1> USE DEF TypeOK
<1>1. n \in 1..Len(ring[w]) /\ ring[w] \in Seq(Idx) BY Zenon DEF Poll, TypeRing
<1>2. IsFiniteSet(1..n) BY <1>1, SMTT(60) DEF Counting
<1>3. TypeHistory'
  <2>1. ASSUME NEW i \in Idx
        PROVE  got[i] + Cardinality({k \in 1..n : ring[w][k] = i}) \in Nat
    <3> DEFINE S == {k \in 1..n : ring[w][k] = i}
    <3>1. IsFiniteSet(S) BY <1>2, Zenon DEF Counting
    <3>2. Cardinality(S) \in Nat BY <3>1, Zenon DEF Counting
    <3> HIDE DEF S
    <3>3. got[i] + Cardinality(S) \in Nat BY <3>2 DEF TypeHistory
    <3> QED BY <3>3, Zenon DEF S
  <2>2. got' \in [Idx -> Nat] BY <2>1, Zenon DEF Poll
  <2> QED BY <2>2, Zenon DEF Poll, TypeHistory
<1>4. TypeRing'
  <2>1. SubSeq(ring[w], n + 1, Len(ring[w])) \in Seq(Idx) BY <1>1
  <2> QED BY <2>1, Zenon DEF Poll, TypeRing
<1> QED BY <1>3, <1>4, TypeUnchanged, Zenon DEF Poll

\* Every step keeps the types.
LEMMA NextTypes ==
  ASSUME Counting, TypeOK, [Next]_vars, \A w \in Workers : wpc[w] = "launch" => hand[w] # NoJob
  PROVE  TypeOK'
<1>1. ASSUME NEW w \in Workers, Worker(w) PROVE TypeOK'
  <2>1. CASE Fill(w)
    <3>1. FillReturn(w) \/ Draw(w) BY <2>1, Zenon DEF Fill, Draw
    <3> QED BY <3>1, TypeControl, TypeFill, Zenon
  <2>2. CASE Wait(w)
    <3>1. \/ BreakDrained(w) \/ WaitReturns(w) \/ WaitFails(w) \/ EventsDone(w)
          \/ \E s \in Slots : EndProbe(w, s)
      BY <2>2, Zenon DEF Wait, EndProbe
    <3> QED BY <3>1, TypeControl, TypeRetire, Zenon
  <2>3. CASE Launch(w)
    <3>1. wpc[w] = "launch"
      BY <2>3, Zenon DEF Launch, LaunchOk, LaunchRetry, LaunchAbandon, LaunchEnds
    <3> QED BY <2>3, <3>1, TypeLaunch, Zenon
  <2>4. CASE LoopTop(w) \/ Fatal(w) BY <2>4, TypeControl, Zenon
  <2>5. CASE Retire(w) BY <2>5, TypeRetire, Zenon
  <2> QED BY <1>1, <2>1, <2>2, <2>3, <2>4, <2>5, Zenon DEF Worker
<1>2. CASE UNCHANGED vars
  BY <1>2, TypeUnchanged, Zenon DEF vars, workerVars, TypeOK
<1> QED BY <1>1, <1>2, TypeStart, TypeFinalize, TypePoll, Zenon DEF Next, Finished

-----------------------------------------------------------------------------
(* What a worker's step may touch.                                              *)

SameWorker(v) == /\ wpc'[v] = wpc[v] /\ drained'[v] = drained[v] /\ reason'[v] = reason[v]
                 /\ pending'[v] = pending[v] /\ cur'[v] = cur[v] /\ end'[v] = end[v]
                 /\ slot'[v] = slot[v] /\ ring'[v] = ring[v] /\ unattempted'[v] = unattempted[v]

Publishing == {"fatal_errno", "fatal_flag"}

\* A worker changes its own fields only, runs before the step and is running or has
\* left after it; it never withdraws a stop nor returns an index to the cursor; and
\* only engine_fatal touches what it publishes.
OwnStep(w) ==
  /\ UNCHANGED ownerVars
  /\ \A v \in Workers \ {w} : SameWorker(v)
  /\ wpc[w] \notin {"off", "dead"} /\ wpc'[w] \in WorkerPc \ {"off"}
  /\ alive' = IF wpc'[w] = "dead" THEN alive - 1 ELSE alive
  /\ (stopping => stopping') /\ cursor <= cursor'
  /\ \/ Fatal(w)
     \/ /\ UNCHANGED <<fatal, fatalErrno, fatalWorker>>
        /\ wpc[w] \notin Publishing /\ wpc'[w] \notin Publishing

\* Every step of a worker is one.
LEMMA WorkerSteps ==
  ASSUME RoomInv, NEW w \in Workers, Worker(w)
  PROVE  OwnStep(w)
<1>0. /\ wpc \in [Workers -> WorkerPc] /\ wret \in [Workers -> {"filled", "retire"}]
      /\ drained \in [Workers -> BOOLEAN] /\ cursor \in Nat /\ Chunk \in Nat /\ alive \in Int
      /\ reason \in [Workers -> {"job", "exhausted", "stop_condition", "cancelled", "fatal"}]
      /\ cur \in [Workers -> Nat] /\ end \in [Workers -> Nat]
      /\ pending \in [Workers -> JobOrNone] /\ ring \in [Workers -> Seq(Idx)]
      /\ slot \in [Workers -> [Slots -> JobOrNone]] /\ unattempted \in [Workers -> Nat]
  BY EngineAssumption, Zenon
  DEF RoomInv, TypeOK, TypeShared, TypePc, TypeClaim, TypeJob, TypeSlot, TypeRing, TypeStats
<1>1. \A i : Push(w, i) => \A v \in Workers \ {w} : ring'[v] = ring[v]
  BY <1>0, Zenon DEF Push
<1>2. ClaimNext(w) => /\ cursor <= cursor'
                      /\ \A v \in Workers \ {w} : cur'[v] = cur[v] /\ end'[v] = end[v]
  BY <1>0 DEF ClaimNext
<1>3. cursor <= cursor BY <1>0
<1> USE DEF OwnStep, SameWorker, Publishing, Goto, WorkerPc, shared, claimVars, jobVars,
        slotVars, ringVars, stats
<1>4. CASE LoopTop(w) BY <1>0, <1>3, <1>4, Zenon DEF LoopTop
<1>5. CASE Fill(w)
  <2>1. CASE FillReturn(w) BY <1>0, <1>3, <2>1, Zenon DEF FillReturn
  <2>2. CASE TakePending(w) BY <1>0, <1>3, <2>2, Zenon DEF TakePending, MayFill
  <2>3. CASE ClaimPastDomain(w)
    BY <1>0, <1>2, <2>3, Zenon DEF ClaimPastDomain, MayClaim, MayFill
  <2>4. CASE ClaimJob(w) BY <1>0, <1>2, <2>4, Zenon DEF ClaimJob, MayClaim, MayFill
  <2>5. ASSUME NEW rc \in Answers \ {"job"}, ClaimDeclined(w, rc) PROVE OwnStep(w)
    BY <1>0, <1>2, <2>5, Zenon DEF ClaimDeclined, MayClaim, MayFill
  <2> QED BY <1>5, <2>1, <2>2, <2>3, <2>4, <2>5, Zenon DEF Fill
<1>6. CASE Launch(w)
  <2>1. CASE LaunchOk(w) BY <1>0, <1>3, <2>1, Zenon DEF LaunchOk, ForgetPending
  <2>2. CASE LaunchRetry(w) BY <1>0, <1>3, <2>2, Zenon DEF LaunchRetry
  <2>3. CASE LaunchAbandon(w)
    BY <1>0, <1>1, <1>3, <2>3, Zenon DEF LaunchAbandon, ForgetPending, Complete
  <2>4. ASSUME NEW isLocal \in BOOLEAN, LaunchEnds(w, isLocal) PROVE OwnStep(w)
    BY <1>0, <1>1, <1>3, <2>4, Zenon DEF LaunchEnds, ForgetPending, Complete
  <2> QED BY <1>6, <2>1, <2>2, <2>3, <2>4, Zenon DEF Launch
<1>7. CASE Wait(w)
  <2>1. CASE BreakDrained(w) BY <1>0, <1>3, <2>1, Zenon DEF BreakDrained
  <2>2. CASE WaitReturns(w) BY <1>0, <1>3, <2>2, Zenon DEF WaitReturns
  <2>3. CASE WaitFails(w) BY <1>0, <1>3, <2>3, Zenon DEF WaitFails
  <2>4. CASE EventsDone(w) BY <1>0, <1>3, <2>4, Zenon DEF EventsDone
  <2>5. ASSUME NEW s \in Slots, NEW isLocal \in BOOLEAN, FinishProbe(w, s, isLocal)
        PROVE  OwnStep(w)
    BY <1>0, <1>1, <1>3, <2>5, Zenon DEF FinishProbe, Finish, Complete
  <2> QED BY <1>7, <2>1, <2>2, <2>3, <2>4, <2>5, Zenon DEF Wait
<1>8. CASE Fatal(w)
  <2>1. UNCHANGED <<ownerVars, claimVars, jobVars, slotVars, ringVars, stats, cursor, alive, wret>>
    BY <1>8, Zenon DEF Fatal, FatalCas, FatalErrno, FatalFlag, FatalStop
  <2>2. /\ \A v \in Workers \ {w} : wpc'[v] = wpc[v]
        /\ wpc[w] \notin {"off", "dead"} /\ wpc'[w] \in WorkerPc \ {"off", "dead"}
        /\ stopping => stopping'
    <3>1. CASE FatalCas(w) BY <1>0, <3>1 DEF FatalCas
    <3>2. CASE FatalErrno(w) BY <1>0, <3>2, Zenon DEF FatalErrno
    <3>3. CASE FatalFlag(w) BY <1>0, <3>3, Zenon DEF FatalFlag
    <3>4. CASE FatalStop(w) BY <1>0, <3>4, Zenon DEF FatalStop
    <3> QED BY <1>8, <3>1, <3>2, <3>3, <3>4, Zenon DEF Fatal
  <2> QED BY <1>3, <1>8, <2>1, <2>2, Zenon
<1>9. CASE Retire(w)
  <2>1. CASE RetirePending(w)
    <3>1. CASE pending[w] = NoJob BY <1>0, <1>3, <2>1, <3>1, Zenon DEF RetirePending
    <3>2. CASE pending[w] # NoJob
      <4>1. Push(w, pending[w]) /\ UNCHANGED unattempted
        BY <2>1, <3>2, Zenon DEF RetirePending, Complete
      <4>2. pending' = [pending EXCEPT ![w] = NoJob] BY <2>1, <3>2, Zenon DEF RetirePending
      <4>3. /\ wpc[w] = "retire" /\ wpc' = [wpc EXCEPT ![w] = "retire_tail"]
            /\ UNCHANGED <<shared, claimVars, slotVars, ownerVars>>
        BY <2>1, Zenon DEF RetirePending
      <4> QED BY <1>0, <1>1, <1>3, <4>1, <4>2, <4>3, Zenon
    <3> QED BY <3>1, <3>2, Zenon
  <2>2. CASE RetireTail(w)
    <3>1. \A v \in Workers \ {w} : unattempted'[v] = unattempted[v]
      BY <1>0, <2>2, Zenon DEF RetireTail, Bump
    <3>2. /\ wpc[w] = "retire_tail" /\ wpc' = [wpc EXCEPT ![w] = "exit"]
          /\ cur' = [cur EXCEPT ![w] = end[w]]
          /\ UNCHANGED <<shared, drained, reason, end, jobVars, slotVars, ringVars, ownerVars>>
      BY <2>2, Zenon DEF RetireTail
    <3> QED BY <1>0, <1>3, <3>1, <3>2, Zenon
  <2>3. CASE Exit(w) BY <1>0, <1>3, <2>3, Zenon DEF Exit
  <2>4. ASSUME NEW s \in Slots, RetireProbe(w, s) PROVE OwnStep(w)
    BY <1>0, <1>1, <1>3, <2>4, Zenon DEF RetireProbe, Finish, Complete
  <2> QED BY <1>9, <2>1, <2>2, <2>3, <2>4, Zenon DEF Retire
<1> QED BY <1>4, <1>5, <1>6, <1>7, <1>8, <1>9, Zenon DEF Worker

-----------------------------------------------------------------------------
(* A worker's step keeps the rest of the invariant.                             *)

\* The owner's view: the threads that run, the rings of the workers not started.
LEMMA RunWorker ==
  ASSUME Counting, RoomInv, RunInv, NEW w \in Workers, OwnStep(w)
  PROVE  /\ RunInv' /\ FinalInv' /\ w \in spawned /\ UNCHANGED <<owner, spawned>>
         /\ owner \notin {"idle", "drain", "closed", "failed"} /\ alive > 0
<1>1. /\ UNCHANGED <<owner, spawned, status, final>> /\ wpc[w] \notin {"off", "dead"}
      /\ wpc'[w] # "off" /\ \A v \in Workers \ {w} : wpc'[v] = wpc[v] /\ ring'[v] = ring[v]
  BY Zenon DEF OwnStep, ownerVars, SameWorker
<1>2. w \in spawned BY <1>1, Zenon DEF RunInv
<1>3. owner \notin {"idle", "drain", "closed", "failed"}
  <2>1. w \in Running /\ IsFiniteSet(Running) BY <1>1, EngineAssumption, Zenon DEF Running, Counting
  <2>2. Cardinality(Running) # 0 BY <2>1, Zenon DEF Counting
  <2> QED BY <1>1, <2>2, Zenon DEF RoomInv, OwnerInv, RunInv
<1>4. alive' = Cardinality(Running')
  <2>1. IsFiniteSet(Running) BY EngineAssumption, Zenon DEF Running, Counting
  <2>2. w \in Running BY <1>1, Zenon DEF Running
  <2>3. CASE wpc'[w] = "dead"
    <3>1. Running' = Running \ {w} BY <1>1, <2>3, Zenon DEF Running
    <3>2. alive' = alive - 1 BY <2>3, Zenon DEF OwnStep
    <3>3. Cardinality(Running \ {w}) = Cardinality(Running) - 1 BY <2>1, <2>2, Zenon DEF Counting
    <3> QED BY <3>1, <3>2, <3>3, Zenon DEF RunInv
  <2>4. CASE wpc'[w] # "dead"
    <3>1. Running' = Running BY <1>1, <2>2, <2>4, Zenon DEF Running
    <3>2. alive' = alive BY <2>4, Zenon DEF OwnStep
    <3> QED BY <3>1, <3>2, Zenon DEF RunInv
  <2> QED BY <2>3, <2>4, Zenon
<1>5. \A v \in Workers : wpc'[v] # "off" <=> v \in spawned BY <1>1, <1>2, Zenon DEF RunInv
<1>6. owner = "starting" => \A v \in Workers \ spawned : ring'[v] = << >>
  BY <1>1, <1>2, Zenon DEF RunInv
<1>7. RunInv' BY <1>1, <1>3, <1>4, <1>5, <1>6, Zenon DEF RunInv
<1>8. FinalInv' BY <1>1, <1>3, Zenon DEF FinalInv
<1>9. alive > 0
  <2>1. w \in Running /\ IsFiniteSet(Running) BY <1>1, EngineAssumption, Zenon DEF Running, Counting
  <2>2. Cardinality(Running) # 0 /\ Cardinality(Running) \in Nat
    BY <2>1, Zenon DEF Counting
  <2> QED BY <2>2 DEF RunInv
<1> QED BY <1>1, <1>2, <1>3, <1>7, <1>8, <1>9, Zenon

\* engine_fatal publishes in order, and only the worker that won the exchange does.
LEMMA FatalWorkerStep ==
  ASSUME RoomInv, FatalInv, NEW w \in Workers, OwnStep(w)
  PROVE  FatalInv'
<1>0. /\ wpc \in [Workers -> WorkerPc] /\ fatal \in BOOLEAN
      /\ wret \in [Workers -> {"filled", "retire"}]
      /\ fatalWorker \in Workers \cup {NoWorker} /\ NoWorker \notin Workers
  BY EngineAssumption, Zenon DEF RoomInv, TypeOK, TypePc, TypeShared
<1>1. \A v \in Workers \ {w} : wpc'[v] = wpc[v] BY Zenon DEF OwnStep, SameWorker
<1>2. CASE /\ UNCHANGED <<fatal, fatalErrno, fatalWorker>>
           /\ wpc[w] \notin Publishing /\ wpc'[w] \notin Publishing
  BY <1>0, <1>1, <1>2, Zenon DEF FatalInv, Publishing
<1>3. CASE FatalCas(w)
  <2>1. CASE fatalWorker = NoWorker
    <3>1. /\ fatalWorker' = w /\ wpc'[w] = "fatal_errno" /\ UNCHANGED <<fatal, fatalErrno>>
      BY <1>0, <1>3, <2>1, Zenon DEF FatalCas, Goto
    <3> QED BY <1>0, <1>1, <2>1, <3>1, Zenon DEF FatalInv
  <2>2. CASE fatalWorker # NoWorker
    <3>1. /\ wpc[w] = "fatal_cas" /\ wpc'[w] = "fatal_stop"
          /\ UNCHANGED <<fatal, fatalErrno, fatalWorker>>
      BY <1>0, <1>3, <2>2, Zenon DEF FatalCas, Goto
    <3> QED BY <1>0, <1>1, <2>2, <3>1, Zenon DEF FatalInv
  <2> QED BY <2>1, <2>2, Zenon
<1>4. CASE FatalErrno(w)
  <2>1. /\ wpc[w] = "fatal_errno" /\ wpc'[w] = "fatal_flag" /\ fatalErrno' = TRUE
        /\ UNCHANGED <<fatal, fatalWorker>>
    BY <1>0, <1>4, Zenon DEF FatalErrno, Goto
  <2> QED BY <1>0, <1>1, <2>1, Zenon DEF FatalInv
<1>5. CASE FatalFlag(w)
  <2>1. /\ wpc[w] = "fatal_flag" /\ wpc'[w] = "fatal_stop" /\ fatal' = TRUE
        /\ UNCHANGED <<fatalErrno, fatalWorker>>
    BY <1>0, <1>5, Zenon DEF FatalFlag, Goto
  <2> QED BY <1>0, <1>1, <2>1, Zenon DEF FatalInv
<1>6. CASE FatalStop(w)
  <2>1. /\ wpc[w] = "fatal_stop" /\ wpc'[w] \in {"filled", "retire"}
        /\ UNCHANGED <<fatal, fatalErrno, fatalWorker>>
    BY <1>0, <1>6, Zenon DEF FatalStop, Goto
  <2> QED BY <1>0, <1>1, <2>1, Zenon DEF FatalInv
<1> QED BY <1>2, <1>3, <1>4, <1>5, <1>6, Zenon DEF OwnStep, Fatal

\* A worker's chunk, slots and retained job through its own step.
LEMMA ChunkedStep ==
  ASSUME RoomInv, RoomInv', \A v \in Workers : Chunked(v), NEW w \in Workers, Worker(w), OwnStep(w)
  PROVE  \A v \in Workers : Chunked(v)'
<1>0. /\ wpc \in [Workers -> WorkerPc] /\ wret \in [Workers -> {"filled", "retire"}]
      /\ cursor \in Nat /\ cursor' \in Nat /\ Chunk \in Nat /\ cur \in [Workers -> Nat]
      /\ end \in [Workers -> Nat] /\ pending \in [Workers -> JobOrNone]
  BY EngineAssumption, Zenon DEF RoomInv, TypeOK, TypeShared, TypePc, TypeClaim, TypeJob
<1>1. ASSUME NEW v \in Workers \ {w} PROVE Chunked(v)'
  <2>1. SameWorker(v) /\ cursor <= cursor' BY Zenon DEF OwnStep
  <2>2. end[v] <= cursor => end[v] <= cursor' BY <1>0, <2>1
  <2>3. LiveSlots(v)' = LiveSlots(v) BY <2>1, Zenon DEF LiveSlots, SameWorker
  <2> QED BY <2>1, <2>2, <2>3, Zenon DEF Chunked, SameWorker
<1> SUFFICES Chunked(w)' BY <1>1, Zenon
<1> DEFINE Quiet == {"retire_tail", "exit", "dead", "off"}
<1>2. ASSUME UNCHANGED <<cur, end, cursor>>, wpc'[w] \notin Quiet PROVE Chunked(w)'
  BY <1>2, Zenon DEF Chunked
<1>3. ASSUME ClaimNext(w), wpc'[w] \notin Quiet PROVE Chunked(w)'
  <2>1. cur'[w] < end'[w] => end'[w] <= cursor'
    <3>1. CASE NeedsChunk(w)
      <4>1. end'[w] = cursor + Chunk /\ cursor' = cursor + Chunk
        BY <1>0, <1>3, <3>1, Zenon DEF ClaimNext
      <4> QED BY <1>0, <4>1, SMTT(60)
    <3>2. CASE ~NeedsChunk(w)
      <4>1. end'[w] = end[w] /\ cursor' = cursor /\ cur[w] < end[w]
        BY <1>0, <1>3, <3>2 DEF ClaimNext, NeedsChunk
      <4> QED BY <4>1, Zenon DEF Chunked
    <3> QED BY <3>1, <3>2, Zenon
  <2> QED BY <1>3, <2>1, Zenon DEF Chunked
<1> USE DEF Goto, claimVars, shared
<1>4. CASE LoopTop(w) BY <1>0, <1>2, <1>4, Zenon DEF LoopTop
<1>5. CASE Fill(w)
  <2>1. CASE FillReturn(w) BY <1>0, <1>2, <2>1, Zenon DEF FillReturn
  <2>2. CASE TakePending(w) BY <1>0, <1>2, <2>2, Zenon DEF TakePending
  <2>3. CASE ClaimPastDomain(w) BY <1>0, <1>3, <2>3, Zenon DEF ClaimPastDomain
  <2>4. CASE ClaimJob(w) BY <1>0, <1>3, <2>4, Zenon DEF ClaimJob
  <2>5. ASSUME NEW rc \in Answers \ {"job"}, ClaimDeclined(w, rc) PROVE Chunked(w)'
    BY <1>0, <1>3, <2>5, Zenon DEF ClaimDeclined
  <2> QED BY <1>5, <2>1, <2>2, <2>3, <2>4, <2>5, Zenon DEF Fill
<1>6. CASE Launch(w)
  <2>1. UNCHANGED <<cur, end, cursor>> /\ wpc'[w] \in {"fill", "filled"}
    BY <1>0, <1>6, Zenon DEF Launch, LaunchOk, LaunchRetry, LaunchAbandon, LaunchEnds
  <2> QED BY <1>2, <2>1, Zenon
<1>7. CASE Wait(w)
  <2>1. UNCHANGED <<cur, end, cursor>> /\ wpc'[w] \in {"retire", "events", "fatal_cas", "loop"}
    BY <1>0, <1>7, Zenon DEF Wait, BreakDrained, WaitReturns, WaitFails, EventsDone, FinishProbe
  <2> QED BY <1>2, <2>1, Zenon
<1>8. CASE Fatal(w)
  <2>1. /\ UNCHANGED <<cur, end, cursor>>
        /\ wpc'[w] \in {"fatal_errno", "fatal_flag", "fatal_stop", "filled", "retire"}
    BY <1>0, <1>8, Zenon DEF Fatal, FatalCas, FatalErrno, FatalFlag, FatalStop
  <2> QED BY <1>2, <2>1, Zenon
<1>9. CASE Retire(w)
  <2>1. CASE RetirePending(w)
    <3>1. /\ UNCHANGED <<cur, end, cursor, slot>> /\ wpc'[w] = "retire_tail"
          /\ LiveSlots(w) = {}
      BY <1>0, <2>1, Zenon DEF RetirePending, slotVars
    <3>2. pending'[w] = NoJob
      <4>1. CASE pending[w] = NoJob BY <2>1, <4>1, Zenon DEF RetirePending
      <4>2. CASE pending[w] # NoJob BY <1>0, <2>1, <4>2, Zenon DEF RetirePending
      <4> QED BY <4>1, <4>2, Zenon
    <3> QED BY <3>1, <3>2, Zenon DEF Chunked, LiveSlots
  <2>2. CASE RetireTail(w)
    <3>1. /\ UNCHANGED <<end, slot, pending>> /\ wpc[w] = "retire_tail" /\ wpc'[w] = "exit"
          /\ cur'[w] = end[w] /\ end[w] \in Nat
      BY <1>0, <2>2, Zenon DEF RetireTail, slotVars, jobVars
    <3>2. ~(end[w] < end[w]) /\ end[w] <= end[w] BY <3>1, SMTT(60)
    <3> QED BY <3>1, <3>2, Zenon DEF Chunked, LiveSlots
  <2>3. CASE Exit(w)
    <3>1. /\ UNCHANGED <<cur, end, cursor, slot, pending>> /\ wpc[w] = "exit" /\ wpc'[w] = "dead"
      BY <1>0, <2>3, Zenon DEF Exit, slotVars, jobVars
    <3> QED BY <3>1, Zenon DEF Chunked, LiveSlots
  <2>4. ASSUME NEW s \in Slots, RetireProbe(w, s) PROVE Chunked(w)'
    BY <1>2, <2>4, Zenon DEF RetireProbe
  <2> QED BY <1>9, <2>1, <2>2, <2>3, <2>4, Zenon DEF Retire
<1> QED BY <1>4, <1>5, <1>6, <1>7, <1>8, <1>9, Zenon DEF Worker

\* Why a task is drained.
Cause == cursor >= Domain \/ \E j \in Idx : left[j] = "declined"
InFatal == {"fatal_cas", "fatal_errno", "fatal_flag", "fatal_stop"}

\* A cause stays, and so does the reason of a worker that does not change it.
LEMMA ReasonedKept ==
  ASSUME NEW v \in Workers, Reasoned(v), Cause => Cause', stopping => stopping',
         drained'[v] = drained[v], reason'[v] = reason[v], unattempted'[v] = unattempted[v],
         wpc'[v] \in {"retire", "retire_tail", "exit", "dead"} => stopping' \/ drained[v],
         wpc[v] \in InFatal => wpc'[v] \in InFatal \/ stopping'
  PROVE  Reasoned(v)'
BY Zenon DEF Reasoned, Cause, InFatal

\* No step of a worker takes a cause away.
LEMMA CauseStep ==
  ASSUME RoomInv, RoomInv', Fate, NEW w \in Workers, Worker(w), OwnStep(w)
  PROVE  Cause => Cause'
<1>0. cursor \in Nat /\ cursor' \in Nat /\ Domain \in Nat /\ cursor <= cursor'
      /\ left \in [Idx -> {"no", "declined", "owed"}]
  BY EngineAssumption, Zenon DEF RoomInv, TypeOK, TypeShared, TypeHistory, OwnStep
<1>1. cursor >= Domain => cursor' >= Domain BY <1>0
<1>2. ASSUME NEW j \in Idx, left[j] = "declined" PROVE left'[j] = "declined"
  <2>1. CASE UNCHANGED left BY <1>2, <2>1, Zenon
  <2>2. CASE RetireTail(w)
    <3>1. j \notin ChunkTail(w) BY <1>2, Zenon DEF Fate, OneFate
    <3> QED BY <1>2, <2>2, <3>1, Zenon DEF RetireTail
  <2>3. ASSUME NEW rc, ClaimDeclined(w, rc) PROVE left'[j] = "declined"
    BY <1>0, <1>2, <2>3, Zenon DEF ClaimDeclined
  <2>4. \/ UNCHANGED left \/ RetireTail(w) \/ \E rc \in Answers \ {"job"} : ClaimDeclined(w, rc)
    BY Zenon DEF Worker, LoopTop, Fill, FillReturn, TakePending, ClaimPastDomain, ClaimJob, Launch,
       LaunchOk, LaunchRetry, LaunchAbandon, LaunchEnds, Wait, BreakDrained, WaitReturns,
       WaitFails, EventsDone, FinishProbe, Fatal, FatalCas, FatalErrno, FatalFlag, FatalStop,
       Retire, RetirePending, Exit, RetireProbe, history
  <2> QED BY <2>1, <2>2, <2>3, <2>4, Zenon
<1> QED BY <1>1, <1>2, Zenon DEF Cause

\* Why a worker stops, through its own step.
LEMMA ReasonedStep ==
  ASSUME RoomInv, RoomInv', Fate, \A v \in Workers : Chunked(v) /\ OnePlace(v),
         spawned \subseteq Workers, \A v \in spawned : Reasoned(v),
         NEW w \in spawned, Worker(w), OwnStep(w)
  PROVE  \A v \in spawned : Reasoned(v)'
<1>0. /\ wpc \in [Workers -> WorkerPc] /\ wret \in [Workers -> {"filled", "retire"}]
      /\ drained \in [Workers -> BOOLEAN] /\ unattempted \in [Workers -> Nat]
      /\ reason \in [Workers -> {"job", "exhausted", "stop_condition", "cancelled", "fatal"}]
      /\ stopping \in BOOLEAN /\ w \in Workers
  BY Zenon DEF RoomInv, TypeOK, TypeShared, TypePc, TypeClaim, TypeStats
<1>1. (Cause => Cause') /\ (stopping => stopping') BY <1>0, CauseStep, Zenon DEF OwnStep
<1>2. ASSUME NEW v \in spawned \ {w} PROVE Reasoned(v)'
  <2>1. SameWorker(v) BY <1>2, Zenon DEF OwnStep
  <2>2. wpc'[v] \in {"retire", "retire_tail", "exit", "dead"} => stopping' \/ drained[v]
    BY <1>1, <2>1, Zenon DEF Reasoned, SameWorker
  <2> QED BY <1>1, <2>1, <2>2, ReasonedKept, Zenon DEF SameWorker
<1> SUFFICES Reasoned(w)' BY <1>2, Zenon
<1>3. ASSUME UNCHANGED <<drained, reason, unattempted>>,
             wpc'[w] \in {"retire", "retire_tail", "exit", "dead"} => stopping' \/ drained[w],
             wpc[w] \in InFatal => wpc'[w] \in InFatal \/ stopping'
      PROVE  Reasoned(w)'
  BY <1>0, <1>1, <1>3, ReasonedKept, Zenon
<1> USE DEF Goto, claimVars, stats, shared, InFatal
<1>4. CASE LoopTop(w) BY <1>0, <1>3, <1>4, Zenon DEF LoopTop
<1>5. CASE Fill(w)
  <2>1. CASE FillReturn(w) BY <1>0, <1>3, <2>1, Zenon DEF FillReturn
  <2>2. CASE TakePending(w) BY <1>0, <1>3, <2>2, Zenon DEF TakePending, MayFill
  <2>3. CASE ClaimPastDomain(w)
    <3>1. /\ reason'[w] = "exhausted" /\ drained'[w] = TRUE /\ wpc'[w] = "filled"
          /\ unattempted'[w] = unattempted[w] /\ UNCHANGED stopping
      BY <1>0, <2>3, Zenon DEF ClaimPastDomain
    <3>2. cursor' >= Domain
      <4>0. /\ cursor \in Nat /\ cur \in [Workers -> Nat] /\ end \in [Workers -> Nat]
            /\ Chunk \in Nat /\ Domain \in Nat
        BY EngineAssumption, Zenon DEF RoomInv, TypeOK, TypeShared, TypeClaim
      <4>1. ClaimNext(w) /\ Drawn(w) >= Domain BY <2>3, Zenon DEF ClaimPastDomain
      <4>2. CASE NeedsChunk(w)
        BY <4>0, <4>1, <4>2 DEF ClaimNext, Drawn
      <4>3. CASE ~NeedsChunk(w)
        <5>1. cur[w] >= Domain /\ cur[w] < end[w] /\ cursor' = cursor
          BY <1>0, <4>0, <4>1, <4>3 DEF ClaimNext, Drawn, NeedsChunk
        <5>2. end[w] <= cursor BY <1>0, <5>1, Zenon DEF Chunked
        <5> QED BY <1>0, <4>0, <5>1, <5>2
      <4> QED BY <4>2, <4>3, Zenon
    <3> QED BY <3>1, <3>2, Zenon DEF Reasoned
  <2>4. CASE ClaimJob(w) BY <1>0, <1>3, <2>4, Zenon DEF ClaimJob, MayClaim, MayFill
  <2>5. ASSUME NEW rc \in Answers \ {"job"}, ClaimDeclined(w, rc) PROVE Reasoned(w)'
    <3>1. /\ reason'[w] = rc /\ drained'[w] = TRUE /\ unattempted'[w] = unattempted[w]
          /\ wpc'[w] = IF rc = "fatal" THEN "fatal_cas" ELSE "filled"
          /\ (stopping => stopping') /\ (rc = "cancelled" => stopping')
      BY <1>0, <2>5, Zenon DEF ClaimDeclined
    <3>2. \E j \in Idx : left'[j] = "declined"
      <4>1. Drawn(w) \in Idx
        <5>1. cursor \in Nat /\ cur[w] \in Nat /\ Domain \in Nat
          BY <1>0, EngineAssumption, Zenon DEF RoomInv, TypeOK, TypeShared, TypeClaim
        <5>2. Drawn(w) < Domain BY <2>5, Zenon DEF ClaimDeclined
        <5>3. Drawn(w) \in Nat BY <5>1, Zenon DEF Drawn
        <5> QED BY <5>1, <5>2, <5>3 DEF Idx
      <4>2. left'[Drawn(w)] = "declined"
        BY <2>5, <4>1, Zenon DEF ClaimDeclined, RoomInv, TypeOK, TypeHistory
      <4> QED BY <4>1, <4>2, Zenon
    <3> QED BY <1>0, <2>5, <3>1, <3>2, Zenon DEF Reasoned
  <2> QED BY <1>5, <2>1, <2>2, <2>3, <2>4, <2>5, Zenon DEF Fill
<1>6. CASE Launch(w)
  <2>1. /\ UNCHANGED <<drained, reason, unattempted>> /\ wpc[w] = "launch"
        /\ wpc'[w] \in {"fill", "filled"}
    BY <1>0, <1>6, Zenon DEF Launch, LaunchOk, LaunchRetry, LaunchAbandon, LaunchEnds, Complete
  <2> QED BY <1>3, <2>1, Zenon
<1>7. CASE Wait(w)
  <2>1. CASE BreakDrained(w) BY <1>0, <1>3, <2>1, Zenon DEF BreakDrained, WorkDone
  <2>2. CASE WaitReturns(w) BY <1>0, <1>3, <2>2, Zenon DEF WaitReturns
  <2>3. CASE WaitFails(w) BY <1>0, <1>3, <2>3, Zenon DEF WaitFails
  <2>4. CASE EventsDone(w) BY <1>0, <1>3, <2>4, Zenon DEF EventsDone
  <2>5. ASSUME NEW s \in Slots, NEW isLocal \in BOOLEAN, FinishProbe(w, s, isLocal)
        PROVE  Reasoned(w)'
    BY <1>0, <1>3, <2>5, Zenon DEF FinishProbe, Finish, Complete
  <2> QED BY <1>7, <2>1, <2>2, <2>3, <2>4, <2>5, Zenon DEF Wait
<1>8. CASE Fatal(w)
  <2>1. CASE FatalCas(w) BY <1>0, <1>3, <2>1, Zenon DEF FatalCas
  <2>2. CASE FatalErrno(w) BY <1>0, <1>3, <2>2, Zenon DEF FatalErrno
  <2>3. CASE FatalFlag(w) BY <1>0, <1>3, <2>3, Zenon DEF FatalFlag
  <2>4. CASE FatalStop(w) BY <1>0, <1>3, <2>4, Zenon DEF FatalStop
  <2> QED BY <1>8, <2>1, <2>2, <2>3, <2>4, Zenon DEF Fatal
<1>9. CASE Retire(w)
  <2>0. ASSUME wpc[w] \in {"retire", "retire_tail", "exit"}
        PROVE  stopping \/ drained[w]
    BY <2>0, Zenon DEF Reasoned
  <2>1. CASE RetirePending(w)
    <3>1. /\ UNCHANGED <<drained, reason, stopping>> /\ wpc[w] = "retire" /\ wpc'[w] = "retire_tail"
      BY <1>0, <2>1, Zenon DEF RetirePending
    <3>2. UNCHANGED unattempted
      <4>1. CASE pending[w] = NoJob BY <2>1, <4>1, Zenon DEF RetirePending
      <4>2. CASE pending[w] # NoJob BY <2>1, <4>2, Zenon DEF RetirePending, Complete
      <4> QED BY <4>1, <4>2, Zenon
    <3> QED BY <1>3, <2>0, <3>1, <3>2, Zenon
  <2>2. CASE RetireTail(w)
    <3>1. /\ UNCHANGED <<drained, reason, stopping, cursor>>
          /\ wpc[w] = "retire_tail" /\ wpc'[w] = "exit"
      BY <1>0, <2>2, Zenon DEF RetireTail
    <3>2. unattempted'[w] > 0 => stopping
      <4>1. CASE Deliberate(w)
        <5>1. unattempted' = unattempted BY <2>2, <4>1, Zenon DEF RetireTail
        <5> QED BY <5>1, Zenon DEF Reasoned
      <4>2. CASE ~Deliberate(w)
        <5>1. reason[w] \in {"job", "cancelled", "fatal"} BY <1>0, <4>2, Zenon DEF Deliberate
        <5> QED BY <2>0, <3>1, <5>1, Zenon DEF Reasoned
      <4> QED BY <4>1, <4>2, Zenon
    <3> QED BY <1>1, <2>0, <3>1, <3>2, Zenon DEF Reasoned, Cause
  <2>3. CASE Exit(w) BY <1>0, <1>3, <2>0, <2>3, Zenon DEF Exit
  <2>4. ASSUME NEW s \in Slots, RetireProbe(w, s) PROVE Reasoned(w)'
    BY <1>0, <1>3, <2>0, <2>4, Zenon DEF RetireProbe, Finish, Complete
  <2> QED BY <1>9, <2>1, <2>2, <2>3, <2>4, Zenon DEF Retire
<1> QED BY <1>4, <1>5, <1>6, <1>7, <1>8, <1>9, Zenon DEF Worker


\* The parts of FateInv that are about control.
Control == /\ \A w \in Workers : Chunked(w)
           /\ \A w \in spawned : Reasoned(w)
           /\ FatalInv /\ RunInv /\ FinalInv

\* Every step of a worker keeps it.
LEMMA WorkerControl ==
  ASSUME Counting, RoomInv, RoomInv', FateInv, NEW w \in Workers, Worker(w)
  PROVE  Control'
<1>1. OwnStep(w) BY WorkerSteps, Zenon
<1>2. RunInv' /\ FinalInv' /\ w \in spawned /\ UNCHANGED spawned
  BY <1>1, RunWorker, Zenon DEF FateInv
<1>3. spawned \subseteq Workers BY Zenon DEF RoomInv, TypeOK, TypeOwner
<1>5. \A v \in Workers : Chunked(v)' BY <1>1, ChunkedStep, Zenon DEF FateInv
<1>6. \A v \in spawned : Reasoned(v)' BY <1>1, <1>2, <1>3, ReasonedStep, Zenon DEF FateInv
<1>7. FatalInv' BY <1>1, FatalWorkerStep, Zenon DEF FateInv
<1> QED BY <1>2, <1>5, <1>6, <1>7, Zenon DEF Control

-----------------------------------------------------------------------------
(* The owner's steps.                                                           *)

\* qn_engine_start, the fields of the engine: a run begins from a closed one.
LEMMA BeginControl ==
  ASSUME Counting, RoomInv, FateInv, StartBegin
  PROVE  Control'
<1>0. /\ owner \in {"idle", "closed"} /\ owner' = "starting" /\ spawned' = {} /\ cursor' = 0
      /\ alive' = 0 /\ fatal' = FALSE /\ fatalWorker' = NoWorker
      /\ wpc' = [w \in Workers |-> "off"]
      /\ got' = [i \in Idx |-> 0] /\ left' = [i \in Idx |-> "no"]
      /\ UNCHANGED <<slot, pending, cur, end, ring>>
  BY Zenon DEF StartBegin, claimVars, jobVars, slotVars, ringVars
<1>1. RingsEmpty /\ \A w \in Workers : wpc[w] \in {"off", "dead"}
  BY <1>0, Zenon DEF RoomInv, OwnerInv, FateInv, RunInv
<1>4. ASSUME NEW w \in Workers PROVE Chunked(w)'
  <2>1. LiveSlots(w) = {} /\ pending[w] = NoJob /\ end[w] <= cur[w]
    BY <1>1, Zenon DEF FateInv, Chunked
  <2>2. LiveSlots(w)' = LiveSlots(w) BY <1>0, Zenon DEF LiveSlots
  <2>3. cur[w] \in Nat /\ end[w] \in Nat BY Zenon DEF RoomInv, TypeOK, TypeClaim
  <2> QED BY <1>0, <2>1, <2>2, <2>3, SMTT(60) DEF Chunked
<1>5. FatalInv' BY <1>0, Zenon DEF FatalInv
<1>6. RunInv' /\ FinalInv'
  <2>1. Running' = {} BY <1>0, Zenon DEF Running
  <2>2. alive' = Cardinality(Running') BY <1>0, <2>1, Zenon DEF Counting
  <2>3. \A w \in Workers : ring'[w] = << >> BY <1>0, <1>1, Zenon DEF RingsEmpty
  <2> QED BY <1>0, <2>2, <2>3, Zenon DEF RunInv, FinalInv
<1> QED BY <1>0, <1>4, <1>5, <1>6, Zenon DEF Control

\* What a worker is after the start loop resets it: it has no chunk and no slot in use.
LEMMA ResetChunked ==
  ASSUME RoomInv, \A v \in Workers : Chunked(v), NEW w \in Workers, ResetWorker(w),
         UNCHANGED cursor, \A v \in Workers \ {w} : wpc'[v] = wpc[v]
  PROVE  \A v \in Workers : Chunked(v)'
<1>0. /\ pending \in [Workers -> JobOrNone] /\ slot \in [Workers -> [Slots -> JobOrNone]]
      /\ cur \in [Workers -> Nat] /\ end \in [Workers -> Nat]
  BY Zenon DEF RoomInv, TypeOK, TypeJob, TypeSlot, TypeClaim
<1>1. pending'[w] = NoJob /\ slot'[w] = [s \in Slots |-> NoJob] /\ cur'[w] = 0 /\ end'[w] = 0
  BY <1>0, Zenon DEF ResetWorker
<1>2. LiveSlots(w)' = {} BY <1>1, Zenon DEF LiveSlots
<1>3. Chunked(w)' BY <1>1, <1>2, SMTT(60) DEF Chunked
<1>4. ASSUME NEW v \in Workers \ {w} PROVE Chunked(v)'
  <2>1. /\ pending'[v] = pending[v] /\ slot'[v] = slot[v] /\ cur'[v] = cur[v] /\ end'[v] = end[v]
    BY <1>0, Zenon DEF ResetWorker
  <2>2. LiveSlots(v)' = LiveSlots(v) BY <2>1, Zenon DEF LiveSlots
  <2> QED BY <2>1, <2>2, Zenon DEF Chunked
<1> QED BY <1>3, <1>4, Zenon

\* qn_engine_start, one worker created.
LEMMA SpawnControl ==
  ASSUME Counting, RoomInv, FateInv, NEW w \in Workers, SpawnOk(w)
  PROVE  Control'
<1>0. /\ owner = "starting" /\ owner' = "starting" /\ w \notin spawned /\ ResetWorker(w)
      /\ spawned' = spawned \cup {w} /\ alive' = alive + 1
      /\ UNCHANGED <<cursor, stopping, fatal, fatalErrno, fatalWorker, hand, final, got, left>>
  BY Zenon DEF SpawnOk, history
<1>1. /\ wpc'[w] = "loop" /\ \A v \in Workers \ {w} : wpc'[v] = wpc[v]
  BY Zenon DEF SpawnOk, Goto, RoomInv, TypeOK, TypePc
<1>2. wpc[w] = "off" /\ ring[w] = << >> BY <1>0, Zenon DEF RoomInv, OwnerInv, FateInv, RunInv
<1>5. \A v \in Workers : Chunked(v)' BY <1>0, <1>1, ResetChunked, Zenon DEF FateInv
<1>6. ASSUME NEW v \in spawned' PROVE Reasoned(v)'
  <2>0. /\ drained \in [Workers -> BOOLEAN] /\ unattempted \in [Workers -> Nat]
        /\ reason \in [Workers -> {"job", "exhausted", "stop_condition", "cancelled", "fatal"}]
        /\ spawned \subseteq Workers
    BY Zenon DEF RoomInv, TypeOK, TypeClaim, TypeStats, TypeOwner
  <2>1. CASE v = w
    <3>1. drained'[w] = FALSE /\ unattempted'[w] = 0 BY <1>0, <2>0, Zenon DEF ResetWorker, ResetStats
    <3> QED BY <1>1, <2>1, <3>1 DEF Reasoned
  <2>2. CASE v # w
    <3>1. /\ v \in spawned /\ v \in Workers \ {w} /\ drained'[v] = drained[v]
          /\ reason'[v] = reason[v] /\ unattempted'[v] = unattempted[v]
      BY <1>0, <2>0, <2>2, Zenon DEF ResetWorker, ResetStats
    <3>2. Reasoned(v) BY <3>1, Zenon DEF FateInv
    <3> QED BY <1>0, <1>1, <3>1, <3>2, Zenon DEF Reasoned
  <2> QED BY <2>1, <2>2, Zenon
<1>7. FatalInv'
  <2>1. FatalInv /\ NoWorker \notin Workers /\ fatalWorker \in Workers \cup {NoWorker}
    BY EngineAssumption, Zenon DEF FateInv, RoomInv, TypeOK, TypeShared
  <2> QED BY <1>0, <1>1, <1>2, <2>1, Zenon DEF FatalInv
<1>8. RunInv' /\ FinalInv'
  <2>1. Running' = Running \cup {w} /\ w \notin Running BY <1>1, <1>2, Zenon DEF Running
  <2>2. IsFiniteSet(Running) BY EngineAssumption, Zenon DEF Running, Counting
  <2>3. alive' = Cardinality(Running')
    BY <1>0, <2>1, <2>2, Zenon DEF FateInv, RunInv, Counting
  <2>4. \A v \in Workers \ {w} : ring'[v] = ring[v]
    BY <1>0, Zenon DEF ResetWorker, RoomInv, TypeOK, TypeRing
  <2>5. \A v \in Workers \ spawned' : ring'[v] = << >> BY <1>0, <2>4, Zenon DEF FateInv, RunInv
  <2>6. \A v \in Workers : wpc'[v] # "off" <=> v \in spawned' BY <1>0, <1>1, Zenon DEF FateInv, RunInv
  <2> QED BY <1>0, <2>3, <2>5, <2>6, Zenon DEF RunInv, FinalInv
<1> QED BY <1>5, <1>6, <1>7, <1>8, Zenon DEF Control

\* qn_engine_start, a worker that cannot be created: the run is stopped.
LEMMA SpawnFailControl ==
  ASSUME RoomInv, FateInv, NEW w \in Workers, SpawnFail(w)
  PROVE  Control'
<1>0. /\ owner = "starting" /\ owner' = "unwinding" /\ w \notin spawned /\ ResetWorker(w)
      /\ stopping' = TRUE
      /\ UNCHANGED <<cursor, alive, fatal, fatalErrno, fatalWorker, wpc, hand, spawned, got, left>>
  BY Zenon DEF SpawnFail, history
<1>1. final'.worker = w BY Zenon DEF SpawnFail, RoomInv, TypeOK, TypeOwner
<1>2. wpc[w] = "off" /\ ring[w] = << >> BY <1>0, Zenon DEF RoomInv, OwnerInv, FateInv, RunInv
<1>5. \A v \in Workers : Chunked(v)' BY <1>0, ResetChunked, Zenon DEF FateInv
<1>6. ASSUME NEW v \in spawned PROVE Reasoned(v)'
  <2>0. /\ drained \in [Workers -> BOOLEAN] /\ unattempted \in [Workers -> Nat]
        /\ reason \in [Workers -> {"job", "exhausted", "stop_condition", "cancelled", "fatal"}]
        /\ spawned \subseteq Workers
    BY Zenon DEF RoomInv, TypeOK, TypeClaim, TypeStats, TypeOwner
  <2>1. /\ v \in Workers \ {w} /\ drained'[v] = drained[v]
        /\ reason'[v] = reason[v] /\ unattempted'[v] = unattempted[v]
    BY <1>0, <2>0, Zenon DEF ResetWorker, ResetStats
  <2>2. Reasoned(v) BY Zenon DEF FateInv
  <2> QED BY <1>0, <2>1, <2>2, Zenon DEF Reasoned
<1>7. FatalInv' BY <1>0, Zenon DEF FateInv, FatalInv
<1>8. RunInv' /\ FinalInv'
  <2>1. Running' = Running BY <1>0, Zenon DEF Running
  <2>2. final'.worker # NoWorker BY <1>1, EngineAssumption, Zenon
  <2> QED BY <1>0, <2>1, <2>2, Zenon DEF FateInv, RunInv, FinalInv
<1> QED BY <1>0, <1>5, <1>6, <1>7, <1>8, Zenon DEF Control

\* The steps of the owner between which no job and no counter moves.
LEMMA QuietControl ==
  ASSUME RoomInv, FateInv, UNCHANGED <<workerVars, cursor, spawned, history>>,
         stopping => stopping', FatalInv', RunInv', FinalInv'
  PROVE  Control'
<1>0. /\ UNCHANGED <<wpc, drained, reason, hand, pending, cur, end, slot, ring>>
      /\ UNCHANGED <<completed, skipped, unattempted, got, left, cursor, spawned>>
  BY Zenon DEF workerVars, claimVars, jobVars, slotVars, ringVars, stats, history
<1>3. \A v \in Workers : Chunked(v)' BY <1>0, Zenon DEF FateInv, Chunked, LiveSlots
<1>4. \A v \in spawned : Reasoned(v)' BY <1>0, Zenon DEF FateInv, Reasoned
<1> QED BY <1>0, <1>3, <1>4, Zenon DEF Control

\* qn_engine_start when it fails, and when every worker runs.
LEMMA StartControl ==
  ASSUME Counting, RoomInv, FateInv, Unwind \/ StartDone
  PROVE  Control'
<1> USE DEF shared
<1>1. CASE Unwind
  <2>0. /\ owner = "unwinding" /\ owner' = "failed" /\ \A v \in spawned : wpc[v] = "dead"
        /\ alive' = 0 /\ fatal' = TRUE /\ fatalErrno' = TRUE /\ fatalWorker' = final.worker
        /\ UNCHANGED <<workerVars, cursor, stopping, spawned, history, final, wpc, ring>>
    BY <1>1, Zenon DEF Unwind, workerVars, ringVars
  <2>1. \A v \in Workers : wpc[v] \in {"off", "dead"} BY <2>0, Zenon DEF FateInv, RunInv
  <2>2. FatalInv'
    <3>1. final.worker # NoWorker BY <2>0, Zenon DEF FateInv, RunInv
    <3> QED BY <2>0, <2>1, <3>1, Zenon DEF FatalInv
  <2>3. RunInv' /\ FinalInv'
    <3>1. Running' = {} BY <2>0, <2>1, Zenon DEF Running
    <3>2. alive' = Cardinality(Running') BY <2>0, <3>1, Zenon DEF Counting
    <3> QED BY <2>0, <3>2, Zenon DEF FateInv, RunInv, FinalInv
  <2> QED BY <2>0, <2>2, <2>3, QuietControl, Zenon
<1>2. CASE StartDone
  <2>0. /\ owner = "starting" /\ owner' = "running" /\ spawned = Workers
        /\ UNCHANGED <<workerVars, cursor, stopping, spawned, history, final, wpc, ring, alive>>
        /\ UNCHANGED <<fatal, fatalErrno, fatalWorker>>
    BY <1>2, Zenon DEF StartDone, workerVars, ringVars
  <2>1. FatalInv' BY <2>0, Zenon DEF FateInv, FatalInv
  <2>2. RunInv' /\ FinalInv' BY <2>0, Zenon DEF FateInv, RunInv, FinalInv, Running
  <2> QED BY <2>0, <2>1, <2>2, QuietControl, Zenon
<1> QED BY <1>1, <1>2, Zenon

\* qn_engine_finalize: stop, join, settle the status, drain, report.
LEMMA FinalizeControl ==
  ASSUME RoomInv, FateInv, Finalize
  PROVE  Control'
<1>0. /\ UNCHANGED <<workerVars, cursor, spawned, history, wpc, ring, alive>>
      /\ UNCHANGED <<fatal, fatalErrno, fatalWorker, stopCond>>
      /\ (stopping => stopping')
  BY SMTT(60) DEF Finalize, FinalizeDone, FinalizeCancel, Join, Settle, shared, workerVars, ringVars
<1>1. FatalInv' BY <1>0, Zenon DEF FateInv, FatalInv
<1>2. Running' = Running BY <1>0, Zenon DEF Running
<1>3. RunInv' /\ FinalInv'
  <2>1. CASE FinalizeDone \/ FinalizeCancel
    <3>1. owner = "running" /\ owner' = "joining" BY <2>1, Zenon DEF FinalizeDone, FinalizeCancel
    <3> QED BY <1>0, <1>2, <3>1, Zenon DEF FateInv, RunInv, FinalInv
  <2>2. CASE Join
    <3>1. /\ owner = "joining" /\ owner' = "drain" /\ status' = SettledStatus /\ UNCHANGED stopping
      BY <2>2, Zenon DEF Join, shared
    <3>2. status' = SettledStatus' BY <1>0, <3>1, Zenon DEF SettledStatus
    <3> QED BY <1>0, <1>2, <3>1, <3>2, Zenon DEF FateInv, RunInv, FinalInv
  <2>3. CASE Settle
    <3>1. /\ owner = "drain" /\ owner' = "closed" /\ RingsEmpty /\ UNCHANGED <<stopping, status>>
      BY <2>3, Zenon DEF Settle, shared
    <3>2. SettledStatus' = SettledStatus /\ RingsEmpty' BY <1>0, <3>1, Zenon DEF SettledStatus, RingsEmpty
    <3>3. RunInv' BY <1>0, <1>2, <3>1, <3>2, Zenon DEF FateInv, RunInv
    <3>4. FinalInv'
      <4> DEFINE ok == Accounted(Sum(claimed), Sum(completed), Sum(skipped), Sum(unattempted))
      <4>1. final' = [accounted |-> ok, failed |-> fatal,
                      worker |-> IF fatal THEN fatalWorker ELSE NoWorker,
                      outcome |-> Outcome(ok)]
        BY <2>3, Zenon DEF Settle
      <4>2. UNCHANGED <<claimed, completed, skipped, unattempted, localFail, dropped>>
        BY <1>0, Zenon DEF workerVars, stats, ringVars
      <4>3. ok' = ok BY <4>2, Zenon DEF Sum, SumOver, Accounted
      <4>4. Outcome(ok)' = Outcome(ok) BY <1>0, <3>1, <4>2, <4>3, SMTT(60) DEF Outcome, Sum, SumOver
      <4> QED BY <1>0, <4>1, <4>3, <4>4, Zenon DEF FinalInv
    <3> QED BY <3>3, <3>4, Zenon
  <2> QED BY <2>1, <2>2, <2>3, Zenon DEF Finalize
<1> QED BY <1>0, <1>1, <1>3, QuietControl, SMTT(30)

\* qn_engine_poll.
LEMMA PollControl ==
  ASSUME RoomInv, FateInv, NEW w \in Workers, NEW n \in 1..RCap, Poll(w, n)
  PROVE  Control'
<1>0. /\ owner \in {"running", "drain"}
      /\ UNCHANGED <<wpc, drained, reason, pending, cur, end, slot, unattempted, left, cursor>>
      /\ UNCHANGED <<stopping, stopCond, alive, fatal, fatalErrno, fatalWorker>>
      /\ UNCHANGED <<owner, spawned, status, final>>
  BY Zenon DEF Poll, shared, claimVars, jobVars, slotVars, stats, ownerVars
<1>1. w \in spawned /\ spawned = Workers BY <1>0, Zenon DEF FateInv, RunInv
<1>4. \A v \in Workers : Chunked(v)' BY <1>0, Zenon DEF FateInv, Chunked, LiveSlots
<1>5. \A v \in spawned : Reasoned(v)' BY <1>0, Zenon DEF FateInv, Reasoned
<1>6. FatalInv' BY <1>0, Zenon DEF FateInv, FatalInv
<1>7. RunInv' /\ FinalInv' BY <1>0, Zenon DEF FateInv, RunInv, FinalInv, Running, SettledStatus
<1> QED BY <1>0, <1>4, <1>5, <1>6, <1>7, Zenon DEF Control

\* Every step keeps it.
LEMMA NextControl ==
  ASSUME Counting, RoomInv, RoomInv', FateInv, [Next]_vars
  PROVE  Control'
<1>1. CASE UNCHANGED vars
  <2>1. /\ UNCHANGED <<wpc, drained, reason, hand, pending, cur, end, slot, ring, dropped>>
        /\ UNCHANGED <<claimed, completed, skipped, unattempted, localFail, got, left>>
        /\ UNCHANGED <<cursor, stopping, stopCond, alive, fatal, fatalErrno, fatalWorker>>
        /\ UNCHANGED <<owner, spawned, status, final, workerVars, history>>
    BY <1>1, Zenon DEF vars, shared, workerVars, claimVars, jobVars, slotVars, ringVars, stats,
                ownerVars, history
  <2>2. FatalInv' BY <2>1, Zenon DEF FateInv, FatalInv
  <2>3. RunInv' BY <2>1, Zenon DEF FateInv, RunInv, Running, SettledStatus, RingsEmpty
  <2>4. FinalInv' BY <2>1, Zenon DEF FateInv, FinalInv, Accounted, Outcome, Sum, SumOver
  <2> QED BY <2>1, <2>2, <2>3, <2>4, QuietControl, Zenon
<1>2. CASE Start BY <1>2, BeginControl, StartControl, SpawnControl, SpawnFailControl, Zenon DEF Start
<1>3. CASE Finished BY <1>1, <1>3, Zenon DEF Finished
<1> QED BY <1>1, <1>2, <1>3, WorkerControl, FinalizeControl, PollControl, Zenon DEF Next

\* An idle engine.
LEMMA InitControl ==
  ASSUME Counting, Init
  PROVE  Control
<1>0. /\ cursor = 0 /\ alive = 0 /\ fatal = FALSE /\ fatalWorker = NoWorker
      /\ wpc = [w \in Workers |-> "off"] /\ pending = [w \in Workers |-> NoJob]
      /\ cur = [w \in Workers |-> 0] /\ end = [w \in Workers |-> 0]
      /\ slot = [w \in Workers |-> [s \in Slots |-> NoJob]] /\ ring = [w \in Workers |-> << >>]
      /\ owner = "idle" /\ spawned = {}
  BY Zenon DEF Init
<1>1. \A w \in Workers : Chunked(w) BY <1>0 DEF Chunked, LiveSlots
<1>2. RunInv
  <2>1. Running = {} BY <1>0, Zenon DEF Running
  <2> QED BY <1>0, <2>1, Zenon DEF RunInv, RingsEmpty, Counting
<1>3. FatalInv /\ FinalInv BY <1>0, Zenon DEF FatalInv, FinalInv
<1> QED BY <1>0, <1>1, <1>2, <1>3, Zenon DEF Control

\* No worker runs in a done engine, and a poll finds nothing.
LEMMA DoneStep ==
  ASSUME Counting, IInv, [Next]_vars, owner = "running", owner' = "running", alive = 0
  PROVE  alive' = 0 /\ \A w \in Workers : ring[w] = << >> => ring'[w] = << >>
<1>1. ASSUME NEW w \in Workers, Worker(w) PROVE FALSE
  <2>1. alive > 0 BY <1>1, WorkerSteps, RunWorker, Zenon DEF IInv, FateInv
  <2> QED BY <2>1
<1>2. ASSUME NEW w \in Workers, NEW n \in 1..RCap, Poll(w, n)
      PROVE  alive' = 0 /\ \A v \in Workers : ring[v] = << >> => ring'[v] = << >>
  <2>1. alive' = 0 BY <1>2, Zenon DEF Poll, shared
  <2>2. ring' = [ring EXCEPT ![w] = SubSeq(@, n + 1, Len(@))] /\ n \in 1..Len(ring[w])
    BY <1>2, Zenon DEF Poll
  <2>3. ring[w] # << >> BY <2>2
  <2>4. ASSUME NEW v \in Workers, ring[v] = << >> PROVE ring'[v] = << >>
    <3>1. v # w BY <2>3, <2>4
    <3>2. ring \in [Workers -> Seq(Idx)] BY Zenon DEF IInv, RoomInv, TypeOK, TypeRing
    <3> QED BY <2>2, <2>4, <3>1, <3>2
  <2> QED BY <2>1, <2>4
<1>3. ~Start /\ ~Finalize
  BY Zenon DEF Start, StartBegin, StartDone, Unwind, SpawnOk, SpawnFail,
         Finalize, FinalizeDone, FinalizeCancel, Join, Settle
<1>4. CASE UNCHANGED vars BY <1>4, Zenon DEF vars, shared, workerVars, ringVars
<1> QED BY <1>1, <1>2, <1>3, <1>4, Zenon DEF Next, Finished
=============================================================================
