----------------------------- MODULE EngineFate -----------------------------
(* The fate of every index, over the steps of Engine: in which worker's hands    *)
(* its job is, and that every step moves it as JobLedger allows.                 *)
EXTENDS EngineJobs, TLAPS

-----------------------------------------------------------------------------
(* Where a job is.                                                              *)

Elsewhere(w) == \A v \in Workers \ {w} : /\ hand'[v] = hand[v] /\ pending'[v] = pending[v]
                                         /\ slot'[v] = slot[v] /\ ring'[v] = ring[v]
HoldsSame(v) == \A i \in Idx : Holds(v, i)' <=> Holds(v, i)

\* A job that Complete pushes comes after the ring's other events.
LEMMA Appended ==
  ASSUME NEW S, NEW q \in Seq(S), NEW i \in S
  PROVE  /\ Range(Append(q, i)) = Range(q) \cup {i}
         /\ IsInjective(q) /\ i \notin Range(q) => IsInjective(Append(q, i))
<1> DEFINE r == Append(q, i)
<1>1. /\ DOMAIN q = 1..Len(q) /\ Len(q) \in Nat
      /\ DOMAIN r = 1..(Len(q) + 1)
      /\ \A k \in 1..Len(q) : r[k] = q[k]
      /\ r[Len(q) + 1] = i
  OBVIOUS
<1>2. \A k \in DOMAIN r : k \in DOMAIN q \/ k = Len(q) + 1 BY <1>1
<1>3. DOMAIN q \subseteq DOMAIN r /\ Len(q) + 1 \in DOMAIN r BY <1>1
<1> HIDE DEF r
<1>4. Range(r) = Range(q) \cup {i} BY <1>1, <1>2, <1>3, Zenon DEF Range
<1>5. IsInjective(q) /\ i \notin Range(q) => IsInjective(r)
  BY <1>1, <1>2, Zenon DEF IsInjective, Range
<1> QED BY <1>4, <1>5, Zenon DEF r

\* A worker whose jobs a step leaves alone holds the same jobs in the same places.
LEMMA HoldsFrame ==
  ASSUME NEW v \in Workers, hand'[v] = hand[v], pending'[v] = pending[v],
         slot'[v] = slot[v], ring'[v] = ring[v]
  PROVE  HoldsSame(v) /\ (OnePlace(v) => OnePlace(v)')
<1>1. Range(ring[v])' = Range(ring[v]) /\ IsInjective(ring[v])' = IsInjective(ring[v])
  BY Zenon DEF Range, IsInjective
<1> QED BY <1>1 DEF HoldsSame, Holds, OnePlace

\* The ring has room for the event of a job that the worker holds.
LEMMA RoomToPush ==
  ASSUME Counting, RoomInv, NEW w \in Workers
  PROVE  Len(ring[w]) < RCap
<1>1. /\ inflight[w] = Cardinality(LiveSlots(w)) /\ Len(ring[w]) + Owed(w) < RCap
      /\ Len(ring[w]) \in Nat /\ RCap \in Nat
  BY EngineAssumption DEF RoomInv, SlotsConserved, WorkerInv, TypeOK, TypeRing
<1>2. IsFiniteSet(LiveSlots(w))
  <2>1. NSlots \in Int /\ 1 \in Int BY EngineAssumption
  <2>2. IsFiniteSet(Slots) BY <2>1, Zenon DEF Slots, Counting
  <2>3. LiveSlots(w) \in SUBSET Slots BY Zenon DEF LiveSlots
  <2> QED BY <2>2, <2>3, Zenon DEF Counting
<1>3. inflight[w] \in Nat BY <1>1, <1>2, Zenon DEF Counting
<1>4. B(hand[w]) \in Nat /\ B(pending[w]) \in Nat BY Zenon DEF B
<1>5. Owed(w) \in Nat BY <1>3, <1>4 DEF Owed
<1> QED BY <1>1, <1>5

\* So qn_ring_push appends it.
LEMMA Pushed ==
  ASSUME Counting, RoomInv, NEW w \in Workers, NEW i \in Idx, Push(w, i)
  PROVE  /\ ring'[w] = Append(ring[w], i) /\ ring[w] \in Seq(Idx)
         /\ \A v \in Workers \ {w} : ring'[v] = ring[v]
         /\ Range(ring'[w]) = Range(ring[w]) \cup {i}
         /\ IsInjective(ring[w]) /\ i \notin Range(ring[w]) => IsInjective(ring'[w])
<1>1. ring \in [Workers -> Seq(Idx)] BY Zenon DEF RoomInv, TypeOK, TypeRing
<1>2. ring' = [ring EXCEPT ![w] = Append(@, i)] BY RoomToPush, Zenon DEF Push
<1>3. ring'[w] = Append(ring[w], i) /\ ring[w] \in Seq(Idx) BY <1>1, <1>2, Zenon
<1>4. \A v \in Workers \ {w} : ring'[v] = ring[v] BY <1>1, <1>2, Zenon
<1> QED BY <1>3, <1>4, Appended

\* The job in hand is an index, and the only one its worker has not placed.
LEMMA InHand ==
  ASSUME RoomInv, NEW w \in Workers, wpc[w] = "launch"
  PROVE  hand[w] \in Idx /\ pending[w] = NoJob /\ NoJob \notin Idx /\ freelist[w] # << >>
<1>1. hand[w] \in JobOrNone /\ hand[w] # NoJob /\ pending[w] = NoJob /\ freelist[w] # << >>
  BY Zenon DEF RoomInv, WorkerInv, TypeOK, TypeJob
<1>2. NoJob \notin Idx BY EngineAssumption DEF NoJob, Idx
<1> QED BY <1>1, <1>2, Zenon DEF JobOrNone

\* probe_launch's results move the job in hand into a slot, the ring or pending.
LEMMA LaunchMoves ==
  ASSUME Counting, RoomInv, \A v \in Workers : OnePlace(v), NEW w \in Workers, Launch(w)
  PROVE  \A v \in Workers : HoldsSame(v) /\ OnePlace(v)'
<1>0. /\ hand \in [Workers -> JobOrNone] /\ pending \in [Workers -> JobOrNone]
      /\ slot \in [Workers -> [Slots -> JobOrNone]] /\ ring \in [Workers -> Seq(Idx)]
      /\ freelist \in [Workers -> Seq(Slots)]
  BY Zenon DEF RoomInv, TypeOK, TypeJob, TypeSlot, TypeRing
<1>1. wpc[w] = "launch" BY Zenon DEF Launch, LaunchOk, LaunchEnds, LaunchRetry, LaunchAbandon
<1>2. hand[w] \in Idx /\ pending[w] = NoJob /\ NoJob \notin Idx /\ freelist[w] # << >>
  BY <1>1, InHand, Zenon
<1>3. SUFFICES Elsewhere(w) /\ HoldsSame(w) /\ OnePlace(w)'
  BY HoldsFrame, Zenon DEF Elsewhere
<1>4. CASE LaunchOk(w)
  <2> DEFINE s == freelist[w][Len(freelist[w])]
  <2>1. s \in Slots /\ slot[w][s] = NoJob
    <3>1. Len(freelist[w]) \in DOMAIN freelist[w] BY <1>0, <1>2
    <3>2. s \in Range(freelist[w]) BY <3>1, Zenon DEF Range
    <3>3. Range(freelist[w]) = Slots \ LiveSlots(w) BY Zenon DEF RoomInv, SlotsConserved
    <3> QED BY <3>2, <3>3, Zenon DEF LiveSlots
  <2>2. slot' = [slot EXCEPT ![w][s] = hand[w]] BY <1>4, Zenon DEF LaunchOk
  <2> HIDE DEF s
  <2>3. /\ hand' = [hand EXCEPT ![w] = NoJob] /\ pending' = [pending EXCEPT ![w] = NoJob]
        /\ ring' = ring
    BY <1>4, Zenon DEF LaunchOk, ForgetPending, ringVars
  <2>4. slot'[w][s] = hand[w] /\ \A t \in Slots \ {s} : slot'[w][t] = slot[w][t]
    BY <1>0, <2>1, <2>2, Zenon
  <2>5. Elsewhere(w) BY <1>0, <2>2, <2>3, Zenon DEF Elsewhere
  <2>6. hand'[w] = NoJob /\ pending'[w] = NoJob BY <1>0, <2>3, Zenon
  <2>7. HoldsSame(w) BY <1>2, <2>1, <2>3, <2>4, <2>6, Zenon DEF HoldsSame, Holds
  <2>8. OnePlace(w)'
    <3>1. OnePlace(w) BY Zenon
    <3>2. ring'[w] = ring[w] BY <2>3, Zenon
    <3>3. IsInjective(ring'[w]) BY <3>1, <3>2, Zenon DEF OnePlace
    <3>4. \A t \in Slots \ {s} : slot[w][t] # hand[w] BY <1>2, <3>1, Zenon DEF OnePlace
    <3>5. \A t, u \in Slots : slot'[w][t] = slot'[w][u] /\ slot'[w][t] # NoJob => t = u
      BY <2>4, <3>1, <3>4, Zenon DEF OnePlace
    <3>6. \A t \in Slots : slot'[w][t] \notin Range(ring[w])
      BY <1>2, <2>4, <3>1, Zenon DEF OnePlace
    <3>7. {hand[w], pending[w]}' \ {NoJob} = {} BY <2>6, Zenon
    <3> QED BY <3>2, <3>3, <3>5, <3>6, <3>7, Zenon DEF OnePlace
  <2> QED BY <2>5, <2>7, <2>8, Zenon
<1>5. CASE LaunchRetry(w)
  <2>1. /\ hand' = [hand EXCEPT ![w] = NoJob] /\ pending' = [pending EXCEPT ![w] = hand[w]]
        /\ ring' = ring /\ slot' = slot
    BY <1>5, Zenon DEF LaunchRetry, ringVars, slotVars
  <2>2. hand'[w] = NoJob /\ pending'[w] = hand[w] BY <1>0, <2>1, Zenon
  <2>3. Elsewhere(w) BY <1>0, <2>1, Zenon DEF Elsewhere
  <2>4. HoldsSame(w) BY <1>2, <2>1, <2>2, Zenon DEF HoldsSame, Holds
  <2>5. OnePlace(w)' BY <1>2, <2>1, <2>2 DEF OnePlace
  <2> QED BY <2>3, <2>4, <2>5, Zenon
<1>6. ASSUME NEW isLocal \in BOOLEAN, Complete(w, hand[w], isLocal), ForgetPending(w),
             UNCHANGED slotVars
      PROVE  Elsewhere(w) /\ HoldsSame(w) /\ OnePlace(w)'
  <2>1. /\ hand' = [hand EXCEPT ![w] = NoJob] /\ pending' = [pending EXCEPT ![w] = NoJob]
        /\ slot' = slot
    BY <1>6, Zenon DEF ForgetPending, slotVars
  <2>2. /\ \A v \in Workers \ {w} : ring'[v] = ring[v]
        /\ Range(ring'[w]) = Range(ring[w]) \cup {hand[w]}
        /\ IsInjective(ring[w]) /\ hand[w] \notin Range(ring[w]) => IsInjective(ring'[w])
    BY <1>2, <1>6, Pushed, Zenon DEF Complete
  <2>3. hand'[w] = NoJob /\ pending'[w] = NoJob BY <1>0, <2>1, Zenon
  <2>4. Elsewhere(w) BY <1>0, <2>1, <2>2, Zenon DEF Elsewhere
  <2>5. HoldsSame(w) BY <1>2, <2>1, <2>2, <2>3, Zenon DEF HoldsSame, Holds
  <2>6. OnePlace(w)' BY <1>2, <2>1, <2>2, <2>3, SMTT(30) DEF OnePlace
  <2> QED BY <2>4, <2>5, <2>6, Zenon
<1> QED BY <1>4, <1>5, <1>6, Zenon DEF Launch, LaunchEnds, LaunchAbandon

\* worker_fill takes up the retained job.
LEMMA TakeMoves ==
  ASSUME RoomInv, \A v \in Workers : OnePlace(v), NEW w \in Workers, TakePending(w)
  PROVE  \A v \in Workers : HoldsSame(v) /\ OnePlace(v)'
<1>0. hand \in [Workers -> JobOrNone] /\ pending \in [Workers -> JobOrNone]
  BY Zenon DEF RoomInv, TypeOK, TypeJob
<1>1. hand[w] = NoJob /\ NoJob \notin Idx
  BY EngineAssumption DEF TakePending, MayFill, RoomInv, WorkerInv, NoJob, Idx
<1>2. /\ hand' = [hand EXCEPT ![w] = pending[w]] /\ pending' = [pending EXCEPT ![w] = NoJob]
      /\ ring' = ring /\ slot' = slot
  BY Zenon DEF TakePending, ringVars, slotVars
<1>3. hand'[w] = pending[w] /\ pending'[w] = NoJob BY <1>0, <1>2, Zenon
<1>4. Elsewhere(w) BY <1>0, <1>2, Zenon DEF Elsewhere
<1>5. HoldsSame(w) BY <1>1, <1>2, <1>3, Zenon DEF HoldsSame, Holds
<1>6. OnePlace(w)' BY <1>1, <1>2, <1>3 DEF OnePlace
<1> QED BY <1>4, <1>5, <1>6, HoldsFrame, Zenon DEF Elsewhere

\* A probe that ends moves its job from the slot to the ring.
LEMMA FinishMoves ==
  ASSUME Counting, RoomInv, \A v \in Workers : OnePlace(v), NEW w \in Workers, NEW s \in Slots,
         slot[w][s] # NoJob, NEW isLocal, Finish(w, s, isLocal), UNCHANGED <<hand, pending>>
  PROVE  \A v \in Workers : HoldsSame(v) /\ OnePlace(v)'
<1>0. slot \in [Workers -> [Slots -> JobOrNone]] /\ NoJob \notin Idx
  BY EngineAssumption DEF RoomInv, TypeOK, TypeSlot, NoJob, Idx
<1>1. slot[w][s] \in Idx BY <1>0, Zenon DEF JobOrNone
<1>2. /\ \A v \in Workers \ {w} : ring'[v] = ring[v]
      /\ Range(ring'[w]) = Range(ring[w]) \cup {slot[w][s]}
      /\ IsInjective(ring[w]) /\ slot[w][s] \notin Range(ring[w]) => IsInjective(ring'[w])
  BY <1>1, Pushed, Zenon DEF Finish, Complete
<1>3. slot' = [slot EXCEPT ![w][s] = NoJob] BY Zenon DEF Finish
<1>4. slot'[w][s] = NoJob /\ \A t \in Slots \ {s} : slot'[w][t] = slot[w][t] BY <1>0, <1>3, Zenon
<1>5. Elsewhere(w) BY <1>0, <1>2, <1>3, Zenon DEF Elsewhere
<1>6. HoldsSame(w) BY <1>0, <1>1, <1>2, <1>4 DEF HoldsSame, Holds
<1>7. NoJob \notin Range(ring[w])
  BY <1>0 DEF RoomInv, TypeOK, TypeRing, Range
<1>8. IsInjective(ring'[w]) BY <1>2, Zenon DEF OnePlace
<1>9. \A t, u \in Slots : slot'[w][t] = slot'[w][u] /\ slot'[w][t] # NoJob => t = u
  BY <1>4 DEF OnePlace
<1>10. \A t \in Slots : slot'[w][t] \notin Range(ring'[w])
  BY <1>0, <1>1, <1>2, <1>4, <1>7 DEF OnePlace
<1>11. \A i \in {hand[w], pending[w]} \ {NoJob} :
         i \notin Range(ring'[w]) /\ \A t \in Slots : slot'[w][t] # i
  BY <1>2, <1>4 DEF OnePlace
<1>12. OnePlace(w)' BY <1>8, <1>9, <1>10, <1>11, Zenon DEF OnePlace
<1> QED BY <1>5, <1>6, <1>12, HoldsFrame, Zenon DEF Elsewhere

\* worker_retire reports the retained job.
LEMMA RetirePendingMoves ==
  ASSUME Counting, RoomInv, \A v \in Workers : OnePlace(v), NEW w \in Workers, RetirePending(w)
  PROVE  \A v \in Workers : HoldsSame(v) /\ OnePlace(v)'
<1>0. pending \in [Workers -> JobOrNone] /\ NoJob \notin Idx
  BY EngineAssumption DEF RoomInv, TypeOK, TypeJob, NoJob, Idx
<1>1. hand' = hand /\ slot' = slot BY Zenon DEF RetirePending, slotVars
<1>2. CASE pending[w] = NoJob
  <2>1. pending' = pending /\ ring' = ring BY <1>2, Zenon DEF RetirePending, ringVars
  <2> QED BY <1>1, <2>1, HoldsFrame, Zenon
<1>3. CASE pending[w] # NoJob
  <2>1. pending[w] \in Idx BY <1>0, <1>3, Zenon DEF JobOrNone
  <2>2. /\ \A v \in Workers \ {w} : ring'[v] = ring[v]
        /\ Range(ring'[w]) = Range(ring[w]) \cup {pending[w]}
        /\ IsInjective(ring[w]) /\ pending[w] \notin Range(ring[w]) => IsInjective(ring'[w])
    <3>1. Push(w, pending[w]) BY <1>3, Zenon DEF RetirePending, Complete
    <3> QED BY <2>1, <3>1, Pushed, Zenon
  <2>3. pending' = [pending EXCEPT ![w] = NoJob] BY <1>3, Zenon DEF RetirePending
  <2>4. pending'[w] = NoJob BY <1>0, <2>3, Zenon
  <2>5. Elsewhere(w) BY <1>0, <1>1, <2>2, <2>3, Zenon DEF Elsewhere
  <2>6. HoldsSame(w) BY <1>0, <1>1, <2>1, <2>2, <2>4, Zenon DEF HoldsSame, Holds
  <2>7. hand[w] = NoJob BY Zenon DEF RetirePending, RoomInv, WorkerInv
  <2>8. OnePlace(w)' BY <1>0, <1>1, <2>1, <2>2, <2>4, <2>7, Zenon DEF OnePlace
  <2> QED BY <2>5, <2>6, <2>8, HoldsFrame, Zenon DEF Elsewhere
<1> QED BY <1>2, <1>3, Zenon

-----------------------------------------------------------------------------
(* The fate of an index.                                                        *)

TailSame(v) == \A i \in Idx : i \in ChunkTail(v)' <=> i \in ChunkTail(v)

\* A step that moves no job out of its worker and draws none keeps every fate.
LEMMA FateKept ==
  ASSUME Fate, \A v \in Workers : HoldsSame(v) /\ TailSame(v), UNCHANGED <<got, left>>,
         \A i \in Idx : i < cursor' <=> i < cursor
  PROVE  Fate'
<1> SUFFICES ASSUME NEW i \in Idx
             PROVE  OneFate(i)'
  BY Zenon DEF Fate
<1>1. \A v \in Workers : (Holds(v, i)' <=> Holds(v, i)) /\ (i \in ChunkTail(v)' <=> i \in ChunkTail(v))
  BY Zenon DEF HoldsSame, TailSame
<1> QED BY <1>1, Zenon DEF Fate, OneFate

\* The chunks a step leaves alone.
LEMMA TailFrame ==
  ASSUME NEW v \in Workers, cur'[v] = cur[v], end'[v] = end[v]
  PROVE  TailSame(v)
BY Zenon DEF TailSame, ChunkTail

\* What claim_next does to the fates: index i was in the rest of the worker's
\* chunk or is the first that nobody has claimed, and is in no chunk after it.
Drew(w, i) ==
  /\ i \in Idx /\ got[i] = 0 /\ left[i] = "no" /\ i < cursor'
  /\ \A v \in Workers : ~Holds(v, i) /\ i \notin ChunkTail(v)'
  /\ \A v \in Workers \ {w} : TailSame(v)
  /\ \A j \in ChunkTail(w)' : j \in ChunkTail(w) \/ ~(j < cursor)
  /\ \A j \in ChunkTail(w) : j = i \/ j \in ChunkTail(w)'
  /\ \A j \in Idx : j < cursor' <=> j < cursor \/ j = i \/ j \in ChunkTail(w)'

\* claim_next inside the domain draws such an index.
LEMMA Draws ==
  ASSUME RoomInv, Fate, \A v \in Workers : Chunked(v), NEW w \in Workers,
         ClaimNext(w), Drawn(w) < Domain
  PROVE  Drew(w, Drawn(w))
<1>0. /\ cursor \in Nat /\ cur \in [Workers -> Nat] /\ end \in [Workers -> Nat]
      /\ got \in [Idx -> Nat] /\ Domain \in Nat /\ Chunk \in Nat \ {0}
      /\ Idx = 0..(Domain - 1)
  BY EngineAssumption, Zenon DEF RoomInv, TypeOK, TypeShared, TypeClaim, TypeHistory, Idx
<1>1. \A v \in Workers \ {w} : TailSame(v)
  BY <1>0, TailFrame, Zenon DEF ClaimNext
<1>2. CASE NeedsChunk(w)
  <2>1. /\ Drawn(w) = cursor /\ cursor \in Idx /\ cursor' = cursor + Chunk
        /\ end'[w] = cursor + Chunk /\ cur'[w] = cursor + 1 /\ cur[w] >= end[w]
    BY <1>0, <1>2 DEF Drawn, ClaimNext, NeedsChunk
  <2>2. ChunkTail(w) = {} BY <1>0, <2>1 DEF ChunkTail
  <2>3. ChunkTail(w)' = {j \in Idx : cursor + 1 <= j /\ j < cursor + Chunk}
    BY <2>1, Zenon DEF ChunkTail
  <2>4. ~(cursor < cursor) BY <1>0
  <2>5. got[cursor] = 0 /\ left[cursor] = "no"
        /\ \A v \in Workers : ~Holds(v, cursor) /\ cursor \notin ChunkTail(v)
    <3>1. OneFate(cursor) BY <2>1, Zenon DEF Fate
    <3> QED BY <1>0, <2>1, <2>4, <3>1 DEF OneFate
  <2>6. cursor < cursor' /\ cursor \notin ChunkTail(w)' BY <1>0, <2>1, <2>3, SMTT(30)
  <2>7. \A v \in Workers : cursor \notin ChunkTail(v)'
    BY <1>1, <2>1, <2>5, <2>6, Zenon DEF TailSame
  <2>8. \A j \in ChunkTail(w)' : ~(j < cursor) BY <1>0, <2>3
  <2>9. \A j \in Idx : j < cursor' <=> j < cursor \/ j = cursor \/ j \in ChunkTail(w)'
    BY <1>0, <2>1, <2>3
  <2> QED BY <1>1, <2>1, <2>2, <2>5, <2>6, <2>7, <2>8, <2>9, SMTT(30) DEF Drew
<1>3. CASE ~NeedsChunk(w)
  <2>1. /\ Drawn(w) = cur[w] /\ cur[w] \in Idx /\ cursor' = cursor
        /\ end'[w] = end[w] /\ cur'[w] = cur[w] + 1 /\ cur[w] < end[w]
    BY <1>0, <1>3 DEF Drawn, ClaimNext, NeedsChunk
  <2>2. cur[w] \in ChunkTail(w) BY <1>0, <2>1 DEF ChunkTail
  <2>3. ChunkTail(w)' = ChunkTail(w) \ {cur[w]}
    <3>1. \A j \in Idx : cur[w] + 1 <= j /\ j < end[w] <=> cur[w] <= j /\ j < end[w] /\ j # cur[w]
      BY <1>0
    <3> QED BY <2>1, <3>1, Zenon DEF ChunkTail
  <2>4. end[w] <= cursor BY <2>1, Zenon DEF Chunked
  <2>5. cur[w] < cursor BY <1>0, <2>1, <2>4
  <2>6. got[cur[w]] = 0 /\ left[cur[w]] = "no"
        /\ \A v \in Workers : ~Holds(v, cur[w])
    BY <1>0, <2>1, <2>2 DEF Fate, OneFate
  <2>7. \A v \in Workers : cur[w] \notin ChunkTail(v)'
    BY <1>1, <2>1, <2>2, <2>3, Zenon DEF TailSame, Fate, OneFate
  <2>8. \A j \in ChunkTail(w) : j < cursor
    BY <1>0, <2>4 DEF ChunkTail
  <2>9. \A j \in Idx : j < cursor' <=> j < cursor \/ j = cur[w] \/ j \in ChunkTail(w)'
    BY <2>1, <2>3, <2>5, <2>8, Zenon
  <2> QED BY <1>1, <2>1, <2>3, <2>5, <2>6, <2>7, <2>9, Zenon DEF Drew
<1> QED BY <1>2, <1>3, Zenon

\* A drawn job is in its worker's hand.
LEMMA FateClaim ==
  ASSUME RoomInv, Fate, \A v \in Workers : Chunked(v) /\ OnePlace(v), NEW w \in Workers,
         ClaimJob(w)
  PROVE  /\ Fate' /\ \A v \in Workers : OnePlace(v)'
         /\ Drew(w, Drawn(w)) /\ UNCHANGED <<got, left>>
         /\ \A v \in Workers \ {w} : HoldsSame(v)
         /\ \A j \in Idx : Holds(w, j)' <=> Holds(w, j) \/ j = Drawn(w)
<1>0. /\ hand \in [Workers -> JobOrNone] /\ hand[w] = NoJob /\ NoJob \notin Idx
      /\ pending[w] = NoJob
  BY EngineAssumption
  DEF RoomInv, TypeOK, TypeJob, WorkerInv, ClaimJob, MayClaim, MayFill, NoJob, Idx
<1>1. PICK i : i = Drawn(w) BY Zenon
<1>2. Drew(w, i) BY <1>1, Draws, Zenon DEF ClaimJob
<1>3. /\ hand' = [hand EXCEPT ![w] = i]
      /\ UNCHANGED <<pending, slot, ring, got, left>>
  BY <1>1, Zenon DEF ClaimJob, slotVars, ringVars, history
<1>4. hand'[w] = i BY <1>0, <1>3, Zenon
<1>5. \A v \in Workers \ {w} : HoldsSame(v) /\ OnePlace(v)'
  BY <1>0, <1>3, HoldsFrame, Zenon
<1>6. \A j \in Idx : Holds(w, j)' <=> Holds(w, j) \/ j = i
  BY <1>0, <1>3, <1>4, Zenon DEF Holds
<1>7. OnePlace(w)'
  <2>1. i \notin Range(ring[w]) /\ \A s \in Slots : slot[w][s] # i
    BY <1>2, Zenon DEF Drew, Holds
  <2> QED BY <1>0, <1>3, <1>4, <2>1 DEF OnePlace
<1>8. ASSUME NEW j \in Idx
      PROVE  OneFate(j)'
  <2>1. \A v \in Workers : Holds(v, j)' <=> Holds(v, j) \/ (v = w /\ j = i)
    BY <1>5, <1>6, Zenon DEF HoldsSame
  <2>2. /\ \A v \in Workers \ {w} : j \in ChunkTail(v)' <=> j \in ChunkTail(v)
        /\ j \in ChunkTail(w)' => j \in ChunkTail(w) \/ ~(j < cursor)
        /\ j \in ChunkTail(w) => j = i \/ j \in ChunkTail(w)'
        /\ j < cursor' <=> j < cursor \/ j = i \/ j \in ChunkTail(w)'
    BY <1>2, Zenon DEF Drew, TailSame
  <2>3. CASE j = i
    <3>1. /\ got[j] = 0 /\ left[j] = "no" /\ j < cursor'
          /\ \A v \in Workers : ~Holds(v, j) /\ j \notin ChunkTail(v)'
      BY <1>2, <2>3, Zenon DEF Drew
    <3>2. got'[j] = 0 /\ left'[j] = "no" BY <1>3, <3>1, Zenon
    <3> QED BY <2>1, <2>3, <3>1, <3>2 DEF OneFate
  <2>4. CASE j # i
    <3>1. got'[j] = got[j] /\ left'[j] = left[j] BY <1>3, Zenon
    <3>2. \A v \in Workers : Holds(v, j)' <=> Holds(v, j) BY <2>1, <2>4, Zenon
    <3>3. ~(j < cursor) => /\ ~(got[j] > 0) /\ left[j] = "no"
                           /\ \A v \in Workers : ~Holds(v, j) /\ j \notin ChunkTail(v)
      BY Zenon DEF Fate, OneFate
    <3> QED BY <2>2, <2>4, <3>1, <3>2, <3>3 DEF Fate, OneFate
  <2> QED BY <2>3, <2>4, Zenon
<1> QED BY <1>1, <1>2, <1>3, <1>5, <1>6, <1>7, <1>8, Zenon DEF Fate

\* An index that next() declines is left.
LEMMA FateDecline ==
  ASSUME RoomInv, Fate, \A v \in Workers : Chunked(v) /\ OnePlace(v), NEW w \in Workers,
         NEW rc, ClaimDeclined(w, rc)
  PROVE  /\ Fate' /\ \A v \in Workers : OnePlace(v)'
         /\ Drew(w, Drawn(w)) /\ \A v \in Workers : HoldsSame(v)
         /\ Drawn(w) \in Idx /\ left[Drawn(w)] = "no"
<1>1. PICK i : i = Drawn(w) BY Zenon
<1>2. Drew(w, i) BY <1>1, Draws, Zenon DEF ClaimDeclined
<1>3. /\ left' = [left EXCEPT ![i] = "declined"]
      /\ UNCHANGED <<hand, pending, slot, ring, got>>
  BY <1>1, Zenon DEF ClaimDeclined, jobVars, slotVars, ringVars
<1>4. \A v \in Workers : HoldsSame(v) /\ OnePlace(v)' BY <1>3, HoldsFrame, Zenon
<1>5. left \in [Idx -> {"no", "declined", "owed"}] BY Zenon DEF RoomInv, TypeOK, TypeHistory
<1>6. ASSUME NEW j \in Idx
      PROVE  OneFate(j)'
  <2>1. \A v \in Workers : Holds(v, j)' <=> Holds(v, j) BY <1>4, Zenon DEF HoldsSame
  <2>2. /\ \A v \in Workers \ {w} : j \in ChunkTail(v)' <=> j \in ChunkTail(v)
        /\ j \in ChunkTail(w)' => j \in ChunkTail(w) \/ ~(j < cursor)
        /\ j \in ChunkTail(w) => j = i \/ j \in ChunkTail(w)'
        /\ j < cursor' <=> j < cursor \/ j = i \/ j \in ChunkTail(w)'
    BY <1>2, Zenon DEF Drew, TailSame
  <2>3. CASE j = i
    <3>1. /\ got[j] = 0 /\ j < cursor'
          /\ \A v \in Workers : ~Holds(v, j) /\ j \notin ChunkTail(v)'
      BY <1>2, <2>3, Zenon DEF Drew
    <3>2. got'[j] = 0 /\ left'[j] = "declined" BY <1>3, <1>5, <2>3, <3>1, SMTT(30)
    <3> QED BY <2>1, <2>3, <3>1, <3>2 DEF OneFate
  <2>4. CASE j # i
    <3>1. got'[j] = got[j] /\ left'[j] = left[j] BY <1>3, <1>5, <2>4, Zenon
    <3>2. ~(j < cursor) => /\ ~(got[j] > 0) /\ left[j] = "no"
                           /\ \A v \in Workers : ~Holds(v, j) /\ j \notin ChunkTail(v)
      BY Zenon DEF Fate, OneFate
    <3> QED BY <2>1, <2>2, <2>4, <3>1, <3>2 DEF Fate, OneFate
  <2> QED BY <2>3, <2>4, Zenon
<1>7. i \in Idx /\ left[i] = "no" BY <1>2, Zenon DEF Drew
<1> QED BY <1>1, <1>2, <1>4, <1>6, <1>7, Zenon DEF Fate

\* A claim past the domain draws nothing.
LEMMA FatePast ==
  ASSUME RoomInv, Fate, \A v \in Workers : OnePlace(v), NEW w \in Workers, ClaimPastDomain(w)
  PROVE  Fate' /\ \A v \in Workers : OnePlace(v)' /\ HoldsSame(v)
<1>0. /\ cursor \in Nat /\ cur \in [Workers -> Nat] /\ end \in [Workers -> Nat]
      /\ Domain \in Nat /\ Chunk \in Nat \ {0} /\ Idx = 0..(Domain - 1)
  BY EngineAssumption, Zenon DEF RoomInv, TypeOK, TypeShared, TypeClaim, Idx
<1>1. ClaimNext(w) /\ Drawn(w) >= Domain /\ UNCHANGED <<hand, pending, slot, ring, got, left>>
  BY Zenon DEF ClaimPastDomain, jobVars, slotVars, ringVars, history
<1>2. \A v \in Workers : HoldsSame(v) /\ OnePlace(v)' BY <1>1, HoldsFrame, Zenon
<1>3. \A v \in Workers \ {w} : TailSame(v) BY <1>0, <1>1, TailFrame, Zenon DEF ClaimNext
<1>4. TailSame(w) /\ \A i \in Idx : i < cursor' <=> i < cursor
  <2>1. CASE NeedsChunk(w)
    <3>1. /\ cursor >= Domain /\ cursor' = cursor + Chunk /\ cur[w] >= end[w]
          /\ cur'[w] = cursor + 1
      BY <1>0, <1>1, <2>1, Zenon DEF Drawn, ClaimNext, NeedsChunk
    <3>2. \A i \in Idx : ~(cur[w] <= i /\ i < end[w]) /\ ~(cur'[w] <= i)
      BY <1>0, <3>1
    <3>3. TailSame(w) BY <3>2, Zenon DEF TailSame, ChunkTail
    <3>4. \A i \in Idx : i < cursor' <=> i < cursor BY <1>0, <3>1
    <3> QED BY <3>3, <3>4, Zenon
  <2>2. CASE ~NeedsChunk(w)
    <3>1. cur[w] >= Domain /\ cursor' = cursor /\ cur'[w] = cur[w] + 1
      BY <1>0, <1>1, <2>2, Zenon DEF Drawn, ClaimNext, NeedsChunk
    <3>2. \A i \in Idx : ~(cur[w] <= i) /\ ~(cur'[w] <= i) BY <1>0, <3>1
    <3> QED BY <3>1, <3>2, Zenon DEF TailSame, ChunkTail
  <2> QED BY <2>1, <2>2, Zenon
<1>5. Fate' BY <1>1, <1>2, <1>3, <1>4, FateKept, Zenon
<1> QED BY <1>2, <1>5, Zenon

\* worker_retire leaves the rest of the chunk.
LEMMA FateTail ==
  ASSUME RoomInv, Fate, \A v \in Workers : OnePlace(v), NEW w \in Workers, RetireTail(w)
  PROVE  /\ Fate' /\ \A v \in Workers : OnePlace(v)' /\ HoldsSame(v)
         /\ \A i \in ChunkTail(w) : i \in Idx /\ left[i] = "no"
<1>0. cur \in [Workers -> Nat] /\ end \in [Workers -> Nat] /\ Idx \subseteq Int
  BY DEF RoomInv, TypeOK, TypeClaim, Idx
<1>1. /\ cur' = [cur EXCEPT ![w] = end[w]] /\ end' = end
      /\ UNCHANGED <<cursor, hand, pending, slot, ring, got>>
  BY Zenon DEF RetireTail, jobVars, slotVars, ringVars, shared
<1>2. PICK how \in {"declined", "owed"} :
        left' = [i \in Idx |-> IF i \notin ChunkTail(w) THEN left[i] ELSE how]
  <2>1. CASE Deliberate(w)
    <3>1. left' = [i \in Idx |-> IF i \notin ChunkTail(w) THEN left[i] ELSE "declined"]
      BY <2>1, Zenon DEF RetireTail
    <3> QED BY <3>1, Zenon
  <2>2. CASE ~Deliberate(w)
    <3>1. left' = [i \in Idx |-> IF i \notin ChunkTail(w) THEN left[i] ELSE "owed"]
      BY <2>2, Zenon DEF RetireTail
    <3> QED BY <3>1, Zenon
  <2> QED BY <2>1, <2>2, Zenon
<1>3. \A v \in Workers : HoldsSame(v) /\ OnePlace(v)' BY <1>1, HoldsFrame, Zenon
<1>4. \A v \in Workers \ {w} : TailSame(v) BY <1>0, <1>1, TailFrame, Zenon
<1>5. \A i \in Idx : i \notin ChunkTail(w)'
  <2>1. cur'[w] = end[w] /\ end'[w] = end[w] /\ end[w] \in Int BY <1>0, <1>1
  <2>2. \A i \in Int : ~(end[w] <= i /\ i < end[w]) BY <2>1
  <2> QED BY <1>0, <2>1, <2>2, Zenon DEF ChunkTail
<1>6. \A i \in ChunkTail(w) : i \in Idx /\ left[i] = "no"
  BY Zenon DEF ChunkTail, Fate, OneFate
<1>7. ASSUME NEW j \in Idx PROVE OneFate(j)'
  <2>1. \A v \in Workers : Holds(v, j)' <=> Holds(v, j) BY <1>3, Zenon DEF HoldsSame
  <2>2. \A v \in Workers : j \in ChunkTail(v)' <=> j \in ChunkTail(v) /\ v # w
    BY <1>4, <1>5, Zenon DEF TailSame
  <2>3. OneFate(j) BY Zenon DEF Fate
  <2>4. got'[j] = got[j] /\ cursor' = cursor BY <1>1, Zenon
  <2>5. CASE j \in ChunkTail(w)
    <3>1. left'[j] # "no" BY <1>2, <2>5, Zenon
    <3> QED BY <2>1, <2>2, <2>3, <2>4, <2>5, <3>1, Zenon DEF OneFate
  <2>6. CASE j \notin ChunkTail(w)
    <3>1. left'[j] = left[j] BY <1>2, <2>6, Zenon
    <3>2. \A v \in Workers : j \in ChunkTail(v)' <=> j \in ChunkTail(v) BY <2>2, <2>6, Zenon
    <3> QED BY <2>1, <2>3, <2>4, <3>1, <3>2, Zenon DEF OneFate
  <2> QED BY <2>5, <2>6, Zenon
<1> QED BY <1>3, <1>6, <1>7, Zenon DEF Fate

First(q, n) == {q[k] : k \in 1..n}
After(q, n) == SubSeq(q, n + 1, Len(q))

\* What is left of a queue without repeats once its first n elements are taken.
LEMMA Taken ==
  ASSUME NEW S, NEW q \in Seq(S), NEW n \in 1..Len(q), IsInjective(q)
  PROVE  /\ Range(After(q, n)) = Range(q) \ First(q, n) /\ IsInjective(After(q, n))
         /\ First(q, n) \subseteq Range(q)
<1> DEFINE r == SubSeq(q, n + 1, Len(q))
           T == {q[k] : k \in 1..n}
<1>1. /\ Len(q) \in Nat /\ DOMAIN q = 1..Len(q) /\ n \in Nat /\ n <= Len(q)
      /\ Len(r) = Len(q) - n /\ DOMAIN r = 1..(Len(q) - n)
      /\ \A k \in 1..(Len(q) - n) : r[k] = q[n + k]
  OBVIOUS
<1> HIDE DEF r
<1>2. \A k \in DOMAIN r : n + k \in DOMAIN q /\ n + k \notin 1..n BY <1>1
<1>3. \A k \in DOMAIN q : k \notin 1..n => \E l \in DOMAIN r : r[l] = q[k]
  <2> TAKE k \in DOMAIN q
  <2>1. SUFFICES ASSUME k \notin 1..n PROVE k - n \in DOMAIN r /\ r[k - n] = q[k] BY Zenon
  <2>2. k - n \in 1..(Len(q) - n) /\ n + (k - n) = k BY <1>1, <2>1
  <2> QED BY <1>1, <2>2, Zenon
<1>4. 1..n \subseteq DOMAIN q BY <1>1
<1>5. T \subseteq Range(q) BY <1>4, Zenon DEF Range
<1>6. ASSUME NEW e \in Range(r) PROVE e \in Range(q) \ T
  <2>1. PICK k \in DOMAIN r : e = r[k] BY <1>6, Zenon DEF Range
  <2>2. e = q[n + k] BY <1>1, <2>1, Zenon
  <2> QED BY <1>2, <1>4, <2>1, <2>2, Zenon DEF Range, IsInjective
<1>7. ASSUME NEW e \in Range(q) \ T PROVE e \in Range(r)
  <2>1. PICK k \in DOMAIN q : e = q[k] BY <1>7, Zenon DEF Range
  <2> QED BY <1>3, <1>7, <2>1, Zenon DEF Range
<1>8. IsInjective(r)
  <2> SUFFICES ASSUME NEW a \in DOMAIN r, NEW b \in DOMAIN r, r[a] = r[b] PROVE a = b
    BY Zenon DEF IsInjective
  <2>1. q[n + a] = q[n + b] BY <1>1, Zenon
  <2>2. n + a = n + b BY <1>2, <2>1, Zenon DEF IsInjective
  <2> QED BY <1>1, <2>2
<1> QED BY <1>1, <1>5, <1>6, <1>7, <1>8, Zenon DEF r, First, After

\* qn_engine_poll reports the jobs it takes from a ring.
LEMMA FatePoll ==
  ASSUME Counting, RoomInv, Fate, \A v \in Workers : OnePlace(v), NEW w \in Workers, NEW n \in 1..RCap,
         Poll(w, n)
  PROVE  LET T == {ring[w][k] : k \in 1..n}
         IN  /\ Fate' /\ \A v \in Workers : OnePlace(v)'
             /\ T \subseteq Idx
             /\ \A i \in T : got[i] = 0 /\ left[i] = "no" /\ Holds(w, i)
             /\ \A i \in Idx : got'[i] = IF i \in T THEN 1 ELSE got[i]
             /\ \A i \in Idx : Holds(w, i)' <=> Holds(w, i) /\ i \notin T
             /\ \A v \in Workers \ {w} : HoldsSame(v)
<1> DEFINE T == {ring[w][k] : k \in 1..n}
<1>0. /\ ring \in [Workers -> Seq(Idx)] /\ got \in [Idx -> Nat] /\ NoJob \notin Idx
      /\ left \in [Idx -> {"no", "declined", "owed"}]
  BY EngineAssumption DEF RoomInv, TypeOK, TypeRing, TypeHistory, NoJob, Idx
<1>1. /\ n \in 1..Len(ring[w]) /\ UNCHANGED <<hand, pending, slot, cur, end, cursor, left>>
      /\ ring' = [ring EXCEPT ![w] = SubSeq(ring[w], n + 1, Len(ring[w]))]
      /\ got' = [i \in Idx |-> got[i] + Cardinality({k \in 1..n : ring[w][k] = i})]
  BY Zenon DEF Poll, jobVars, slotVars, claimVars, shared
<1>2. /\ ring[w] \in Seq(Idx) /\ IsInjective(ring[w]) /\ Len(ring[w]) \in Nat /\ n \in Nat
      /\ ring'[w] = SubSeq(ring[w], n + 1, Len(ring[w]))
      /\ \A v \in Workers \ {w} : ring'[v] = ring[v]
  BY <1>0, <1>1, SMTT(30) DEF OnePlace
<1>3. /\ Range(ring'[w]) = Range(ring[w]) \ T /\ IsInjective(ring'[w]) /\ T \subseteq Range(ring[w])
  <2>1. ring'[w] = After(ring[w], n) /\ T = First(ring[w], n) BY <1>2, Zenon DEF After, First
  <2> HIDE DEF T
  <2> QED BY <1>1, <1>2, <2>1, Taken
<1>4. T \subseteq Idx
  <2>1. \A k \in DOMAIN ring[w] : ring[w][k] \in Idx BY <1>2
  <2> HIDE DEF T
  <2> QED BY <1>3, <2>1, Zenon DEF Range
<1>5. \A i \in T : got[i] = 0 /\ left[i] = "no" /\ Holds(w, i)
  <2> TAKE i \in T
  <2>1. Holds(w, i) BY <1>3, Zenon DEF Holds
  <2>2. OneFate(i) BY <1>4, Zenon DEF Fate
  <2> QED BY <1>0, <1>4, <2>1, <2>2 DEF OneFate
<1>6. ASSUME NEW i \in Idx PROVE got'[i] = IF i \in T THEN 1 ELSE got[i]
  <2> DEFINE K == {k \in 1..n : ring[w][k] = i}
  <2>1. got'[i] = got[i] + Cardinality(K) BY <1>1, Zenon
  <2>2. CASE i \in T
    <3>1. PICK k \in 1..n : ring[w][k] = i BY <2>2, Zenon
    <3>2. 1..n \subseteq DOMAIN ring[w] BY <1>1, <1>2
    <3>3. K = {k} BY <1>2, <3>1, <3>2, Zenon DEF IsInjective
    <3>4. Cardinality(K) = 1 BY <3>3, Zenon DEF Counting
    <3> QED BY <1>5, <2>1, <2>2, <3>4
  <2>3. CASE i \notin T
    <3>1. K = {} BY <2>3, Zenon
    <3>2. Cardinality(K) = 0 BY <3>1, Zenon DEF Counting
    <3> QED BY <1>0, <2>1, <2>3, <3>2
  <2> QED BY <2>2, <2>3, Zenon
<1> HIDE DEF T
<1>7. \A v \in Workers \ {w} : HoldsSame(v) /\ OnePlace(v)' BY <1>1, <1>2, HoldsFrame, Zenon
<1>8. OnePlace(w)' BY <1>1, <1>3, Zenon DEF OnePlace
<1>9. \A i \in Idx : Holds(w, i)' <=> Holds(w, i) /\ i \notin T
  <2> TAKE i \in Idx
  <2>1. i # NoJob BY <1>0, Zenon
  <2>2. Holds(w, i)' <=> \/ hand[w] = i \/ pending[w] = i
                         \/ \E s \in Slots : slot[w][s] = i
                         \/ i \in Range(ring[w]) \ T
    BY <1>1, <1>3, Zenon DEF Holds
  <2>3. i \in Range(ring[w]) => /\ hand[w] # i /\ pending[w] # i
                                /\ \A s \in Slots : slot[w][s] # i
    BY <2>1 DEF OnePlace
  <2> QED BY <1>3, <2>2, <2>3, Zenon DEF Holds
<1>10. ASSUME NEW j \in Idx PROVE OneFate(j)'
  <2>1. \A v \in Workers : j \in ChunkTail(v)' <=> j \in ChunkTail(v)
    BY <1>1, Zenon DEF ChunkTail
  <2>2. OneFate(j) BY Zenon DEF Fate
  <2>3. left'[j] = left[j] /\ cursor' = cursor BY <1>1, Zenon
  <2>4. \A v \in Workers : Holds(v, j)' <=> Holds(v, j) /\ ~(v = w /\ j \in T)
    BY <1>7, <1>9, Zenon DEF HoldsSame
  <2>5. CASE j \in T
    <3>1. got'[j] = 1 /\ Holds(w, j) /\ left[j] = "no" BY <1>5, <1>6, <2>5, Zenon
    <3>2. \A v \in Workers : ~Holds(v, j)' BY <2>2, <2>4, <2>5, <3>1, Zenon DEF OneFate
    <3> QED BY <2>1, <2>2, <2>3, <3>1, <3>2 DEF OneFate
  <2>6. CASE j \notin T
    <3>1. got'[j] = got[j] BY <1>6, <2>6, Zenon
    <3>2. \A v \in Workers : Holds(v, j)' <=> Holds(v, j) BY <2>4, <2>6, Zenon
    <3> QED BY <2>1, <2>2, <2>3, <3>1, <3>2, Zenon DEF OneFate
  <2> QED BY <2>5, <2>6, Zenon
<1>11. Fate' BY <1>10, Zenon DEF Fate
<1> QED BY <1>2, <1>3, <1>4, <1>5, <1>6, <1>7, <1>8, <1>9, <1>11, Zenon DEF T

\* A worker that is not running holds nothing but what its ring still holds.
LEMMA AtRest ==
  ASSUME RoomInv, NEW w \in Workers, Chunked(w), wpc[w] \in {"off", "dead"}, ring[w] = << >>
  PROVE  \A i \in Idx : ~Holds(w, i) /\ i \notin ChunkTail(w)
<1>1. /\ hand[w] = NoJob /\ pending[w] = NoJob /\ LiveSlots(w) = {} /\ end[w] <= cur[w]
      /\ NoJob \notin Idx /\ cur[w] \in Nat /\ end[w] \in Nat
  BY EngineAssumption DEF RoomInv, WorkerInv, Chunked, TypeOK, TypeClaim, NoJob, Idx
<1>2. Range(ring[w]) = {} BY DEF Range
<1>3. Idx \subseteq Int BY DEF Idx
<1>4. \A i \in Int : ~(cur[w] <= i /\ i < end[w]) BY <1>1
<1> QED BY <1>1, <1>2, <1>3, <1>4, Zenon DEF Holds, ChunkTail, LiveSlots

\* A worker that qn_engine_start resets had nothing to lose.
LEMMA FateReset ==
  ASSUME RoomInv, Fate, \A v \in Workers : OnePlace(v), NEW w \in Workers, Chunked(w),
         wpc[w] = "off", ring[w] = << >>, ResetWorker(w),
         UNCHANGED <<hand, cursor, got, left>>
  PROVE  Fate' /\ \A v \in Workers : OnePlace(v)' /\ HoldsSame(v)
<1>0. /\ pending \in [Workers -> JobOrNone] /\ slot \in [Workers -> [Slots -> JobOrNone]]
      /\ ring \in [Workers -> Seq(Idx)] /\ cur \in [Workers -> Nat] /\ end \in [Workers -> Nat]
      /\ NoJob \notin Idx /\ hand[w] = NoJob
  <2>1. /\ pending \in [Workers -> JobOrNone] /\ slot \in [Workers -> [Slots -> JobOrNone]]
        /\ ring \in [Workers -> Seq(Idx)] /\ cur \in [Workers -> Nat] /\ end \in [Workers -> Nat]
    BY Zenon DEF RoomInv, TypeOK, TypeJob, TypeSlot, TypeRing, TypeClaim
  <2>2. hand[w] = NoJob BY Zenon DEF RoomInv, WorkerInv
  <2>3. NoJob \notin Idx BY EngineAssumption DEF NoJob, Idx
  <2> QED BY <2>1, <2>2, <2>3, Zenon
<1>1. \A v \in Workers \ {w} : /\ hand'[v] = hand[v] /\ pending'[v] = pending[v]
                               /\ slot'[v] = slot[v] /\ ring'[v] = ring[v]
                               /\ cur'[v] = cur[v] /\ end'[v] = end[v]
  BY <1>0, Zenon DEF ResetWorker
<1>2. /\ pending'[w] = NoJob /\ slot'[w] = [s \in Slots |-> NoJob] /\ ring'[w] = << >>
      /\ cur'[w] = 0 /\ end'[w] = 0 /\ hand'[w] = NoJob
  BY <1>0, Zenon DEF ResetWorker
<1>3. \A v \in Workers \ {w} : HoldsSame(v) /\ OnePlace(v)' /\ TailSame(v)
  BY <1>1, HoldsFrame, TailFrame, Zenon
<1>4. Range(ring'[w]) = {} /\ IsInjective(ring'[w]) BY <1>2 DEF Range, IsInjective
<1>5. OnePlace(w)' BY <1>2, <1>4, Zenon DEF OnePlace
<1>6. \A i \in Idx : ~Holds(w, i)' /\ i \notin ChunkTail(w)'
  <2>1. \A i \in Idx : ~Holds(w, i)' BY <1>0, <1>2, <1>4, Zenon DEF Holds
  <2>2. \A i \in Int : ~(0 <= i /\ i < 0) OBVIOUS
  <2>3. Idx \subseteq Int BY DEF Idx
  <2> QED BY <1>2, <2>1, <2>2, <2>3, Zenon DEF ChunkTail
<1>7. HoldsSame(w) /\ TailSame(w) BY <1>6, AtRest, Zenon DEF HoldsSame, TailSame
<1>8. Fate' BY <1>3, <1>7, FateKept, Zenon
<1> QED BY <1>3, <1>5, <1>7, <1>8, Zenon

\* A run begins with no index claimed.
LEMMA FateBegin ==
  ASSUME RoomInv, \A v \in Workers : OnePlace(v) /\ Chunked(v),
         RingsEmpty, \A w \in Workers : wpc[w] \in {"off", "dead"}, StartBegin
  PROVE  Fate' /\ \A v \in Workers : OnePlace(v)' /\ \A i \in Idx : ~Holds(v, i)'
<1>1. /\ UNCHANGED <<hand, pending, slot, ring, cur, end>> /\ cursor' = 0
      /\ got' = [i \in Idx |-> 0] /\ left' = [i \in Idx |-> "no"]
  BY Zenon DEF StartBegin, jobVars, slotVars, ringVars, claimVars
<1>2. \A v \in Workers : HoldsSame(v) /\ OnePlace(v)' /\ TailSame(v)
  BY <1>1, HoldsFrame, TailFrame, Zenon
<1>3. \A v \in Workers, i \in Idx : ~Holds(v, i) /\ i \notin ChunkTail(v)
  BY AtRest, Zenon DEF RingsEmpty
<1>4. ASSUME NEW i \in Idx PROVE OneFate(i)'
  <2>1. \A v \in Workers : ~Holds(v, i)' /\ i \notin ChunkTail(v)'
    BY <1>2, <1>3, Zenon DEF HoldsSame, TailSame
  <2>2. got'[i] = 0 /\ left'[i] = "no" /\ ~(i < cursor') BY <1>1 DEF Idx
  <2> QED BY <2>1, <2>2 DEF OneFate
<1> QED BY <1>2, <1>3, <1>4, Zenon DEF Fate, HoldsSame

-----------------------------------------------------------------------------
(* Every step keeps the fates.                                                  *)

\* A step that leaves the jobs, the chunks and the history alone.
LEMMA FateFrame ==
  ASSUME Fate, \A v \in Workers : OnePlace(v),
         UNCHANGED <<hand, pending, slot, ring, cur, end, cursor, got, left>>
  PROVE  Fate' /\ \A v \in Workers : OnePlace(v)' /\ HoldsSame(v)
<1>1. \A v \in Workers : HoldsSame(v) /\ OnePlace(v)' /\ TailSame(v) BY HoldsFrame, TailFrame, Zenon
<1> QED BY <1>1, FateKept, Zenon

\* Every step of a worker keeps the fates.
LEMMA FateWorker ==
  ASSUME Counting, RoomInv, Fate, \A v \in Workers : Chunked(v) /\ OnePlace(v), NEW w \in Workers, Worker(w)
  PROVE  /\ Fate' /\ \A v \in Workers : OnePlace(v)'
         /\ \/ ClaimJob(w) \/ RetireTail(w) \/ \E rc \in Answers \ {"job"} : ClaimDeclined(w, rc)
            \/ UNCHANGED <<got, left>> /\ \A v \in Workers : HoldsSame(v)
<1> DEFINE Moved == /\ Fate' /\ \A v \in Workers : OnePlace(v)'
                    /\ UNCHANGED <<got, left>> /\ \A v \in Workers : HoldsSame(v)
<1> USE DEF jobVars, slotVars, ringVars, claimVars, shared, history
<1>1. ASSUME \A v \in Workers : HoldsSame(v) /\ OnePlace(v)',
             UNCHANGED <<cur, end, cursor, got, left>>
      PROVE  Moved
  BY <1>1, TailFrame, FateKept, Zenon
<1>2. CASE LoopTop(w) BY <1>2, FateFrame, Zenon DEF LoopTop
<1>3. CASE Fill(w)
  <2>1. CASE FillReturn(w) BY <2>1, FateFrame, Zenon DEF FillReturn
  <2>2. CASE TakePending(w)
    <3>1. UNCHANGED <<cur, end, cursor, got, left>> BY <2>2, Zenon DEF TakePending
    <3> QED BY <1>1, <2>2, <3>1, TakeMoves, Zenon
  <2>3. CASE ClaimPastDomain(w)
    <3>1. UNCHANGED <<got, left>> BY <2>3, Zenon DEF ClaimPastDomain
    <3> QED BY <2>3, <3>1, FatePast, Zenon
  <2>4. CASE ClaimJob(w) BY <2>4, FateClaim, Zenon
  <2>5. ASSUME NEW rc \in Answers \ {"job"}, ClaimDeclined(w, rc)
        PROVE  Fate' /\ \A v \in Workers : OnePlace(v)'
    BY <2>5, FateDecline, Zenon
  <2> QED BY <1>3, <2>1, <2>2, <2>3, <2>4, <2>5 DEF Fill
<1>4. CASE Launch(w)
  <2>1. UNCHANGED <<cur, end, cursor, got, left>>
    BY <1>4, Zenon DEF Launch, LaunchOk, LaunchRetry, LaunchAbandon, LaunchEnds
  <2> QED BY <1>1, <1>4, <2>1, LaunchMoves, Zenon
<1>5. ASSUME NEW s \in Slots, slot[w][s] # NoJob, NEW isLocal \in BOOLEAN,
             Finish(w, s, isLocal), UNCHANGED <<hand, pending, cur, end, cursor, got, left>>
      PROVE  Moved
  <2>1. \A v \in Workers : HoldsSame(v) /\ OnePlace(v)' BY <1>5, FinishMoves, Zenon
  <2> QED BY <1>1, <1>5, <2>1, Zenon
<1>6. CASE Wait(w)
  <2>1. CASE BreakDrained(w) BY <2>1, FateFrame, Zenon DEF BreakDrained
  <2>2. CASE WaitReturns(w) BY <2>2, FateFrame, Zenon DEF WaitReturns
  <2>3. CASE WaitFails(w) BY <2>3, FateFrame, Zenon DEF WaitFails
  <2>4. CASE EventsDone(w) BY <2>4, FateFrame, Zenon DEF EventsDone
  <2>5. ASSUME NEW s \in Slots, NEW isLocal \in BOOLEAN, FinishProbe(w, s, isLocal)
        PROVE  Moved
    BY <1>5, <2>5, Zenon DEF FinishProbe
  <2> QED BY <1>6, <2>1, <2>2, <2>3, <2>4, <2>5, Zenon DEF Wait
<1>7. CASE Fatal(w)
  <2>1. UNCHANGED <<hand, pending, slot, ring, cur, end, cursor, got, left>>
    BY <1>7, Zenon DEF Fatal, FatalCas, FatalErrno, FatalFlag, FatalStop
  <2> QED BY <2>1, FateFrame, Zenon
<1>8. CASE Retire(w)
  <2>1. CASE RetirePending(w)
    <3>1. UNCHANGED <<cur, end, cursor, got, left>> BY <2>1, Zenon DEF RetirePending
    <3> QED BY <1>1, <2>1, <3>1, RetirePendingMoves, Zenon
  <2>2. CASE RetireTail(w) BY <2>2, FateTail, Zenon
  <2>3. CASE Exit(w) BY <2>3, FateFrame, Zenon DEF Exit
  <2>4. ASSUME NEW s \in Slots, RetireProbe(w, s)
        PROVE  Moved
    BY <1>5, <2>4, Zenon DEF RetireProbe
  <2> QED BY <1>8, <2>1, <2>2, <2>3, <2>4, Zenon DEF Retire
<1> QED BY <1>2, <1>3, <1>4, <1>6, <1>7, <1>8, Zenon DEF Worker

\* The owner's steps keep the fates.
LEMMA FateOwner ==
  ASSUME RoomInv, FateInv, Start \/ Finalize
  PROVE  Fate' /\ \A v \in Workers : OnePlace(v)'
<1>0. Fate /\ \A v \in Workers : OnePlace(v) /\ Chunked(v) BY Zenon DEF FateInv
<1>1. CASE StartBegin
  <2>1. owner \in {"idle", "closed"} BY <1>1, Zenon DEF StartBegin
  <2>2. RingsEmpty /\ \A w \in Workers : wpc[w] \in {"off", "dead"}
    BY <2>1, Zenon DEF RoomInv, OwnerInv, FateInv, RunInv
  <2> QED BY <1>0, <1>1, <2>2, FateBegin, Zenon
<1>2. ASSUME NEW w \in Workers, SpawnOk(w) \/ SpawnFail(w)
      PROVE  Fate' /\ \A v \in Workers : OnePlace(v)'
  <2>1. /\ owner = "starting" /\ w \notin spawned
        /\ ResetWorker(w) /\ UNCHANGED <<hand, cursor, got, left>>
    BY <1>2, Zenon DEF SpawnOk, SpawnFail, history
  <2>2. wpc[w] = "off" /\ ring[w] = << >> BY <2>1, Zenon DEF RoomInv, OwnerInv, FateInv, RunInv
  <2> QED BY <1>0, <2>1, <2>2, FateReset, Zenon
<1>3. CASE Unwind \/ StartDone \/ Finalize
  <2>1. UNCHANGED <<hand, pending, slot, ring, cur, end, cursor, got, left>>
    BY <1>3, Zenon DEF Unwind, StartDone, Finalize, FinalizeDone, FinalizeCancel, Join, Settle, shared,
       workerVars, claimVars, jobVars, slotVars, ringVars, history
  <2> QED BY <1>0, <2>1, FateFrame, Zenon
<1> QED BY <1>1, <1>2, <1>3, Zenon DEF Start

\* Every step keeps the fates.
LEMMA NextFates ==
  ASSUME Counting, RoomInv, FateInv, [Next]_vars
  PROVE  Fate' /\ \A v \in Workers : OnePlace(v)'
<1>0. Fate /\ \A v \in Workers : OnePlace(v) /\ Chunked(v) BY Zenon DEF FateInv
<1>1. CASE UNCHANGED vars
  <2>1. UNCHANGED <<hand, pending, slot, ring, cur, end, cursor, got, left>>
    BY <1>1, Zenon DEF vars, shared, workerVars, claimVars, jobVars, slotVars, ringVars, history
  <2> QED BY <1>0, <2>1, FateFrame, Zenon
<1>2. ASSUME NEW w \in Workers, Worker(w) PROVE Fate' /\ \A v \in Workers : OnePlace(v)'
  BY <1>0, <1>2, FateWorker, Zenon
<1>3. ASSUME NEW w \in Workers, NEW n \in 1..RCap, Poll(w, n)
      PROVE  Fate' /\ \A v \in Workers : OnePlace(v)'
  BY <1>0, <1>3, FatePoll, Zenon
<1> QED BY <1>1, <1>2, <1>3, FateOwner, Zenon DEF Next, Finished

\* An idle engine has claimed nothing.
LEMMA InitFates ==
  ASSUME Init
  PROVE  Fate /\ \A v \in Workers : OnePlace(v)
<1>0. /\ cursor = 0 /\ hand = [w \in Workers |-> NoJob] /\ pending = [w \in Workers |-> NoJob]
      /\ cur = [w \in Workers |-> 0] /\ end = [w \in Workers |-> 0]
      /\ slot = [w \in Workers |-> [s \in Slots |-> NoJob]] /\ ring = [w \in Workers |-> << >>]
      /\ got = [i \in Idx |-> 0] /\ left = [i \in Idx |-> "no"] /\ NoJob \notin Idx
  BY EngineAssumption DEF Init, NoJob, Idx
<1>1. \A w \in Workers : Range(ring[w]) = {} /\ IsInjective(ring[w])
  BY <1>0 DEF Range, IsInjective
<1>2. \A w \in Workers : OnePlace(w) BY <1>0, <1>1, Zenon DEF OnePlace
<1>3. ASSUME NEW i \in Idx PROVE OneFate(i)
  <2>1. \A w \in Workers : ~Holds(w, i) BY <1>0, <1>1, Zenon DEF Holds
  <2>2. i \in Int /\ i >= 0 BY DEF Idx
  <2>3. \A w \in Workers : i \notin ChunkTail(w) BY <1>0, <2>2 DEF ChunkTail
  <2> QED BY <1>0, <2>1, <2>2, <2>3 DEF OneFate
<1> QED BY <1>2, <1>3, Zenon DEF Fate

-----------------------------------------------------------------------------
(* The ledger.                                                                  *)

\* A step of an open run that gives the indices of S another fate.
LEMMA LedgerMove ==
  ASSUME Phase = "open", Phase' = "open", NEW S \in SUBSET Idx, NEW from, NEW to,
         \A i \in S : FateOf(i) = from /\ FateOf(i)' = to,
         \A i \in Idx \ S : FateOf(i)' = FateOf(i)
  PROVE  Ledger!Move(S, from, to)
BY Zenon DEF Ledger!Move

\* A step that gives no index another fate.
LEMMA LedgerSame ==
  ASSUME UNCHANGED Phase, \A v \in Workers : HoldsSame(v), UNCHANGED <<got, left>>
  PROVE  UNCHANGED Ledger!vars
<1>1. \A i \in Idx : FateOf(i)' = FateOf(i) BY Zenon DEF FateOf, HoldsSame
<1> QED BY <1>1, Zenon DEF Ledger!vars

\* The steps of a worker: a draw, a declined index, the rest of a chunk, or nothing
\* the task can see.
LEMMA LedgerWorker ==
  ASSUME Counting, IInv, NEW w \in Workers, Worker(w), UNCHANGED owner,
         owner \notin {"idle", "closed", "failed"}
  PROVE  Ledger!Next \/ UNCHANGED Ledger!vars
<1>2. Phase = "open" /\ Phase' = "open" BY Zenon DEF Phase
<1>3. RoomInv /\ Fate /\ \A v \in Workers : Chunked(v) /\ OnePlace(v) BY Zenon DEF IInv, FateInv
<1>4. left \in [Idx -> {"no", "declined", "owed"}] BY <1>3, Zenon DEF RoomInv, TypeOK, TypeHistory
<1>5. CASE ClaimJob(w)
  <2>1. PICK i : i = Drawn(w) BY Zenon
  <2>2. /\ Drew(w, i) /\ UNCHANGED <<got, left>> /\ \A v \in Workers \ {w} : HoldsSame(v)
        /\ \A j \in Idx : Holds(w, j)' <=> Holds(w, j) \/ j = i
    BY <1>3, <1>5, <2>1, FateClaim, Zenon
  <2>3. i \in Idx /\ got[i] = 0 /\ left[i] = "no" /\ \A v \in Workers : ~Holds(v, i)
    BY <2>2, Zenon DEF Drew
  <2>4. FateOf(i) = "unseen" /\ FateOf(i)' = "drawn" BY <2>2, <2>3 DEF FateOf
  <2>5. \A j \in Idx \ {i} : FateOf(j)' = FateOf(j) BY <2>2, Zenon DEF FateOf, HoldsSame
  <2>6. Ledger!Draw(i) BY <1>2, <2>3, <2>4, <2>5, LedgerMove, Zenon DEF Ledger!Draw
  <2> QED BY <2>3, <2>6, Zenon DEF Ledger!Next
<1>6. ASSUME NEW rc \in Answers \ {"job"}, ClaimDeclined(w, rc) PROVE Ledger!Next
  <2>1. PICK i : i = Drawn(w) BY Zenon
  <2>2. Drew(w, i) /\ \A v \in Workers : HoldsSame(v) BY <1>3, <1>6, <2>1, FateDecline, Zenon
  <2>3. i \in Idx /\ got[i] = 0 /\ left[i] = "no" /\ \A v \in Workers : ~Holds(v, i)
    BY <2>2, Zenon DEF Drew
  <2>4. left' = [left EXCEPT ![i] = "declined"] /\ got' = got BY <1>6, <2>1, Zenon DEF ClaimDeclined
  <2>5. left'[i] = "declined" /\ \A j \in Idx \ {i} : left'[j] = left[j] BY <1>4, <2>3, <2>4, Zenon
  <2>6. FateOf(i) = "unseen" /\ FateOf(i)' = "declined" BY <2>3, <2>4, <2>5 DEF FateOf
  <2>7. \A j \in Idx \ {i} : FateOf(j)' = FateOf(j) BY <2>2, <2>4, <2>5, Zenon DEF FateOf, HoldsSame
  <2>8. Ledger!Leave({i}, "declined") BY <1>2, <2>3, <2>6, <2>7, LedgerMove, Zenon DEF Ledger!Leave
  <2> QED BY <2>3, <2>8, Zenon DEF Ledger!Next
<1>7. CASE RetireTail(w)
  <2>1. PICK S \in SUBSET Idx : S = ChunkTail(w) BY Zenon DEF ChunkTail
  <2>2. \A v \in Workers : HoldsSame(v) BY <1>3, <1>7, FateTail, Zenon
  <2>3. \A i \in S : ~(got[i] > 0) /\ left[i] = "no" /\ \A v \in Workers : ~Holds(v, i)
    BY <1>3, <2>1, Zenon DEF Fate, OneFate
  <2>4. PICK how \in {"declined", "owed"} :
          left' = [i \in Idx |-> IF i \notin S THEN left[i] ELSE how]
    <3>1. CASE Deliberate(w)
      <4>1. left' = [i \in Idx |-> IF i \notin S THEN left[i] ELSE "declined"]
        BY <1>7, <2>1, <3>1, Zenon DEF RetireTail
      <4> QED BY <4>1, Zenon
    <3>2. CASE ~Deliberate(w)
      <4>1. left' = [i \in Idx |-> IF i \notin S THEN left[i] ELSE "owed"]
        BY <1>7, <2>1, <3>2, Zenon DEF RetireTail
      <4> QED BY <4>1, Zenon
    <3> QED BY <3>1, <3>2, Zenon
  <2>5. got' = got BY <1>7, Zenon DEF RetireTail
  <2>6. \A i \in S : left'[i] = how BY <2>1, <2>4, Zenon
  <2>7. \A i \in Idx \ S : left'[i] = left[i] BY <2>4, Zenon
  <2>8. \A i \in S : FateOf(i) = "unseen" /\ FateOf(i)' = how BY <2>3, <2>5, <2>6, Zenon DEF FateOf
  <2>9. \A i \in Idx \ S : FateOf(i)' = FateOf(i) BY <2>2, <2>5, <2>7, Zenon DEF FateOf, HoldsSame
  <2>10. Ledger!Leave(S, how) BY <1>2, <2>8, <2>9, LedgerMove, Zenon DEF Ledger!Leave
  <2> QED BY <2>10, Zenon DEF Ledger!Next
<1>8. CASE UNCHANGED <<got, left>> /\ \A v \in Workers : HoldsSame(v)
  <2>1. UNCHANGED Phase BY <1>2, Zenon
  <2> QED BY <1>8, <2>1, LedgerSame, Zenon
<1> QED BY <1>3, <1>5, <1>6, <1>7, <1>8, FateWorker, Zenon

\* The steps of the owner.
LEMMA LedgerOwner ==
  ASSUME IInv, Start \/ Finalize
  PROVE  Ledger!Next \/ UNCHANGED Ledger!vars
<1>0. RoomInv /\ Fate /\ \A v \in Workers : Chunked(v) /\ OnePlace(v) BY Zenon DEF IInv, FateInv
<1>1. ASSUME UNCHANGED <<workerVars, history, Phase>> PROVE UNCHANGED Ledger!vars
  <2>1. UNCHANGED <<hand, pending, slot, ring, got, left>>
    BY <1>1, Zenon DEF workerVars, jobVars, slotVars, ringVars, history
  <2>2. \A v \in Workers : HoldsSame(v) BY <1>0, <2>1, HoldsFrame, Zenon
  <2> QED BY <1>1, <2>1, <2>2, LedgerSame, Zenon
<1>2. CASE StartBegin
  <2>1. owner \in {"idle", "closed"} /\ owner' = "starting" BY <1>2, Zenon DEF StartBegin
  <2>2. RingsEmpty /\ \A w \in Workers : wpc[w] \in {"off", "dead"}
    BY <2>1, Zenon DEF IInv, RoomInv, OwnerInv, FateInv, RunInv
  <2>3. \A v \in Workers : \A i \in Idx : ~Holds(v, i)' BY <1>0, <1>2, <2>2, FateBegin, Zenon
  <2>4. \A i \in Idx : ~(got'[i] > 0) /\ left'[i] = "no" BY <1>2 DEF StartBegin
  <2>5. \A i \in Idx : FateOf(i)' = "unseen" BY <2>3, <2>4, Zenon DEF FateOf
  <2>6. Phase \in {"idle", "closed"} /\ Phase' = "open" BY <2>1, Zenon DEF Phase
  <2>7. Ledger!Open BY <2>5, <2>6, Zenon DEF Ledger!Open
  <2> QED BY <2>7, Zenon DEF Ledger!Next
<1>3. ASSUME NEW w \in Workers, SpawnOk(w) \/ SpawnFail(w) PROVE UNCHANGED Ledger!vars
  <2>1. /\ owner = "starting" /\ owner' \in {"starting", "unwinding"} /\ w \notin spawned
        /\ ResetWorker(w) /\ UNCHANGED <<hand, cursor, got, left>>
    BY <1>3, Zenon DEF SpawnOk, SpawnFail, history
  <2>2. wpc[w] = "off" /\ ring[w] = << >> BY <2>1, Zenon DEF IInv, RoomInv, OwnerInv, FateInv, RunInv
  <2>3. \A v \in Workers : HoldsSame(v) BY <1>0, <2>1, <2>2, FateReset, Zenon
  <2>4. UNCHANGED Phase BY <2>1, Zenon DEF Phase
  <2> QED BY <2>1, <2>3, <2>4, LedgerSame, Zenon
<1>4. CASE Unwind
  <2>1. UNCHANGED <<hand, pending, slot, ring, got, left>>
    BY <1>4, Zenon DEF Unwind, workerVars, jobVars, slotVars, ringVars, history
  <2>2. \A v \in Workers : HoldsSame(v) BY <1>0, <2>1, HoldsFrame, Zenon
  <2>3. \A i \in Idx : FateOf(i)' = FateOf(i) BY <2>1, <2>2, Zenon DEF FateOf, HoldsSame
  <2>4. Phase = "open" /\ Phase' = "failed" BY <1>4, Zenon DEF Phase, Unwind
  <2>5. Ledger!Fail BY <2>3, <2>4, Zenon DEF Ledger!Fail
  <2> QED BY <2>5, Zenon DEF Ledger!Next
<1>5. CASE StartDone \/ FinalizeDone \/ FinalizeCancel \/ Join
  <2>1. UNCHANGED <<workerVars, history, Phase>>
    BY <1>5, Zenon DEF StartDone, FinalizeDone, FinalizeCancel, Join, Phase
  <2> QED BY <1>1, <2>1, Zenon
<1>6. CASE Settle
  <2>1. owner = "drain" /\ owner' = "closed" /\ RingsEmpty
        /\ UNCHANGED <<hand, pending, slot, ring, got, left>>
    BY <1>6, Zenon DEF Settle, workerVars, jobVars, slotVars, ringVars, history
  <2>2. \A w \in Workers : wpc[w] \in {"off", "dead"} BY <2>1, Zenon DEF IInv, RoomInv, OwnerInv
  <2>3. \A w \in Workers : \A i \in Idx : ~Holds(w, i) BY <1>0, <2>1, <2>2, AtRest, Zenon DEF RingsEmpty
  <2>4. \A v \in Workers : HoldsSame(v) BY <1>0, <2>1, HoldsFrame, Zenon
  <2>5. \A i \in Idx : FateOf(i)' = FateOf(i) BY <2>1, <2>4, Zenon DEF FateOf, HoldsSame
  <2>6. left \in [Idx -> {"no", "declined", "owed"}] BY <1>0, Zenon DEF RoomInv, TypeOK, TypeHistory
  <2>7. \A i \in Idx : FateOf(i) # "drawn" BY <2>3, <2>6, Zenon DEF FateOf
  <2>8. Phase = "open" /\ Phase' = "closed" BY <2>1, Zenon DEF Phase
  <2>9. Ledger!Close BY <2>5, <2>7, <2>8, Zenon DEF Ledger!Close
  <2> QED BY <2>9, Zenon DEF Ledger!Next
<1> QED BY <1>2, <1>3, <1>4, <1>5, <1>6, Zenon DEF Start, Finalize

\* A poll reports the jobs it takes from a ring.
LEMMA LedgerPoll ==
  ASSUME Counting, IInv, NEW w \in Workers, NEW n \in 1..RCap, Poll(w, n)
  PROVE  Ledger!Next
<1>0. RoomInv /\ Fate /\ \A v \in Workers : OnePlace(v) BY Zenon DEF IInv, FateInv
<1>1. Phase = "open" /\ Phase' = "open" /\ left' = left BY Zenon DEF Poll, ownerVars, Phase
<1>2. PICK T : T = {ring[w][k] : k \in 1..n} BY Zenon
<1>3. /\ T \subseteq Idx
      /\ \A i \in T : got[i] = 0 /\ left[i] = "no" /\ Holds(w, i)
      /\ \A i \in Idx : got'[i] = IF i \in T THEN 1 ELSE got[i]
      /\ \A i \in Idx : Holds(w, i)' <=> Holds(w, i) /\ i \notin T
      /\ \A v \in Workers \ {w} : HoldsSame(v)
  BY <1>0, <1>2, FatePoll, Zenon
<1>4. \A i \in T : FateOf(i) = "drawn" /\ FateOf(i)' = "reported" BY <1>3 DEF FateOf
<1>5. \A i \in Idx \ T : FateOf(i)' = FateOf(i) BY <1>1, <1>3, Zenon DEF FateOf, HoldsSame
<1>6. Ledger!Report(T) BY <1>1, <1>3, <1>4, <1>5, LedgerMove, Zenon DEF Ledger!Report
<1> QED BY <1>3, <1>6, Zenon DEF Ledger!Next

\* Every step of the engine is a step of the ledger or leaves it alone.
LEMMA LedgerStep ==
  ASSUME Counting, IInv, [Next]_vars,
         \A w \in Workers : Worker(w) => UNCHANGED owner /\ owner \notin {"idle", "closed", "failed"}
  PROVE  [Ledger!Next]_Ledger!vars
<1>1. CASE UNCHANGED vars
  <2>1. UNCHANGED <<hand, pending, slot, ring, got, left, owner>>
    BY <1>1, Zenon DEF vars, workerVars, jobVars, slotVars, ringVars, ownerVars, history
  <2>2. \A v \in Workers : HoldsSame(v) BY <2>1, HoldsFrame, Zenon DEF IInv, FateInv
  <2>3. UNCHANGED Phase BY <2>1, Zenon DEF Phase
  <2> QED BY <2>1, <2>2, <2>3, LedgerSame, Zenon
<1> QED BY <1>1, LedgerWorker, LedgerOwner, LedgerPoll, Zenon DEF Next, Finished

\* The engine begins with an empty ledger.
LEMMA LedgerInit ==
  ASSUME Init
  PROVE  Ledger!Init
<1>0. /\ hand = [w \in Workers |-> NoJob] /\ pending = [w \in Workers |-> NoJob]
      /\ slot = [w \in Workers |-> [s \in Slots |-> NoJob]] /\ ring = [w \in Workers |-> << >>]
      /\ owner = "idle" /\ got = [i \in Idx |-> 0] /\ left = [i \in Idx |-> "no"]
      /\ NoJob \notin Idx
  BY EngineAssumption DEF Init, NoJob, Idx
<1>1. \A w \in Workers : Range(ring[w]) = {} BY <1>0 DEF Range
<1>2. \A i \in Idx : \A w \in Workers : ~Holds(w, i) BY <1>0, <1>1, Zenon DEF Holds
<1>3. \A i \in Idx : FateOf(i) = "unseen" BY <1>0, <1>2 DEF FateOf
<1>4. Phase = "idle" BY <1>0, Zenon DEF Phase
<1> QED BY <1>3, <1>4, Zenon DEF Ledger!Init
=============================================================================
