---------------------------- MODULE EngineCounts ----------------------------
(* The statistics of a run against the fate of its indices, over the steps of    *)
(* Engine, and what they make of the report of qn_engine_finalize.               *)
EXTENDS Engine, TLAPS

-----------------------------------------------------------------------------
(* What is used of totals and of finite sets; the last part proves it.           *)

SumNat == \A f, S : IsFiniteSet(S) /\ (\A x \in S : f[x] \in Nat) => SumOver(f, S) \in Nat

SumSame == \A f, g, S : (\A x \in S : f[x] = g[x]) => SumOver(f, S) = SumOver(g, S)

SumZero == \A f, S : (\A x \in S : f[x] = 0) => SumOver(f, S) = 0

SumAdd == \A f, S, x : IsFiniteSet(S) /\ x \notin S /\ (\A y \in S \cup {x} : f[y] \in Nat) =>
                         SumOver(f, S \cup {x}) = SumOver(f, S) + f[x]

SumBump ==
  \A f, g, S : \A x \in S, n \in Nat :
    /\ IsFiniteSet(S) /\ \A y \in S : f[y] \in Nat
    /\ g[x] = f[x] + n /\ \A y \in S \ {x} : g[y] = f[y]
    => SumOver(g, S) = SumOver(f, S) + n

SumAgrees ==
  \A c, d, s, u, S :
    /\ IsFiniteSet(S)
    /\ \A x \in S : /\ c[x] \in Nat /\ d[x] \in Nat /\ s[x] \in Nat /\ u[x] \in Nat
                     /\ c[x] = d[x] + s[x] + u[x]
    => SumOver(c, S) = SumOver(d, S) + SumOver(s, S) + SumOver(u, S)

SumOnes == \A f, S : IsFiniteSet(S) /\ (\A x \in S : f[x] \in {0, 1}) =>
                       SumOver(f, S) = Cardinality({x \in S : f[x] = 1})

Intervals ==
  \A a, b \in Int : Cardinality(a..b) = IF a > b THEN 0 ELSE b - a + 1

Unions ==
  \A S, T : IsFiniteSet(S) /\ IsFiniteSet(T) /\ S \cap T = {} =>
             Cardinality(S \cup T) = Cardinality(S) + Cardinality(T)

Numbered ==
  \A q : \A n \in Nat :
    (\A j, k \in 1..n : q[j] = q[k] => j = k) =>
      IsFiniteSet({q[k] : k \in 1..n}) /\ Cardinality({q[k] : k \in 1..n}) = n

Totals == /\ Counting /\ SumNat /\ SumSame /\ SumZero /\ SumAdd /\ SumBump /\ SumAgrees
          /\ SumOnes /\ Intervals /\ Unions /\ Numbered

-----------------------------------------------------------------------------
(* The statistics through the steps of a worker.                                *)

\* The sets that totals and cardinalities range over are finite.
LEMMA Finite ==
  ASSUME Totals, TypeOK
  PROVE  IsFiniteSet(spawned) /\ spawned \subseteq Workers /\ IsFiniteSet(Idx)
<1>1. spawned \subseteq Workers BY Zenon DEF TypeOK, TypeOwner
<1>2. IsFiniteSet(spawned) BY <1>1, EngineAssumption, Zenon DEF Totals, Counting
<1>3. Domain - 1 \in Int BY EngineAssumption
<1>4. IsFiniteSet(Idx)
  <2>1. 0 \in Int OBVIOUS
  <2> QED BY <1>3, <2>1, Zenon DEF Idx, Totals, Counting
<1> QED BY <1>1, <1>2, <1>4, Zenon

\* A step that touches no counter, no ring and no history.
LEMMA CountKept ==
  ASSUME CountInv, UNCHANGED <<completed, skipped, unattempted, spawned, ring, got, left>>
  PROVE  CountInv'
BY DEF CountInv, Unread, Sum, SumOver, LeftAs

\* The ring has room for the event of a job a worker holds, so qn_ring_push appends it.
LEMMA PushAppends ==
  ASSUME Totals, RoomInv, NEW w \in Workers, NEW i \in Idx, Push(w, i)
  PROVE  ring'[w] = Append(ring[w], i) /\ \A v \in Workers \ {w} : ring'[v] = ring[v]
<1>1. /\ inflight[w] = Cardinality(LiveSlots(w)) /\ Len(ring[w]) + Owed(w) < RCap
      /\ Len(ring[w]) \in Nat /\ RCap \in Nat
  BY EngineAssumption DEF RoomInv, SlotsConserved, WorkerInv, TypeOK, TypeRing
<1>2. IsFiniteSet(LiveSlots(w))
  <2>1. NSlots \in Int /\ 1 \in Int BY EngineAssumption
  <2>2. IsFiniteSet(Slots) BY <2>1, Zenon DEF Slots, Totals, Counting
  <2>3. LiveSlots(w) \in SUBSET Slots BY Zenon DEF LiveSlots
  <2> QED BY <2>2, <2>3, Zenon DEF Totals, Counting
<1>3. inflight[w] \in Nat BY <1>1, <1>2, Zenon DEF Totals, Counting
<1>4. B(hand[w]) \in Nat /\ B(pending[w]) \in Nat BY Zenon DEF B
<1>5. Owed(w) \in Nat BY <1>3, <1>4 DEF Owed
<1>6. Len(ring[w]) < RCap BY <1>1, <1>5
<1>7. ring \in [Workers -> Seq(Idx)] BY Zenon DEF RoomInv, TypeOK, TypeRing
<1>8. ring' = [ring EXCEPT ![w] = Append(@, i)] BY <1>6, Zenon DEF Push
<1> QED BY <1>7, <1>8, Zenon

\* A completed job is counted and its event is in the ring.
LEMMA CountComplete ==
  ASSUME Totals, RoomInv, CountInv, NEW w \in spawned, NEW i \in Idx, Push(w, i), Bump(completed, w, 1),
         UNCHANGED <<skipped, unattempted, spawned, got, left>>
  PROVE  CountInv'
<1>0. /\ completed \in [Workers -> Nat] /\ ring \in [Workers -> Seq(Idx)]
      /\ got \in [Idx -> Nat] /\ w \in Workers
      /\ IsFiniteSet(spawned) /\ spawned \subseteq Workers /\ IsFiniteSet(Idx)
  BY Finite, Zenon DEF RoomInv, TypeOK, TypeStats, TypeRing, TypeHistory
<1>1. SumOver(completed', spawned) = SumOver(completed, spawned) + 1
  <2>1. completed' = [completed EXCEPT ![w] = @ + 1] BY Zenon DEF Bump
  <2>2. \A v \in spawned \ {w} : completed'[v] = completed[v] BY <1>0, <2>1, Zenon
  <2>3. completed'[w] = completed[w] + 1 /\ \A v \in spawned : completed[v] \in Nat BY <1>0, <2>1, Zenon
  <2>4. IsFiniteSet(spawned) BY <1>0, Zenon
  <2>5. SumBump BY Zenon DEF Totals
  <2> QED BY <2>2, <2>3, <2>4, <2>5 DEF SumBump
<1>2. SumOver(Unread', spawned) = SumOver(Unread, spawned) + 1
  <2>1. /\ ring'[w] = Append(ring[w], i) /\ \A v \in Workers \ {w} : ring'[v] = ring[v]
    BY <1>0, PushAppends, Zenon
  <2>2. \A v \in Workers : Unread[v] = Len(ring[v]) /\ Unread'[v] = Len(ring'[v])
    BY Zenon DEF Unread
  <2>3. \A v \in spawned \ {w} : Unread'[v] = Unread[v] BY <1>0, <2>1, <2>2, Zenon
  <2>4. Len(ring'[w]) = Len(ring[w]) + 1 BY <1>0, <2>1
  <2>5. Unread'[w] = Unread[w] + 1 BY <1>0, <2>2, <2>4, Zenon
  <2>6. \A v \in spawned : Unread[v] \in Nat BY <1>0, <2>2
  <2>7. IsFiniteSet(spawned) /\ SumBump BY <1>0, Zenon DEF Totals
  <2> QED BY <2>3, <2>5, <2>6, <2>7 DEF SumBump
<1>3. Sum(got) \in Nat BY <1>0, Zenon DEF Sum, Totals, SumNat
<1>4. SumOver(Unread, spawned) \in Nat
  <2>1. \A v \in spawned : Unread[v] \in Nat BY <1>0 DEF Unread
  <2> QED BY <1>0, <2>1, Zenon DEF Totals, SumNat
<1>5. Sum(got)' = Sum(got) BY Zenon DEF Sum, SumOver
<1>6. /\ SumOver(skipped, spawned)' = SumOver(skipped, spawned)
      /\ SumOver(unattempted, spawned)' = SumOver(unattempted, spawned)
  BY Zenon DEF SumOver
<1>7. SumOver(completed', spawned') = Sum(got)' + SumOver(Unread', spawned')
  BY <1>1, <1>2, <1>3, <1>4, <1>5 DEF CountInv
<1>8. LeftAs("declined")' = LeftAs("declined") /\ LeftAs("owed")' = LeftAs("owed")
  BY Zenon DEF LeftAs
<1> QED BY <1>6, <1>7, <1>8, Zenon DEF CountInv

\* Indices that get a fate other than "no" join the others of that fate.
LEMMA LeftGrows ==
  ASSUME Totals, IsFiniteSet(Idx), left \in [Idx -> {"no", "declined", "owed"}],
         NEW S \in SUBSET Idx, \A i \in S : left[i] = "no", NEW how \in {"declined", "owed"},
         NEW other \in {"declined", "owed"}, other # how,
         \A i \in Idx : left'[i] = IF i \in S THEN how ELSE left[i]
  PROVE  /\ Cardinality(LeftAs(how)') = Cardinality(LeftAs(how)) + Cardinality(S)
         /\ LeftAs(other)' = LeftAs(other)
<1>1. LeftAs(how)' = LeftAs(how) \cup S /\ LeftAs(how) \cap S = {} BY Zenon DEF LeftAs
<1>2. LeftAs(other)' = LeftAs(other) BY Zenon DEF LeftAs
<1>3. LeftAs(how) \subseteq Idx BY Zenon DEF LeftAs
<1>4. PICK L : L = LeftAs(how) BY Zenon
<1>5. IsFiniteSet(L) /\ IsFiniteSet(S) BY <1>3, <1>4, Zenon DEF Totals, Counting
<1>6. L \cap S = {} BY <1>1, <1>4, Zenon
<1>7. Cardinality(L \cup S) = Cardinality(L) + Cardinality(S) BY <1>5, <1>6, Zenon DEF Totals, Unions
<1> QED BY <1>1, <1>2, <1>4, <1>7, Zenon

\* Indices that a worker leaves are counted as skipped or as unattempted.
LEMMA CountLeft ==
  ASSUME Totals, RoomInv, CountInv, NEW w \in spawned, NEW S \in SUBSET Idx,
         \A i \in S : left[i] = "no", NEW how \in {"declined", "owed"},
         \A i \in Idx : left'[i] = IF i \in S THEN how ELSE left[i],
         \/ how = "declined" /\ Bump(skipped, w, Cardinality(S)) /\ UNCHANGED unattempted
         \/ how = "owed" /\ Bump(unattempted, w, Cardinality(S)) /\ UNCHANGED skipped,
         UNCHANGED <<completed, spawned, ring, got>>
  PROVE  CountInv'
<1>0. /\ skipped \in [Workers -> Nat] /\ unattempted \in [Workers -> Nat] /\ w \in Workers
      /\ left \in [Idx -> {"no", "declined", "owed"}]
      /\ IsFiniteSet(spawned) /\ spawned \subseteq Workers /\ IsFiniteSet(Idx)
  BY Finite, Zenon DEF RoomInv, TypeOK, TypeStats, TypeHistory
<1> DEFINE n == Cardinality(S)
<1>1. n \in Nat BY <1>0, Zenon DEF Totals, Counting
<1>2. SumOver(completed', spawned') = Sum(got)' + SumOver(Unread', spawned')
  BY DEF CountInv, Unread, Sum, SumOver
<1>3. CASE how = "declined"
  <2>1. skipped' = [skipped EXCEPT ![w] = @ + n] /\ unattempted' = unattempted
    BY <1>3, Zenon DEF Bump
  <2> HIDE DEF n
  <2>2. /\ \A v \in spawned \ {w} : skipped'[v] = skipped[v]
        /\ skipped'[w] = skipped[w] + n /\ \A v \in spawned : skipped[v] \in Nat
    BY <1>0, <2>1, Zenon
  <2>3. SumOver(skipped', spawned) = SumOver(skipped, spawned) + n
    <3>1. IsFiniteSet(spawned) /\ SumBump BY <1>0, Zenon DEF Totals
    <3> QED BY <1>1, <2>2, <3>1 DEF SumBump
  <2>4. /\ Cardinality(LeftAs("declined")') = Cardinality(LeftAs("declined")) + n
        /\ LeftAs("owed")' = LeftAs("owed")
    <3>1. "owed" # "declined" /\ "owed" \in {"declined", "owed"} BY Zenon
    <3> QED BY <1>0, <1>3, <3>1, LeftGrows, Zenon DEF n
  <2>5. SumOver(unattempted', spawned) = SumOver(unattempted, spawned) BY <2>1, Zenon
  <2> QED BY <1>2, <2>3, <2>4, <2>5, Zenon DEF CountInv
<1>4. CASE how = "owed"
  <2>1. unattempted' = [unattempted EXCEPT ![w] = @ + n] /\ skipped' = skipped
    BY <1>4, Zenon DEF Bump
  <2> HIDE DEF n
  <2>2. /\ \A v \in spawned \ {w} : unattempted'[v] = unattempted[v]
        /\ unattempted'[w] = unattempted[w] + n /\ \A v \in spawned : unattempted[v] \in Nat
    BY <1>0, <2>1, Zenon
  <2>3. SumOver(unattempted', spawned) = SumOver(unattempted, spawned) + n
    <3>1. IsFiniteSet(spawned) /\ SumBump BY <1>0, Zenon DEF Totals
    <3> QED BY <1>1, <2>2, <3>1 DEF SumBump
  <2>4. /\ Cardinality(LeftAs("owed")') = Cardinality(LeftAs("owed")) + n
        /\ LeftAs("declined")' = LeftAs("declined")
    <3>1. "declined" # "owed" /\ "declined" \in {"declined", "owed"} BY Zenon
    <3> QED BY <1>0, <1>4, <3>1, LeftGrows, Zenon DEF n
  <2>5. SumOver(skipped', spawned) = SumOver(skipped, spawned) BY <2>1, Zenon
  <2> QED BY <1>2, <2>3, <2>4, <2>5, Zenon DEF CountInv
<1> QED BY <1>3, <1>4, Zenon

\* The rest of a chunk has as many indices as worker_retire counts.
LEMMA LostIs ==
  ASSUME Totals, TypeClaim, NEW w \in Workers
  PROVE  IsFiniteSet(ChunkTail(w)) /\ Lost(w) = Cardinality(ChunkTail(w)) /\ Lost(w) \in Nat
<1>0. cur[w] \in Nat /\ end[w] \in Nat /\ Domain \in Nat \ {0} /\ Idx = 0..(Domain - 1)
  BY EngineAssumption, Zenon DEF TypeClaim, Idx
<1> DEFINE tail == IF end[w] > Domain THEN Domain ELSE end[w]
<1>1. tail \in Nat /\ (tail <= Domain) /\ (tail <= end[w]) /\ (tail = Domain \/ tail = end[w])
  BY <1>0
<1>2. Lost(w) = IF tail > cur[w] THEN tail - cur[w] ELSE 0 BY Zenon DEF Lost
<1> HIDE DEF tail
<1>3. ChunkTail(w) = cur[w]..(tail - 1)
  <2>1. \A i \in Int : i \in Idx /\ cur[w] <= i /\ i < end[w] <=> cur[w] <= i /\ i <= tail - 1
    BY <1>0, <1>1
  <2>2. \A i \in Idx : i \in Int BY <1>0
  <2> QED BY <1>0, <1>1, <2>1, <2>2 DEF ChunkTail
<1>4. tail - 1 \in Int /\ cur[w] \in Int BY <1>0, <1>1
<1>5. /\ IsFiniteSet(cur[w]..(tail - 1))
      /\ Cardinality(cur[w]..(tail - 1)) =
           IF cur[w] > tail - 1 THEN 0 ELSE (tail - 1) - cur[w] + 1
  BY <1>4, Zenon DEF Totals, Counting, Intervals
<1> QED BY <1>0, <1>1, <1>2, <1>3, <1>5

\* The index claim_next draws inside the domain has no fate yet.
LEMMA DrawnIsFresh ==
  ASSUME RoomInv, Fate, NEW w \in Workers, Drawn(w) < Domain
  PROVE  Drawn(w) \in Idx /\ left[Drawn(w)] = "no"
<1>0. /\ cursor \in Nat /\ cur[w] \in Nat /\ end[w] \in Nat /\ Domain \in Nat
      /\ Idx = 0..(Domain - 1)
  BY EngineAssumption, Zenon DEF RoomInv, TypeOK, TypeShared, TypeClaim, Idx
<1>1. CASE NeedsChunk(w)
  <2>1. Drawn(w) = cursor /\ cursor \in Idx /\ ~(cursor < cursor) BY <1>0, <1>1 DEF Drawn
  <2>2. OneFate(cursor) BY <2>1, Zenon DEF Fate
  <2> QED BY <2>1, <2>2, Zenon DEF OneFate
<1>2. CASE ~NeedsChunk(w)
  <2>1. Drawn(w) = cur[w] /\ cur[w] \in Idx /\ cur[w] < end[w] BY <1>0, <1>2 DEF Drawn, NeedsChunk
  <2>2. cur[w] \in ChunkTail(w) BY <1>0, <2>1 DEF ChunkTail
  <2>3. OneFate(cur[w]) BY <2>1, Zenon DEF Fate
  <2> QED BY <2>1, <2>2, <2>3, Zenon DEF OneFate
<1> QED BY <1>1, <1>2, Zenon

\* The statistics through a worker's step.
LEMMA CountStep ==
  ASSUME Totals, RoomInv, Fate, \A v \in Workers : Chunked(v) /\ OnePlace(v), CountInv,
         NEW w \in spawned, Worker(w), UNCHANGED spawned
  PROVE  CountInv'
<1>0. /\ w \in Workers /\ NoJob \notin Idx
      /\ slot \in [Workers -> [Slots -> JobOrNone]] /\ pending \in [Workers -> JobOrNone]
      /\ left \in [Idx -> {"no", "declined", "owed"}]
  BY EngineAssumption, SMTT(30)
  DEF RoomInv, TypeOK, TypeOwner, TypeSlot, TypeJob, TypeHistory, NoJob, Idx
<1>10. wpc[w] = "launch" => hand[w] \in Idx
  BY <1>0, Zenon DEF RoomInv, WorkerInv, TypeOK, TypeJob, JobOrNone
<1> USE DEF stats, ringVars, history
<1>1. CASE LoopTop(w) BY <1>0, <1>1, CountKept, Zenon DEF LoopTop
<1>2. CASE Fill(w)
  <2>1. CASE FillReturn(w) BY <1>0, <2>1, CountKept, Zenon DEF FillReturn
  <2>2. CASE TakePending(w) BY <1>0, <2>2, CountKept, Zenon DEF TakePending
  <2>3. CASE ClaimPastDomain(w) BY <1>0, <2>3, CountKept, Zenon DEF ClaimPastDomain
  <2>4. CASE ClaimJob(w) BY <1>0, <2>4, CountKept, Zenon DEF ClaimJob
  <2>5. ASSUME NEW rc \in Answers \ {"job"}, ClaimDeclined(w, rc) PROVE CountInv'
    <3>1. PICK i : i = Drawn(w) BY Zenon
    <3>2. i \in Idx /\ left[i] = "no" BY <1>0, <2>5, <3>1, DrawnIsFresh, Zenon DEF ClaimDeclined
    <3>3. Cardinality({i}) = 1 BY Zenon DEF Totals, Counting
    <3>4. /\ Bump(skipped, w, 1) /\ UNCHANGED <<unattempted, completed, ring, got>>
          /\ left' = [left EXCEPT ![i] = "declined"]
      BY <2>5, <3>1, Zenon DEF ClaimDeclined
    <3>5. \A j \in Idx : left'[j] = IF j \in {i} THEN "declined" ELSE left[j]
      BY <1>0, <3>2, <3>4, Zenon
    <3>6. Bump(skipped, w, Cardinality({i})) BY <3>3, <3>4, Zenon DEF Bump
    <3>7. {i} \in SUBSET Idx /\ \A j \in {i} : left[j] = "no" BY <3>2, Zenon
    <3> QED BY <1>0, <3>4, <3>5, <3>6, <3>7, CountLeft, Zenon
  <2> QED BY <1>2, <2>1, <2>2, <2>3, <2>4, <2>5, Zenon DEF Fill
<1>3. CASE Launch(w)
  <2>1. CASE LaunchOk(w) BY <1>0, <2>1, CountKept, Zenon DEF LaunchOk
  <2>2. CASE LaunchRetry(w) BY <1>0, <2>2, CountKept, Zenon DEF LaunchRetry
  <2>3. CASE LaunchAbandon(w)
    <3>1. hand[w] \in Idx BY <1>10, <2>3, Zenon DEF LaunchAbandon
    <3> QED BY <1>0, <2>3, <3>1, CountComplete, Zenon DEF LaunchAbandon, Complete
  <2>4. ASSUME NEW isLocal \in BOOLEAN, LaunchEnds(w, isLocal) PROVE CountInv'
    <3>1. hand[w] \in Idx BY <1>10, <2>4, Zenon DEF LaunchEnds
    <3> QED BY <1>0, <2>4, <3>1, CountComplete, Zenon DEF LaunchEnds, Complete
  <2> QED BY <1>3, <2>1, <2>2, <2>3, <2>4, Zenon DEF Launch
<1>4. ASSUME NEW s \in Slots, slot[w][s] # NoJob, NEW isLocal \in BOOLEAN,
             Finish(w, s, isLocal), UNCHANGED history
      PROVE  CountInv'
  <2>1. slot[w][s] \in Idx BY <1>0, <1>4 DEF JobOrNone
  <2> QED BY <1>0, <1>4, <2>1, CountComplete, Zenon DEF Finish, Complete
<1>5. CASE Wait(w)
  <2>1. CASE BreakDrained(w) BY <1>0, <2>1, CountKept, Zenon DEF BreakDrained
  <2>2. CASE WaitReturns(w) BY <1>0, <2>2, CountKept, Zenon DEF WaitReturns
  <2>3. CASE WaitFails(w) BY <1>0, <2>3, CountKept, Zenon DEF WaitFails
  <2>4. CASE EventsDone(w) BY <1>0, <2>4, CountKept, Zenon DEF EventsDone
  <2>5. ASSUME NEW s \in Slots, NEW isLocal \in BOOLEAN, FinishProbe(w, s, isLocal)
        PROVE  CountInv'
    BY <1>4, <2>5, Zenon DEF FinishProbe
  <2> QED BY <1>5, <2>1, <2>2, <2>3, <2>4, <2>5, Zenon DEF Wait
<1>6. CASE Fatal(w)
  <2>1. UNCHANGED <<completed, skipped, unattempted, ring, got, left>>
    BY <1>6, Zenon DEF Fatal, FatalCas, FatalErrno, FatalFlag, FatalStop
  <2> QED BY <1>0, <2>1, CountKept, Zenon
<1>7. CASE Retire(w)
  <2>1. CASE RetirePending(w)
    <3>1. UNCHANGED history BY <2>1, Zenon DEF RetirePending
    <3>2. CASE pending[w] = NoJob
      BY <1>0, <2>1, <3>1, <3>2, CountKept, Zenon DEF RetirePending
    <3>3. CASE pending[w] # NoJob
      <4>1. pending[w] \in Idx BY <1>0, <3>3, Zenon DEF JobOrNone
      <4>2. /\ Push(w, pending[w]) /\ Bump(completed, w, 1) /\ UNCHANGED <<skipped, unattempted>>
        BY <2>1, <3>3, Zenon DEF RetirePending, Complete
      <4> QED BY <1>0, <3>1, <4>1, <4>2, CountComplete, Zenon
    <3> QED BY <3>2, <3>3, Zenon
  <2>2. CASE RetireTail(w)
    <3>1. PICK S : S = ChunkTail(w) BY Zenon
    <3>2. S \in SUBSET Idx /\ \A i \in S : left[i] = "no"
      <4>1. S \in SUBSET Idx BY <3>1, Zenon DEF ChunkTail
      <4>2. \A i \in S : i \in ChunkTail(w) /\ OneFate(i) BY <3>1, <4>1, Zenon DEF Fate
      <4>3. ASSUME NEW i \in S PROVE left[i] = "no" BY <1>0, <4>2 DEF OneFate
      <4> QED BY <4>1, <4>3, Zenon
    <3>3. Lost(w) = Cardinality(S) BY <1>0, <3>1, LostIs, Zenon DEF RoomInv, TypeOK
    <3>4. UNCHANGED <<completed, ring, got>> BY <2>2, Zenon DEF RetireTail
    <3>5. CASE Deliberate(w)
      <4>1. /\ Bump(skipped, w, Cardinality(S)) /\ UNCHANGED unattempted
            /\ \A i \in Idx : left'[i] = IF i \in S THEN "declined" ELSE left[i]
        BY <2>2, <3>1, <3>3, <3>5, Zenon DEF RetireTail
      <4> QED BY <1>0, <3>2, <3>4, <4>1, CountLeft, Zenon
    <3>6. CASE ~Deliberate(w)
      <4>1. /\ Bump(unattempted, w, Cardinality(S)) /\ UNCHANGED skipped
            /\ \A i \in Idx : left'[i] = IF i \in S THEN "owed" ELSE left[i]
        BY <2>2, <3>1, <3>3, <3>6, Zenon DEF RetireTail
      <4> QED BY <1>0, <3>2, <3>4, <4>1, CountLeft, Zenon
    <3> QED BY <3>5, <3>6, Zenon
  <2>3. CASE Exit(w) BY <1>0, <2>3, CountKept, Zenon DEF Exit
  <2>4. ASSUME NEW s \in Slots, RetireProbe(w, s) PROVE CountInv'
    BY <1>4, <2>4, Zenon DEF RetireProbe
  <2> QED BY <1>7, <2>1, <2>2, <2>3, <2>4, Zenon DEF Retire
<1> QED BY <1>1, <1>2, <1>3, <1>5, <1>6, <1>7, Zenon DEF Worker

\* What qn_engine_poll takes from a ring.
LEMMA Polled ==
  ASSUME Totals, RoomInv, Fate, \A v \in Workers : OnePlace(v), NEW w \in Workers,
         NEW n \in 1..RCap, Poll(w, n)
  PROVE  LET T == {ring[w][k] : k \in 1..n}
         IN  /\ IsFiniteSet(T) /\ Cardinality(T) = n /\ T \subseteq Idx /\ n \in Nat
             /\ \A i \in T : got[i] = 0
             /\ \A i \in Idx : got'[i] = IF i \in T THEN 1 ELSE got[i]
             /\ Len(ring[w]) \in Nat /\ Len(ring'[w]) = Len(ring[w]) - n
             /\ \A v \in Workers \ {w} : ring'[v] = ring[v]
<1> DEFINE q == ring[w]
           T == {q[k] : k \in 1..n}
<1>0. ring \in [Workers -> Seq(Idx)] /\ got \in [Idx -> Nat]
  BY Zenon DEF RoomInv, TypeOK, TypeRing, TypeHistory
<1>1. /\ n \in 1..Len(q) /\ ring' = [ring EXCEPT ![w] = SubSeq(q, n + 1, Len(q))]
      /\ got' = [i \in Idx |-> got[i] + Cardinality({k \in 1..n : q[k] = i})]
  BY Zenon DEF Poll
<1>2. /\ q \in Seq(Idx) /\ IsInjective(q) /\ Len(q) \in Nat /\ n \in Nat
      /\ ring'[w] = SubSeq(q, n + 1, Len(q)) /\ \A v \in Workers \ {w} : ring'[v] = ring[v]
  <2>1. q \in Seq(Idx) /\ IsInjective(q) BY <1>0, Zenon DEF OnePlace
  <2>2. ring'[w] = SubSeq(q, n + 1, Len(q)) /\ \A v \in Workers \ {w} : ring'[v] = ring[v]
    BY <1>0, <1>1, Zenon
  <2> HIDE DEF q
  <2>3. Len(q) \in Nat /\ n \in Nat BY <2>1
  <2> QED BY <2>1, <2>2, <2>3, Zenon
<1> HIDE DEF q
<1>3. Len(ring'[w]) = Len(q) - n BY <1>1, <1>2
<1>4. 1..n \subseteq DOMAIN q /\ \A k \in 1..n : q[k] \in Idx BY <1>1, <1>2
<1>5. \A j, k \in 1..n : q[j] = q[k] => j = k BY <1>2, <1>4, Zenon DEF IsInjective
<1>6. IsFiniteSet(T) /\ Cardinality(T) = n
  <2>1. n \in Nat BY <1>2, Zenon
  <2>2. Numbered BY Zenon DEF Totals
  <2> QED BY <1>5, <2>1, <2>2, SMTT(30) DEF Numbered
<1>7. ASSUME NEW i \in T PROVE got[i] = 0
  <2>1. i \in Range(q) /\ i \in Idx BY <1>4, Zenon DEF Range
  <2>2. Holds(w, i) BY <2>1, Zenon DEF Holds, q
  <2>3. OneFate(i) BY <2>1, Zenon DEF Fate
  <2> QED BY <1>0, <2>1, <2>2, <2>3 DEF OneFate
<1>8. ASSUME NEW i \in Idx PROVE got'[i] = IF i \in T THEN 1 ELSE got[i]
  <2> DEFINE K == {k \in 1..n : q[k] = i}
  <2>1. got'[i] = got[i] + Cardinality(K) BY <1>1, Zenon
  <2>2. CASE i \in T
    <3>1. PICK k \in 1..n : q[k] = i BY <2>2, Zenon
    <3>2. K = {k} BY <1>5, <3>1, Zenon
    <3>3. Cardinality(K) = 1 BY <3>2, Zenon DEF Totals, Counting
    <3> QED BY <1>7, <2>1, <2>2, <3>3
  <2>3. CASE i \notin T
    <3>1. K = {} BY <2>3, Zenon
    <3>2. Cardinality(K) = 0 BY <3>1, Zenon DEF Totals, Counting
    <3> QED BY <1>0, <2>1, <2>3, <3>2
  <2> QED BY <2>2, <2>3, Zenon
<1>9. T \subseteq Idx BY <1>4, Zenon
<1> HIDE DEF T
<1> QED BY <1>2, <1>3, <1>6, <1>7, <1>8, <1>9, Zenon DEF T, q

\* A poll moves events from a ring to the task.
LEMMA CountPoll ==
  ASSUME Totals, RoomInv, Fate, \A v \in Workers : OnePlace(v), CountInv, NEW w \in spawned,
         NEW n \in 1..RCap, Poll(w, n)
  PROVE  CountInv'
<1>0. /\ w \in Workers /\ got \in [Idx -> Nat] /\ ring \in [Workers -> Seq(Idx)]
      /\ IsFiniteSet(spawned) /\ spawned \subseteq Workers /\ IsFiniteSet(Idx)
      /\ UNCHANGED <<completed, skipped, unattempted, spawned, left>>
  BY Finite, Zenon DEF RoomInv, TypeOK, TypeRing, TypeHistory, Poll, stats, ownerVars
<1>1. PICK T : T = {ring[w][k] : k \in 1..n} BY Zenon
<1>2. /\ IsFiniteSet(T) /\ Cardinality(T) = n /\ T \subseteq Idx /\ n \in Nat
      /\ \A i \in T : got[i] = 0
      /\ \A i \in Idx : got'[i] = IF i \in T THEN 1 ELSE got[i]
      /\ Len(ring[w]) \in Nat /\ Len(ring'[w]) = Len(ring[w]) - n
      /\ \A v \in Workers \ {w} : ring'[v] = ring[v]
  BY <1>0, <1>1, Polled, Zenon
<1>3. Sum(got)' = Sum(got) + n
  <2> DEFINE G == {i \in Idx : got[i] = 1}
             H == {i \in Idx : got'[i] = 1}
  <2>1. \A i \in Idx : got[i] \in {0, 1}
    <3>1. \A i \in Idx : got[i] <= 1 BY Zenon DEF Fate, OneFate
    <3> QED BY <1>0, <3>1
  <2>2. DOMAIN got = Idx /\ DOMAIN got' = Idx BY <1>0, Zenon DEF Poll
  <2>3. SumOver(got, Idx) = Cardinality(G) BY <1>0, <2>1, Zenon DEF Totals, SumOnes
  <2>4. \A i \in Idx : got'[i] \in {0, 1} BY <1>2, <2>1, Zenon
  <2>5. SumOver(got', Idx) = Cardinality(H)
    BY <1>0, <2>4, Zenon DEF Totals, SumOnes
  <2>6. H = G \cup T /\ G \cap T = {} BY <1>2
  <2>7. IsFiniteSet(G) /\ Cardinality(G) \in Nat BY <1>0, Zenon DEF Totals, Counting
  <2> HIDE DEF G, H
  <2>8. Cardinality(G \cup T) = Cardinality(G) + Cardinality(T) BY <1>2, <2>6, <2>7, Zenon DEF Totals, Unions
  <2>9. SumOver(got', Idx) = SumOver(got, Idx) + n BY <1>2, <2>3, <2>5, <2>6, <2>7, <2>8
  <2> QED BY <2>2, <2>9, Zenon DEF Sum
<1>4. SumOver(Unread, spawned) = SumOver(Unread', spawned) + n
  <2>1. \A v \in Workers : Unread[v] = Len(ring[v]) /\ Unread'[v] = Len(ring'[v])
    BY Zenon DEF Unread
  <2>2. \A v \in spawned \ {w} : Unread[v] = Unread'[v] BY <1>0, <1>2, <2>1, Zenon
  <2>3. Unread[w] = Unread'[w] + n
    <3>1. PICK a \in Nat : a = Len(ring[w]) BY <1>2, Zenon
    <3>2. (a - n) + n = a BY <1>2, <3>1
    <3>3. Unread[w] = a /\ Unread'[w] = a - n BY <1>0, <1>2, <2>1, <3>1, Zenon
    <3> QED BY <3>2, <3>3, Zenon
  <2>4. \A v \in spawned : Unread'[v] \in Nat
    <3>1. n <= Len(ring[w]) BY <1>2 DEF Poll
    <3>2. Unread'[w] \in Nat BY <1>0, <1>2, <2>1, <3>1
    <3>3. \A v \in spawned : Unread[v] \in Nat BY <1>0, <2>1
    <3> QED BY <2>2, <3>2, <3>3, Zenon
  <2>5. IsFiniteSet(spawned) /\ SumBump /\ n \in Nat BY <1>0, <1>2, Zenon DEF Totals
  <2> QED BY <2>2, <2>3, <2>4, <2>5 DEF SumBump
<1>5. Sum(got) \in Nat /\ SumOver(Unread', spawned) \in Nat
  <2>1. Sum(got) \in Nat BY <1>0, Zenon DEF Sum, Totals, SumNat
  <2>2. \A v \in spawned : Unread'[v] \in Nat
    <3>1. n <= Len(ring[w]) BY <1>2 DEF Poll
    <3>2. \A v \in Workers : Unread'[v] = Len(ring'[v]) BY Zenon DEF Unread
    <3> QED BY <1>0, <1>2, <3>1, <3>2, SMTT(30)
  <2> QED BY <1>0, <2>1, <2>2, Zenon DEF Totals, SumNat
<1>6. SumOver(completed', spawned') = Sum(got)' + SumOver(Unread', spawned')
  BY <1>0, <1>2, <1>3, <1>4, <1>5 DEF CountInv
<1>7. LeftAs("declined")' = LeftAs("declined") /\ LeftAs("owed")' = LeftAs("owed")
  BY <1>0, Zenon DEF LeftAs
<1>8. /\ SumOver(skipped, spawned)' = SumOver(skipped, spawned)
      /\ SumOver(unattempted, spawned)' = SumOver(unattempted, spawned)
  BY <1>0, Zenon DEF SumOver
<1> QED BY <1>6, <1>7, <1>8, Zenon DEF CountInv

-----------------------------------------------------------------------------
(* The statistics through the steps of the owner.                               *)

\* A run begins with nothing counted.
LEMMA CountBegin ==
  ASSUME Totals, spawned' = {}, got' = [i \in Idx |-> 0], left' = [i \in Idx |-> "no"]
  PROVE  CountInv'
<1>1. SumOver(completed', {}) = 0 /\ SumOver(Unread', {}) = 0 /\ SumOver(skipped', {}) = 0
      /\ SumOver(unattempted', {}) = 0
  BY Zenon DEF Totals, SumZero
<1>2. Sum(got)' = 0
  <2>1. \A i \in Idx : got'[i] = 0 /\ DOMAIN got' = Idx BY Zenon
  <2>2. SumOver(got', Idx) = 0 BY <2>1, Zenon DEF Totals, SumZero
  <2>3. DOMAIN got' = Idx BY Zenon
  <2> QED BY <2>2, <2>3, Zenon DEF Sum
<1>3. LeftAs("declined")' = {} /\ LeftAs("owed")' = {} BY Zenon DEF LeftAs
<1>4. Cardinality({}) = 0 BY Zenon DEF Totals, Counting
<1>5. SumOver(completed, spawned)' = Sum(got)' + SumOver(Unread, spawned)' BY <1>1, <1>2
<1>6. /\ SumOver(skipped, spawned)' = Cardinality(LeftAs("declined"))'
      /\ SumOver(unattempted, spawned)' = Cardinality(LeftAs("owed"))'
  BY <1>1, <1>3, <1>4, Zenon
<1> QED BY <1>5, <1>6, Zenon DEF CountInv

\* The statistics of a worker that is reset are zero when it joins the run.
LEMMA CountReset ==
  ASSUME Totals, RoomInv, CountInv, NEW w \in Workers, w \notin spawned, ResetWorker(w),
         spawned' = spawned \/ spawned' = spawned \cup {w}, UNCHANGED <<got, left>>
  PROVE  CountInv'
<1>0. /\ IsFiniteSet(spawned) /\ spawned \subseteq Workers
      /\ completed \in [Workers -> Nat] /\ skipped \in [Workers -> Nat]
      /\ unattempted \in [Workers -> Nat] /\ ring \in [Workers -> Seq(Idx)]
  BY Finite, Zenon DEF RoomInv, TypeOK, TypeStats, TypeRing
<1>1. ASSUME NEW f, NEW g, \A v \in spawned : f[v] \in Nat /\ g[v] = f[v], g[w] = 0
      PROVE  SumOver(g, spawned') = SumOver(f, spawned)
  <2>1. SumOver(g, spawned) = SumOver(f, spawned) BY <1>1 DEF Totals, SumSame
  <2>2. \A v \in spawned \cup {w} : g[v] \in Nat BY <1>1
  <2>3. SumOver(g, spawned \cup {w}) = SumOver(g, spawned) + 0 BY <1>0, <1>1, <2>2, Zenon DEF Totals, SumAdd
  <2>4. SumOver(g, spawned) \in Nat BY <1>0, <2>2, Zenon DEF Totals, SumNat
  <2> QED BY <2>1, <2>3, <2>4
<1>2. SumOver(completed', spawned') = SumOver(completed, spawned)
  BY <1>0, <1>1, Zenon DEF ResetWorker, ResetStats
<1>3. SumOver(skipped', spawned') = SumOver(skipped, spawned)
  BY <1>0, <1>1, Zenon DEF ResetWorker, ResetStats
<1>4. SumOver(unattempted', spawned') = SumOver(unattempted, spawned)
  BY <1>0, <1>1, Zenon DEF ResetWorker, ResetStats
<1>5. SumOver(Unread', spawned') = SumOver(Unread, spawned)
  <2>1. \A v \in Workers : Unread[v] = Len(ring[v]) /\ Unread'[v] = Len(ring'[v]) BY Zenon DEF Unread
  <2>2. ring'[w] = << >> /\ \A v \in Workers \ {w} : ring'[v] = ring[v] BY <1>0, Zenon DEF ResetWorker
  <2>3. Unread'[w] = 0 BY <2>1, <2>2, Zenon
  <2>4. \A v \in spawned : Len(ring[v]) \in Nat /\ ring'[v] = ring[v] BY <1>0, <2>2
  <2>5. \A v \in spawned : Unread[v] \in Nat /\ Unread'[v] = Unread[v] BY <1>0, <2>1, <2>4, Zenon
  <2> QED BY <1>1, <2>3, <2>5, Zenon
<1>6. /\ Sum(got)' = Sum(got) /\ LeftAs("declined")' = LeftAs("declined")
      /\ LeftAs("owed")' = LeftAs("owed")
  BY Zenon DEF Sum, SumOver, LeftAs
<1> QED BY <1>2, <1>3, <1>4, <1>5, <1>6 DEF CountInv

\* The owner's steps keep the statistics.
LEMMA CountOwner ==
  ASSUME Totals, RoomInv, CountInv, Start \/ Finalize
  PROVE  CountInv'
<1>1. CASE StartBegin BY <1>1, CountBegin, Zenon DEF StartBegin
<1>2. ASSUME NEW w \in Workers, SpawnOk(w) \/ SpawnFail(w) PROVE CountInv'
  <2>1. /\ w \notin spawned /\ ResetWorker(w) /\ UNCHANGED <<got, left>>
        /\ spawned' = spawned \/ spawned' = spawned \cup {w}
    BY <1>2, Zenon DEF SpawnOk, SpawnFail, history
  <2> QED BY <2>1, CountReset, Zenon
<1>3. CASE Unwind \/ StartDone \/ Finalize
  <2>1. UNCHANGED <<completed, skipped, unattempted, spawned, ring, got, left>>
    BY <1>3, Zenon DEF Unwind, StartDone, Finalize, FinalizeDone, FinalizeCancel, Join, Settle,
       workerVars, ringVars, stats, history
  <2> QED BY <2>1, CountKept, Zenon
<1> QED BY <1>1, <1>2, <1>3, Zenon DEF Start

\* Every step keeps the statistics.
LEMMA NextCounts ==
  ASSUME Totals, RoomInv, FateInv, [Next]_vars,
         \A w \in Workers : Worker(w) => w \in spawned /\ UNCHANGED spawned
  PROVE  CountInv'
<1>0. CountInv /\ Fate /\ \A v \in Workers : Chunked(v) /\ OnePlace(v) BY Zenon DEF FateInv
<1>1. CASE UNCHANGED vars
  <2>1. UNCHANGED <<completed, skipped, unattempted, spawned, ring, got, left>>
    BY <1>1, Zenon DEF vars, workerVars, ringVars, stats, ownerVars, history
  <2> QED BY <1>0, <2>1, CountKept, Zenon
<1>2. ASSUME NEW w \in Workers, Worker(w) PROVE CountInv'
  <2>1. w \in spawned /\ UNCHANGED spawned BY <1>2, Zenon
  <2> QED BY <1>0, <1>2, <2>1, CountStep, Zenon
<1>3. ASSUME NEW w \in Workers, NEW n \in 1..RCap, Poll(w, n) PROVE CountInv'
  <2>1. owner \in {"running", "drain"} BY <1>3, Zenon DEF Poll
  <2>2. w \in spawned BY <2>1, Zenon DEF FateInv, RunInv
  <2> QED BY <1>0, <1>3, <2>2, CountPoll, Zenon
<1>4. CASE Start \/ Finalize BY <1>0, <1>4, CountOwner, Zenon
<1> QED BY <1>1, <1>2, <1>3, <1>4, Zenon DEF Next, Finished

\* An idle engine has counted nothing.
LEMMA InitCounts ==
  ASSUME Totals, Init
  PROVE  CountInv
<1>0. spawned = {} /\ got = [i \in Idx |-> 0] /\ left = [i \in Idx |-> "no"] BY Zenon DEF Init
<1>1. SumOver(completed, {}) = 0 /\ SumOver(Unread, {}) = 0 /\ SumOver(skipped, {}) = 0
      /\ SumOver(unattempted, {}) = 0
  BY Zenon DEF Totals, SumZero
<1>2. Sum(got) = 0
  <2>1. \A i \in Idx : got[i] = 0 BY <1>0, Zenon
  <2>2. DOMAIN got = Idx BY <1>0, Zenon
  <2> QED BY <2>1, <2>2, Zenon DEF Sum, Totals, SumZero
<1>3. LeftAs("declined") = {} /\ LeftAs("owed") = {} BY <1>0, Zenon DEF LeftAs
<1>4. Cardinality({}) = 0 BY Zenon DEF Totals, Counting
<1>5. SumOver(completed, spawned) = Sum(got) + SumOver(Unread, spawned) BY <1>0, <1>1, <1>2
<1>6. /\ SumOver(skipped, spawned) = Cardinality(LeftAs("declined"))
      /\ SumOver(unattempted, spawned) = Cardinality(LeftAs("owed"))
  BY <1>0, <1>1, <1>3, <1>4, Zenon
<1> QED BY <1>5, <1>6, Zenon DEF CountInv


-----------------------------------------------------------------------------
(* What the invariant says of the report.                                       *)

\* p is a place of worker w that holds i.
InPlace(w, i, p) ==
  \/ p = <<w, "hand", 0>> /\ hand[w] = i
  \/ p = <<w, "pending", 0>> /\ pending[w] = i
  \/ \E s \in Slots : p = <<w, "slot", s>> /\ slot[w][s] = i
  \/ \E k \in DOMAIN ring[w] : p = <<w, "ring", k>> /\ ring[w][k] = i

\* The places of a job are the places its workers hold it in.
LEMMA PlacesHold ==
  ASSUME NEW i
  PROVE  /\ \A p \in Places(i) : \E w \in Workers : Holds(w, i) /\ InPlace(w, i, p)
         /\ \A w \in Workers : Holds(w, i) => Places(i) # {}
<1> DEFINE InSlot(w) == {<<w, "slot", s>> : s \in {t \in Slots : slot[w][t] = i}}
           InRing(w) == {<<w, "ring", k>> : k \in {l \in DOMAIN ring[w] : ring[w][l] = i}}
           S == UNION {InSlot(w) : w \in Workers}
           R == UNION {InRing(w) : w \in Workers}
<1>0. Places(i) =      {<<w, "hand", 0>> : w \in {v \in Workers : hand[v] = i}}
                  \cup {<<w, "pending", 0>> : w \in {v \in Workers : pending[v] = i}}
                  \cup S \cup R
  BY Zenon DEF Places
<1>1. ASSUME NEW p \in Places(i)
      PROVE  \E w \in Workers : Holds(w, i) /\ InPlace(w, i, p)
  <2>1. PICK w \in Workers : InPlace(w, i, p)
    <3>1. CASE p \in S
      <4>1. PICK w \in Workers : p \in InSlot(w) BY <3>1, Zenon
      <4>2. PICK s \in Slots : p = <<w, "slot", s>> /\ slot[w][s] = i BY <4>1, Zenon
      <4> QED BY <4>2, Zenon DEF InPlace
    <3>2. CASE p \in R
      <4>1. PICK w \in Workers : p \in InRing(w) BY <3>2, Zenon
      <4>2. PICK k \in DOMAIN ring[w] : p = <<w, "ring", k>> /\ ring[w][k] = i BY <4>1, Zenon
      <4> QED BY <4>2, Zenon DEF InPlace
    <3>3. CASE p \notin S \cup R
      <4> HIDE DEF S, R
      <4>1. \/ p \in {<<w, "hand", 0>> : w \in {v \in Workers : hand[v] = i}}
            \/ p \in {<<w, "pending", 0>> : w \in {v \in Workers : pending[v] = i}}
        BY <1>0, <3>3, Zenon
      <4> QED BY <4>1, Zenon DEF InPlace
    <3> QED BY <3>1, <3>2, <3>3, Zenon
  <2>2. Holds(w, i) BY <2>1, Zenon DEF InPlace, Holds, Range
  <2> QED BY <2>1, <2>2, Zenon
<1>2. ASSUME NEW w \in Workers, Holds(w, i) PROVE Places(i) # {}
  <2>1. CASE hand[w] = i
    <3>1. <<w, "hand", 0>> \in Places(i) BY <2>1, Zenon DEF Places
    <3> QED BY <3>1, Zenon
  <2>2. CASE pending[w] = i
    <3>1. <<w, "pending", 0>> \in Places(i) BY <2>2, Zenon DEF Places
    <3> QED BY <3>1, Zenon
  <2>3. ASSUME NEW s \in Slots, slot[w][s] = i PROVE Places(i) # {}
    <3>1. <<w, "slot", s>> \in InSlot(w) BY <2>3, Zenon
    <3>2. <<w, "slot", s>> \in S BY <3>1, Zenon
    <3> QED BY <1>0, <3>2, Zenon
  <2>4. CASE i \in Range(ring[w])
    <3>1. PICK k \in DOMAIN ring[w] : ring[w][k] = i BY <2>4, Zenon DEF Range
    <3>2. <<w, "ring", k>> \in InRing(w) BY <3>1, Zenon
    <3>3. <<w, "ring", k>> \in R BY <3>2, Zenon
    <3> QED BY <1>0, <3>3, Zenon
  <2> QED BY <1>2, <2>1, <2>2, <2>3, <2>4, Zenon DEF Holds
<1> QED BY <1>1, <1>2, Zenon

\* No index is in two places, reported twice, or both reported and left.
LEMMA FateOnce ==
  ASSUME Totals, IInv
  PROVE  ExactlyOnce
<1>1. SUFFICES ASSUME NEW i \in Idx
               PROVE  Cardinality(Places(i)) + got[i] + (IF left[i] # "no" THEN 1 ELSE 0) <= 1
  BY Zenon DEF ExactlyOnce
<1>2. OneFate(i) /\ \A w \in Workers : OnePlace(w) BY Zenon DEF IInv, FateInv, Fate
<1>3. got[i] \in Nat /\ NoJob \notin Idx
  BY EngineAssumption, SMTT(30) DEF IInv, RoomInv, TypeOK, TypeHistory, NoJob, Idx
<1>4. ASSUME NEW p \in Places(i), NEW q \in Places(i) PROVE p = q
  <2>1. PICK w \in Workers : Holds(w, i) /\ InPlace(w, i, p) BY PlacesHold, Zenon
  <2>2. PICK v \in Workers : Holds(v, i) /\ InPlace(v, i, q) BY PlacesHold, Zenon
  <2>3. v = w BY <1>2, <2>1, <2>2, Zenon DEF OneFate
  <2>4. hand[w] = i => pending[w] # i BY <1>3, Zenon DEF IInv, RoomInv, WorkerInv
  <2>5. OnePlace(w) BY <1>2, Zenon
  <2>6. \A k, l \in DOMAIN ring[w] : ring[w][k] = ring[w][l] => k = l
    BY <2>5, Zenon DEF OnePlace, IsInjective
  <2>7. \A k \in DOMAIN ring[w] : ring[w][k] \in Range(ring[w]) BY Zenon DEF Range
  <2> QED BY <1>3, <2>1, <2>2, <2>3, <2>4, <2>5, <2>6, <2>7 DEF InPlace, OnePlace
<1>5. CASE Places(i) = {}
  <2>1. Cardinality(Places(i)) = 0 BY <1>5, Zenon DEF Totals, Counting
  <2>2. got[i] <= 1 /\ (got[i] > 0 => left[i] = "no") BY <1>2, Zenon DEF OneFate
  <2> QED BY <1>3, <2>1, <2>2
<1>6. CASE Places(i) # {}
  <2>1. PICK p : p \in Places(i) BY <1>6, Zenon
  <2>2. Places(i) = {p} BY <1>4, <2>1, Zenon
  <2>3. Cardinality(Places(i)) = 1 BY <2>2, Zenon DEF Totals, Counting
  <2>4. PICK w \in Workers : Holds(w, i) BY <2>1, PlacesHold, Zenon
  <2>5. ~(got[i] > 0) /\ left[i] = "no" BY <1>2, <2>4, Zenon DEF OneFate
  <2> QED BY <1>3, <2>3, <2>5
<1> QED BY <1>5, <1>6, Zenon

\* A worker that is not running holds nothing but what its ring still holds.
LEMMA Rested ==
  ASSUME RoomInv, NEW w \in Workers, Chunked(w), wpc[w] \in {"off", "dead"}, ring[w] = << >>
  PROVE  \A i \in Idx : ~Holds(w, i) /\ i \notin ChunkTail(w)
<1>1. /\ hand[w] = NoJob /\ pending[w] = NoJob /\ LiveSlots(w) = {} /\ end[w] <= cur[w]
      /\ NoJob \notin Idx /\ cur[w] \in Nat /\ end[w] \in Nat
  BY EngineAssumption DEF RoomInv, WorkerInv, Chunked, TypeOK, TypeClaim, NoJob, Idx
<1>2. Range(ring[w]) = {} BY DEF Range
<1>3. Idx \subseteq Int BY DEF Idx
<1>4. \A i \in Int : ~(cur[w] <= i /\ i < end[w]) BY <1>1
<1> QED BY <1>1, <1>2, <1>3, <1>4, Zenon DEF Holds, ChunkTail, LiveSlots

\* A closed engine: every worker ran and has ended, holds nothing and owes nothing.
LEMMA ClosedRest ==
  ASSUME Totals, IInv, owner = "closed"
  PROVE  /\ spawned = Workers /\ RingsEmpty /\ status = SettledStatus
         /\ \A w \in Workers : /\ wpc[w] = "dead" /\ Owed(w) = 0 /\ ring[w] = << >> /\ Reasoned(w)
                               /\ \A i \in Idx : ~Holds(w, i) /\ i \notin ChunkTail(w)
<1>1. spawned = Workers /\ RingsEmpty /\ status = SettledStatus BY Zenon DEF IInv, FateInv, RunInv
<1>2. \A w \in Workers : wpc[w] = "dead"
  <2>1. \A w \in Workers : wpc[w] \in {"off", "dead"} BY Zenon DEF IInv, RoomInv, OwnerInv
  <2> QED BY <1>1, <2>1, Zenon DEF IInv, FateInv, RunInv
<1>3. \A w \in Workers : ring[w] = << >> /\ Reasoned(w) BY <1>1, Zenon DEF RingsEmpty, IInv, FateInv
<1>4. ASSUME NEW w \in Workers PROVE Owed(w) = 0
  <2>1. LiveSlots(w) = {} /\ pending[w] = NoJob BY <1>2, Zenon DEF IInv, FateInv, Chunked
  <2>2. hand[w] = NoJob BY <1>2, Zenon DEF IInv, RoomInv, WorkerInv
  <2>3. inflight[w] = 0 BY <2>1, Zenon DEF IInv, RoomInv, SlotsConserved, Totals, Counting
  <2> QED BY <2>1, <2>2, <2>3 DEF Owed, B
<1>5. \A w \in Workers : \A i \in Idx : ~Holds(w, i) /\ i \notin ChunkTail(w)
  BY <1>2, <1>3, Rested, Zenon DEF IInv, FateInv
<1> QED BY <1>1, <1>2, <1>3, <1>4, <1>5, Zenon

\* The totals of a closed run.
LEMMA ClosedCounts ==
  ASSUME Totals, IInv, owner = "closed"
  PROVE  /\ Accounted(Sum(claimed), Sum(completed), Sum(skipped), Sum(unattempted))
         /\ Sum(completed) = Sum(got)
         /\ Sum(skipped) = Cardinality(LeftAs("declined"))
         /\ Sum(unattempted) = Cardinality(LeftAs("owed"))
         /\ Sum(unattempted) \in Nat
<1>0. /\ claimed \in [Workers -> Nat] /\ completed \in [Workers -> Nat]
      /\ skipped \in [Workers -> Nat] /\ unattempted \in [Workers -> Nat]
      /\ IsFiniteSet(Workers) /\ got \in [Idx -> Nat] /\ IsFiniteSet(Idx)
  BY EngineAssumption, Finite, Zenon DEF IInv, RoomInv, TypeOK, TypeStats, TypeHistory
<1>1. /\ Sum(claimed) = SumOver(claimed, Workers) /\ Sum(completed) = SumOver(completed, Workers)
      /\ Sum(skipped) = SumOver(skipped, Workers)
      /\ Sum(unattempted) = SumOver(unattempted, Workers)
  BY <1>0, Zenon DEF Sum
<1>2. /\ SumOver(claimed, Workers) \in Nat /\ SumOver(completed, Workers) \in Nat
      /\ SumOver(skipped, Workers) \in Nat /\ SumOver(unattempted, Workers) \in Nat
  BY <1>0, Zenon DEF Totals, SumNat
<1>3. \A w \in Workers : claimed[w] = completed[w] + skipped[w] + unattempted[w]
  <2>1. \A w \in Workers : claimed[w] = completed[w] + skipped[w] + unattempted[w] + Owed(w)
    BY Zenon DEF IInv, RoomInv, WorkerAccounting, Settled
  <2> QED BY <1>0, <2>1, ClosedRest
<1>4. SumOver(claimed, Workers)
        = SumOver(completed, Workers) + SumOver(skipped, Workers) + SumOver(unattempted, Workers)
  BY <1>0, <1>3 DEF Totals, SumAgrees
<1>5. Accounted(Sum(claimed), Sum(completed), Sum(skipped), Sum(unattempted))
  BY <1>1, <1>2, <1>4 DEF Accounted
<1>6. SumOver(Unread, Workers) = 0
  <2>1. \A w \in Workers : Unread[w] = 0 BY ClosedRest, Zenon DEF Unread
  <2> QED BY <2>1, Zenon DEF Totals, SumZero
<1>7. Sum(got) \in Nat BY <1>0, Zenon DEF Sum, Totals, SumNat
<1>8. spawned = Workers BY ClosedRest, Zenon
<1>9. CountInv BY Zenon DEF IInv, FateInv
<1>10. Sum(completed) = Sum(got) BY <1>1, <1>6, <1>7, <1>8, <1>9 DEF CountInv
<1> QED BY <1>1, <1>2, <1>5, <1>8, <1>9, <1>10, Zenon DEF CountInv

\* The invariant implies the report's truth.
LEMMA IInvReport ==
  ASSUME Totals, IInv
  PROVE  ReportIsTrue
<1> DEFINE ok == Accounted(Sum(claimed), Sum(completed), Sum(skipped), Sum(unattempted))
<1>1. ASSUME owner = "closed"
      PROVE  /\ ok /\ final.accounted = ok /\ final.outcome = Outcome(ok)
             /\ final.worker = IF fatal THEN fatalWorker ELSE NoWorker
  BY <1>1, ClosedCounts DEF IInv, FateInv, FinalInv
<1>2. FinalCountsAreTrue BY <1>1, ClosedCounts, Zenon DEF FinalCountsAreTrue
<1>3. SuccessIsComplete
  <2>1. SUFFICES ASSUME owner = "closed", final.outcome = "success", NEW i \in Idx,
                        got[i] # 1, left[i] # "declined"
                 PROVE  i >= cursor /\ \E j \in Idx : left[j] = "declined"
    BY Zenon DEF SuccessIsComplete
  <2>2. Outcome(ok) = "success" BY <1>1, <2>1, Zenon
  <2>3. ~fatal /\ status # "cancelled" /\ ~(Sum(unattempted) > 0) BY <2>2, Zenon DEF Outcome
  <2>4. ~stopping BY <2>1, <2>3, ClosedRest, Zenon DEF SettledStatus
  <2>5. left[i] = "no"
    <3>1. Cardinality(LeftAs("owed")) = 0 BY <2>1, <2>3, ClosedCounts
    <3>2. IsFiniteSet(Idx) BY Finite, Zenon DEF IInv, RoomInv
    <3>3. IsFiniteSet(LeftAs("owed")) BY <3>2, Zenon DEF LeftAs, Totals, Counting
    <3>4. LeftAs("owed") = {} BY <3>1, <3>3, Zenon DEF Totals, Counting
    <3>5. left[i] \in {"no", "declined", "owed"} BY Zenon DEF IInv, RoomInv, TypeOK, TypeHistory
    <3> QED BY <2>1, <3>4, <3>5, Zenon DEF LeftAs
  <2>6. OneFate(i) /\ got[i] \in Nat /\ cursor \in Nat /\ i \in 0..(Domain - 1) /\ Domain \in Nat
    BY EngineAssumption, Zenon DEF IInv, FateInv, Fate, RoomInv, TypeOK, TypeHistory, TypeShared, Idx
  <2>7. ~(got[i] > 0) BY <2>1, <2>6 DEF OneFate
  <2>8. \A w \in Workers : ~Holds(w, i) /\ i \notin ChunkTail(w) BY <2>1, ClosedRest, Zenon
  <2>9. ~(i < cursor) BY <2>5, <2>6, <2>7, <2>8, Zenon DEF OneFate
  <2>10. i >= cursor /\ ~(cursor >= Domain) BY <2>6, <2>9
  <2>11. PICK w \in Workers : TRUE BY EngineAssumption, Zenon
  <2>12. Reasoned(w) /\ wpc[w] = "dead" BY <2>1, ClosedRest, Zenon
  <2>13. \E j \in Idx : left[j] = "declined" BY <2>4, <2>10, <2>12, Zenon DEF Reasoned
  <2> QED BY <2>10, <2>13, Zenon
<1>4. OwedMeansInterrupted
  <2>1. SUFFICES ASSUME owner = "closed", NEW w \in Workers, unattempted[w] > 0
                 PROVE  status \in {"cancelled", "fatal"}
    BY Zenon DEF OwedMeansInterrupted
  <2>2. stopping BY <2>1, ClosedRest, Zenon DEF Reasoned
  <2> QED BY <2>1, <2>2, ClosedRest, Zenon DEF SettledStatus
<1>5. FatalIsWhole
  <2>1. FatalInv /\ fatalWorker \in Workers \cup {NoWorker} /\ fatal \in BOOLEAN
    BY Zenon DEF IInv, FateInv, RoomInv, TypeOK, TypeShared
  <2>2. ASSUME owner = "closed", fatalWorker # NoWorker
        PROVE  final.outcome = "failed" /\ final.worker = fatalWorker
    <3>1. fatal BY <2>1, <2>2, ClosedRest, Zenon DEF FatalInv
    <3> QED BY <1>1, <2>2, <3>1, Zenon DEF Outcome
  <2> QED BY <2>1, <2>2, Zenon DEF FatalIsWhole, FatalInv
<1> QED BY <1>2, <1>3, <1>4, <1>5, FateOnce, Zenon DEF ReportIsTrue

-----------------------------------------------------------------------------
(* Totals and finite sets.                                                       *)

INSTANCE FiniteSetTheorems
INSTANCE WellFoundedInduction

\* The pairs that SumOver counts.
Units(f, S) == UNION {{x} \X (1..f[x]) : x \in S}

\* A total of finitely many natural numbers is a natural number.
LEMMA UnitsFinite ==
  ASSUME NEW f, NEW S, IsFiniteSet(S), \A x \in S : f[x] \in Nat
  PROVE  IsFiniteSet(Units(f, S)) /\ SumOver(f, S) \in Nat
<1> DEFINE F == [x \in S |-> {x} \X (1..f[x])]
           T == {{x} \X (1..f[x]) : x \in S}
<1>1. F \in Surjection(S, T) BY Zenon DEF Surjection
<1>2. IsFiniteSet(T) BY <1>1, FS_Surjection, SMTT(30)
<1>3. ASSUME NEW U \in T PROVE IsFiniteSet(U)
  <2>1. PICK x \in S : U = {x} \X (1..f[x]) BY <1>3
  <2>2. IsFiniteSet({x}) BY FS_Singleton, Zenon
  <2>3. IsFiniteSet(1..f[x]) BY FS_Interval
  <2> QED BY <2>1, <2>2, <2>3, FS_Product, SMTT(30)
<1>4. IsFiniteSet(UNION T) BY <1>2, <1>3, FS_UNION, Zenon
<1> QED BY <1>4, FS_CardinalityType, SMTT(30) DEF Units, SumOver

\* One more element adds its own count.
LEMMA TotalAdd ==
  ASSUME NEW f, NEW S, IsFiniteSet(S), NEW x, x \notin S,
         \A y \in S \cup {x} : f[y] \in Nat
  PROVE  SumOver(f, S \cup {x}) = SumOver(f, S) + f[x]
<1> DEFINE U == {x} \X (1..f[x])
<1>1. Units(f, S \cup {x}) = Units(f, S) \cup U BY Zenon DEF Units
<1>2. Units(f, S) \cap U = {} BY DEF Units
<1>3. IsFiniteSet({x}) /\ Cardinality({x}) = 1 BY FS_Singleton, Zenon
<1>4. f[x] \in Nat BY Zenon
<1>5. \A n \in Nat : IsFiniteSet(1..n) /\ Cardinality(1..n) = n
  <2> TAKE n \in Nat
  <2>1. IsFiniteSet(1..n) /\ Cardinality(1..n) = IF 1 > n THEN 0 ELSE n - 1 + 1
    BY FS_Interval, SMTT(30)
  <2> QED BY <2>1
<1>6. IsFiniteSet(U) /\ Cardinality(U) = f[x]
  <2> DEFINE I == 1..f[x]
  <2>1. IsFiniteSet(I) /\ Cardinality(I) = f[x] BY <1>4, <1>5, SMTT(30)
  <2> HIDE DEF I
  <2>2. IsFiniteSet({x} \X I) /\ Cardinality({x} \X I) = Cardinality({x}) * Cardinality(I)
    BY <1>3, <2>1, FS_Product, SMTT(30)
  <2>3. Cardinality({x}) * Cardinality(I) = f[x] BY <1>3, <1>4, <2>1
  <2> QED BY <2>2, <2>3, SMTT(30) DEF I
<1>7. IsFiniteSet(Units(f, S)) /\ Cardinality(Units(f, S)) \in Nat
  BY UnitsFinite, FS_CardinalityType, SMTT(30)
<1> HIDE DEF U
<1>8. Cardinality(Units(f, S) \cup U) = Cardinality(Units(f, S)) + Cardinality(U)
  BY <1>2, <1>6, <1>7, FS_Union, FS_EmptySet, SMTT(30)
<1> QED BY <1>1, <1>6, <1>8, Zenon DEF SumOver, Units

\* The total depends only on the counts.
LEMMA TotalSame ==
  ASSUME NEW f, NEW g, NEW S, \A x \in S : f[x] = g[x]
  PROVE  SumOver(f, S) = SumOver(g, S)
<1>1. {{x} \X (1..f[x]) : x \in S} = {{x} \X (1..g[x]) : x \in S} BY Zenon
<1> QED BY <1>1, Zenon DEF SumOver

\* Counts of zero total zero.
LEMMA TotalZero ==
  ASSUME NEW f, NEW S, \A x \in S : f[x] = 0
  PROVE  SumOver(f, S) = 0
<1>1. Units(f, S) = {} BY DEF Units
<1> QED BY <1>1, FS_EmptySet, Zenon DEF SumOver, Units

\* One counter that grows by n makes the total grow by n.
LEMMA TotalBump ==
  ASSUME NEW f, NEW g, NEW S, IsFiniteSet(S), NEW x \in S, NEW n \in Nat,
         \A y \in S : f[y] \in Nat, \A y \in S \ {x} : g[y] = f[y], g[x] = f[x] + n
  PROVE  SumOver(g, S) = SumOver(f, S) + n
<1> DEFINE R == S \ {x}
<1>1. IsFiniteSet(R) /\ x \notin R /\ R \cup {x} = S BY FS_RemoveElement, SMTT(30)
<1>2. \A y \in R \cup {x} : g[y] \in Nat BY <1>1, SMTT(30)
<1>3. SumOver(f, S) = SumOver(f, R) + f[x] BY <1>1, TotalAdd, SMTT(30)
<1>4. SumOver(g, S) = SumOver(g, R) + g[x] BY <1>1, <1>2, TotalAdd, SMTT(30)
<1>5. SumOver(g, R) = SumOver(f, R) BY TotalSame, SMTT(30)
<1>6. SumOver(f, R) \in Nat BY <1>1, UnitsFinite
<1> HIDE DEF R
<1>7. f[x] \in Nat BY Zenon
<1> QED BY <1>3, <1>4, <1>5, <1>6, <1>7, SMTT(30)

\* Totals of counters that agree element by element agree.
LEMMA TotalAgrees ==
  ASSUME NEW c, NEW d, NEW s, NEW u, NEW S, IsFiniteSet(S),
         \A x \in S : /\ c[x] \in Nat /\ d[x] \in Nat /\ s[x] \in Nat /\ u[x] \in Nat
                      /\ c[x] = d[x] + s[x] + u[x]
  PROVE  SumOver(c, S) = SumOver(d, S) + SumOver(s, S) + SumOver(u, S)
<1> DEFINE Agrees(T) == SumOver(c, T) = SumOver(d, T) + SumOver(s, T) + SumOver(u, T)
           Bad == {T \in SUBSET S : ~Agrees(T)}
<1>1. SUFFICES ASSUME Bad # {} PROVE FALSE BY Zenon
<1>2. IsWellFoundedOn(StrictSubsetOrdering(S), SUBSET S)
  BY FS_StrictSubsetOrderingWellFounded, FS_FiniteSubsetsOfFinite, Zenon
<1>3. PICK T \in Bad : \A U \in Bad : ~(<<U, T>> \in StrictSubsetOrdering(S))
  BY <1>1, <1>2, WFMin, Zenon
<1>4. ASSUME T = {} PROVE FALSE
  <2>1. /\ SumOver(c, {}) = 0 /\ SumOver(d, {}) = 0
        /\ SumOver(s, {}) = 0 /\ SumOver(u, {}) = 0
    BY TotalZero, Zenon
  <2> QED BY <1>3, <1>4, <2>1, SMTT(30)
<1>5. PICK x \in T : TRUE BY <1>4, Zenon
<1> DEFINE R == T \ {x}
<1>6. R \in SUBSET S /\ R \subseteq T /\ R # T /\ x \notin R /\ R \cup {x} = T /\ x \in S
  BY <1>3, <1>5
<1>7. Agrees(R)
  <2>1. <<R, T>> \in StrictSubsetOrdering(S) BY <1>3, <1>6, SMTT(30) DEF StrictSubsetOrdering
  <2> QED BY <1>3, <1>6, <2>1, Zenon
<1>8. IsFiniteSet(R) BY <1>6, FS_Subset
<1> HIDE DEF R
<1>9. \A y \in R \cup {x} : c[y] \in Nat /\ d[y] \in Nat /\ s[y] \in Nat /\ u[y] \in Nat
  BY <1>6, Zenon
<1>10. /\ SumOver(c, T) = SumOver(c, R) + c[x] /\ SumOver(d, T) = SumOver(d, R) + d[x]
       /\ SumOver(s, T) = SumOver(s, R) + s[x] /\ SumOver(u, T) = SumOver(u, R) + u[x]
  BY <1>6, <1>8, <1>9, TotalAdd, SMTT(30)
<1>11. /\ SumOver(d, R) \in Nat /\ SumOver(s, R) \in Nat /\ SumOver(u, R) \in Nat
  BY <1>8, <1>9, UnitsFinite, Zenon
<1>12. c[x] = d[x] + s[x] + u[x] /\ d[x] \in Nat /\ s[x] \in Nat /\ u[x] \in Nat BY <1>6, Zenon
<1>13. Agrees(T) BY <1>7, <1>10, <1>11, <1>12, SMTT(30)
<1> QED BY <1>3, <1>13

\* The total of counts of at most one is the number of ones.
LEMMA TotalOnes ==
  ASSUME NEW f, NEW S, IsFiniteSet(S), \A x \in S : f[x] \in {0, 1}
  PROVE  SumOver(f, S) = Cardinality({x \in S : f[x] = 1})
<1> DEFINE T == {x \in S : f[x] = 1}
<1>1. Units(f, S) = T \X {1}
  <2>1. ASSUME NEW x \in S PROVE 1..f[x] = IF f[x] = 1 THEN {1} ELSE {}
    <3>1. 1..0 = {} /\ 1..1 = {1} OBVIOUS
    <3>2. CASE f[x] = 1 BY <3>1, <3>2, SMTT(30)
    <3>3. CASE f[x] = 0 BY <3>1, <3>3, SMTT(30)
    <3> QED BY <3>2, <3>3, Zenon
  <2>2. ASSUME NEW e \in Units(f, S) PROVE e \in T \X {1}
    <3>1. PICK x \in S : e \in {x} \X (1..f[x]) BY <2>2, Zenon DEF Units
    <3> QED BY <2>1, <3>1, SMTT(30)
  <2>3. ASSUME NEW e \in T \X {1} PROVE e \in Units(f, S)
    <3>1. PICK x \in T : e = <<x, 1>> BY <2>3
    <3>2. e \in {x} \X (1..f[x]) BY <2>1, <3>1, SMTT(30)
    <3> QED BY <3>1, <3>2, Zenon DEF Units
  <2> QED BY <2>2, <2>3, Zenon
<1>2. IsFiniteSet(T) /\ Cardinality(T) \in Nat BY FS_Subset, FS_CardinalityType
<1>3. IsFiniteSet({1}) /\ Cardinality({1}) = 1 BY FS_Singleton, Zenon
<1>4. Cardinality(T \X {1}) = Cardinality(T) * 1 BY <1>2, <1>3, FS_Product, Zenon
<1> HIDE DEF T
<1>5. Cardinality(T) * 1 = Cardinality(T) BY <1>2
<1>6. SumOver(f, S) = Cardinality(T) BY <1>1, <1>4, <1>5, Zenon DEF SumOver, Units
<1> QED BY <1>6, Zenon DEF T

-----------------------------------------------------------------------------

\* What the proofs take from the theory of finite sets.
LEMMA Counted == Counting
<1>1. Cardinality({}) = 0 /\ \A x : Cardinality({x}) = 1 BY FS_EmptySet, FS_Singleton, Zenon
<1>2. \A a, b \in Int : IsFiniteSet(a..b) BY FS_Interval, Zenon
<1>3. \A S : IsFiniteSet(S) => Cardinality(S) \in Nat /\ (Cardinality(S) = 0 => S = {})
  BY FS_CardinalityType, FS_EmptySet
<1>4. \A S : IsFiniteSet(S) => \A T \in SUBSET S : IsFiniteSet(T) BY FS_Subset, Zenon
<1>5. \A S : IsFiniteSet(S) => \A x : x \notin S => Cardinality(S \cup {x}) = Cardinality(S) + 1
  BY FS_AddElement, Zenon
<1>6. \A S : IsFiniteSet(S) => \A x \in S : Cardinality(S \ {x}) = Cardinality(S) - 1
  BY FS_RemoveElement, Zenon
<1> QED BY <1>1, <1>2, <1>3, <1>4, <1>5, <1>6, Zenon DEF Counting

\* What the proofs take from totals.
LEMMA Totalled == Totals
<1>1. SumNat BY UnitsFinite, Zenon DEF SumNat
<1>2. SumSame BY TotalSame, Zenon DEF SumSame
<1>3. SumZero BY TotalZero, Zenon DEF SumZero
<1>4. SumAdd BY TotalAdd, Zenon DEF SumAdd
<1>5. SumBump BY TotalBump, SMTT(30) DEF SumBump
<1>6. SumAgrees BY TotalAgrees DEF SumAgrees
<1>7. SumOnes BY TotalOnes, Zenon DEF SumOnes
<1>8. Intervals BY FS_Interval, Zenon DEF Intervals
<1>9. Unions
  <2> SUFFICES ASSUME NEW S, NEW T, IsFiniteSet(S), IsFiniteSet(T), S \cap T = {}
               PROVE  Cardinality(S \cup T) = Cardinality(S) + Cardinality(T)
    BY Zenon DEF Unions
  <2>1. Cardinality(S \cup T) = Cardinality(S) + Cardinality(T) - Cardinality(S \cap T)
    BY FS_Union, Zenon
  <2>2. Cardinality(S \cap T) = 0 BY FS_EmptySet, Zenon
  <2>3. Cardinality(S) \in Nat /\ Cardinality(T) \in Nat BY FS_CardinalityType, Zenon
  <2> QED BY <2>1, <2>2, <2>3, SMTT(30)
<1>10. Numbered
  <2> SUFFICES ASSUME NEW q, NEW n \in Nat, \A j, k \in 1..n : q[j] = q[k] => j = k
               PROVE  LET T == {q[k] : k \in 1..n} IN IsFiniteSet(T) /\ Cardinality(T) = n
    BY Zenon DEF Numbered
  <2> DEFINE T == {q[k] : k \in 1..n}
             f == [k \in 1..n |-> q[k]]
  <2>1. f \in Bijection(1..n, T) BY Zenon DEF Bijection, Injection, Surjection, IsInjective
  <2>2. ExistsBijection(1..n, T) BY <2>1, Zenon DEF ExistsBijection
  <2>3. IsFiniteSet(1..n) BY FS_Interval
  <2> QED BY <2>2, <2>3, FS_CountingElements, FS_Bijection, SMTT(30)
<1> QED BY Counted, <1>1, <1>2, <1>3, <1>4, <1>5, <1>6, <1>7, <1>8, <1>9, <1>10, ZenonT(40) DEF Totals
=============================================================================
