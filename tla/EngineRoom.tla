----------------------------- MODULE EngineRoom -----------------------------
(* Every step of Engine keeps, for every worker, its slots conserved, its       *)
(* counters balanced and room in its ring for the events it owes: the first     *)
(* half of the invariant.                                                       *)
EXTENDS Engine, TLAPS

Conserved(w) == /\ inflight[w] = Cardinality(LiveSlots(w))
                /\ Range(freelist[w]) = Slots \ LiveSlots(w)
                /\ Len(freelist[w]) = NSlots - inflight[w]
Balance(w) == claimed[w] = Settled(w) + Owed(w)
Local(w) == WorkerInv(w) /\ Conserved(w) /\ Balance(w) /\ dropped[w] = 0

\* WorkerInv without its count: the job in hand, and a freelist without repeats.
Placed(w) == /\ wpc[w] = "launch" <=> hand[w] # NoJob
             /\ wpc[w] = "launch" => pending[w] = NoJob /\ freelist[w] # << >>
Distinct(w) == \A j, k \in DOMAIN freelist[w] : j # k => freelist[w][j] # freelist[w][k]
Room(w) == Len(ring[w]) + Owed(w) < RCap

\* What Local says of worker w's counts.
Numbers(w) == /\ Len(ring[w]) \in Nat /\ Owed(w) \in Nat /\ Settled(w) \in Nat
              /\ inflight[w] \in Nat /\ claimed[w] \in Nat /\ completed[w] \in Nat
              /\ skipped[w] \in Nat /\ unattempted[w] \in Nat
              /\ RCap \in Nat /\ Room(w) /\ Balance(w)

\* Local, put together from its parts.
LEMMA LocalParts ==
  ASSUME NEW w \in Workers, Placed(w)', Distinct(w)', Room(w)', Conserved(w)', Balance(w)',
         dropped'[w] = 0
  PROVE  Local(w)'
BY Zenon DEF Local, WorkerInv, Placed, Distinct, Room

\* The number of live slots is a natural number.
LEMMA LiveFinite ==
  ASSUME Counting, NEW w \in Workers
  PROVE  IsFiniteSet(LiveSlots(w)) /\ Cardinality(LiveSlots(w)) \in Nat
<1>1. IsFiniteSet(Slots) BY EngineAssumption DEF Slots, Counting
<1>2. LiveSlots(w) \subseteq Slots BY Zenon DEF LiveSlots
<1> QED BY <1>1, <1>2, Zenon DEF Counting

\* inflight counts probes: it is positive while a slot is live.
LEMMA InflightNat ==
  ASSUME Counting, NEW w \in Workers, Local(w)
  PROVE  inflight[w] \in Nat /\ (LiveSlots(w) # {} => inflight[w] > 0)
<1>1. inflight[w] = Cardinality(LiveSlots(w)) BY Zenon DEF Local, Conserved
<1>2. Cardinality(LiveSlots(w)) = 0 => LiveSlots(w) = {}
  BY LiveFinite, Zenon DEF Counting
<1> QED BY <1>1, <1>2, LiveFinite

\* The counts are natural numbers.
LEMMA LocalNumbers ==
  ASSUME Counting, TypeOK, NEW w \in Workers, Local(w)
  PROVE  Numbers(w)
<1>1. inflight[w] \in Nat BY InflightNat, Zenon
<1>2. Len(ring[w]) \in Nat BY DEF TypeOK, TypeRing
<1>3. B(hand[w]) \in Nat /\ B(pending[w]) \in Nat BY Zenon DEF B
<1>4. /\ claimed[w] \in Nat /\ completed[w] \in Nat /\ skipped[w] \in Nat
      /\ unattempted[w] \in Nat
  BY Zenon DEF TypeOK, TypeStats
<1>5. Owed(w) \in Nat BY <1>1, <1>3 DEF Owed
<1>6. Settled(w) \in Nat BY <1>4 DEF Settled
<1>7. RCap \in Nat BY EngineAssumption, Zenon
<1>8. Room(w) /\ Balance(w) BY Zenon DEF Local, WorkerInv, Room
<1> QED BY <1>1, <1>2, <1>4, <1>5, <1>6, <1>7, <1>8, Zenon DEF Numbers

\* The fields of worker v that Local reads, other than its position.
SameSlots(v) == slot'[v] = slot[v] /\ freelist'[v] = freelist[v] /\ inflight'[v] = inflight[v]
SameRing(v) == ring'[v] = ring[v] /\ dropped'[v] = dropped[v]
SameStats(v) == /\ claimed'[v] = claimed[v] /\ completed'[v] = completed[v]
                /\ skipped'[v] = skipped[v] /\ unattempted'[v] = unattempted[v]
SameJobs(v) == hand'[v] = hand[v] /\ pending'[v] = pending[v]
SamePlace(v) == wpc'[v] = "launch" <=> wpc[v] = "launch"
Untouched(v) == SameSlots(v) /\ SameRing(v) /\ SameStats(v) /\ SameJobs(v) /\ SamePlace(v)

\* Slots that a step leaves alone stay conserved.
LEMMA SlotsKept ==
  ASSUME NEW v \in Workers, Local(v), SameSlots(v)
  PROVE  Conserved(v)' /\ Distinct(v)'
<1>1. LiveSlots(v)' = LiveSlots(v) BY Zenon DEF LiveSlots, SameSlots
<1> QED BY <1>1, Zenon DEF Local, WorkerInv, Conserved, Distinct, SameSlots, Range

\* A worker whose fields a step leaves alone keeps its invariant.
LEMMA Frame ==
  ASSUME NEW v \in Workers, Local(v), Untouched(v)
  PROVE  Local(v)'
<1>1. Conserved(v)' /\ Distinct(v)' BY SlotsKept, Zenon DEF Untouched
<1>2. Placed(v)' BY Zenon DEF Local, WorkerInv, Placed, Untouched, SamePlace, SameJobs, SameSlots
<1>3. Owed(v)' = Owed(v) BY Zenon DEF Owed, B, Untouched, SameJobs, SameSlots
<1>4. Settled(v)' = Settled(v) BY Zenon DEF Settled, Untouched, SameStats
<1>5. Room(v)' BY <1>3, Zenon DEF Room, Local, WorkerInv, Untouched, SameRing
<1>6. Balance(v)' BY <1>3, <1>4, Zenon DEF Balance, Local, Untouched, SameStats
<1>7. dropped'[v] = 0 BY Zenon DEF Local, Untouched, SameRing
<1> QED BY <1>1, <1>2, <1>5, <1>6, <1>7, LocalParts, Zenon

\* A step that touches none of these fields of any worker.
LEMMA FrameAll ==
  ASSUME \A v \in Workers : Local(v), \A v \in Workers : SamePlace(v),
         UNCHANGED <<hand, pending, slotVars, ringVars,
                     claimed, completed, skipped, unattempted>>
  PROVE  \A v \in Workers : Local(v)'
<1> SUFFICES ASSUME NEW v \in Workers PROVE Local(v)' BY Zenon
<1>1. Untouched(v)
  BY Zenon DEF Untouched, SameSlots, SameRing, SameStats, SameJobs, slotVars, ringVars
<1> QED BY <1>1, Frame, Zenon

\* A step of worker w: every other worker keeps its fields.
LEMMA OneWorker ==
  ASSUME \A v \in Workers : Local(v), NEW w \in Workers, Local(w)',
         \A v \in Workers \ {w} : Untouched(v)
  PROVE  \A v \in Workers : Local(v)'
<1> SUFFICES ASSUME NEW v \in Workers, v # w PROVE Local(v)' BY Zenon
<1> QED BY Frame, Zenon

-----------------------------------------------------------------------------
(* worker_main and worker_fill.                                                 *)

\* Steps that only move a worker, or touch the shared flags or the claim.
LEMMA LocalControl ==
  ASSUME TypeOK, \A v \in Workers : Local(v), NEW w \in Workers,
         \/ LoopTop(w) \/ FillReturn(w) \/ BreakDrained(w) \/ WaitReturns(w)
         \/ WaitFails(w) \/ EventsDone(w) \/ Exit(w) \/ Fatal(w) \/ ClaimPastDomain(w)
  PROVE  \A v \in Workers : Local(v)'
<1>1. UNCHANGED <<hand, pending, slotVars, ringVars,
                  claimed, completed, skipped, unattempted>>
  BY Zenon DEF LoopTop, FillReturn, BreakDrained, WaitReturns, WaitFails, EventsDone, Exit,
     Fatal, FatalCas, FatalErrno, FatalFlag, FatalStop, ClaimPastDomain, jobVars, stats
<1>2. wpc \in [Workers -> WorkerPc] /\ wret \in [Workers -> {"filled", "retire"}]
  BY Zenon DEF TypeOK, TypePc
<1>3. wpc[w] # "launch" /\ \E pc : pc # "launch" /\ wpc' = [wpc EXCEPT ![w] = pc]
  <2> USE DEF Goto
  <2>1. CASE LoopTop(w) BY <2>1, Zenon DEF LoopTop
  <2>2. CASE FillReturn(w) BY <2>2, Zenon DEF FillReturn
  <2>3. CASE BreakDrained(w) BY <2>3, Zenon DEF BreakDrained
  <2>4. CASE WaitReturns(w) BY <2>4, Zenon DEF WaitReturns
  <2>5. CASE WaitFails(w) BY <2>5, Zenon DEF WaitFails
  <2>6. CASE EventsDone(w) BY <2>6, Zenon DEF EventsDone
  <2>7. CASE Exit(w) BY <2>7, Zenon DEF Exit
  <2>8. CASE Fatal(w)
    BY <1>2, <2>8, Zenon DEF Fatal, FatalCas, FatalErrno, FatalFlag, FatalStop
  <2>9. CASE ClaimPastDomain(w) BY <2>9, Zenon DEF ClaimPastDomain, MayClaim, MayFill
  <2> QED BY <2>1, <2>2, <2>3, <2>4, <2>5, <2>6, <2>7, <2>8, <2>9, Zenon
<1>4. \A v \in Workers : SamePlace(v) BY <1>2, <1>3, Zenon DEF SamePlace
<1> QED BY <1>1, <1>4, FrameAll, Zenon

\* The retained job is taken in hand: it is still owed.
LEMMA LocalTake ==
  ASSUME Counting, TypeOK, \A v \in Workers : Local(v), NEW w \in Workers, TakePending(w)
  PROVE  \A v \in Workers : Local(v)'
<1>1. /\ wpc[w] = "fill" /\ freelist[w] # << >> /\ pending[w] # NoJob
      /\ hand' = [hand EXCEPT ![w] = pending[w]] /\ pending' = [pending EXCEPT ![w] = NoJob]
      /\ wpc' = [wpc EXCEPT ![w] = "launch"] /\ UNCHANGED <<slotVars, ringVars, stats>>
      /\ hand \in [Workers -> JobOrNone] /\ pending \in [Workers -> JobOrNone]
      /\ wpc \in [Workers -> WorkerPc]
  BY Zenon DEF TakePending, MayFill, Goto, TypeOK, TypeJob, TypePc
<1>2. \A v \in Workers \ {w} : Untouched(v)
  BY <1>1, Zenon DEF Untouched, SameSlots, SameRing, SameStats, SameJobs, SamePlace,
     slotVars, ringVars, stats
<1>3. SameSlots(w) /\ SameRing(w) /\ SameStats(w)
  BY <1>1, Zenon DEF SameSlots, SameRing, SameStats, slotVars, ringVars, stats
<1>4. /\ hand[w] = NoJob /\ hand'[w] # NoJob /\ pending'[w] = NoJob /\ wpc'[w] = "launch"
  BY <1>1, Zenon DEF Local, WorkerInv
<1>5. Owed(w)' = Owed(w)
  <2>1. B(hand[w]) = 0 /\ B(pending[w]) = 1 /\ B(hand[w])' = 1 /\ B(pending[w])' = 0
    BY <1>1, <1>4, Zenon DEF B
  <2> QED BY <1>3, <2>1, LocalNumbers DEF Owed, SameSlots, Numbers
<1>6. Settled(w)' = Settled(w) BY <1>3, Zenon DEF Settled, SameStats
<1>7. Placed(w)' BY <1>1, <1>3, <1>4, Zenon DEF Placed, SameSlots
<1>8. Room(w)' /\ Balance(w)' /\ dropped'[w] = 0
  BY <1>3, <1>5, <1>6, Zenon DEF Local, WorkerInv, Room, Balance, SameRing, SameStats
<1>9. Local(w)' BY <1>3, <1>7, <1>8, SlotsKept, LocalParts, Zenon
<1> QED BY <1>2, <1>9, OneWorker, Zenon

\* A drawn index the task accepts: worker_fill has checked the ring's room.
LEMMA LocalClaim ==
  ASSUME Counting, TypeOK, \A v \in Workers : Local(v), NEW w \in Workers, ClaimJob(w)
  PROVE  \A v \in Workers : Local(v)'
<1>1. /\ wpc[w] = "fill" /\ freelist[w] # << >> /\ pending[w] = NoJob /\ RingRoom(w)
      /\ hand' = [hand EXCEPT ![w] = Drawn(w)] /\ UNCHANGED pending
      /\ claimed' = [claimed EXCEPT ![w] = @ + 1]
      /\ wpc' = [wpc EXCEPT ![w] = "launch"]
      /\ UNCHANGED <<slotVars, ringVars, completed, skipped, unattempted>>
      /\ hand \in [Workers -> JobOrNone] /\ wpc \in [Workers -> WorkerPc]
      /\ claimed \in [Workers -> Nat]
  BY Zenon DEF ClaimJob, MayClaim, MayFill, Goto, Bump, TypeOK, TypeJob, TypePc, TypeStats
<1>2. \A v \in Workers \ {w} : Untouched(v)
  BY <1>1, Zenon DEF Untouched, SameSlots, SameRing, SameStats, SameJobs, SamePlace,
     slotVars, ringVars
<1>3. SameSlots(w) /\ SameRing(w) BY <1>1, Zenon DEF SameSlots, SameRing, slotVars, ringVars
<1>4. Drawn(w) \in Nat BY Zenon DEF Drawn, TypeOK, TypeShared, TypeClaim
<1>5. /\ hand[w] = NoJob /\ hand'[w] # NoJob /\ pending'[w] = NoJob /\ wpc'[w] = "launch"
      /\ claimed'[w] = claimed[w] + 1
  BY <1>1, <1>4 DEF Local, WorkerInv, NoJob
<1>6. Owed(w) = inflight[w] /\ Owed(w)' = inflight[w] + 1
  <2>1. B(hand[w]) = 0 /\ B(pending[w]) = 0 /\ B(hand[w])' = 1 /\ B(pending[w])' = 0
    BY <1>1, <1>5, Zenon DEF B
  <2> QED BY <1>3, <2>1, LocalNumbers DEF Owed, SameSlots, Numbers
<1>7. Settled(w)' = Settled(w) BY <1>1, Zenon DEF Settled
<1>8. Placed(w)' BY <1>1, <1>3, <1>5, Zenon DEF Placed, SameSlots
<1>9. Numbers(w) BY LocalNumbers, Zenon
<1>10. Room(w)' BY <1>1, <1>3, <1>6, <1>9, SMTT(30) DEF Room, RingRoom, Numbers, SameRing
<1>11. Balance(w)' BY <1>5, <1>6, <1>7, <1>9 DEF Balance, Numbers
<1>12. dropped'[w] = 0 BY <1>3, Zenon DEF Local, SameRing
<1>13. Local(w)' BY <1>3, <1>8, <1>10, <1>11, <1>12, SlotsKept, LocalParts, Zenon
<1> QED BY <1>2, <1>13, OneWorker, Zenon

\* A drawn index the task declines is claimed and skipped.
LEMMA LocalDecline ==
  ASSUME Counting, TypeOK, \A v \in Workers : Local(v), NEW w \in Workers,
         NEW rc \in Answers \ {"job"}, ClaimDeclined(w, rc)
  PROVE  \A v \in Workers : Local(v)'
<1>1. /\ wpc[w] = "fill" /\ UNCHANGED <<hand, pending>>
      /\ claimed' = [claimed EXCEPT ![w] = @ + 1]
      /\ skipped' = [skipped EXCEPT ![w] = @ + 1]
      /\ UNCHANGED <<slotVars, ringVars, completed, unattempted>>
      /\ skipped \in [Workers -> Nat] /\ claimed \in [Workers -> Nat]
  BY Zenon DEF ClaimDeclined, MayClaim, MayFill, Bump, TypeOK, TypeStats, jobVars
<1>2. wpc'[w] # "launch" /\ \A v \in Workers \ {w} : wpc'[v] = wpc[v]
  BY Zenon DEF ClaimDeclined, Goto, TypeOK, TypePc
<1>3. \A v \in Workers \ {w} : Untouched(v)
  BY <1>1, <1>2, Zenon DEF Untouched, SameSlots, SameRing, SameStats, SameJobs, SamePlace,
     slotVars, ringVars
<1>4. SameSlots(w) /\ SameRing(w) BY <1>1, Zenon DEF SameSlots, SameRing, slotVars, ringVars
<1>5. claimed'[w] = claimed[w] + 1 /\ skipped'[w] = skipped[w] + 1 BY <1>1, Zenon
<1>6. Owed(w)' = Owed(w) BY <1>1, <1>4, Zenon DEF Owed, B, SameSlots
<1>7. Numbers(w) BY LocalNumbers, Zenon
<1>8. Settled(w)' = Settled(w) + 1 BY <1>1, <1>5, <1>7, SMTT(30) DEF Settled, Numbers
<1>9. Placed(w)' BY <1>1, <1>2, Zenon DEF Placed, Local, WorkerInv
<1>10. Room(w)' BY <1>4, <1>6, <1>7, Zenon DEF Room, Numbers, SameRing
<1>11. Balance(w)' BY <1>5, <1>6, <1>7, <1>8 DEF Balance, Numbers
<1>12. dropped'[w] = 0 BY <1>4, Zenon DEF Local, SameRing
<1>13. Local(w)' BY <1>4, <1>9, <1>10, <1>11, <1>12, SlotsKept, LocalParts, Zenon
<1> QED BY <1>3, <1>13, OneWorker, Zenon

-----------------------------------------------------------------------------
(* probe_launch and probe_finish_obs.                                           *)

\* Complete while the ring has room: one event more, nothing dropped.
LEMMA CompleteFits ==
  ASSUME TypeOK, NEW w \in Workers, NEW i \in Idx, NEW isLocal \in BOOLEAN,
         Complete(w, i, isLocal), Len(ring[w]) < RCap
  PROVE  /\ Len(ring'[w]) = Len(ring[w]) + 1 /\ dropped'[w] = dropped[w]
         /\ claimed'[w] = claimed[w] /\ Settled(w)' = Settled(w) + 1
         /\ \A v \in Workers \ {w} : SameRing(v) /\ SameStats(v)
<1>1. ring[w] \in Seq(Idx) BY Zenon DEF TypeOK, TypeRing
<1>2. ring' = [ring EXCEPT ![w] = Append(@, i)] /\ UNCHANGED dropped
  BY Zenon DEF Complete, Push
<1>3. Len(ring'[w]) = Len(ring[w]) + 1 BY <1>1, <1>2 DEF TypeOK, TypeRing
<1>4. /\ completed' = [completed EXCEPT ![w] = @ + 1] /\ completed \in [Workers -> Nat]
      /\ UNCHANGED <<claimed, skipped, unattempted>>
  BY Zenon DEF Complete, Bump, TypeOK, TypeStats
<1>5. Settled(w)' = Settled(w) + 1
  <2>1. completed[w] \in Nat /\ skipped[w] \in Nat /\ unattempted[w] \in Nat
    BY Zenon DEF TypeOK, TypeStats
  <2>2. completed'[w] = completed[w] + 1 BY <1>4, Zenon
  <2> QED BY <1>4, <2>1, <2>2 DEF Settled
<1>6. \A v \in Workers \ {w} : SameRing(v) /\ SameStats(v)
  BY <1>2, <1>4, Zenon DEF SameRing, SameStats, TypeOK, TypeRing
<1> QED BY <1>2, <1>3, <1>4, <1>5, <1>6, Zenon

\* An owed job is settled: the event it owed is in the ring.
LEMMA Settles ==
  ASSUME Counting, TypeOK, NEW w \in Workers, Local(w), NEW i \in Idx, NEW isLocal \in BOOLEAN,
         Complete(w, i, isLocal), Owed(w) > 0, Owed(w)' = Owed(w) - 1
  PROVE  /\ Room(w)' /\ Balance(w)' /\ dropped'[w] = 0
         /\ \A v \in Workers \ {w} : SameRing(v) /\ SameStats(v)
<1>1. Numbers(w) BY LocalNumbers, Zenon
<1>2. Len(ring[w]) < RCap BY <1>1 DEF Numbers, Room
<1>3. /\ Len(ring'[w]) = Len(ring[w]) + 1 /\ dropped'[w] = dropped[w]
      /\ claimed'[w] = claimed[w] /\ Settled(w)' = Settled(w) + 1
      /\ \A v \in Workers \ {w} : SameRing(v) /\ SameStats(v)
  BY <1>2, CompleteFits, Zenon
<1>4. Room(w)' BY <1>1, <1>3 DEF Numbers, Room
<1>5. Balance(w)' BY <1>1, <1>3 DEF Numbers, Balance
<1> QED BY <1>3, <1>4, <1>5, Zenon DEF Local

\* A job in hand or retained ends without a slot: launched and failed at once,
\* abandoned, or reported by worker_retire.
LEMMA LocalEnds ==
  ASSUME Counting, TypeOK, \A v \in Workers : Local(v), NEW w \in Workers, NEW i \in Idx,
         NEW isLocal \in BOOLEAN, Complete(w, i, isLocal), UNCHANGED slotVars,
         \/ hand[w] # NoJob /\ pending[w] = NoJob
         \/ hand[w] = NoJob /\ pending[w] # NoJob,
         hand'[w] = NoJob, pending'[w] = NoJob, wpc'[w] # "launch",
         \A v \in Workers \ {w} : SameJobs(v) /\ SamePlace(v)
  PROVE  \A v \in Workers : Local(v)'
<1>1. \A v \in Workers : SameSlots(v) BY Zenon DEF SameSlots, slotVars
<1>2. Owed(w) > 0 /\ Owed(w)' = Owed(w) - 1
  <2>1. B(hand[w])' = 0 /\ B(pending[w])' = 0 BY Zenon DEF B
  <2>2. \/ B(hand[w]) = 1 /\ B(pending[w]) = 0
        \/ B(hand[w]) = 0 /\ B(pending[w]) = 1
    BY Zenon DEF B
  <2>3. inflight'[w] = inflight[w] /\ inflight[w] \in Nat
    BY <1>1, LocalNumbers, Zenon DEF SameSlots, Numbers
  <2> QED BY <2>1, <2>2, <2>3 DEF Owed
<1>3. /\ Room(w)' /\ Balance(w)' /\ dropped'[w] = 0
      /\ \A v \in Workers \ {w} : SameRing(v) /\ SameStats(v)
  BY <1>2, Settles, Zenon
<1>4. Placed(w)' BY Zenon DEF Placed
<1>5. Local(w)' BY <1>1, <1>3, <1>4, SlotsKept, LocalParts, Zenon
<1>6. \A v \in Workers \ {w} : Untouched(v) BY <1>1, <1>3, Zenon DEF Untouched
<1> QED BY <1>5, <1>6, OneWorker, Zenon

\* The positions of a non-empty list: the last one, and the others.
LEMMA LastIndex ==
  ASSUME NEW n \in Nat, n > 0
  PROVE  /\ \A k \in 1..n : k \in 1..(n - 1) \/ k = n
         /\ \A k \in 1..(n - 1) : k \in 1..n /\ k # n
         /\ n \in 1..n
OBVIOUS

\* Taking the last element off a freelist without repeats.
LEMMA ListPop ==
  ASSUME NEW l \in Seq(Slots), l # << >>, \A j, k \in DOMAIN l : j # k => l[j] # l[k]
  PROVE  LET m == SubSeq(l, 1, Len(l) - 1)
         IN  /\ Len(m) = Len(l) - 1 /\ Range(m) = Range(l) \ {l[Len(l)]}
             /\ \A j, k \in DOMAIN m : j # k => m[j] # m[k]
             /\ l[Len(l)] \in Range(l)
<1> DEFINE n == Len(l)
           m == SubSeq(l, 1, n - 1)
<1>1. n \in Nat /\ n > 0 /\ DOMAIN l = 1..n OBVIOUS
<1>2. Len(m) = n - 1 /\ DOMAIN m = 1..(n - 1) /\ \A k \in 1..(n - 1) : m[k] = l[k]
  <2>1. n - 1 \in Nat /\ n - 1 <= n /\ m \in Seq(Slots) BY <1>1
  <2>2. Len(m) = n - 1 BY <1>1, <2>1
  <2>3. DOMAIN m = 1..(n - 1) BY <2>1, <2>2
  <2>4. \A k \in 1..(n - 1) : m[k] = l[k] BY <1>1, <2>1
  <2> QED BY <2>2, <2>3, <2>4, Zenon
<1>3. /\ \A k \in 1..n : k \in 1..(n - 1) \/ k = n
      /\ \A k \in 1..(n - 1) : k \in 1..n /\ k # n
      /\ n \in 1..n
  BY <1>1, LastIndex, Zenon
<1>4. ASSUME NEW x PROVE x \in Range(m) <=> x \in Range(l) \ {l[n]}
  <2>1. x \in Range(m) <=> \E k \in 1..(n - 1) : l[k] = x BY <1>2, Zenon DEF Range
  <2>2. x \in Range(l) <=> \E k \in 1..n : l[k] = x BY <1>1, Zenon DEF Range
  <2> QED BY <1>1, <1>3, <2>1, <2>2, Zenon
<1>5. \A j, k \in DOMAIN m : j # k => m[j] # m[k] BY <1>1, <1>2, <1>3, Zenon
<1>6. l[n] \in Range(l) BY <1>1, <1>3, Zenon DEF Range
<1> QED BY <1>2, <1>4, <1>5, <1>6, Zenon

\* Putting a slot that is not on it back on a freelist without repeats.
LEMMA ListPush ==
  ASSUME NEW l \in Seq(Slots), NEW s \in Slots, s \notin Range(l),
         \A j, k \in DOMAIN l : j # k => l[j] # l[k]
  PROVE  LET m == Append(l, s)
         IN  /\ Len(m) = Len(l) + 1 /\ Range(m) = Range(l) \cup {s}
             /\ \A j, k \in DOMAIN m : j # k => m[j] # m[k]
<1> DEFINE n == Len(l)
           m == Append(l, s)
<1>1. n \in Nat /\ DOMAIN l = 1..n OBVIOUS
<1>2. /\ Len(m) = n + 1 /\ DOMAIN m = 1..(n + 1) /\ m[n + 1] = s
      /\ \A k \in 1..n : m[k] = l[k]
  BY <1>1
<1>3. /\ \A k \in 1..(n + 1) : k \in 1..n \/ k = n + 1
      /\ \A k \in 1..n : k \in 1..(n + 1)
      /\ n + 1 \in 1..(n + 1)
  BY <1>1
<1>4. \A k \in 1..n : l[k] # s BY <1>1, Zenon DEF Range
<1>5. ASSUME NEW x PROVE x \in Range(m) <=> x \in Range(l) \cup {s}
  <2>1. x \in Range(m) <=> \E k \in 1..(n + 1) : m[k] = x BY <1>2, Zenon DEF Range
  <2>2. x \in Range(l) <=> \E k \in 1..n : l[k] = x BY <1>1, Zenon DEF Range
  <2> QED BY <1>2, <1>3, <2>1, <2>2, Zenon
<1>6. \A j, k \in DOMAIN m : j # k => m[j] # m[k] BY <1>1, <1>2, <1>3, <1>4, Zenon
<1> QED BY <1>2, <1>5, <1>6, Zenon

\* probe_launch puts the job in hand into the slot at the top of the freelist.
LEMMA LocalLaunchOk ==
  ASSUME Counting, TypeOK, \A v \in Workers : Local(v), NEW w \in Workers, LaunchOk(w)
  PROVE  \A v \in Workers : Local(v)'
<1> DEFINE fl == freelist[w]
           s == fl[Len(fl)]
<1>1. /\ wpc[w] = "launch" /\ hand[w] # NoJob /\ pending[w] = NoJob
      /\ fl # << >> /\ fl \in Seq(Slots)
      /\ \A j, k \in DOMAIN fl : j # k => fl[j] # fl[k]
  BY Zenon DEF LaunchOk, Local, WorkerInv, TypeOK, TypeSlot
<1>2. /\ slot' = [slot EXCEPT ![w][s] = hand[w]]
      /\ freelist' = [freelist EXCEPT ![w] = SubSeq(fl, 1, Len(fl) - 1)]
      /\ inflight' = [inflight EXCEPT ![w] = @ + 1]
  BY Zenon DEF LaunchOk
<1>3. /\ hand'[w] = NoJob /\ pending'[w] = NoJob /\ wpc'[w] = "fill"
      /\ UNCHANGED <<ringVars, stats>>
      /\ \A u \in Workers \ {w} : SameJobs(u) /\ SamePlace(u)
  BY Zenon DEF LaunchOk, ForgetPending, Goto, TypeOK, TypePc, TypeJob, SameJobs, SamePlace
<1>4. \A u \in Workers : SameRing(u) /\ SameStats(u)
  BY <1>3, Zenon DEF SameRing, SameStats, ringVars, stats
<1>5. \A u \in Workers \ {w} : Untouched(u)
  <2>1. \A u \in Workers \ {w} : SameSlots(u) BY <1>2, Zenon DEF SameSlots, TypeOK, TypeSlot
  <2> QED BY <1>3, <1>4, <2>1, Zenon DEF Untouched
<1>6. /\ freelist'[w] = SubSeq(fl, 1, Len(fl) - 1) /\ inflight'[w] = inflight[w] + 1
      /\ slot'[w] = [slot[w] EXCEPT ![s] = hand[w]] /\ slot[w] \in [Slots -> JobOrNone]
  BY <1>2, Zenon DEF TypeOK, TypeSlot
<1>7. /\ Len(freelist'[w]) = Len(fl) - 1 /\ Range(freelist'[w]) = Range(fl) \ {s}
      /\ Distinct(w)' /\ s \in Range(fl)
  BY <1>1, <1>6, ListPop DEF Distinct
<1>8. Conserved(w)'
  <2>1. Range(fl) = Slots \ LiveSlots(w) /\ inflight[w] = Cardinality(LiveSlots(w))
    BY Zenon DEF Local, Conserved
  <2>2. s \in Slots /\ s \notin LiveSlots(w) BY <1>7, <2>1, Zenon
  <2>3. LiveSlots(w)' = LiveSlots(w) \cup {s} BY <1>1, <1>6, <2>2 DEF LiveSlots
  <2>4. Cardinality(LiveSlots(w)') = Cardinality(LiveSlots(w)) + 1
    BY <2>2, <2>3, LiveFinite, Zenon DEF Counting
  <2>5. Range(freelist'[w]) = Slots \ LiveSlots(w)' BY <1>7, <2>1, <2>3, Zenon
  <2>6. Len(freelist'[w]) = NSlots - inflight'[w]
    <3>1. Len(fl) = NSlots - inflight[w] BY Zenon DEF Local, Conserved
    <3>2. inflight[w] \in Nat /\ NSlots \in Nat
      BY LocalNumbers, EngineAssumption, Zenon DEF Numbers
    <3> QED BY <1>6, <1>7, <3>1, <3>2
  <2> QED BY <1>6, <2>1, <2>4, <2>5, <2>6, Zenon DEF Conserved
<1>9. Owed(w)' = Owed(w)
  <2>1. B(hand[w]) = 1 /\ B(pending[w]) = 0 /\ B(hand[w])' = 0 /\ B(pending[w])' = 0
    BY <1>1, <1>3, Zenon DEF B
  <2>2. inflight[w] \in Nat BY LocalNumbers, Zenon DEF Numbers
  <2>3. Owed(w) = inflight[w] + 1 + 0 /\ Owed(w)' = inflight'[w] + 0 + 0 BY <2>1, Zenon DEF Owed
  <2> QED BY <1>6, <2>2, <2>3
<1>10. Settled(w)' = Settled(w) BY <1>4, Zenon DEF Settled, SameStats
<1>11. Room(w)' /\ Balance(w)' /\ dropped'[w] = 0
  BY <1>4, <1>9, <1>10, Zenon DEF Local, WorkerInv, Room, Balance, SameRing, SameStats
<1>12. Placed(w)' BY <1>3, Zenon DEF Placed
<1>13. Local(w)' BY <1>7, <1>8, <1>11, <1>12, LocalParts, Zenon
<1> QED BY <1>5, <1>13, OneWorker, Zenon

\* A local shortage: the job in hand is retained, and still owed.
LEMMA LocalRetry ==
  ASSUME Counting, TypeOK, \A v \in Workers : Local(v), NEW w \in Workers, LaunchRetry(w)
  PROVE  \A v \in Workers : Local(v)'
<1>1. /\ wpc[w] = "launch" /\ hand[w] # NoJob /\ pending[w] = NoJob
      /\ hand'[w] = NoJob /\ pending'[w] = hand[w] /\ wpc'[w] = "filled"
      /\ UNCHANGED <<slotVars, ringVars, stats>>
      /\ \A u \in Workers \ {w} : SameJobs(u) /\ SamePlace(u)
  BY Zenon DEF LaunchRetry, Goto, TypeOK, TypePc, TypeJob, SameJobs, SamePlace, Local, WorkerInv
<1>2. \A u \in Workers : SameSlots(u) /\ SameRing(u) /\ SameStats(u)
  BY <1>1, Zenon DEF SameSlots, SameRing, SameStats, slotVars, ringVars, stats
<1>3. \A u \in Workers \ {w} : Untouched(u) BY <1>1, <1>2, Zenon DEF Untouched
<1>4. Owed(w)' = Owed(w)
  <2>1. B(hand[w]) = 1 /\ B(pending[w]) = 0 /\ B(hand[w])' = 0 /\ B(pending[w])' = 1
    BY <1>1, Zenon DEF B
  <2> QED BY <1>2, <2>1, LocalNumbers, SMTT(60) DEF Owed, Numbers, SameSlots
<1>5. Settled(w)' = Settled(w) BY <1>2, Zenon DEF Settled, SameStats
<1>6. Room(w)' /\ Balance(w)' /\ dropped'[w] = 0
  BY <1>2, <1>4, <1>5 DEF Local, WorkerInv, Room, Balance, SameRing, SameStats
<1>7. Placed(w)' BY <1>1, Zenon DEF Placed
<1>8. Local(w)' BY <1>2, <1>6, <1>7, SlotsKept, LocalParts, Zenon
<1> QED BY <1>3, <1>8, OneWorker, Zenon

\* probe_launch with each of its results.
LEMMA LocalLaunch ==
  ASSUME Counting, TypeOK, \A v \in Workers : Local(v), NEW w \in Workers, Launch(w)
  PROVE  hand[w] # NoJob /\ \A v \in Workers : Local(v)'
<1>1. wpc[w] = "launch"
  <2>1. CASE LaunchOk(w) BY <2>1, Zenon DEF LaunchOk
  <2>2. CASE LaunchRetry(w) BY <2>2, Zenon DEF LaunchRetry
  <2>3. CASE LaunchAbandon(w) BY <2>3, Zenon DEF LaunchAbandon
  <2>4. ASSUME NEW isLocal \in BOOLEAN, LaunchEnds(w, isLocal) PROVE wpc[w] = "launch"
    BY <2>4, Zenon DEF LaunchEnds
  <2> QED BY <2>1, <2>2, <2>3, <2>4, Zenon DEF Launch
<1>2. /\ hand[w] # NoJob /\ hand[w] \in Idx /\ pending[w] = NoJob
      /\ wpc \in [Workers -> WorkerPc] /\ hand \in [Workers -> JobOrNone]
      /\ pending \in [Workers -> JobOrNone]
  BY <1>1, Zenon DEF Local, WorkerInv, TypeOK, TypeJob, TypePc, JobOrNone
<1>3. ASSUME NEW isLocal \in BOOLEAN, Complete(w, hand[w], isLocal), ForgetPending(w),
             Goto(w, "fill"), UNCHANGED slotVars
      PROVE  \A v \in Workers : Local(v)'
  <2>1. /\ hand'[w] = NoJob /\ pending'[w] = NoJob /\ wpc'[w] = "fill"
        /\ \A v \in Workers \ {w} : SameJobs(v) /\ SamePlace(v)
    BY <1>2, <1>3, Zenon DEF ForgetPending, Goto, SameJobs, SamePlace
  <2> QED BY <1>2, <1>3, <2>1, LocalEnds, Zenon
<1>4. ASSUME NEW isLocal \in BOOLEAN, LaunchEnds(w, isLocal)
      PROVE  \A v \in Workers : Local(v)'
  <2>1. /\ Complete(w, hand[w], isLocal) /\ ForgetPending(w) /\ Goto(w, "fill")
        /\ UNCHANGED slotVars
    BY <1>4, Zenon DEF LaunchEnds
  <2> QED BY <1>3, <2>1, Zenon
<1>5. CASE LaunchAbandon(w)
  <2>1. ForgetPending(w) /\ Goto(w, "fill") /\ UNCHANGED slotVars
    BY <1>5, Zenon DEF LaunchAbandon
  <2>2. Complete(w, hand[w], TRUE) BY <1>5, Zenon DEF LaunchAbandon
  <2>3. \E isLocal \in BOOLEAN : Complete(w, hand[w], isLocal) BY <2>2, Zenon
  <2>4. PICK isLocal \in BOOLEAN : Complete(w, hand[w], isLocal) BY <2>3, Zenon
  <2>5. /\ hand'[w] = NoJob /\ pending'[w] = NoJob /\ wpc'[w] = "fill"
        /\ \A v \in Workers \ {w} : SameJobs(v) /\ SamePlace(v)
    BY <1>2, <2>1, Zenon DEF ForgetPending, Goto, SameJobs, SamePlace
  <2> QED BY <1>2, <2>1, <2>4, <2>5, LocalEnds, Zenon
<1> QED BY <1>2, <1>4, <1>5, LocalLaunchOk, LocalRetry, Zenon DEF Launch

\* probe_release puts a live slot back on the freelist.
LEMMA LocalFinish ==
  ASSUME Counting, TypeOK, \A v \in Workers : Local(v), NEW w \in Workers, NEW s \in Slots,
         slot[w][s] # NoJob, NEW isLocal \in BOOLEAN, Finish(w, s, isLocal),
         UNCHANGED <<wpc, hand, pending>>
  PROVE  \A v \in Workers : Local(v)'
<1> DEFINE fl == freelist[w]
<1>1. /\ fl \in Seq(Slots) /\ slot[w][s] \in Idx /\ s \in LiveSlots(w)
      /\ slot[w] \in [Slots -> JobOrNone]
      /\ \A j, k \in DOMAIN fl : j # k => fl[j] # fl[k]
      /\ Range(fl) = Slots \ LiveSlots(w)
  <2>1. fl \in Seq(Slots) /\ slot[w] \in [Slots -> JobOrNone] BY Zenon DEF TypeOK, TypeSlot
  <2>2. slot[w][s] \in Idx /\ s \in LiveSlots(w) BY <2>1, Zenon DEF JobOrNone, LiveSlots
  <2> QED BY <2>1, <2>2, Zenon DEF Local, WorkerInv, Conserved
<1>2. /\ Complete(w, slot[w][s], isLocal)
      /\ slot' = [slot EXCEPT ![w][s] = NoJob]
      /\ freelist' = [freelist EXCEPT ![w] = Append(fl, s)]
      /\ inflight' = [inflight EXCEPT ![w] = @ - 1]
  BY Zenon DEF Finish
<1>3. /\ freelist'[w] = Append(fl, s) /\ inflight'[w] = inflight[w] - 1
      /\ slot'[w] = [slot[w] EXCEPT ![s] = NoJob]
      /\ \A v \in Workers \ {w} : SameSlots(v)
  BY <1>2, Zenon DEF TypeOK, TypeSlot, SameSlots
<1>4. /\ Len(freelist'[w]) = Len(fl) + 1 /\ Range(freelist'[w]) = Range(fl) \cup {s}
      /\ Distinct(w)' /\ freelist'[w] # << >>
  <2>1. Len(fl) \in Nat BY <1>1
  <2>2. /\ Len(freelist'[w]) = Len(fl) + 1 /\ Range(freelist'[w]) = Range(fl) \cup {s}
        /\ Distinct(w)'
    <3>1. s \notin Range(fl) BY <1>1, Zenon
    <3>2. LET m == Append(fl, s)
          IN  /\ Len(m) = Len(fl) + 1 /\ Range(m) = Range(fl) \cup {s}
              /\ \A j, k \in DOMAIN m : j # k => m[j] # m[k]
      <4> HIDE DEF fl
      <4> QED BY <1>1, <3>1, ListPush, Zenon
    <3> HIDE DEF fl
    <3> QED BY <1>3, <3>2, Zenon DEF Distinct
  <2> QED BY <2>1, <2>2, SMTT(60)
<1>5. Conserved(w)'
  <2> DEFINE L == LiveSlots(w)
  <2>1. L' = L \ {s} BY <1>1, <1>3, Zenon DEF LiveSlots
  <2>2. IsFiniteSet(L) /\ s \in L BY <1>1, LiveFinite, Zenon
  <2>3. Cardinality(L') = Cardinality(L) - 1
    <3> HIDE DEF L
    <3>1. Cardinality(L \ {s}) = IF s \in L THEN Cardinality(L) - 1 ELSE Cardinality(L)
      BY <2>2, Zenon DEF Counting
    <3> QED BY <2>1, <2>2, <3>1, Zenon
  <2>4. Range(freelist'[w]) = Slots \ L' BY <1>1, <1>4, <2>1, Zenon
  <2>5. Len(freelist'[w]) = NSlots - inflight'[w]
    <3>1. Len(fl) = NSlots - inflight[w] BY Zenon DEF Local, Conserved
    <3>2. inflight[w] \in Nat /\ NSlots \in Nat
      BY LocalNumbers, EngineAssumption, Zenon DEF Numbers
    <3> QED BY <1>3, <1>4, <3>1, <3>2, SMTT(60)
  <2>6. inflight[w] = Cardinality(L) BY Zenon DEF Local, Conserved
  <2> QED BY <1>3, <2>3, <2>4, <2>5, <2>6, Zenon DEF Conserved
<1>6. Owed(w) > 0 /\ Owed(w)' = Owed(w) - 1
  <2>1. inflight[w] > 0 /\ inflight[w] \in Nat BY <1>1, InflightNat, Zenon
  <2>2. B(hand[w])' = B(hand[w]) /\ B(pending[w])' = B(pending[w])
        /\ B(hand[w]) \in Nat /\ B(pending[w]) \in Nat
    BY Zenon DEF B
  <2> QED BY <1>3, <2>1, <2>2 DEF Owed
<1>7. /\ Room(w)' /\ Balance(w)' /\ dropped'[w] = 0
      /\ \A v \in Workers \ {w} : SameRing(v) /\ SameStats(v)
  BY <1>1, <1>2, <1>6, Settles
<1>8. Placed(w)' BY <1>4, Zenon DEF Placed, Local, WorkerInv
<1>9. Local(w)' BY <1>4, <1>5, <1>7, <1>8, LocalParts, Zenon
<1>10. \A v \in Workers \ {w} : Untouched(v)
  BY <1>3, <1>7, Zenon DEF Untouched, SameJobs, SamePlace
<1> QED BY <1>9, <1>10, OneWorker, Zenon

\* The reason given for a retained job that worker_retire reports.
LEMMA FatalEnds ==
  ASSUME fatal \in BOOLEAN, NEW w \in Workers, NEW i, Complete(w, i, fatal)
  PROVE  \E isLocal \in BOOLEAN : Complete(w, i, isLocal)
<1>1. CASE fatal = TRUE
  <2>1. Complete(w, i, TRUE) BY <1>1, Zenon DEF Complete, Bump
  <2> QED BY <2>1, Zenon
<1>2. CASE fatal = FALSE
  <2>1. Complete(w, i, FALSE) BY <1>2, Zenon DEF Complete, Bump
  <2> QED BY <2>1, Zenon
<1>3. fatal = TRUE \/ fatal = FALSE BY Zenon
<1> QED BY <1>1, <1>2, <1>3, Zenon

\* The rest of a chunk is a natural number of indices.
LEMMA TailNat ==
  ASSUME TypeClaim, NEW w \in Workers
  PROVE  Lost(w) \in Nat
<1>1. cur[w] \in Nat /\ end[w] \in Nat /\ Domain \in Nat BY EngineAssumption, Zenon DEF TypeClaim
<1> QED BY <1>1 DEF Lost

\* worker_retire, and the end of a probe in the event loop.
LEMMA LocalRetire ==
  ASSUME Counting, TypeOK, \A v \in Workers : Local(v), NEW w \in Workers,
         Retire(w) \/ \E s \in Slots : EndProbe(w, s)
  PROVE  \A v \in Workers : Local(v)'
<1>1. ASSUME NEW s \in Slots, NEW isLocal \in BOOLEAN, FinishProbe(w, s, isLocal)
      PROVE  \A v \in Workers : Local(v)'
  BY <1>1, LocalFinish, Zenon DEF FinishProbe, jobVars
<1>2. ASSUME NEW s \in Slots, RetireProbe(w, s) PROVE \A v \in Workers : Local(v)'
  <2>1. /\ slot[w][s] # NoJob /\ UNCHANGED <<wpc, hand, pending>>
    BY <1>2, Zenon DEF RetireProbe, jobVars
  <2>2. \E isLocal \in BOOLEAN : Finish(w, s, isLocal)
    <3>1. Finish(w, s, FALSE) BY <1>2, Zenon DEF RetireProbe
    <3> QED BY <3>1, Zenon
  <2>3. PICK isLocal \in BOOLEAN : Finish(w, s, isLocal) BY <2>2, Zenon
  <2> QED BY <2>1, <2>3, LocalFinish, Zenon
<1>3. CASE RetirePending(w)
  <2>1. /\ wpc[w] = "retire" /\ wpc' = [wpc EXCEPT ![w] = "retire_tail"]
        /\ UNCHANGED <<hand, slotVars>> /\ wpc \in [Workers -> WorkerPc]
        /\ pending \in [Workers -> JobOrNone]
    BY <1>3, Zenon DEF RetirePending, Goto, TypeOK, TypePc, TypeJob
  <2>2. CASE pending[w] # NoJob
    <3>1. pending[w] \in Idx BY <2>1, <2>2, Zenon DEF JobOrNone
    <3>2. \E isLocal \in BOOLEAN : Complete(w, pending[w], isLocal)
      <4>1. fatal \in BOOLEAN BY Zenon DEF TypeOK, TypeShared
      <4>2. Complete(w, pending[w], fatal) BY <1>3, <2>2, Zenon DEF RetirePending
      <4> QED BY <4>1, <4>2, FatalEnds, Zenon
    <3>3. PICK isLocal \in BOOLEAN : Complete(w, pending[w], isLocal) BY <3>2, Zenon
    <3>4. hand[w] = NoJob BY <2>1, Zenon DEF Local, WorkerInv
    <3>5. pending' = [pending EXCEPT ![w] = NoJob] BY <1>3, <2>2, Zenon DEF RetirePending
    <3>6. /\ hand'[w] = NoJob /\ pending'[w] = NoJob /\ wpc'[w] # "launch"
          /\ \A v \in Workers \ {w} : SameJobs(v) /\ SamePlace(v)
      BY <2>1, <3>4, <3>5, Zenon DEF SameJobs, SamePlace
    <3> QED BY <2>1, <2>2, <3>1, <3>3, <3>4, <3>6, LocalEnds, Zenon
  <2>3. CASE pending[w] = NoJob
    <3>1. UNCHANGED <<hand, pending, slotVars, ringVars,
                      claimed, completed, skipped, unattempted>>
      BY <1>3, <2>1, <2>3, Zenon DEF RetirePending, stats
    <3>2. \A v \in Workers : SamePlace(v) BY <2>1, Zenon DEF SamePlace
    <3> QED BY <3>1, <3>2, FrameAll, Zenon
  <2> QED BY <2>2, <2>3, Zenon
<1>4. CASE RetireTail(w)
  <2> DEFINE n == Lost(w)
  <2>1. /\ wpc[w] = "retire_tail" /\ wpc' = [wpc EXCEPT ![w] = "exit"]
        /\ UNCHANGED <<hand, pending, slotVars, ringVars, completed>>
        /\ claimed' = [claimed EXCEPT ![w] = @ + n]
        /\ \/ skipped' = [skipped EXCEPT ![w] = @ + n] /\ UNCHANGED unattempted
           \/ unattempted' = [unattempted EXCEPT ![w] = @ + n] /\ UNCHANGED skipped
    BY <1>4, Zenon DEF RetireTail, Goto, Bump, jobVars
  <2>2. n \in Nat BY TailNat, Zenon DEF TypeOK
  <2> HIDE DEF n
  <2>3. /\ wpc \in [Workers -> WorkerPc] /\ claimed \in [Workers -> Nat]
        /\ skipped \in [Workers -> Nat] /\ unattempted \in [Workers -> Nat]
    BY Zenon DEF TypeOK, TypePc, TypeStats
  <2>4. \A v \in Workers \ {w} : Untouched(v)
    BY <2>1, <2>3, Zenon DEF Untouched, SameSlots, SameRing, SameStats, SameJobs, SamePlace,
       slotVars, ringVars
  <2>5. SameSlots(w) /\ SameRing(w) /\ SameJobs(w) /\ SamePlace(w)
    BY <2>1, <2>3, Zenon DEF SameSlots, SameRing, SameJobs, SamePlace, slotVars, ringVars
  <2>6. Numbers(w) BY LocalNumbers, Zenon
  <2>7. Settled(w)' = Settled(w) + n
    <3>1. completed'[w] = completed[w] BY <2>1, Zenon
    <3>2. \/ skipped'[w] = skipped[w] + n /\ unattempted'[w] = unattempted[w]
          \/ skipped'[w] = skipped[w] /\ unattempted'[w] = unattempted[w] + n
      BY <2>1, <2>3, Zenon
    <3> QED BY <2>2, <2>6, <3>1, <3>2, SMTT(60) DEF Settled, Numbers
  <2>8. Owed(w)' = Owed(w) BY <2>5, Zenon DEF Owed, B, SameSlots, SameJobs
  <2>9. claimed'[w] = claimed[w] + n BY <2>1, <2>3, Zenon
  <2>10. Balance(w)' BY <2>2, <2>6, <2>7, <2>8, <2>9 DEF Balance, Numbers
  <2>11. Room(w)' /\ dropped'[w] = 0
    BY <2>5, <2>6, <2>8, Zenon DEF Room, Numbers, Local, SameRing
  <2>12. Placed(w)'
    BY <2>5, Zenon DEF Placed, Local, WorkerInv, SameSlots, SameJobs, SamePlace
  <2>13. Local(w)' BY <2>5, <2>10, <2>11, <2>12, SlotsKept, LocalParts, Zenon
  <2> QED BY <2>4, <2>13, OneWorker, Zenon
<1>5. CASE Exit(w) BY <1>5, LocalControl, Zenon
<1> QED BY <1>1, <1>2, <1>3, <1>4, <1>5, Zenon DEF Retire, EndProbe

\* The freelist that qn_engine_start builds names every slot once.
LEMMA FreshList ==
  LET fresh == [s \in Slots |-> NSlots + 1 - s]
  IN  /\ Len(fresh) = NSlots /\ Range(fresh) = Slots /\ DOMAIN fresh = Slots
      /\ \A j, k \in DOMAIN fresh : j # k => fresh[j] # fresh[k]
<1> DEFINE fresh == [s \in Slots |-> NSlots + 1 - s]
<1>1. DOMAIN fresh = Slots /\ Slots = 1..NSlots /\ NSlots \in Nat BY EngineAssumption, Zenon DEF Slots
<1>2. \A s \in Slots : NSlots + 1 - s \in Slots /\ NSlots + 1 - (NSlots + 1 - s) = s
  BY <1>1
<1>3. Len(fresh) = NSlots BY <1>1
<1>4. Range(fresh) = Slots BY <1>1, <1>2, ZenonT(40) DEF Range
<1>5. \A j, k \in Slots : j # k => NSlots + 1 - j # NSlots + 1 - k BY <1>1
<1> QED BY <1>1, <1>3, <1>4, <1>5

\* The fields qn_engine_init and qn_engine_start give a worker satisfy its
\* invariant.
LEMMA FreshWorker ==
  ASSUME Counting, NEW w \in Workers, hand[w] = NoJob, pending[w] = NoJob, wpc[w] # "launch",
         slot[w] = [s \in Slots |-> NoJob], inflight[w] = 0,
         freelist[w] = [s \in Slots |-> NSlots + 1 - s],
         ring[w] = << >>, dropped[w] = 0, claimed[w] = 0, completed[w] = 0,
         skipped[w] = 0, unattempted[w] = 0
  PROVE  Local(w)
<1>1. B(hand[w]) = 0 /\ B(pending[w]) = 0 BY Zenon DEF B
<1>2. Owed(w) = 0 BY <1>1 DEF Owed
<1>3. Settled(w) = 0 BY DEF Settled
<1>4. LiveSlots(w) = {} BY Zenon DEF LiveSlots
<1>5. Cardinality(LiveSlots(w)) = 0 BY <1>4, Zenon DEF Counting
<1>6. Conserved(w)
  <2>1. Range(freelist[w]) = Slots \ LiveSlots(w) BY <1>4, FreshList, Zenon
  <2>2. Len(freelist[w]) = NSlots - inflight[w] BY FreshList, EngineAssumption
  <2> QED BY <1>5, <2>1, <2>2, Zenon DEF Conserved
<1>7. WorkerInv(w)
  <2>1. Len(ring[w]) + Owed(w) < RCap BY <1>2, EngineAssumption
  <2>2. \A j, k \in DOMAIN freelist[w] : j # k => freelist[w][j] # freelist[w][k]
    BY FreshList
  <2> QED BY <2>1, <2>2, Zenon DEF WorkerInv
<1>8. Balance(w) BY <1>2, <1>3 DEF Balance
<1> QED BY <1>6, <1>7, <1>8, Zenon DEF Local

\* qn_engine_start resets a worker that is not running.
LEMMA LocalReset ==
  ASSUME Counting, TypeOK, \A v \in Workers : Local(v), NEW w \in Workers, wpc[w] # "launch",
         ResetWorker(w), UNCHANGED hand, \A v \in Workers : SamePlace(v)
  PROVE  \A v \in Workers : Local(v)'
<1>1. \A v \in Workers \ {w} : Untouched(v)
  BY Zenon DEF ResetWorker, ResetStats, Untouched, SameSlots, SameRing, SameStats, SameJobs,
     TypeOK, TypeJob, TypeSlot, TypeRing, TypeStats
<1>2. /\ pending'[w] = NoJob /\ slot'[w] = [s \in Slots |-> NoJob]
      /\ freelist'[w] = [s \in Slots |-> NSlots + 1 - s] /\ inflight'[w] = 0
      /\ ring'[w] = << >> /\ dropped'[w] = 0 /\ claimed'[w] = 0 /\ completed'[w] = 0
      /\ skipped'[w] = 0 /\ unattempted'[w] = 0
  BY Zenon DEF ResetWorker, ResetStats, TypeOK, TypeJob, TypeSlot, TypeRing, TypeStats
<1>3. hand'[w] = NoJob /\ wpc'[w] # "launch" BY Zenon DEF Local, WorkerInv, SamePlace
<1>4. Local(w)'
  <2>1. (/\ hand[w] = NoJob /\ pending[w] = NoJob /\ wpc[w] # "launch"
         /\ slot[w] = [s \in Slots |-> NoJob] /\ inflight[w] = 0
         /\ freelist[w] = [s \in Slots |-> NSlots + 1 - s]
         /\ ring[w] = << >> /\ dropped[w] = 0 /\ claimed[w] = 0 /\ completed[w] = 0
         /\ skipped[w] = 0 /\ unattempted[w] = 0)'
    BY <1>2, <1>3, Zenon
  <2> QED BY <2>1, FreshWorker, PTL
<1> QED BY <1>1, <1>4, OneWorker, Zenon

\* qn_engine_poll only shortens a ring.
LEMMA LocalPoll ==
  ASSUME Counting, TypeOK, \A v \in Workers : Local(v), NEW w \in Workers, NEW n \in 1..RCap, Poll(w, n)
  PROVE  \A v \in Workers : Local(v)'
<1>1. /\ n \in 1..Len(ring[w]) /\ ring[w] \in Seq(Idx) /\ Len(ring[w]) \in Nat
      /\ ring' = [ring EXCEPT ![w] = SubSeq(ring[w], n + 1, Len(ring[w]))]
      /\ UNCHANGED <<wpc, hand, pending, slot, freelist, inflight, dropped,
                     claimed, completed, skipped, unattempted>>
  BY DEF Poll, TypeOK, TypeRing, jobVars, slotVars, stats
<1>2. \A v \in Workers : SameSlots(v) /\ SameStats(v) /\ SameJobs(v) /\ SamePlace(v)
  BY <1>1, Zenon DEF SameSlots, SameStats, SameJobs, SamePlace
<1>3. \A v \in Workers \ {w} : Untouched(v)
  BY <1>1, <1>2, Zenon DEF Untouched, SameRing, TypeOK, TypeRing
<1>4. Owed(w)' = Owed(w) /\ Settled(w)' = Settled(w)
  BY <1>2, Zenon DEF Owed, Settled, B, SameSlots, SameStats, SameJobs
<1>5. ring'[w] = SubSeq(ring[w], n + 1, Len(ring[w])) BY <1>1, Zenon DEF TypeOK, TypeRing
<1>6. Len(ring'[w]) = Len(ring[w]) - n BY <1>1, <1>5
<1>7. Numbers(w) BY LocalNumbers, Zenon
<1>8. Room(w)' BY <1>1, <1>4, <1>6, <1>7, SMTT(30) DEF Room, Numbers
<1>9. Balance(w)' BY <1>2, <1>4, <1>7, Zenon DEF Balance, Numbers, SameStats
<1>10. Placed(w)' /\ dropped'[w] = 0
  BY <1>1, Zenon DEF Placed, Local, WorkerInv
<1>11. Local(w)' BY <1>2, <1>8, <1>9, <1>10, SlotsKept, LocalParts, Zenon
<1> QED BY <1>3, <1>11, OneWorker, Zenon

-----------------------------------------------------------------------------
(* The owner's own steps, and where the threads stand.                          *)

\* A worker that takes a step is running before and is not reset by it.
LEMMA WorkerPlace ==
  ASSUME TypeOK, NEW w \in Workers, Worker(w)
  PROVE  /\ wpc[w] \notin {"off", "dead"} /\ UNCHANGED <<owner, spawned>>
         /\ \A v \in Workers \ {w} : wpc'[v] = wpc[v]
<1> DEFINE P == /\ wpc[w] \notin {"off", "dead"} /\ UNCHANGED <<owner, spawned>>
                /\ \A v \in Workers \ {w} : wpc'[v] = wpc[v]
<1>0. wpc \in [Workers -> WorkerPc] BY Zenon DEF TypeOK, TypePc
<1> USE DEF Goto, ownerVars
<1>1. CASE LoopTop(w) BY <1>0, <1>1, Zenon DEF LoopTop
<1>2. CASE Fill(w)
  BY <1>0, <1>2, Zenon DEF Fill, FillReturn, TakePending, ClaimPastDomain, ClaimJob, ClaimDeclined,
     MayClaim, MayFill
<1>3. CASE Launch(w)
  <2>1. CASE LaunchOk(w) BY <1>0, <2>1, Zenon DEF LaunchOk
  <2>2. CASE LaunchRetry(w) BY <1>0, <2>2, Zenon DEF LaunchRetry
  <2>3. CASE LaunchAbandon(w) BY <1>0, <2>3, Zenon DEF LaunchAbandon
  <2>4. ASSUME NEW isLocal \in BOOLEAN, LaunchEnds(w, isLocal) PROVE P
    BY <1>0, <2>4, Zenon DEF LaunchEnds
  <2> QED BY <1>3, <2>1, <2>2, <2>3, <2>4, Zenon DEF Launch
<1>4. CASE Wait(w)
  <2>1. CASE BreakDrained(w) BY <1>0, <2>1, Zenon DEF BreakDrained
  <2>2. CASE WaitReturns(w) BY <1>0, <2>2, Zenon DEF WaitReturns
  <2>3. CASE WaitFails(w) BY <1>0, <2>3, Zenon DEF WaitFails
  <2>4. CASE EventsDone(w) BY <1>0, <2>4, Zenon DEF EventsDone
  <2>5. ASSUME NEW s \in Slots, NEW isLocal \in BOOLEAN, FinishProbe(w, s, isLocal) PROVE P
    BY <1>0, <2>5, Zenon DEF FinishProbe
  <2> QED BY <1>4, <2>1, <2>2, <2>3, <2>4, <2>5, Zenon DEF Wait
<1>5. CASE Fatal(w) BY <1>0, <1>5, Zenon DEF Fatal, FatalCas, FatalErrno, FatalFlag, FatalStop
<1>6. CASE Retire(w)
  <2>1. CASE RetirePending(w) BY <1>0, <2>1, Zenon DEF RetirePending
  <2>2. CASE RetireTail(w) BY <1>0, <2>2, Zenon DEF RetireTail
  <2>3. CASE Exit(w) BY <1>0, <2>3, Zenon DEF Exit
  <2>4. ASSUME NEW s \in Slots, RetireProbe(w, s) PROVE P BY <1>0, <2>4, Zenon DEF RetireProbe
  <2> QED BY <1>6, <2>1, <2>2, <2>3, <2>4, Zenon DEF Retire
<1> QED BY <1>1, <1>2, <1>3, <1>4, <1>5, <1>6, Zenon DEF Worker

\* Every step of a worker keeps the invariant.
LEMMA WorkerKeeps ==
  ASSUME Counting, TypeOK, OwnerInv, \A v \in Workers : Local(v), NEW w \in Workers, Worker(w)
  PROVE  OwnerInv' /\ \A v \in Workers : Local(v)'
<1>1. OwnerInv'
  <2>1. w \in Workers /\ wpc[w] \notin {"off", "dead"} BY WorkerPlace, Zenon
  <2>2. owner \notin {"idle", "drain", "closed"} BY <2>1, Zenon DEF OwnerInv
  <2>3. owner = "starting" => w \in spawned BY <2>1, Zenon DEF OwnerInv
  <2> QED BY <2>2, <2>3, WorkerPlace, Zenon DEF OwnerInv
<1>2. CASE LoopTop(w) BY <1>1, <1>2, LocalControl, Zenon
<1>3. CASE Fill(w)
  <2>1. CASE FillReturn(w) BY <1>1, <2>1, LocalControl, Zenon
  <2>2. CASE Draw(w)
    <3>2. \A v \in Workers : Local(v)'
      BY <2>2, LocalControl, LocalTake, LocalClaim, LocalDecline, Zenon DEF Draw
    <3> QED BY <1>1, <3>2, Zenon
  <2> QED BY <1>3, <2>1, <2>2, Zenon DEF Fill, Draw
<1>4. CASE Launch(w) BY <1>1, <1>4, LocalLaunch, Zenon
<1>5. CASE Wait(w)
  <2>1. CASE BreakDrained(w) \/ WaitReturns(w) \/ WaitFails(w) \/ EventsDone(w)
    BY <1>1, <2>1, LocalControl, Zenon
  <2>2. ASSUME NEW s \in Slots, EndProbe(w, s)
        PROVE  \A v \in Workers : Local(v)'
    BY <2>2, LocalRetire, Zenon
  <2> QED BY <1>1, <1>5, <2>1, <2>2, Zenon DEF Wait, EndProbe
<1>6. CASE Fatal(w) BY <1>1, <1>6, LocalControl, Zenon
<1>7. CASE Retire(w) BY <1>1, <1>7, LocalRetire, Zenon
<1> QED BY <1>2, <1>3, <1>4, <1>5, <1>6, <1>7, Zenon DEF Worker

\* Every step of the owner, and of the environment, keeps the invariant.
LEMMA OwnerKeeps ==
  ASSUME Counting, TypeOK, OwnerInv, \A v \in Workers : Local(v),
         Start \/ Finalize \/ (\E w \in Workers, n \in 1..RCap : Poll(w, n))
  PROVE  OwnerInv' /\ \A v \in Workers : Local(v)'
<1>0. wpc \in [Workers -> WorkerPc] /\ spawned \subseteq Workers
  BY Zenon DEF TypeOK, TypePc, TypeOwner
<1>1. ASSUME NEW w \in Workers, NEW n \in 1..RCap, Poll(w, n)
      PROVE  OwnerInv' /\ \A v \in Workers : Local(v)'
  <2>1. OwnerInv' BY <1>1, Zenon DEF Poll, ownerVars, OwnerInv
  <2> QED BY <1>1, <2>1, LocalPoll, Zenon
<1>2. CASE Finalize
  <2>1. /\ UNCHANGED <<wpc, spawned, hand, pending, slotVars, ringVars,
                       claimed, completed, skipped, unattempted>>
        /\ owner' # "starting"
        /\ owner' \in {"idle", "drain", "closed"} =>
             \/ owner = "drain" \/ \A w \in Workers : wpc[w] = "dead"
    BY <1>2, Zenon DEF Finalize, FinalizeDone, FinalizeCancel, Join, Settle, workerVars, jobVars, stats
  <2>2. OwnerInv' BY <2>1, Zenon DEF OwnerInv
  <2>3. \A v \in Workers : Local(v)' BY <2>1, FrameAll, Zenon DEF SamePlace
  <2> QED BY <1>2, <2>2, <2>3, Zenon
<1>3. CASE Start
  <2>1. CASE StartBegin
    <3>1. \A w \in Workers : wpc[w] \in {"off", "dead"} BY <2>1, Zenon DEF StartBegin, OwnerInv
    <3>2. /\ wpc' = [w \in Workers |-> "off"] /\ owner' = "starting"
          /\ UNCHANGED <<hand, pending, slotVars, ringVars,
                         claimed, completed, skipped, unattempted>>
      BY <2>1, Zenon DEF StartBegin, jobVars, stats
    <3>3. OwnerInv' BY <3>2, Zenon DEF OwnerInv
    <3>4. \A v \in Workers : Local(v)' BY <3>1, <3>2, FrameAll, Zenon DEF SamePlace
    <3> QED BY <3>3, <3>4, Zenon
  <2>2. ASSUME NEW w \in Workers, SpawnOk(w) PROVE OwnerInv' /\ \A v \in Workers : Local(v)'
    <3>1. /\ owner = "starting" /\ w \notin spawned /\ ResetWorker(w)
          /\ spawned' = spawned \cup {w} /\ UNCHANGED <<hand, owner>>
          /\ wpc' = [wpc EXCEPT ![w] = "loop"]
      BY <2>2, Zenon DEF SpawnOk, Goto
    <3>2. wpc[w] = "off" BY <3>1, Zenon DEF OwnerInv
    <3>3. \A v \in Workers : SamePlace(v) BY <1>0, <3>1, <3>2, Zenon DEF SamePlace
    <3>4. OwnerInv' BY <1>0, <3>1, Zenon DEF OwnerInv
    <3> QED BY <3>1, <3>2, <3>3, <3>4, LocalReset, Zenon
  <2>3. ASSUME NEW w \in Workers, SpawnFail(w) PROVE OwnerInv' /\ \A v \in Workers : Local(v)'
    <3>1. /\ owner = "starting" /\ w \notin spawned /\ ResetWorker(w)
          /\ owner' = "unwinding" /\ UNCHANGED <<hand, wpc>>
      BY <2>3, Zenon DEF SpawnFail
    <3>2. wpc[w] = "off" BY <3>1, Zenon DEF OwnerInv
    <3>3. \A v \in Workers : SamePlace(v) BY <3>1, Zenon DEF SamePlace
    <3>4. OwnerInv' BY <3>1, Zenon DEF OwnerInv
    <3> QED BY <3>1, <3>2, <3>3, <3>4, LocalReset, Zenon
  <2>4. CASE StartDone \/ Unwind
    <3>1. /\ UNCHANGED <<wpc, hand, pending, slotVars, ringVars,
                         claimed, completed, skipped, unattempted>>
          /\ owner' \in {"running", "failed"}
      BY <2>4, Zenon DEF StartDone, Unwind, workerVars, jobVars, stats
    <3>2. OwnerInv' BY <3>1, Zenon DEF OwnerInv
    <3>3. \A v \in Workers : Local(v)' BY <3>1, FrameAll, Zenon DEF SamePlace
    <3> QED BY <3>2, <3>3, Zenon
  <2> QED BY <1>3, <2>1, <2>2, <2>3, <2>4, Zenon DEF Start
<1> QED BY <1>1, <1>2, <1>3, Zenon

-----------------------------------------------------------------------------
(* The inductive invariant and what follows from it.                            *)

\* The inductive invariant, worker by worker.
LEMMA RoomParts == RoomInv <=> TypeOK /\ OwnerInv /\ \A w \in Workers : Local(w)
  BY Zenon DEF RoomInv, Local, Conserved, Balance, NoDrop, WorkerAccounting, SlotsConserved

\* The same of the next state.
LEMMA RoomPartsNext == TypeOK' /\ OwnerInv' /\ (\A w \in Workers : Local(w)') => RoomInv'
  BY Zenon DEF RoomInv, Local, Conserved, Balance, NoDrop, WorkerAccounting, SlotsConserved

\* qn_engine_init establishes the invariant.
LEMMA InitRoom ==
  ASSUME Counting, Init
  PROVE  RoomInv
<1>1. TypeOK
  <2>1. TypeShared
    <3>1. /\ cursor = 0 /\ alive = 0 /\ stopping = FALSE /\ stopCond = FALSE
          /\ fatal = FALSE /\ fatalErrno = FALSE /\ fatalWorker = NoWorker
      BY Zenon DEF Init
    <3>2. cursor \in Nat /\ alive \in Int BY <3>1
    <3>3. /\ stopping \in BOOLEAN /\ stopCond \in BOOLEAN
          /\ fatal \in BOOLEAN /\ fatalErrno \in BOOLEAN BY <3>1, Zenon
    <3> QED BY <3>1, <3>2, <3>3, Zenon DEF TypeShared
  <2>2. TypePc BY Zenon DEF Init, TypePc, WorkerPc
  <2>3. TypeClaim BY Zenon DEF Init, TypeClaim
  <2>4. TypeJob BY EngineAssumption DEF Init, TypeJob, JobOrNone
  <2>5. TypeSlot
    <3>1. [s \in Slots |-> NSlots + 1 - s] \in Seq(Slots)
      BY EngineAssumption DEF Slots
    <3>2. slot \in [Workers -> [Slots -> JobOrNone]] BY Zenon DEF Init, JobOrNone
    <3>3. freelist \in [Workers -> Seq(Slots)]
      <4> DEFINE fresh == [s \in Slots |-> NSlots + 1 - s]
      <4>1. freelist = [w \in Workers |-> fresh] BY Zenon DEF Init
      <4>2. fresh \in Seq(Slots) BY <3>1, Zenon
      <4> HIDE DEF fresh
      <4> QED BY <4>1, <4>2, Zenon
    <3>4. inflight \in [Workers -> Int] BY DEF Init
    <3> QED BY <3>2, <3>3, <3>4, Zenon DEF TypeSlot
  <2>6. TypeRing BY DEF Init, TypeRing
  <2>7. TypeStats BY Zenon DEF Init, TypeStats
  <2>8. TypeOwner BY Zenon DEF Init, TypeOwner, OwnerPc, NoFinal
  <2>9. TypeHistory BY Zenon DEF Init, TypeHistory
  <2> QED BY <2>1, <2>2, <2>3, <2>4, <2>5, <2>6, <2>7, <2>8, <2>9, Zenon DEF TypeOK
<1>2. OwnerInv BY Zenon DEF Init, OwnerInv
<1>3. ASSUME NEW w \in Workers PROVE Local(w)
  <2>1. /\ hand[w] = NoJob /\ pending[w] = NoJob /\ slot[w] = [s \in Slots |-> NoJob]
        /\ freelist[w] = [s \in Slots |-> NSlots + 1 - s] /\ inflight[w] = 0
        /\ ring[w] = << >> /\ dropped[w] = 0 /\ claimed[w] = 0 /\ completed[w] = 0
        /\ skipped[w] = 0 /\ unattempted[w] = 0 /\ wpc[w] = "off"
    BY Zenon DEF Init
  <2> QED BY <2>1, FreshWorker, Zenon
<1> QED BY <1>1, <1>2, <1>3, RoomParts, Zenon

\* A step that changes nothing keeps the invariant.
LEMMA StutterRoom ==
  ASSUME RoomInv, UNCHANGED vars, TypeOK'
  PROVE  RoomInv'
<1>1. TypeOK /\ OwnerInv /\ \A v \in Workers : Local(v) BY RoomParts, Zenon
<1>2. /\ UNCHANGED <<shared, wpc, wret, claimVars, jobVars, slotVars, ringVars, stats>>
      /\ UNCHANGED <<owner, spawned, status, final, runs, history>>
  BY Zenon DEF vars, workerVars, ownerVars
<1>4. OwnerInv' BY <1>1, <1>2, Zenon DEF OwnerInv
<1>5. \A v \in Workers : Local(v)' BY <1>1, <1>2, FrameAll, Zenon DEF SamePlace, jobVars, stats
<1> QED BY <1>4, <1>5, RoomPartsNext, Zenon

\* Every step of the engine keeps the invariant.
LEMMA NextRoom ==
  ASSUME Counting, RoomInv, [Next]_vars, TypeOK'
  PROVE  RoomInv'
<1>1. TypeOK /\ OwnerInv /\ \A v \in Workers : Local(v) BY RoomParts, Zenon
<1>2. ASSUME OwnerInv' /\ \A v \in Workers : Local(v)' PROVE RoomInv'
  BY <1>2, RoomPartsNext, Zenon
<1>3. ASSUME NEW w \in Workers, Worker(w) PROVE RoomInv' BY <1>1, <1>2, <1>3, WorkerKeeps, Zenon
<1>4. CASE Start \/ Finalize \/ (\E w \in Workers, n \in 1..RCap : Poll(w, n))
  BY <1>1, <1>2, <1>4, OwnerKeeps, Zenon
<1>5. CASE Finished BY <1>5, StutterRoom, Zenon DEF Finished
<1>6. CASE UNCHANGED vars BY <1>6, StutterRoom, Zenon
<1> QED BY <1>3, <1>4, <1>5, <1>6, Zenon DEF Next
=============================================================================
