------------------------------ MODULE TimeWheel ------------------------------
(* The timeout wheel of src/core/timewheel.c, one per worker, driven the way   *)
(* worker_main drives it: operations are called by one thread, with a clock     *)
(* that moves between the calls.  One iteration of the loop in qn_tw_expire is  *)
(* one step, so that a sweep that never ends is a behaviour of the model.       *)
EXTENDS Integers, Sequences, SequencesExt, FiniteSets

CONSTANTS Nodes,
          SLOTS, TICK,   \* QN_TW_SLOTS, QN_TW_TICK_MS
          Loads,         \* [delays, stall]: the delays the callers ask for, in ms, and
                         \* how far, in ms, the sweep may fall behind the clock
          MaxClock       \* bound on the clock

WheelParameters == /\ SLOTS \in Nat /\ SLOTS > 2 /\ TICK \in Nat \ {0}
                   /\ \A l \in Loads : l.delays \subseteq Nat /\ l.stall \in Nat
                   /\ MaxClock \in Nat

SPAN == SLOTS * TICK
NoSweep == -1

VARIABLES clock,          \* what qn_now_ms would return
          nowMs,          \* w->now_ms
          cursor,         \* w->cursor_tick
          slot,           \* w->slot[]: each list, head first
          deadline,       \* n->deadline_ms
          armed,          \* w->armed
          sweep,          \* now_tick of the qn_tw_expire in progress, or NoSweep
          rearmed,        \* history: nodes this sweep has put back
          load            \* which of Loads this worker is under

vars == <<clock, nowMs, cursor, slot, deadline, armed, sweep, rearmed, load>>

Highest(a, b) == IF a > b THEN a ELSE b
CeilTick(ms) == (ms + TICK - 1) \div TICK
Clamp(after) == IF after > SPAN - 2 * TICK THEN SPAN - 2 * TICK ELSE after
In(n) == {s \in DOMAIN slot : n \in ToSet(slot[s])}
IsArmed(n) == In(n) # {}
ArmedNodes == {n \in Nodes : IsArmed(n)}

\* qn_tw_init
Init == /\ clock = 0 /\ nowMs = 0 /\ cursor = 0
        /\ slot = [s \in 0..(SLOTS - 1) |-> << >>]
        /\ deadline = [n \in Nodes |-> 0]
        /\ armed = 0 /\ sweep = NoSweep /\ rearmed = {}
        /\ load \in Loads

-----------------------------------------------------------------------------
\* The lists without n, as qn_tw_disarm leaves them.
Unlinked(n) == [s \in DOMAIN slot |-> SelectSeq(slot[s], LAMBDA m : m # n)]

\* Mutant: the long-deadline clamp is missing.
UnclampedSlot(now, after) == CeilTick(now + after) % SLOTS
\* The slot qn_tw_arm links a node into.
SlotFor(now, after) == CeilTick(now + Clamp(after)) % SLOTS

\* qn_tw_arm from a wheel that reads now: unlink, then push on the slot's list.
Link(n, now, after) ==
  /\ slot' = [Unlinked(n) EXCEPT ![SlotFor(now, after)] = <<n>> \o @]
  /\ deadline' = [deadline EXCEPT ![n] = now + after]

Arm(n, after) ==
  /\ sweep = NoSweep
  /\ nowMs' = Highest(nowMs, clock)
  /\ Link(n, nowMs', after)
  /\ armed' = IF IsArmed(n) THEN armed ELSE armed + 1
  /\ UNCHANGED <<clock, cursor, sweep, rearmed>>

Disarm(n) ==
  /\ sweep = NoSweep /\ IsArmed(n)
  /\ slot' = Unlinked(n)
  /\ armed' = armed - 1
  /\ UNCHANGED <<clock, nowMs, cursor, deadline, sweep, rearmed>>

-----------------------------------------------------------------------------
\* qn_tw_expire up to its loop.  `now` was read before the events of this
\* iteration were dispatched, so it may be older than w->now_ms.
ExpireBegin(now) ==
  /\ sweep = NoSweep
  /\ nowMs' = Highest(nowMs, now)
  /\ sweep' = nowMs' \div TICK
  /\ cursor' = IF sweep' >= cursor + SLOTS THEN sweep' - (SLOTS - 1) ELSE cursor
  /\ rearmed' = {}
  /\ UNCHANGED <<clock, slot, deadline, armed>>

AtCursor == slot[cursor % SLOTS]

NotDue(n) == deadline[n] > nowMs

\* A node met before its time is disarmed and armed again for what remains.
SweepRearm ==
  /\ sweep # NoSweep /\ AtCursor # << >>
  /\ LET n == Head(AtCursor) IN
       /\ NotDue(n)
       /\ Link(n, nowMs, deadline[n] - nowMs)
       /\ rearmed' = rearmed \cup {n}
  /\ UNCHANGED <<clock, nowMs, cursor, armed, sweep>>

\* A due node is unlinked and returned; the caller will call again.
SweepFire ==
  /\ sweep # NoSweep /\ AtCursor # << >>
  /\ LET n == Head(AtCursor) IN
       /\ ~NotDue(n)
       /\ slot' = Unlinked(n)
       /\ armed' = armed - 1
  /\ sweep' = NoSweep
  /\ UNCHANGED <<clock, nowMs, cursor, deadline, rearmed>>

SweepAdvance ==
  /\ sweep # NoSweep /\ AtCursor = << >> /\ cursor < sweep
  /\ cursor' = cursor + 1
  /\ UNCHANGED <<clock, nowMs, slot, deadline, armed, sweep, rearmed>>

SweepCaughtUp ==
  /\ sweep # NoSweep /\ AtCursor = << >> /\ cursor >= sweep
  /\ sweep' = NoSweep
  /\ UNCHANGED <<clock, nowMs, cursor, slot, deadline, armed, rearmed>>

Sweep == /\ SweepRearm \/ SweepFire \/ SweepAdvance \/ SweepCaughtUp
         /\ UNCHANGED load

\* Time passes; the worker comes round to its sweep often enough for its load.
Elapse(d) ==
  /\ sweep = NoSweep
  /\ clock + d <= MaxClock
  /\ clock + d - cursor * TICK <= load.stall
  /\ clock' = clock + d
  /\ UNCHANGED <<nowMs, cursor, slot, deadline, armed, sweep, rearmed>>

Next == \/ /\ \/ \E n \in Nodes : Disarm(n) \/ \E after \in load.delays : Arm(n, after)
              \/ \E now \in {clock, Highest(0, clock - TICK)} : ExpireBegin(now)
              \/ \E d \in 1..(2 * TICK) : Elapse(d)
           /\ UNCHANGED load
        \/ Sweep

\* A sweep is straight-line code of a running worker thread.
Spec == Init /\ [][Next]_vars /\ WF_vars(Sweep)

-----------------------------------------------------------------------------
\* Mutant: the look-ahead stops at the last whole tick of the cap.
WindowShort(now, cap) ==
  LET ticks == (now \div TICK)..(now \div TICK + cap \div TICK)
  IN UNION {ToSet(slot[t % SLOTS]) : t \in ticks}

\* qn_tw_next_timeout: how long the worker may sleep from `now`.
Window(now, cap) ==
  LET ahead == IF cap \div TICK + 2 > SLOTS THEN SLOTS ELSE cap \div TICK + 2
      ticks == (now \div TICK)..(now \div TICK + ahead - 1)
  IN UNION {ToSet(slot[t % SLOTS]) : t \in ticks}

NextTimeout(now0, cap) ==
  LET now  == Highest(now0, nowMs)
      due  == {deadline[n] : n \in Window(now, cap)}
      soon == CHOOSE d \in due : \A e \in due : d <= e
  IN IF armed = 0 THEN cap
     ELSE IF cursor < now \div TICK THEN 0
     ELSE IF due = {} THEN cap
     ELSE IF soon <= now THEN 0
     ELSE IF soon - now < cap THEN soon - now ELSE cap

-----------------------------------------------------------------------------
\* The type of the wheel's fields.
TypeOK == /\ clock \in 0..MaxClock /\ nowMs \in Nat /\ cursor \in Nat
          /\ slot \in [0..(SLOTS - 1) -> Seq(Nodes)]
          /\ deadline \in [Nodes -> Nat]
          /\ armed \in 0..Cardinality(Nodes)
          /\ sweep \in Nat \cup {NoSweep}
          /\ rearmed \subseteq Nodes

\* Linking and unlinking keep the lists a partition of the armed nodes, and the
\* count that lets qn_tw_next_timeout skip an empty wheel agrees with them.
ListsPartitionArmed ==
  /\ \A n \in Nodes : Cardinality(In(n)) <= 1
  /\ \A s \in DOMAIN slot : IsInjective(slot[s])
  /\ armed = Cardinality(ArmedNodes)

\* When qn_tw_expire reports that it is caught up, every node whose deadline lies
\* at or before the current tick has been returned, whatever wrapped, was clamped
\* or was re-armed on the way: no probe is left to outlive its deadline.
CaughtUpMeansNothingDue ==
  [][SweepCaughtUp => \A n \in ArmedNodes : deadline[n] > sweep * TICK]_vars

\* A sleep taken from qn_tw_next_timeout never carries the worker past a deadline.
NeverOversleeps ==
  sweep = NoSweep =>
    \A n \in ArmedNodes, cap \in {TICK, 2 * TICK + 1} :
      deadline[n] >= Highest(clock, nowMs) =>
        Highest(clock, nowMs) + NextTimeout(clock, cap) <= deadline[n]

\* The wheel as qn_tw_arm, qn_tw_disarm and every turn of the loop in qn_tw_expire
\* leave it: whole lists, and a sleep that ends in time for what is in them.
WheelInv == TypeOK /\ ListsPartitionArmed /\ NeverOversleeps

\* "Re-arm lands strictly past now_tick, so the sweep terminates" (the comment in
\* qn_tw_expire): a node put back by this sweep is in no slot it has yet to visit.
RearmLandsPastNow ==
  sweep # NoSweep =>
    \A n \in rearmed, c \in cursor..sweep : n \notin ToSet(slot[c % SLOTS])

\* Every call of qn_tw_expire returns.
SweepTerminates == (sweep # NoSweep) ~> (sweep = NoSweep)

\* A sweep by qn_tw_expire comes to its end, and at its end nothing is overdue.
SweepIsPunctual == CaughtUpMeansNothingDue /\ SweepTerminates

\* A clamped deadline on a four-slot wheel, swept two ticks late.
LongAndLate == {[delays |-> {7}, stall |-> 4]}
=============================================================================
