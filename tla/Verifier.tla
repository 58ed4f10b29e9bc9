----------------------------- MODULE Verifier -----------------------------
(***************************************************************************)
(* The verification pass over the finalists (src/net/verify.c,             *)
(* qn_verify_run): one thread, a table of connection slots sized by        *)
(* qn_verify_plan_pools, an epoll loop that dials, handles events and      *)
(* sweeps deadlines, and a typed account of every candidate at the end.    *)
(* What happens inside one connection is the module VerifyConn; here an    *)
(* event moves a connection to a later stage, retires it, or stops the run *)
(* with an infrastructure failure.  Time is abstract: a sweep may find any *)
(* deadline passed.                                                        *)
(***************************************************************************)
EXTENDS Naturals, FiniteSets

CONSTANTS N,            \* candidates handed to the run
          Actives,      \* values of cfg.concurrency to try
          Stabilities,  \* values of cfg.stability_concurrency to try
          FdBudgets,    \* values verify_fd_budget may return
          WithIdle,     \* cfg.idle_ms # 0
          WithSocks     \* cfg.socks_enabled

VerifierParameters ==
    /\ N \in Nat \ {0}
    /\ Actives \subseteq Nat \ {0}
    /\ Stabilities \subseteq Nat
    /\ FdBudgets \subseteq Nat \ {0}
    /\ WithIdle \in BOOLEAN
    /\ WithSocks \in BOOLEAN

VARIABLES pc,        \* where the run is
          i,         \* index of the dial or sweep loop
          todo,      \* slots of the epoll batch still to be handled
          plan,      \* [active, stability, total]
          slot,      \* slot[s] = [st, idx, cls]
          next, live, done,         \* the run's counters
          activeLive, stabLive,     \* the pool's counters
          dialFailed,               \* a dial of this pass ended its candidate at once
          res,       \* res[k]: what is known of candidate k
          state,     \* status.state
          attempted, unattempted, cancelled,   \* status totals
          caller,    \* what the caller's result array holds
          progress,  \* the shared progress counter
          cancel     \* the shared cancel flag

pools  == <<activeLive, stabLive>>
counts == <<next, live, done>>
totals == <<attempted, unattempted, cancelled>>
vars == <<pc, i, todo, plan, slot, next, live, done, activeLive, stabLive,
          dialFailed, res, state, attempted, unattempted, cancelled, caller,
          progress, cancel>>

Cands == 1..N
Slots == 1..plan.total
Stages == {"connect", "socks_method", "socks_connect", "handshake", "body", "idle"}
Open(s) == slot[s].st \in Stages
NoSlot == [st |-> "free", idx |-> 0, cls |-> "none"]
Evidence == {"ended", "held"}           \* completed inside the loop
Typed == Evidence \cup {"cut", "cancelled", "unattempted"}

Least(a, b) == IF a < b THEN a ELSE b

(* qn_verify_plan_pools: how many transfers and how many holds may be live,   *)
(* and how many slots there are.                                              *)
PlanPools(active, stability, idle, candidates, fd) ==
    LET a == Least(Least(active, fd), candidates)
        s == Least(IF idle THEN stability ELSE 0, candidates)
        t == Least(Least(a + s, fd), candidates)
    IN  [active    |-> a,
         stability |-> IF t < candidates THEN t - a ELSE Least(s, t),
         total     |-> t]

Init ==
    /\ pc = "start" /\ i = 0 /\ todo = {}
    /\ plan = [active |-> 0, stability |-> 0, total |-> 0]
    /\ slot = << >>
    /\ next = 0 /\ live = 0 /\ done = 0
    /\ activeLive = 0 /\ stabLive = 0 /\ dialFailed = FALSE
    /\ res = [k \in Cands |-> "fresh"]
    /\ state = "COMPLETE"
    /\ attempted = 0 /\ unattempted = N /\ cancelled = 0
    /\ caller = "prior" /\ progress = 0 /\ cancel = FALSE

(***************************************************************************)
(* Set-up: allocation of the work array (its failure returns at once), the *)
(* first look at the cancel flag, the pool plan, epoll and the slot table. *)
(***************************************************************************)
SetUpFails ==
    /\ pc = "start"
    /\ state' = "INFRA"
    /\ pc' \in {"end", "out"}        \* before, or after, the work array exists
    /\ UNCHANGED <<i, todo, plan, slot, counts, pools, dialFailed, res, totals,
                   caller, progress, cancel>>

SetUp ==
    /\ pc = "start"
    /\ \/ /\ cancel
          /\ state' = "CANCELLED" /\ pc' = "out"
          /\ UNCHANGED <<plan, slot>>
       \/ /\ ~cancel
          /\ \E a \in Actives, s \in Stabilities, fd \in FdBudgets :
                plan' = PlanPools(a, IF s = 0 THEN 512 ELSE s, WithIdle, N, fd)
          /\ slot' = [s \in 1..plan'.total |-> NoSlot]
          /\ pc' = "top"
          /\ UNCHANGED state
    /\ UNCHANGED <<i, todo, counts, pools, dialFailed, res, totals, caller,
                   progress, cancel>>

(***************************************************************************)
(* Head of the loop: publish progress, then honour a cancellation.         *)
(***************************************************************************)
Top ==
    /\ pc = "top"
    /\ IF done < N
       THEN /\ progress' = done
            /\ IF cancel THEN state' = "CANCELLED" /\ pc' = "out"
                         ELSE pc' = "dial" /\ UNCHANGED state
       ELSE pc' = "out" /\ UNCHANGED <<progress, state>>
    /\ i' = 1 /\ dialFailed' = FALSE
    /\ UNCHANGED <<todo, plan, slot, counts, pools, res, totals, caller, cancel>>

(***************************************************************************)
(* The dial loop, one slot per step.                                       *)
(***************************************************************************)
DialMore == i \in Slots /\ next < N /\ activeLive < plan.active

DialSkip ==
    /\ pc = "dial" /\ DialMore /\ Open(i)
    /\ i' = i + 1
    /\ UNCHANGED <<pc, todo, plan, slot, counts, pools, dialFailed, res, state,
                   totals, caller, progress, cancel>>

DialConnects ==
    /\ pc = "dial" /\ DialMore /\ ~Open(i)
    /\ slot' = [slot EXCEPT ![i] = [st |-> "connect", idx |-> next + 1, cls |-> "active"]]
    /\ res' = [res EXCEPT ![next + 1] = "flying"]
    /\ next' = next + 1 /\ live' = live + 1 /\ activeLive' = activeLive + 1
    /\ i' = i + 1
    /\ UNCHANGED <<pc, todo, plan, done, stabLive, dialFailed, state, totals,
                   caller, progress, cancel>>

(* connect(2) refused, reset or unreachable at once: the candidate is ended    *)
(* without a connection and the slot is not used again in this pass.           *)
DialEndsAtOnce ==
    /\ pc = "dial" /\ DialMore /\ ~Open(i)
    /\ slot' = [slot EXCEPT ![i] = [st |-> "done", idx |-> next + 1, cls |-> "none"]]
    /\ res' = [res EXCEPT ![next + 1] = "ended"]
    /\ next' = next + 1 /\ done' = done + 1
    /\ dialFailed' = TRUE
    /\ i' = i + 1
    /\ UNCHANGED <<pc, todo, plan, live, pools, state, totals, caller, progress,
                   cancel>>

(* A local error of socket, connect or epoll_ctl(ADD): the run stops with the   *)
(* candidate attempted and not completed.                                      *)
DialStops ==
    /\ pc = "dial" /\ DialMore /\ ~Open(i)
    /\ \E st \in {"free", "connect"} :
          slot' = [slot EXCEPT ![i] = [st |-> st, idx |-> next + 1, cls |-> "none"]]
    /\ res' = [res EXCEPT ![next + 1] = "flying"]
    /\ next' = next + 1
    /\ state' = "INFRA" /\ pc' = "out"
    /\ UNCHANGED <<i, todo, plan, live, done, pools, dialFailed, totals, caller,
                   progress, cancel>>

DialEnd ==
    /\ pc = "dial" /\ ~DialMore
    /\ IF live > 0 THEN pc' = "wait" /\ UNCHANGED state
       ELSE IF next < N THEN pc' = "top" /\ UNCHANGED state
       ELSE pc' = "out" /\ state' = IF done < N THEN "INFRA" ELSE state
    /\ UNCHANGED <<i, todo, plan, slot, counts, pools, dialFailed, res, totals,
                   caller, progress, cancel>>

(***************************************************************************)
(* epoll_wait: interrupted, failed, or a batch of distinct connections.    *)
(***************************************************************************)
Wait ==
    /\ pc = "wait"
    /\ \/ /\ pc' = "top" /\ UNCHANGED <<todo, state>>
       \/ /\ pc' = "out" /\ state' = "INFRA" /\ UNCHANGED todo
       \/ /\ todo' \in SUBSET {s \in Slots : Open(s)}
          /\ pc' = "events" /\ UNCHANGED state
    /\ UNCHANGED <<i, plan, slot, counts, pools, dialFailed, res, totals, caller,
                   progress, cancel>>

(* retire_conn on a connection that has become c, whose pool counters were      *)
(* last seen as a and h: give the pool token back, close, count it done.        *)
Retire(s, c, a, h, how) ==
    /\ activeLive' = IF c.cls = "active" /\ a > 0 THEN a - 1 ELSE a
    /\ stabLive' = IF c.cls = "stab" /\ h > 0 THEN h - 1 ELSE h
    /\ slot' = [slot EXCEPT ![s] = [c EXCEPT !.st = "done", !.cls = "none"]]
    /\ res' = [res EXCEPT ![c.idx] = how]
    /\ live' = IF live > 0 THEN live - 1 ELSE live
    /\ done' = done + 1
    /\ UNCHANGED next

(* Entering the hold keeps the transfer's token.                               *)
StartIdleKeepsToken(c) ==
    IF WithIdle /\ stabLive < plan.stability
    THEN [conn |-> [c EXCEPT !.st = "idle", !.cls = "stab"],
          active |-> activeLive, stab |-> stabLive + 1]
    ELSE [conn |-> [c EXCEPT !.st = "idle", !.cls = "none"],
          active |-> activeLive, stab |-> stabLive]

(* start_idle: the transfer's token goes back, and the hold is admitted only    *)
(* while the stability pool has room.                                          *)
StartIdle(c) ==
    LET a == IF c.cls = "active" /\ activeLive > 0 THEN activeLive - 1 ELSE activeLive
    IN  IF WithIdle /\ stabLive < plan.stability
        THEN [conn |-> [c EXCEPT !.st = "idle", !.cls = "stab"],
              active |-> a, stab |-> stabLive + 1]
        ELSE [conn |-> [c EXCEPT !.st = "idle", !.cls = "none"],
              active |-> a, stab |-> stabLive]

(* The stages one event may take a connection to, itself included.  A          *)
(* handshake that completes with the answer already in the same read may go     *)
(* all the way to the hold.                                                    *)
Reaches(st) ==
    CASE st = "connect"       -> IF WithSocks THEN {"socks_method"} ELSE {"handshake"}
      [] st = "socks_method"  -> {"socks_method", "socks_connect"}
      [] st = "socks_connect" -> {"socks_connect", "handshake"}
      [] st = "handshake"     -> {"handshake", "body", "idle"}
      [] st = "body"          -> {"body", "idle"}
      [] st = "idle"          -> {"idle"}

(* What the handler of one event does before it decides to keep or retire.      *)
Advanced(c, st) ==
    IF st = "idle" /\ c.st # "idle" THEN StartIdle(c)
    ELSE [conn |-> [c EXCEPT !.st = st], active |-> activeLive, stab |-> stabLive]

EventFrame == UNCHANGED <<i, plan, dialFailed, totals, caller, progress, cancel>>

EventKeeps(s) ==
    /\ pc = "events" /\ s \in todo
    /\ \E st \in Reaches(slot[s].st) :
          LET r == Advanced(slot[s], st)
          IN  /\ slot' = [slot EXCEPT ![s] = r.conn]
              /\ activeLive' = r.active /\ stabLive' = r.stab
    /\ todo' = todo \ {s}
    /\ UNCHANGED <<pc, counts, res, state>> /\ EventFrame

(* A peer or path failure, before or after the stage changed in this event.     *)
EventRetires(s) ==
    /\ pc = "events" /\ s \in todo
    /\ \E st \in Reaches(slot[s].st) \cup {slot[s].st} :
          LET r == Advanced(slot[s], st)
          IN  Retire(s, r.conn, r.active, r.stab, "ended")
    /\ todo' = todo \ {s}
    /\ UNCHANGED <<pc, state>> /\ EventFrame

(* A local failure (getsockopt, epoll_ctl, a full output buffer) stops the run. *)
EventStops(s) ==
    /\ pc = "events" /\ s \in todo
    /\ state' = "INFRA" /\ pc' = "out"
    /\ todo' = {}
    /\ UNCHANGED <<slot, counts, pools, res>> /\ EventFrame

EventsEnd ==
    /\ pc = "events" /\ todo = {}
    /\ pc' = "sweep" /\ i' = 1
    /\ UNCHANGED <<todo, plan, slot, counts, pools, dialFailed, res, state, totals,
                   caller, progress, cancel>>

(***************************************************************************)
(* The sweep, one slot per step.  A connection in the idle stage that was  *)
(* not admitted has idle_until = idle_start, which has always passed.      *)
(***************************************************************************)
SweepFrame ==
    /\ i' = i + 1
    /\ UNCHANGED <<pc, todo, plan, dialFailed, state, totals, caller, progress, cancel>>

SweepKeeps ==
    /\ pc = "sweep" /\ i \in Slots
    /\ Open(i) => ~(slot[i].st = "idle" /\ slot[i].cls = "none")
    /\ UNCHANGED <<slot, counts, pools, res>> /\ SweepFrame

(* The sweep never ends a hold.                                                *)
SweepExpiresNotHeld(s) ==
    /\ pc = "sweep" /\ i = s /\ s \in Slots /\ Open(s) /\ slot[s].cls # "stab"
    /\ Retire(s, slot[s], activeLive, stabLive, "ended")
    /\ SweepFrame

SweepExpires(s) ==
    /\ pc = "sweep" /\ i = s /\ s \in Slots /\ Open(s)
    /\ Retire(s, slot[s], activeLive, stabLive,
              IF slot[s].st = "idle" /\ slot[s].cls = "stab" THEN "held" ELSE "ended")
    /\ SweepFrame

SweepEnd ==
    /\ pc = "sweep" /\ i \notin Slots
    /\ pc' = "top"
    /\ UNCHANGED <<i, todo, plan, slot, counts, pools, dialFailed, res, state,
                   totals, caller, progress, cancel>>

(***************************************************************************)
(* out: every candidate is typed, the totals settle, the slots are closed, *)
(* and the results are copied to the caller unless the run failed.         *)
(***************************************************************************)
FinalState == IF state = "COMPLETE" /\ done < N THEN "PARTIAL" ELSE state

FinishUp ==
    /\ pc = "out"
    /\ state' = FinalState
    /\ LET left == {k \in 1..next : res[k] \notin Evidence}
       IN  /\ res' = [k \in Cands |->
                        IF k > next THEN "unattempted"
                        ELSE IF k \in left
                             THEN IF state = "CANCELLED" THEN "cancelled" ELSE "cut"
                             ELSE res[k]]
           /\ cancelled' = Cardinality(left)
    /\ attempted' = next /\ unattempted' = N - next
    /\ progress' = done
    /\ slot' = [s \in Slots |-> NoSlot]
    /\ caller' = IF state = "INFRA" THEN caller ELSE "results"
    /\ pc' = "end"
    /\ UNCHANGED <<i, todo, plan, counts, pools, dialFailed, cancel>>

SetCancel ==
    /\ ~cancel /\ pc # "end" /\ cancel' = TRUE
    /\ UNCHANGED <<pc, i, todo, plan, slot, counts, pools, dialFailed, res, state,
                   totals, caller, progress>>

Ended == pc = "end" /\ UNCHANGED vars

Run ==
    \/ SetUpFails \/ SetUp \/ Top
    \/ DialSkip \/ DialConnects \/ DialEndsAtOnce \/ DialStops \/ DialEnd
    \/ Wait
    \/ \E s \in Slots : EventKeeps(s) \/ EventRetires(s) \/ EventStops(s)
    \/ EventsEnd
    \/ SweepKeeps \/ (\E s \in Slots : SweepExpires(s)) \/ SweepEnd
    \/ FinishUp

Next == Run \/ SetCancel \/ Ended

(* The thread keeps running, epoll_wait is not interrupted for ever, and every  *)
(* stage has a deadline that new input cannot push back without bound           *)
(* (overall_deadline, idle_until), so a connection the sweep keeps meeting is    *)
(* eventually found expired.                                                   *)
Fairness ==
    /\ WF_vars(Run)
    /\ SF_vars(Wait /\ pc' = "events")
    /\ \A s \in 1..N : SF_vars(SweepExpires(s))

Spec == Init /\ [][Next]_vars
FairSpec == Spec /\ Fairness

-----------------------------------------------------------------------------
(* The shape of the run's state.                                               *)
TypeOK ==
    /\ pc \in {"start", "top", "dial", "wait", "events", "sweep", "out", "end"}
    /\ i \in 0..N+1
    /\ plan \in [active : 0..N, stability : 0..N, total : 0..N]
    /\ slot \in [Slots -> [st : Stages \cup {"free", "done"}, idx : 0..N,
                           cls : {"none", "active", "stab"}]]
    /\ todo \subseteq Slots
    /\ next \in 0..N /\ live \in 0..N /\ done \in 0..N
    /\ activeLive \in 0..N /\ stabLive \in 0..N
    /\ dialFailed \in BOOLEAN /\ cancel \in BOOLEAN
    /\ res \in [Cands -> Typed \cup {"fresh", "flying"}]
    /\ state \in {"COMPLETE", "PARTIAL", "CANCELLED", "INFRA"}
    /\ attempted \in 0..N /\ unattempted \in 0..N /\ cancelled \in 0..N
    /\ caller \in {"prior", "results"} /\ progress \in 0..N

InClass(c) == {s \in Slots : slot[s].cls = c}

(* While the run is going, the pool counters are exactly the connections of     *)
(* each class and within the planned limits, every open connection carries a    *)
(* candidate of its own, and those are the candidates in flight: no retirement  *)
(* or hold loses or double-counts a token, whatever path a connection took.     *)
PoolsMatchSlots ==
    pc \in {"top", "dial", "wait", "events", "sweep"} =>
        /\ activeLive = Cardinality(InClass("active")) /\ activeLive <= plan.active
        /\ stabLive = Cardinality(InClass("stab")) /\ stabLive <= plan.stability
        /\ live = Cardinality({s \in Slots : Open(s)})
        /\ \A s, t \in Slots :
              Open(s) /\ Open(t) /\ slot[s].idx = slot[t].idx => s = t
        /\ {slot[s].idx : s \in {u \in Slots : Open(u)}}
              = {k \in Cands : res[k] = "flying"}
        /\ done = Cardinality({k \in Cands : res[k] \in Evidence})

(* Holds never keep a new handshake waiting: when the loop goes to sleep with   *)
(* candidates left to dial, every transfer token is in use, unless a dial of    *)
(* this very pass ended at once and left its slot for the next pass.            *)
HoldsNeverBlockDials ==
    pc = "wait" /\ next < N /\ ~dialFailed => activeLive = plan.active

(* The contract of qn_verify_status, and more: at the end every candidate is    *)
(* typed, the totals balance, a COMPLETE run has evidence on every candidate, a *)
(* run is never PARTIAL, and a failed run leaves the caller's results alone.    *)
EndIsAccounted ==
    pc = "end" =>
        /\ attempted + unattempted = N
        /\ done + cancelled = attempted
        /\ state # "PARTIAL"
        /\ state = "COMPLETE" =>
              caller = "results" /\ \A k \in Cands : res[k] \in Evidence
        /\ state = "CANCELLED" =>
              caller = "results" /\ \A k \in Cands : res[k] \in Typed \ {"cut"}
        /\ state = "INFRA" => caller = "prior"

(* A connection found in the hold without a token never outlives the sweep that *)
(* follows it: at the head of the loop a hold is an admitted hold.              *)
NoUnadmittedHold ==
    pc \in {"top", "dial", "wait"} =>
        \A s \in Slots : slot[s].st = "idle" =>
            slot[s].cls = "stab" \/ state = "INFRA"

(* What every dial, event and retirement of qn_verify_run keeps: pools that     *)
(* match the slots, no hold without a token, no dial kept waiting by a hold, and *)
(* books that balance at the end.                                              *)
PoolInv ==
    /\ TypeOK /\ PoolsMatchSlots /\ NoUnadmittedHold
    /\ HoldsNeverBlockDials /\ EndIsAccounted

(* Every run ends, cancelled or not.                                           *)
RunEnds == <>(pc = "end")
=============================================================================
