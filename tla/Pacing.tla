------------------------------- MODULE Pacing -------------------------------
(***************************************************************************)
(* How fast one engine worker launches (net/engine.c): the token bucket of *)
(* --rate, the congestion window and the deadline it learns, and the cap   *)
(* the thermal governor puts on the window.  The probes themselves are     *)
(* Probe's and Engine's: here they only start and end.                     *)
(***************************************************************************)
EXTENDS Integers, FiniteSetsExt

CONSTANTS Configs,       \* [rate, workers, id, slots, adaptive, timeout, rtts, temps, ends]: the
                         \* last are what the network and the thermal zone may say (connect
                         \* times in microseconds and thousandths of a degree, 0 for neither)
                         \* and a bound on the probes that end
          Token,         \* 1024: what one attempt costs
          Second,        \* 1000 ms
          Delays,        \* how long a wait of the worker may last
          WindowFloor, StartWindow, \* 16 and 64
          CutInterval,   \* 200 ms
          Learned,       \* 16 samples before the deadline follows them
          DeadlineFloor, \* 120 ms
          ThermalPoll,   \* 3000 ms
          MaxWait,       \* 50 ms
          MaxClock, MaxRuns  \* bounds

VARIABLE pa

Least(a, b) == IF a < b THEN a ELSE b
Most(a, b) == IF a > b THEN a ELSE b
Clamp(v, lo, hi) == Least(Most(v, lo), hi)

\* qn_engine_start: the rate is split without remainder lost, and no more workers
\* than the rate are made (qn_engine_init).
Workers(c) == IF c.rate > 0 THEN Least(c.workers, c.rate) ELSE c.workers
RateOf(c, id) ==
  LET n == Workers(c) IN IF c.rate = 0 THEN 0 ELSE c.rate \div n + (IF id < c.rate % n THEN 1 ELSE 0)

NewAimd(c) ==
  LET wmax == Most(c.slots, 1)
      wmin == Least(WindowFloor, wmax)
      start == IF c.adaptive THEN Least(StartWindow, c.slots) ELSE c.slots
  IN [wmax |-> wmax, wmin |-> wmin, window |-> Clamp(start, wmin, wmax), deadline |-> c.timeout,
      floor |-> Least(DeadlineFloor, c.timeout), ok |-> 0, ewma |-> 0, base |-> 0,
      n |-> 0, timeouts |-> 0, cut |-> 0]

Retuned(a, ceiling) ==
  IF a.ok < Learned THEN a
  ELSE [a EXCEPT !.deadline = Clamp(Most((a.base \div 1000) * 6, (a.ewma \div 1000) * 3), a.floor, ceiling)]

\* aimd_cut: at most one cut in an interval.
Cut(a, num, den, now) ==
  IF now - a.cut < CutInterval THEN a
  ELSE [a EXCEPT !.window = Most(a.wmin, (@ * num) \div den), !.cut = now]

Pressure(a, now) == [a EXCEPT !.window = Most(a.wmin, (@ * 3) \div 5), !.cut = now]

Measured(a, rtt, ceiling) ==
  Retuned([a EXCEPT !.ewma = IF @ > 0 THEN (@ * 7 + rtt) \div 8 ELSE rtt,
                    !.base = IF @ = 0 \/ rtt < @ THEN rtt ELSE @,
                    !.ok = Least(@ + 1, 65535)], ceiling)

\* aimd_sample: a batch as long as the window decides.
Sample(a, rtt, timedout, now, ceiling) ==
  LET b == [a EXCEPT !.n = @ + 1, !.timeouts = IF timedout THEN @ + 1 ELSE @]
      m == IF ~timedout /\ rtt > 0 THEN Measured(b, rtt, ceiling) ELSE b
      d == CASE m.timeouts * 4 > m.n -> Cut(m, 4, 5, now)
             [] m.timeouts * 4 <= m.n /\ m.base > 0 /\ m.ewma > m.base * 2 -> Cut(m, 9, 10, now)
             [] OTHER -> [m EXCEPT !.window = Least(m.wmax, @ + 1 + @ \div 32)]
  IN IF m.n < m.window THEN m ELSE [d EXCEPT !.n = 0, !.timeouts = 0]

\* Mutant: whole tokens are added, and the remainder of the wait forgotten.
RefillWhole(p, now) ==
  IF p.rate = 0 \/ now <= p.ts THEN p
  ELSE [p EXCEPT !.tokens = Least(@ + (((now - p.ts) * p.rate) \div Second) * Token, p.rate * Token),
                 !.ts = now]

\* tokens_ready, before it answers.
Refill(p, now) ==
  IF p.rate = 0 \/ now <= p.ts THEN p
  ELSE [p EXCEPT !.tokens = Least(@ + ((now - p.ts) * p.rate * Token) \div Second, p.rate * Token),
                 !.ts = now]

Ready(p) == p.rate = 0 \/ p.tokens >= Token
Debited(p) == IF p.rate > 0 /\ p.tokens >= Token THEN [p EXCEPT !.tokens = @ - Token] ELSE p

WaitMs(p) ==
  LET den == p.rate * Token
  IN IF p.rate = 0 \/ p.tokens >= Token THEN 1
     ELSE Clamp(((Token - p.tokens) * Second + den - 1) \div den, 1, MaxWait)

\* The share of the window a temperature allows; between 65 and 70 degrees, the old one.
Share(temp, old) ==
  CASE temp >= 82000 -> 40 [] temp \in 76000..81999 -> 55 [] temp \in 70000..75999 -> 75
    [] temp <= 65000 -> 100 [] OTHER -> old

\* Two readings in a row must agree before the share moves.
Governed(p, pct) ==
  IF pct = p.pct THEN [p EXCEPT !.want = pct, !.agree = 0]
  ELSE IF pct # p.want THEN [p EXCEPT !.want = pct, !.agree = 1]
  ELSE IF p.agree + 1 < 2 THEN [p EXCEPT !.agree = @ + 1]
  ELSE [p EXCEPT !.agree = @ + 1, !.pct = pct]

\* thermal_update; asked is history: the share each of the last two readings allowed.
ThermalUpdate(p, now, temp) ==
  IF now < p.thermalNext THEN p
  ELSE LET q == [p EXCEPT !.thermalNext = now + ThermalPoll]
           pct == Share(temp, p.pct)
       IN IF temp = 0 THEN q
          ELSE [Governed(q, pct) EXCEPT !.asked = <<p.asked[2], pct>>, !.agree = Least(@, 2)]

EffectiveWindow(p) ==
  Least(p.a.window, Clamp((p.a.wmax * p.pct) \div 100, p.a.wmin, p.a.wmax))

Started(p, c, now) ==
  [p EXCEPT !.rate = RateOf(c, c.id), !.tokens = RateOf(c, c.id) * Token, !.ts = now,
            !.thermalNext = now, !.a = NewAimd(c), !.inflight = 0, !.wait = 0,
            !.credit = RateOf(c, c.id) * Token * Second]

\* qn_engine_init, then the first run; the clock has long left 0.  credit is the exact
\* bucket, in fractions of a token; short, swift and eager are what must never happen.
Init ==
  \E c \in Configs :
    pa = Started([c |-> c, now |-> CutInterval, rate |-> 0, tokens |-> 0, ts |-> 0, thermalNext |-> 0,
                  want |-> 0, agree |-> 0, pct |-> 100, asked |-> <<100, 100>>,
                  a |-> NewAimd(c), inflight |-> 0, wait |-> 0, credit |-> 0,
                  ends |-> 0, runs |-> 1, short |-> FALSE, swift |-> FALSE, eager |-> FALSE], c, CutInterval)

\* A launch of worker_fill: it may meet a local limit, which ends the filling.
Launched(p, now) == [Debited(p) EXCEPT !.inflight = @ + 1, !.credit = @ - Token * Second]
MayLaunch(p) == p.inflight < EffectiveWindow(p) /\ p.inflight < p.c.slots /\ Ready(p)

RECURSIVE Filled(_, _, _)
Filled(p, now, n) == IF n = 0 \/ ~MayLaunch(p) THEN p ELSE Filled(Launched(p, now), now, n - 1)

(***************************************************************************)
(* One turn of the worker: the clock has moved, the temperature is read    *)
(* when due, and launches go out until the window, the slots, the tokens   *)
(* or (here: at n) the task or a local limit says stop.                    *)
(***************************************************************************)
Turned(d, temp, n, limit) ==
  LET now == pa.now + d
      exact == Least(pa.credit + d * pa.rate * Token, pa.rate * Token * Second)
      p == Refill(ThermalUpdate([pa EXCEPT !.now = now, !.credit = exact], now, temp), now)
      f == Filled(p, now, n)
      g == IF limit THEN [f EXCEPT !.a = Pressure(@, now)] ELSE f
  IN [g EXCEPT !.wait = IF g.inflight = 0 THEN WaitMs(g) ELSE 0,
               !.short = pa.rate > 0 /\ ~Ready(p) /\ \/ pa.wait > 0 /\ pa.wait < MaxWait /\ d >= pa.wait
                                                     \/ d > 0 /\ p.tokens = pa.tokens,
               !.swift = g.pct # pa.pct /\ g.asked # <<g.pct, g.pct>>,
               !.eager = FALSE]

Turn ==
  \E d \in Delays, temp \in (IF pa.c.id = 0 THEN pa.c.temps ELSE {0}), n \in 0..2, limit \in BOOLEAN :
    /\ pa.now + d <= MaxClock
    /\ temp # 0 => pa.now + d >= pa.thermalNext
    /\ limit => n < 2 /\ MayLaunch(Filled(Refill(pa, pa.now + d), pa.now + d, n))
    /\ pa' = Turned(d, temp, n, limit)

\* A probe ends; probe_finish_obs samples what is not cancelled and not local.
Ended(rtt, timedout, counts) ==
  LET a == IF pa.c.adaptive /\ counts THEN Sample(pa.a, rtt, timedout, pa.now, pa.c.timeout) ELSE pa.a
      cut == a.window < pa.a.window
  IN [pa EXCEPT !.a = a, !.inflight = @ - 1, !.ends = @ + 1, !.wait = 0, !.short = FALSE,
                !.swift = FALSE, !.eager = cut /\ pa.now - pa.a.cut < CutInterval]

End ==
  /\ pa.inflight > 0 /\ pa.ends < pa.c.ends
  /\ \E rtt \in pa.c.rtts, timedout \in BOOLEAN, counts \in BOOLEAN :
       /\ timedout \/ ~counts => rtt = 0
       /\ ~counts => ~timedout
       /\ pa' = Ended(rtt, timedout, counts)

\* The next run of the same engine: the governor keeps its state, all else starts over.
Restart ==
  /\ pa.inflight = 0 /\ pa.runs < MaxRuns
  /\ pa' = [Started(pa, pa.c, pa.now) EXCEPT !.runs = @ + 1, !.short = FALSE,
                                             !.swift = FALSE, !.eager = FALSE]

Done == pa.now = MaxClock /\ UNCHANGED pa

Next == Turn \/ End \/ Restart \/ Done

TypeOK ==
  /\ pa.tokens \in 0..(pa.rate * Token) /\ pa.pct \in {40, 55, 75, 100}
  /\ pa.a.wmin >= 1 /\ pa.a.window \in pa.a.wmin..pa.a.wmax
  /\ pa.a.deadline \in pa.a.floor..pa.c.timeout

(***************************************************************************)
(* --rate is a promise in both directions.  The workers' shares add up to  *)
(* it; no sequence of turns, however the clock moves, launches more than a *)
(* bucket refilled without rounding allows; and rounding starves no one: a *)
(* worker short of a token gains with every millisecond, and has one after *)
(* the wait it asked for.  The window stays within its bounds and is cut   *)
(* by the network's failures at most once an interval, the learned         *)
(* deadline stays between floor and timeout, and one odd temperature never *)
(* moves the governor, not even across runs.                               *)
(***************************************************************************)
PacingInv ==
  /\ TypeOK
  /\ pa.c.rate > 0 => /\ MapThenSumSet(LAMBDA i : RateOf(pa.c, i), 0..(Workers(pa.c) - 1)) = pa.c.rate
                      /\ pa.rate > 0
                      /\ pa.tokens * Second <= pa.credit
  /\ EffectiveWindow(pa) >= 1
  /\ ~pa.short /\ ~pa.swift /\ ~pa.eager
=============================================================================
