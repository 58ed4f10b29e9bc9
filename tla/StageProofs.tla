---------------------------- MODULE StageProofs ----------------------------
(* The books of the tunnel stage, for any number of scanners, threads,           *)
(* candidates, attempts and ports.  A worker's step moves its own record; what   *)
(* the candidates see of it is when it takes one and when it commits one.        *)
EXTENDS TunnelStage, TLAPS

(* The sizes of the stage. *)
LEMMA Sizes == Count \in Nat \ {0} /\ MaxAttempts \in Nat \ {0} /\ Span \in Nat \ {0}
BY StageAssumption, Zenon

\* What is used of the sizes of finite sets; it is proved last, from the library.
Counting ==
  /\ IsFiniteSet(All) /\ IsFiniteSet(Items) /\ Cardinality(Items) = Count /\ Cardinality({}) = 0
  /\ \A S : IsFiniteSet(S) => Cardinality(S) \in Nat
  /\ \A S, x : IsFiniteSet(S) /\ x \notin S => Cardinality(S \cup {x}) = Cardinality(S) + 1
  /\ \A S : IsFiniteSet(S) => \A T \in SUBSET S : IsFiniteSet(T)

\* What holds of one scanner, and a step that is not its own.
Proc(p) == (\A t \in All : WorkerOk(w[p][t], inherit[p][t])) /\ Crew(p) /\ Books(p)
Same(q) ==
  /\ stage'[q] = stage[q] /\ created'[q] = created[q] /\ outcome'[q] = outcome[q]
  /\ next'[q] = next[q] /\ rec'[q] = rec[q] /\ queued'[q] = queued[q] /\ passed'[q] = passed[q]
  /\ failed'[q] = failed[q] /\ skipped'[q] = skipped[q] /\ w'[q] = w[q] /\ inherit'[q] = inherit[q]

(* A scanner that a step does not touch keeps its part of the invariant. *)
LEMMA Kept ==
  ASSUME NEW q \in Procs, Proc(q), Same(q)
  PROVE  Proc(q)'
<1>1. Busy(q)' = Busy(q) /\ Finished(q)' = Finished(q) BY Zenon DEF Same, Busy, Finished
<1>2. \A s : Having(q, s)' = Having(q, s) BY Zenon DEF Same, Having
<1>3. \A t \in All : WorkerOk(w[q][t], inherit[q][t])' BY DEF Proc, Same, WorkerOk
<1>4. Crew(q)' BY <1>1 DEF Proc, Same, Crew
<1>5. Handed(q) => Handed(q)' BY <1>1 DEF Same, Handed
<1>6. Books(q)'
  <2>1. /\ Having(q, {"PASSED"})' = Having(q, {"PASSED"}) /\ Having(q, Fails)' = Having(q, Fails)
        /\ Having(q, Skips)' = Having(q, Skips)
    BY Zenon DEF Same, Having
  <2> QED BY <1>5, <2>1, Zenon DEF Proc, Same, Books
<1> QED BY <1>3, <1>4, <1>6, Zenon DEF Proc

(* A step of one scanner has to keep only the part of that scanner. *)
LEMMA OneScanner ==
  ASSUME StageIInv, StageTypes', NEW p \in Procs, Proc(p)', \A q \in Procs \ {p} : Same(q)
  PROVE  StageIInv'
<1>1. \A q \in Procs : Proc(q) BY Zenon DEF StageIInv, Proc
<1>2. \A q \in Procs \ {p} : Proc(q)' BY <1>1, Kept, Zenon
<1>3. \A q \in Procs : Proc(q)' BY <1>2, Zenon
<1> QED BY <1>3, Zenon DEF StageIInv, Proc

\* A worker's own step, and what a child of it does: everything but its record,
\* the ports its child holds, the sequence and the request to stop stays.
OwnMove(p, t, k, h) ==
  /\ w' = [w EXCEPT ![p][t] = k] /\ UNCHANGED pool
  /\ inherit' \in [Procs -> [All -> SUBSET Ports]] /\ inherit'[p][t] = h
  /\ \A u \in All \ {t} : inherit'[p][u] = inherit[p][u]
  /\ \A q \in Procs \ {p} : inherit'[q] = inherit[q]
  /\ seq' \in [Procs -> Ports] /\ cancel' \in [Procs -> BOOLEAN]

(* A worker that goes on with its candidate leaves the books alone. *)
LEMMA Moves ==
  ASSUME StageIInv, NEW p \in Procs, NEW t \in All, NEW k \in Worker, NEW h \in SUBSET Ports,
         w[p][t].pc \in Working, k.pc \in Working, k.item = w[p][t].item, WorkerOk(k, h),
         OwnMove(p, t, k, h)
  PROVE  StageIInv'
<1>1. /\ StageTypes /\ w \in [Procs -> [All -> Worker]] /\ Crew(p) /\ Books(p)
      /\ \A u \in All : WorkerOk(w[p][u], inherit[p][u])
  BY Zenon DEF StageIInv, StageTypes
<1>2. /\ w'[p][t] = k /\ \A u \in All \ {t} : w'[p][u] = w[p][u]
      /\ \A q \in Procs \ {p} : w'[q] = w[q]
      /\ w' \in [Procs -> [All -> Worker]]
  BY <1>1, Zenon DEF OwnMove
<1>3. StageTypes' BY <1>1, <1>2, Zenon DEF StageTypes, OwnMove, pool
<1>4. \A q \in Procs \ {p} : Same(q) BY <1>2, Zenon DEF OwnMove, pool, Same
<1>5. Busy(p)' = Busy(p) /\ Finished(p)' = Finished(p)
  <2>1. "done" \notin Working BY Zenon DEF Working
  <2> QED BY <1>2, <2>1, Zenon DEF Busy, Finished
<1>6. \A u \in All : WorkerOk(w[p][u], inherit[p][u])' BY <1>1, <1>2 DEF OwnMove, WorkerOk
<1>7. \A u \in All : /\ w'[p][u].item = w[p][u].item
                     /\ w'[p][u].pc = "off" <=> w[p][u].pc = "off"
                     /\ w'[p][u].pc = "done" <=> w[p][u].pc = "done"
  BY <1>2, Zenon DEF Working
<1>8. UNCHANGED <<stage, created, outcome, next, rec, queued, passed, failed, skipped>>
  BY Zenon DEF OwnMove, pool
<1>9. Crew(p)'
  <2>1. "main" \in All /\ created[p] \subseteq All /\ Threads \subseteq All
    BY <1>1, Zenon DEF StageTypes, All
  <2> QED BY <1>1, <1>5, <1>7, <1>8, <2>1, Zenon DEF Crew
<1>10. Handed(p) => Handed(p)'
  <2>1. Busy(p) \subseteq All BY Zenon DEF Busy
  <2> QED BY <1>5, <1>7, <1>8, <2>1 DEF Handed
<1>11. Books(p)'
  <2>1. /\ Having(p, {"PASSED"})' = Having(p, {"PASSED"}) /\ Having(p, Fails)' = Having(p, Fails)
        /\ Having(p, Skips)' = Having(p, Skips)
    BY <1>8, Zenon DEF Having
  <2> QED BY <1>1, <1>8, <1>10, <2>1, Zenon DEF Books
<1>12. Proc(p)' BY <1>6, <1>9, <1>11, Zenon DEF Proc
<1> QED BY <1>3, <1>4, <1>12, OneScanner, Zenon

(* A worker that goes on with its candidate and moves no child. *)
LEMMA OwnStep ==
  ASSUME StageIInv, NEW p \in Procs, NEW t \in All, NEW k \in Worker, Set(p, t, k), OnlyW,
         w[p][t].pc \in Working, k.pc \in Working, k.item = w[p][t].item,
         WorkerOk(k, inherit[p][t])
  PROVE  StageIInv'
<1>1. /\ inherit \in [Procs -> [All -> SUBSET Ports]] /\ seq \in [Procs -> Ports]
      /\ cancel \in [Procs -> BOOLEAN]
  BY Zenon DEF StageIInv, StageTypes
<1>2. inherit[p][t] \in SUBSET Ports BY <1>1, Zenon
<1>3. OwnMove(p, t, k, inherit[p][t]) BY <1>1, Zenon DEF OwnMove, Set, OnlyW
<1> QED BY <1>2, <1>3, Moves, Zenon

\* The same, where a child takes copies of the leases or lets them go.
LEMMA ChildStep ==
  ASSUME StageIInv, NEW p \in Procs, NEW t \in All, NEW k \in Worker, Set(p, t, k),
         NEW h \in SUBSET Ports, inherit' = [inherit EXCEPT ![p][t] = h],
         UNCHANGED <<pool, seq, cancel>>,
         w[p][t].pc \in Working, k.pc \in Working, k.item = w[p][t].item, WorkerOk(k, h)
  PROVE  StageIInv'
<1>1. /\ inherit \in [Procs -> [All -> SUBSET Ports]] /\ seq \in [Procs -> Ports]
      /\ cancel \in [Procs -> BOOLEAN]
  BY Zenon DEF StageIInv, StageTypes
<1>2. OwnMove(p, t, k, h) BY <1>1, Zenon DEF OwnMove, Set
<1> QED BY <1>2, Moves, Zenon

\* What is known of a worker before its step.
LEMMA WorkerOf ==
  ASSUME StageIInv, NEW p \in Procs, NEW t \in All
  PROVE  /\ w[p][t] \in Worker /\ WorkerOk(w[p][t], inherit[p][t]) /\ inherit[p][t] \in SUBSET Ports
         /\ w \in [Procs -> [All -> Worker]] /\ seq[p] \in Ports
BY DEF StageIInv, StageTypes

\* What WorkerOk looks at.
Alike(k, i) == k.item = i.item /\ k.att = i.att /\ k.lease = i.lease /\ k.file = i.file /\ k.child = i.child

\* A worker of this kind may be at pc.
Fits(p, t, i, pc) ==
  \A k \in Worker : k.pc = pc /\ Alike(k, i) /\ k.res = i.res => WorkerOk(k, inherit[p][t])

\* A worker goes on in its attempt, or ends it with a result.
LEMMA Goes ==
  ASSUME StageIInv, NEW p \in Procs, NEW t \in All, NEW i \in Worker, i = w[p][t],
         NEW pc \in Working, i.pc \in Working, Set(p, t, [i EXCEPT !.pc = pc]), OnlyW,
         Fits(p, t, i, pc)
  PROVE  StageIInv'
<1>1. PICK k : k = [i EXCEPT !.pc = pc] BY Zenon
<1>2. k \in Worker /\ k.pc = pc /\ Alike(k, i) /\ k.res = i.res BY <1>1, Zenon DEF Worker, Alike
<1>3. WorkerOk(k, inherit[p][t]) /\ Set(p, t, k) /\ k.item = i.item
  BY <1>1, <1>2, Zenon DEF Alike, Fits
<1> QED BY <1>2, <1>3, OwnStep, Zenon

(* A worker that has its result holds what it still has to give back. *)
LEMMA Results ==
  ASSUME StageIInv, NEW p \in Procs, NEW t \in All, NEW i \in Worker, i = w[p][t],
         NEW pc \in {"out", "decide", "commit"}, NEW r \in Terminal, i.pc \in Working,
         Set(p, t, [i EXCEPT !.res = r, !.pc = pc]), OnlyW,
         pc # "out" => ~i.lease /\ ~i.file /\ i.child = "none" /\ inherit[p][t] = {}
  PROVE  StageIInv'
<1>1. PICK k : k = [i EXCEPT !.res = r, !.pc = pc] BY Zenon
<1>2. pc \in Working /\ r # "none" BY Zenon DEF Working, Terminal, Skips, Fails
<1>3. k \in Worker /\ k.pc = pc /\ Alike(k, i) /\ k.res = r BY <1>1, <1>2, Zenon DEF Worker, Alike
<1>4. WorkerOk(k, inherit[p][t]) BY <1>2, <1>3, Zenon DEF WorkerOk, Alike
<1>5. Set(p, t, k) /\ k.item = i.item BY <1>1, <1>3, Zenon DEF Alike
<1> QED BY <1>2, <1>3, <1>4, <1>5, OwnStep, Zenon

(* qn_tunnel_run looks for Xray, for every candidate. *)
LEMMA FindStep ==
  ASSUME StageIInv, NEW p \in Procs, NEW t \in All, Find(p, t)
  PROVE  StageIInv'
<1>1. PICK i \in Worker : i = w[p][t] /\ WorkerOk(i, inherit[p][t]) BY WorkerOf, Zenon
<1>2. i.pc = "find" /\ i.pc \in Working /\ OnlyW BY <1>1, Zenon DEF Find, At, Working
<1>3. PICK r \in XrayFind(TRUE) :
        Set(p, t, IF r = "found" THEN [i EXCEPT !.pc = "attempt"]
                  ELSE [i EXCEPT !.res = r, !.pc = "commit"])
  BY <1>1, Zenon DEF Find
<1>4. CASE r = "found"
  <2>1. Fits(p, t, i, "attempt") BY <1>1, <1>2, Sizes DEF WorkerOk, Alike, Fits
  <2>2. Set(p, t, [i EXCEPT !.pc = "attempt"]) /\ "attempt" \in Working BY <1>3, <1>4, Zenon DEF Working
  <2> QED BY <1>1, <1>2, <2>1, <2>2, Goes, Zenon
<1>5. CASE r # "found"
  <2>1. r \in Terminal BY <1>3, <1>5, Zenon DEF XrayFind, Terminal, Fails
  <2>2. Set(p, t, [i EXCEPT !.res = r, !.pc = "commit"]) BY <1>3, <1>5, Zenon
  <2>3. ~i.lease /\ ~i.file /\ i.child = "none" /\ inherit[p][t] = {} BY <1>1, <1>2, Zenon DEF WorkerOk
  <2> QED BY <1>1, <1>2, <2>1, <2>2, <2>3, Results, Zenon
<1> QED BY <1>4, <1>5, Zenon

(* The head of the attempt loop, with its look at the cancel flag. *)
LEMMA AttemptStep ==
  ASSUME StageIInv, NEW p \in Procs, NEW t \in All, Attempt(p, t)
  PROVE  StageIInv'
<1>1. PICK i \in Worker : i = w[p][t] /\ WorkerOk(i, inherit[p][t]) BY WorkerOf, Zenon
<1>2. i.pc = "attempt" /\ i.pc \in Working /\ OnlyW BY <1>1, Zenon DEF Attempt, At, Working
<1>3. PICK a : a = i.att + 1 BY Zenon
<1>4. a \in 0..MaxAttempts
  <2>1. i.att \in 0..MaxAttempts /\ i.att < MaxAttempts BY <1>1, <1>2, Zenon DEF Worker, WorkerOk
  <2> QED BY <1>3, <2>1, Sizes
<1>5. PICK j : j = [i EXCEPT !.att = a, !.turn = 0] BY Zenon
<1>6. 0 \in Nat BY Zenon
<1>7. j \in Worker /\ j.pc = i.pc /\ j.item = i.item /\ j.lease = i.lease /\ j.file = i.file
      /\ j.child = i.child /\ j.res = i.res
  BY <1>4, <1>5, <1>6, Zenon DEF Worker
<1>8. Set(p, t, IF cancel[p] THEN [j EXCEPT !.res = "CANCELLED", !.pc = "commit"]
                ELSE [j EXCEPT !.pc = "reserve"])
  BY <1>1, <1>3, <1>5, Zenon DEF Attempt
<1>9. PICK k : k = IF cancel[p] THEN [j EXCEPT !.res = "CANCELLED", !.pc = "commit"]
                   ELSE [j EXCEPT !.pc = "reserve"]
  BY Zenon
<1>10. "CANCELLED" \in Terminal /\ {"commit", "reserve"} \subseteq Working
  BY Zenon DEF Terminal, Skips, Working
<1>11. k \in Worker /\ k.item = i.item /\ k.lease = i.lease /\ k.file = i.file /\ k.child = i.child
      /\ ((k.pc = "commit" /\ k.res = "CANCELLED") \/ k.pc = "reserve")
  BY <1>7, <1>9, <1>10, ZenonT(40) DEF Worker
<1>12. WorkerOk(k, inherit[p][t]) BY <1>1, <1>2, <1>11, Zenon DEF WorkerOk
<1>13. Set(p, t, k) /\ k.pc \in Working BY <1>8, <1>9, <1>10, <1>11, Zenon
<1> QED BY <1>1, <1>2, <1>11, <1>12, <1>13, OwnStep, Zenon

\* reserve_port: the lease, and the next number of the sequence.
LEMMA ReserveStep ==
  ASSUME StageIInv, NEW p \in Procs, NEW t \in All, Reserve(p, t)
  PROVE  StageIInv'
<1>1. PICK i \in Worker : i = w[p][t] /\ WorkerOk(i, inherit[p][t]) BY WorkerOf, Zenon
<1>2. i.pc = "reserve" /\ i.pc \in Working BY <1>1, Zenon DEF Reserve, At, Working
<1>3. /\ inherit \in [Procs -> [All -> SUBSET Ports]] /\ seq \in [Procs -> Ports]
      /\ cancel \in [Procs -> BOOLEAN]
  BY Zenon DEF StageIInv, StageTypes
<1>4. PICK b \in Ports : b = seq[p] BY <1>3, Zenon
<1>5. PICK k : k = [i EXCEPT !.port = b, !.pc = "bind"] BY Zenon
<1>6. "bind" \in Working BY Zenon DEF Working
<1>7. k \in Worker /\ k.pc = "bind" /\ Alike(k, i) BY <1>4, <1>5, <1>6, Zenon DEF Worker, Alike
<1>8. WorkerOk(k, inherit[p][t]) BY <1>1, <1>2, <1>7, Zenon DEF WorkerOk, Alike
<1>9. seq' \in [Procs -> Ports]
  <2>1. (seq[p] + 1) % Span \in Ports BY <1>3, Sizes DEF Ports
  <2> QED BY <1>3, <2>1, Zenon DEF Reserve
<1>10. Set(p, t, k) BY <1>1, <1>4, <1>5, Zenon DEF Reserve
<1>11. OwnMove(p, t, k, inherit[p][t]) BY <1>3, <1>9, <1>10, Zenon DEF OwnMove, Set, Reserve
<1>12. inherit[p][t] \in SUBSET Ports /\ k.item = i.item BY <1>3, <1>7, Zenon DEF Alike
<1> QED BY <1>1, <1>2, <1>6, <1>7, <1>8, <1>11, <1>12, Moves, Zenon

(* The lease of a port: it is bound, or the next one is tried. *)
LEMMA BindStep ==
  ASSUME StageIInv, NEW p \in Procs, NEW t \in All, Bind(p, t)
  PROVE  StageIInv'
<1>1. PICK i \in Worker : i = w[p][t] /\ WorkerOk(i, inherit[p][t]) BY WorkerOf, Zenon
<1>2. i.pc = "bind" /\ i.pc \in Working /\ OnlyW BY <1>1, Zenon DEF Bind, At, Working
<1>3. \/ Set(p, t, [i EXCEPT !.lease = TRUE, !.turn = 0, !.pc = "config"])
      \/ Set(p, t, [i EXCEPT !.turn = i.turn + 1, !.pc = "reserve"])
      \/ Set(p, t, [i EXCEPT !.res = "START_FAILED", !.pc = "decide"])
  BY <1>1, Zenon DEF Bind
<1>4. {"config", "reserve"} \subseteq Working /\ "START_FAILED" \in Terminal
  BY Zenon DEF Working, Terminal, Fails
<1>5. CASE Set(p, t, [i EXCEPT !.lease = TRUE, !.turn = 0, !.pc = "config"])
  <2>1. PICK k : k = [i EXCEPT !.lease = TRUE, !.turn = 0, !.pc = "config"] BY Zenon
  <2>2. 0 \in Nat BY Zenon
  <2>3. k \in Worker /\ k.pc = "config" /\ k.item = i.item /\ k.file = i.file /\ k.child = i.child
    BY <1>4, <2>1, <2>2, Zenon DEF Worker
  <2>4. WorkerOk(k, inherit[p][t]) BY <1>1, <1>2, <2>3, Zenon DEF WorkerOk
  <2>5. Set(p, t, k) /\ k.pc \in Working BY <1>4, <1>5, <2>1, <2>3, Zenon
  <2> QED BY <1>1, <1>2, <2>3, <2>4, <2>5, OwnStep, Zenon
<1>6. CASE Set(p, t, [i EXCEPT !.turn = i.turn + 1, !.pc = "reserve"])
  <2>1. PICK n \in Nat : n = i.turn + 1 BY DEF Worker
  <2>2. PICK k : k = [i EXCEPT !.turn = n, !.pc = "reserve"] BY Zenon
  <2>3. k \in Worker /\ k.pc = "reserve" /\ Alike(k, i)
    BY <1>4, <2>1, <2>2, Zenon DEF Worker, Alike
  <2>4. WorkerOk(k, inherit[p][t]) BY <1>1, <1>2, <2>3, Zenon DEF WorkerOk, Alike
  <2>5. Set(p, t, k) /\ k.pc \in Working /\ k.item = i.item
    BY <1>4, <1>6, <2>1, <2>2, <2>3, Zenon DEF Alike
  <2> QED BY <1>1, <1>2, <2>3, <2>4, <2>5, OwnStep, Zenon
<1>7. CASE Set(p, t, [i EXCEPT !.res = "START_FAILED", !.pc = "decide"])
  <2>1. ~i.lease /\ ~i.file /\ i.child = "none" /\ inherit[p][t] = {} BY <1>1, <1>2, Zenon DEF WorkerOk
  <2> QED BY <1>1, <1>2, <1>4, <1>7, <2>1, Results, Zenon
<1> QED BY <1>3, <1>5, <1>6, <1>7, Zenon

(* The config is built in memory, or the attempt ends. *)
LEMMA ConfigStep ==
  ASSUME StageIInv, NEW p \in Procs, NEW t \in All, Config(p, t)
  PROVE  StageIInv'
<1>1. PICK i \in Worker : i = w[p][t] /\ WorkerOk(i, inherit[p][t]) BY WorkerOf, Zenon
<1>2. i.pc = "config" /\ i.pc \in Working /\ OnlyW BY <1>1, Zenon DEF Config, At, Working
<1>3. \/ Set(p, t, [i EXCEPT !.lease = FALSE, !.res = "START_FAILED", !.pc = "decide"])
      \/ Set(p, t, [i EXCEPT !.res = "CONFIG_INVALID", !.pc = "out"])
      \/ Set(p, t, [i EXCEPT !.pc = "temp"])
  BY <1>1, Zenon DEF Config
<1>4. {"decide", "temp"} \subseteq Working /\ {"START_FAILED", "CONFIG_INVALID"} \subseteq Terminal
  BY Zenon DEF Working, Terminal, Fails
<1>5. CASE Set(p, t, [i EXCEPT !.lease = FALSE, !.res = "START_FAILED", !.pc = "decide"])
  <2>1. PICK k : k = [i EXCEPT !.lease = FALSE, !.res = "START_FAILED", !.pc = "decide"] BY Zenon
  <2>2. k \in Worker /\ k.pc = "decide" /\ k.item = i.item /\ k.file = i.file /\ k.child = i.child
        /\ ~k.lease /\ k.res = "START_FAILED"
    BY <1>4, <2>1, Zenon DEF Worker
  <2>3. WorkerOk(k, inherit[p][t]) BY <1>1, <1>2, <2>2, Zenon DEF WorkerOk
  <2>4. Set(p, t, k) /\ k.pc \in Working BY <1>4, <1>5, <2>1, <2>2, Zenon
  <2> QED BY <1>1, <1>2, <2>2, <2>3, <2>4, OwnStep, Zenon
<1>6. CASE Set(p, t, [i EXCEPT !.res = "CONFIG_INVALID", !.pc = "out"])
  BY <1>1, <1>2, <1>4, <1>6, Results, Zenon
<1>7. CASE Set(p, t, [i EXCEPT !.pc = "temp"])
  <2>1. Fits(p, t, i, "temp") BY <1>1, <1>2, Zenon DEF WorkerOk, Alike, Fits
  <2> QED BY <1>1, <1>2, <1>4, <1>7, <2>1, Goes, Zenon
<1> QED BY <1>3, <1>5, <1>6, <1>7, Zenon

(* create_private_config leaves a whole file or none. *)
LEMMA WriteStep ==
  ASSUME StageIInv, NEW p \in Procs, NEW t \in All, WriteConfig(p, t)
  PROVE  StageIInv'
<1>1. PICK i \in Worker : i = w[p][t] /\ WorkerOk(i, inherit[p][t]) BY WorkerOf, Zenon
<1>2. i.pc = "temp" /\ i.pc \in Working /\ OnlyW BY <1>1, Zenon DEF WriteConfig, At, Working
<1>3. \/ Set(p, t, [i EXCEPT !.res = "START_FAILED", !.pc = "out"])
      \/ Set(p, t, [i EXCEPT !.file = TRUE, !.pc = "check"])
  BY <1>1, Zenon DEF WriteConfig
<1>4. "check" \in Working /\ "START_FAILED" \in Terminal BY Zenon DEF Working, Terminal, Fails
<1>5. CASE Set(p, t, [i EXCEPT !.res = "START_FAILED", !.pc = "out"])
  BY <1>1, <1>2, <1>4, <1>5, Results, Zenon
<1>6. CASE Set(p, t, [i EXCEPT !.file = TRUE, !.pc = "check"])
  <2>1. PICK k : k = [i EXCEPT !.file = TRUE, !.pc = "check"] BY Zenon
  <2>2. k \in Worker /\ k.pc = "check" /\ k.item = i.item /\ k.child = i.child
    BY <1>4, <2>1, Zenon DEF Worker
  <2>3. WorkerOk(k, inherit[p][t]) BY <1>1, <1>2, <2>2, Zenon DEF WorkerOk
  <2>4. Set(p, t, k) /\ k.pc \in Working BY <1>4, <1>6, <2>1, <2>2, Zenon
  <2> QED BY <1>1, <1>2, <2>2, <2>3, <2>4, OwnStep, Zenon
<1> QED BY <1>3, <1>5, <1>6, Zenon

\* config_check and the Xray child: the copies of the leases go with the child.
LEMMA LeasesArePorts ==
  ASSUME StageIInv, NEW p \in Procs
  PROVE  OpenLeases(p) \in SUBSET Ports
<1>1. \A u \in All : w[p][u].port \in Ports BY DEF StageIInv, StageTypes, Worker
<1> QED BY <1>1, Zenon DEF OpenLeases

(* The check of the config forks a child, which inherits the open leases. *)
LEMMA CheckForksStep ==
  ASSUME StageIInv, NEW p \in Procs, NEW t \in All, CheckForks(p, t)
  PROVE  StageIInv'
<1>1. PICK i \in Worker : i = w[p][t] /\ WorkerOk(i, inherit[p][t]) BY WorkerOf, Zenon
<1>2. i.pc = "check" /\ i.pc \in Working BY <1>1, Zenon DEF CheckForks, At, Working
<1>3. PICK k : k = [i EXCEPT !.child = "check", !.pc = "checking"] BY Zenon
<1>4. "checking" \in Working BY Zenon DEF Working
<1>5. k \in Worker /\ k.pc = "checking" /\ k.item = i.item BY <1>3, <1>4, Zenon DEF Worker
<1>6. PICK h \in SUBSET Ports : h = OpenLeases(p) BY LeasesArePorts, Zenon
<1>7. WorkerOk(k, h) BY <1>5, Zenon DEF WorkerOk
<1>8. Set(p, t, k) /\ k.pc \in Working BY <1>1, <1>3, <1>4, <1>5, Zenon DEF CheckForks
<1>9. inherit' = [inherit EXCEPT ![p][t] = h] /\ UNCHANGED <<pool, seq, cancel>>
  BY <1>6, Zenon DEF CheckForks
<1> QED BY <1>1, <1>2, <1>5, <1>7, <1>8, <1>9, ChildStep, Zenon

(* The check of the config ends, or is cut off. *)
LEMMA CheckEndsStep ==
  ASSUME StageIInv, NEW p \in Procs, NEW t \in All, CheckEnds(p, t)
  PROVE  StageIInv'
<1>1. PICK i \in Worker : i = w[p][t] /\ WorkerOk(i, inherit[p][t]) BY WorkerOf, Zenon
<1>2. i.pc = "checking" /\ i.pc \in Working BY <1>1, Zenon DEF CheckEnds, At, Working
<1>3. PICK r \in {"CANCELLED", "CONFIG_INVALID"} : r = IF cancel[p] THEN "CANCELLED" ELSE "CONFIG_INVALID"
  BY Zenon
<1>4. r \in Terminal /\ r # "none" /\ {"spawn", "out"} \subseteq Working
  BY Zenon DEF Terminal, Skips, Fails, Working
<1>5. PICK k : /\ Set(p, t, k)
               /\ \/ k = [i EXCEPT !.child = "none", !.pc = "spawn"]
                  \/ k = [i EXCEPT !.child = "none", !.pc = "out", !.res = r]
  BY <1>1, <1>3, Zenon DEF CheckEnds
<1>6. k \in Worker /\ k.item = i.item /\ k.child = "none" /\ k.pc \in Working
      /\ (k.pc = "spawn" \/ (k.pc = "out" /\ k.res = r))
  <2>1. CASE k = [i EXCEPT !.child = "none", !.pc = "spawn"]
    <3>1. k \in Worker /\ k.item = i.item /\ k.child = "none" /\ k.pc = "spawn" BY <1>4, <2>1, Zenon DEF Worker
    <3> QED BY <1>4, <3>1, Zenon
  <2>2. CASE k = [i EXCEPT !.child = "none", !.pc = "out", !.res = r] BY <1>4, <2>2, Zenon DEF Worker
  <2> QED BY <1>5, <2>1, <2>2, Zenon
<1>7. PICK h \in SUBSET Ports : h = {} BY Zenon
<1>8. WorkerOk(k, h) BY <1>4, <1>6, <1>7, Zenon DEF WorkerOk
<1>9. inherit' = [inherit EXCEPT ![p][t] = h] /\ UNCHANGED <<pool, seq, cancel>>
  BY <1>7, Zenon DEF CheckEnds
<1> QED BY <1>1, <1>2, <1>5, <1>6, <1>8, <1>9, ChildStep, Zenon

(* The lease is given up just before the proxy is started. *)
LEMMA ReleaseStep ==
  ASSUME StageIInv, NEW p \in Procs, NEW t \in All, ReleasePort(p, t)
  PROVE  StageIInv'
<1>1. PICK i \in Worker : i = w[p][t] /\ WorkerOk(i, inherit[p][t]) BY WorkerOf, Zenon
<1>2. i.pc = "spawn" /\ i.pc \in Working /\ OnlyW BY <1>1, Zenon DEF ReleasePort, At, Working
<1>3. PICK k : k = [i EXCEPT !.lease = FALSE] BY Zenon
<1>4. k \in Worker /\ k.pc = i.pc /\ k.item = i.item /\ k.child = i.child BY <1>3, Zenon DEF Worker
<1>5. WorkerOk(k, inherit[p][t]) BY <1>1, <1>2, <1>4, Zenon DEF WorkerOk
<1>6. Set(p, t, k) /\ k.pc \in Working BY <1>1, <1>2, <1>3, <1>4, Zenon DEF ReleasePort
<1> QED BY <1>1, <1>2, <1>4, <1>5, <1>6, OwnStep, Zenon

(* The proxy is started, or fork fails. *)
LEMMA SpawnStep ==
  ASSUME StageIInv, NEW p \in Procs, NEW t \in All, Spawn(p, t)
  PROVE  StageIInv'
<1>1. PICK i \in Worker : i = w[p][t] /\ WorkerOk(i, inherit[p][t]) BY WorkerOf, Zenon
<1>2. i.pc = "spawn" /\ i.pc \in Working BY <1>1, Zenon DEF Spawn, At, Working
<1>3. \/ /\ Set(p, t, [i EXCEPT !.child = "starting", !.pc = "ready"])
         /\ inherit' = [inherit EXCEPT ![p][t] = OpenLeases(p)]
      \/ Set(p, t, [i EXCEPT !.res = "START_FAILED", !.pc = "out"]) /\ UNCHANGED inherit
  BY <1>1, Zenon DEF Spawn
<1>4. CASE /\ Set(p, t, [i EXCEPT !.child = "starting", !.pc = "ready"])
           /\ inherit' = [inherit EXCEPT ![p][t] = OpenLeases(p)]
  <2>1. PICK k : k = [i EXCEPT !.child = "starting", !.pc = "ready"] BY Zenon
  <2>2. "ready" \in Working BY Zenon DEF Working
  <2>3. k \in Worker /\ k.pc = "ready" /\ k.item = i.item BY <2>1, <2>2, Zenon DEF Worker
  <2>4. PICK h \in SUBSET Ports : h = OpenLeases(p) BY LeasesArePorts, Zenon
  <2>5. WorkerOk(k, h) BY <2>3, Zenon DEF WorkerOk
  <2>6. Set(p, t, k) /\ k.pc \in Working BY <1>4, <2>1, <2>2, <2>3, Zenon
  <2>7. inherit' = [inherit EXCEPT ![p][t] = h] /\ UNCHANGED <<pool, seq, cancel>>
    BY <1>4, <2>4, Zenon DEF Spawn
  <2> QED BY <1>1, <1>2, <2>3, <2>5, <2>6, <2>7, ChildStep, Zenon
<1>5. CASE Set(p, t, [i EXCEPT !.res = "START_FAILED", !.pc = "out"]) /\ UNCHANGED inherit
  <2>1. OnlyW BY <1>5, Zenon DEF Spawn, OnlyW
  <2>2. "START_FAILED" \in Terminal BY Zenon DEF Terminal, Fails
  <2> QED BY <1>1, <1>2, <1>5, <2>1, <2>2, Results, Zenon
<1> QED BY <1>3, <1>4, <1>5, Zenon

\* socks_ready and the probe.
LEMMA SocksWaitStep ==
  ASSUME StageIInv, NEW p \in Procs, NEW t \in All, SocksWait(p, t)
  PROVE  StageIInv'
<1>1. PICK i \in Worker : i = w[p][t] /\ WorkerOk(i, inherit[p][t]) BY WorkerOf, Zenon
<1>2. i.pc = "ready" /\ i.pc \in Working /\ OnlyW BY <1>1, Zenon DEF SocksWait, At, Working
<1>3. Set(p, t, IF i.child = "dead" THEN [i EXCEPT !.child = "none", !.res = "START_FAILED", !.pc = "out"]
                ELSE IF cancel[p] THEN [i EXCEPT !.res = "CANCELLED", !.pc = "out"]
                ELSE [i EXCEPT !.pc = "connect"])
  BY <1>1, Zenon DEF SocksWait
<1>4. {"START_FAILED", "CANCELLED"} \subseteq Terminal /\ {"out", "connect"} \subseteq Working
      /\ "none" \notin Terminal
  BY Zenon DEF Terminal, Skips, Fails, Working
<1>5. PICK k : /\ Set(p, t, k)
               /\ \/ k = [i EXCEPT !.child = "none", !.res = "START_FAILED", !.pc = "out"]
                  \/ k = [i EXCEPT !.res = "CANCELLED", !.pc = "out"]
                  \/ k = [i EXCEPT !.pc = "connect"]
  BY <1>3, Zenon
<1>6. k \in Worker /\ k.item = i.item /\ k.pc \in Working
      /\ (k.pc = "connect" \/ (k.pc = "out" /\ k.res \in {"START_FAILED", "CANCELLED"}))
  <2>1. CASE k = [i EXCEPT !.child = "none", !.res = "START_FAILED", !.pc = "out"] BY <1>4, <2>1, Zenon DEF Worker
  <2>2. CASE k = [i EXCEPT !.res = "CANCELLED", !.pc = "out"] BY <1>4, <2>2, Zenon DEF Worker
  <2>3. CASE k = [i EXCEPT !.pc = "connect"]
    <3>1. k \in Worker /\ k.item = i.item /\ k.pc = "connect" BY <1>4, <2>3, Zenon DEF Worker
    <3> QED BY <1>4, <3>1, Zenon
  <2> QED BY <1>5, <2>1, <2>2, <2>3, Zenon
<1>7. WorkerOk(k, inherit[p][t]) BY <1>4, <1>6, Zenon DEF WorkerOk
<1> QED BY <1>1, <1>2, <1>5, <1>6, <1>7, OwnStep, Zenon

(* The proxy is connected to, on a port that anybody may listen on. *)
LEMMA SocksConnectStep ==
  ASSUME StageIInv, NEW p \in Procs, NEW t \in All, SocksConnect(p, t)
  PROVE  StageIInv'
<1>1. PICK i \in Worker : i = w[p][t] /\ WorkerOk(i, inherit[p][t]) BY WorkerOf, Zenon
<1>2. i.pc = "connect" /\ i.pc \in Working /\ OnlyW BY <1>1, Zenon DEF SocksConnect, At, Working
<1>3. PICK n \in Nat : n = i.turn + 1 BY DEF Worker
<1>4. "START_FAILED" \in Terminal /\ {"out", "ready", "probe"} \subseteq Working
  BY Zenon DEF Terminal, Fails, Working
<1>5. PICK k : /\ Set(p, t, k)
               /\ \/ k = [i EXCEPT !.pc = "probe"]
                  \/ k = [i EXCEPT !.turn = n, !.pc = "ready"]
                  \/ k = [i EXCEPT !.res = "START_FAILED", !.pc = "out"]
  BY <1>1, <1>3, Zenon DEF SocksConnect
<1>6. k \in Worker /\ k.item = i.item /\ k.pc \in Working
      /\ (k.pc \in {"probe", "ready"} \/ (k.pc = "out" /\ k.res = "START_FAILED"))
  <2>1. CASE k = [i EXCEPT !.pc = "probe"]
    <3>1. k \in Worker /\ k.item = i.item /\ k.pc = "probe" BY <1>4, <2>1, Zenon DEF Worker
    <3> QED BY <1>4, <3>1, Zenon
  <2>2. CASE k = [i EXCEPT !.turn = n, !.pc = "ready"]
    <3>1. k \in Worker /\ k.item = i.item /\ k.pc = "ready" BY <1>4, <2>2, Zenon DEF Worker
    <3> QED BY <1>4, <3>1, Zenon
  <2>3. CASE k = [i EXCEPT !.res = "START_FAILED", !.pc = "out"] BY <1>4, <2>3, Zenon DEF Worker
  <2> QED BY <1>5, <2>1, <2>2, <2>3, Zenon
<1>7. WorkerOk(k, inherit[p][t]) BY <1>6, Zenon DEF WorkerOk
<1> QED BY <1>1, <1>2, <1>5, <1>6, <1>7, OwnStep, Zenon

(* The probe through the proxy ends. *)
LEMMA ProbeStep ==
  ASSUME StageIInv, NEW p \in Procs, NEW t \in All, Probe(p, t)
  PROVE  StageIInv'
<1>1. PICK i \in Worker : i = w[p][t] /\ WorkerOk(i, inherit[p][t]) BY WorkerOf, Zenon
<1>2. i.pc = "probe" /\ i.pc \in Working /\ OnlyW BY <1>1, Zenon DEF Probe, At, Working
<1>3. Unproved \subseteq Terminal /\ {"CANCELLED", "PASSED"} \subseteq Terminal /\ "none" \notin Terminal
      /\ "out" \in Working
  BY Zenon DEF Unproved, Terminal, Skips, Fails, Working
<1>4. \/ Set(p, t, [i EXCEPT !.res = "CANCELLED", !.pc = "out"])
      \/ \E r \in Unproved : Set(p, t, [i EXCEPT !.res = r, !.pc = "out"])
      \/ \E q \in Procs, u \in All :
           Set(p, t, [i EXCEPT !.res = "PASSED", !.via = <<q, u>>, !.pc = "out"])
  BY <1>1, Zenon DEF Probe
<1>5. CASE Set(p, t, [i EXCEPT !.res = "CANCELLED", !.pc = "out"])
  BY <1>1, <1>2, <1>3, <1>5, Results, Zenon
<1>6. CASE \E r \in Unproved : Set(p, t, [i EXCEPT !.res = r, !.pc = "out"])
  <2>1. PICK r \in Unproved : Set(p, t, [i EXCEPT !.res = r, !.pc = "out"]) BY <1>6, Zenon
  <2>2. r \in Terminal BY <1>3, Zenon
  <2> QED BY <1>1, <1>2, <2>1, <2>2, Results, Zenon
<1>7. CASE \E q \in Procs, u \in All :
             Set(p, t, [i EXCEPT !.res = "PASSED", !.via = <<q, u>>, !.pc = "out"])
  <2>1. PICK q \in Procs, u \in All :
          Set(p, t, [i EXCEPT !.res = "PASSED", !.via = <<q, u>>, !.pc = "out"])
    BY <1>7, Zenon
  <2>2. PICK v \in Procs \X All : v = <<q, u>> BY Zenon
  <2>3. PICK k : k = [i EXCEPT !.res = "PASSED", !.via = v, !.pc = "out"] BY Zenon
  <2>4. k \in Worker /\ k.item = i.item /\ k.pc = "out" /\ k.res = "PASSED"
    BY <1>3, <2>3, Zenon DEF Worker
  <2>5. WorkerOk(k, inherit[p][t]) BY <1>3, <2>4, Zenon DEF WorkerOk
  <2>6. Set(p, t, k) /\ k.pc \in Working BY <1>3, <2>1, <2>2, <2>3, <2>4, Zenon
  <2> QED BY <1>1, <1>2, <2>4, <2>5, <2>6, OwnStep, Zenon
<1> QED BY <1>4, <1>5, <1>6, <1>7, Zenon

\* The way out of an attempt gives back all that was taken.
LEMMA OutStep ==
  ASSUME StageIInv, NEW p \in Procs, NEW t \in All, Out(p, t)
  PROVE  StageIInv'
<1>1. PICK i \in Worker : i = w[p][t] /\ WorkerOk(i, inherit[p][t]) BY WorkerOf, Zenon
<1>2. i.pc = "out" /\ i.pc \in Working BY <1>1, Zenon DEF Out, At, Working
<1>3. PICK k : k = [i EXCEPT !.child = "none", !.file = FALSE, !.lease = FALSE, !.pc = "decide"] BY Zenon
<1>4. "decide" \in Working BY Zenon DEF Working
<1>5. k \in Worker /\ k.item = i.item /\ k.pc = "decide" /\ k.child = "none" /\ ~k.file /\ ~k.lease
      /\ k.res = i.res
  BY <1>3, <1>4, Zenon DEF Worker
<1>6. PICK h \in SUBSET Ports : h = {} BY Zenon
<1>7. WorkerOk(k, h) BY <1>1, <1>2, <1>5, <1>6, Zenon DEF WorkerOk
<1>8. Set(p, t, k) /\ k.pc \in Working BY <1>1, <1>3, <1>4, <1>5, Zenon DEF Out
<1>9. inherit' = [inherit EXCEPT ![p][t] = h] /\ UNCHANGED <<pool, seq, cancel>> BY <1>6, Zenon DEF Out
<1> QED BY <1>1, <1>2, <1>5, <1>7, <1>8, <1>9, ChildStep, Zenon

(* The attempt is over: the result stands, or the next attempt begins. *)
LEMMA DecideStep ==
  ASSUME StageIInv, NEW p \in Procs, NEW t \in All, Decide(p, t)
  PROVE  StageIInv'
<1>1. PICK i \in Worker : i = w[p][t] /\ WorkerOk(i, inherit[p][t]) BY WorkerOf, Zenon
<1>2. i.pc = "decide" /\ i.pc \in Working /\ OnlyW BY <1>1, Zenon DEF Decide, At, Working
<1>3. Set(p, t, IF i.res \in {"PASSED", "CONFIG_INVALID", "CANCELLED"} \/ i.att = MaxAttempts
                THEN [i EXCEPT !.pc = "commit"] ELSE [i EXCEPT !.pc = "attempt", !.res = "none"])
  BY <1>1, Zenon DEF Decide
<1>4. {"commit", "attempt"} \subseteq Working BY Zenon DEF Working
<1>5. CASE i.res \in {"PASSED", "CONFIG_INVALID", "CANCELLED"} \/ i.att = MaxAttempts
  <2>1. Fits(p, t, i, "commit") BY <1>1, <1>2, Zenon DEF WorkerOk, Alike, Fits
  <2>2. Set(p, t, [i EXCEPT !.pc = "commit"]) BY <1>3, <1>5, Zenon
  <2> QED BY <1>1, <1>2, <1>4, <2>1, <2>2, Goes, Zenon
<1>6. CASE ~(i.res \in {"PASSED", "CONFIG_INVALID", "CANCELLED"} \/ i.att = MaxAttempts)
  <2>1. PICK k : k = [i EXCEPT !.pc = "attempt", !.res = "none"] BY Zenon
  <2>2. k \in Worker /\ k.pc = "attempt" /\ Alike(k, i) BY <1>4, <2>1, Zenon DEF Worker, Alike
  <2>3. i.att < MaxAttempts
    <3>1. i.att \in 0..MaxAttempts BY Zenon DEF Worker
    <3> QED BY <1>6, <3>1, Sizes
  <2>4. WorkerOk(k, inherit[p][t]) BY <1>1, <1>2, <2>2, <2>3, Zenon DEF WorkerOk, Alike
  <2>5. Set(p, t, k) BY <1>3, <1>6, <2>1, Zenon
  <2>6. k.pc \in Working /\ k.item = i.item BY <1>4, <2>2, Zenon DEF Alike
  <2> QED BY <1>1, <1>2, <2>2, <2>4, <2>5, <2>6, OwnStep, Zenon
<1> QED BY <1>5, <1>6, Zenon

\* The children.  One exists only while its worker waits for it.
LEMMA ChildSteps ==
  ASSUME StageIInv, NEW p \in Procs, NEW t \in All,
         ChildExecs(p, t) \/ ChildBinds(p, t) \/ ChildExits(p, t)
  PROVE  StageIInv'
<1>1. PICK i \in Worker : i = w[p][t] /\ WorkerOk(i, inherit[p][t]) BY WorkerOf, Zenon
<1>2. i.child # "none" BY <1>1, Zenon DEF ChildExecs, ChildBinds, ChildExits
<1>3. i.pc \in {"checking", "ready", "connect", "probe", "out"} /\ i.pc \in Working
  BY <1>1, <1>2, Zenon DEF WorkerOk, Working
<1>4. CASE ChildExecs(p, t)
  <2>1. PICK h \in SUBSET Ports : h = {} BY Zenon
  <2>2. WorkerOk(i, h) BY <1>1, <1>3, Zenon DEF WorkerOk
  <2>3. inherit' = [inherit EXCEPT ![p][t] = h] /\ UNCHANGED <<pool, seq, cancel>>
    BY <1>4, <2>1, Zenon DEF ChildExecs
  <2>4. Set(p, t, i)
    <3>1. w \in [Procs -> [All -> Worker]] BY WorkerOf, Zenon
    <3> QED BY <1>1, <1>4, <3>1, Zenon DEF Set, ChildExecs
  <2> QED BY <1>1, <1>3, <2>2, <2>3, <2>4, ChildStep, Zenon
<1>5. CASE ChildBinds(p, t) \/ ChildExits(p, t)
  <2>1. PICK c \in {"up", "dead"} : Set(p, t, [i EXCEPT !.child = c])
    BY <1>1, <1>5, Zenon DEF ChildBinds, ChildExits
  <2>2. PICK k : k = [i EXCEPT !.child = c] BY Zenon
  <2>3. k \in Worker /\ k.pc = i.pc /\ k.item = i.item /\ k.res = i.res BY <2>1, <2>2, Zenon DEF Worker
  <2>4. WorkerOk(k, inherit[p][t]) BY <1>1, <1>3, <2>3, Zenon DEF WorkerOk
  <2>5. OnlyW /\ Set(p, t, k) BY <1>5, <2>1, <2>2, Zenon DEF ChildBinds, ChildExits
  <2> QED BY <1>1, <1>3, <2>3, <2>4, <2>5, OwnStep, Zenon
<1> QED BY <1>4, <1>5, Zenon

\* A worker between candidates, and what it leaves alone.
LEMMA Frame ==
  ASSUME StageIInv, NEW p \in Procs, NEW t \in All, NEW k \in Worker, Set(p, t, k)
  PROVE  /\ w'[p][t] = k /\ \A u \in All \ {t} : w'[p][u] = w[p][u]
         /\ \A q \in Procs \ {p} : w'[q] = w[q]
         /\ w' \in [Procs -> [All -> Worker]]
<1>1. w \in [Procs -> [All -> Worker]] BY WorkerOf, Zenon
<1> QED BY <1>1, Zenon DEF Set

(* A worker that has just taken a candidate holds nothing. *)
LEMMA FreshOk ==
  ASSUME NEW n \in 0..Count, NEW pc \in {"find"}, NEW k,
         k = [Fresh EXCEPT !.pc = pc, !.item = n]
  PROVE  k \in Worker /\ k.pc = pc /\ k.item = n /\ WorkerOk(k, {})
<1>1. 0 \in 0..Count /\ 0 \in 0..MaxAttempts /\ 0 \in Nat /\ 0 \in Ports BY Sizes DEF Ports
<1>2. pc \in {"off", "take", "done"} \cup Working BY Zenon DEF Working
<1>3. PICK f : f = Fresh BY Zenon
<1>4. f \in Worker /\ ~f.lease /\ ~f.file /\ f.child = "none" /\ f.att = 0
  BY <1>1, <1>3, Zenon DEF Fresh, Worker
<1>5. k = [f EXCEPT !.pc = pc, !.item = n] BY <1>3, Zenon
<1>6. k \in Worker /\ k.pc = pc /\ k.item = n /\ ~k.lease /\ ~k.file /\ k.child = "none" /\ k.att = 0
  BY <1>2, <1>4, <1>5, ZenonT(40) DEF Worker
<1>7. WorkerOk(k, {}) BY <1>6, Zenon DEF WorkerOk
<1> QED BY <1>6, <1>7, Zenon

(* A worker that has no candidate holds nothing. *)
LEMMA FreshIs ==
  /\ Fresh \in Worker /\ Fresh.pc = "off" /\ WorkerOk(Fresh, {})
  /\ \A pc \in {"take", "done"} : \A k :
       k = [Fresh EXCEPT !.pc = pc] => k \in Worker /\ k.pc = pc /\ WorkerOk(k, {})
<1>1. 0 \in 0..Count /\ 0 \in 0..MaxAttempts /\ 0 \in Nat /\ 0 \in Ports BY Sizes DEF Ports
<1>2. PICK f : f = Fresh BY Zenon
<1>3. f \in Worker /\ ~f.lease /\ ~f.file /\ f.child = "none" /\ f.att = 0 /\ f.pc = "off" /\ f.res = "none"
  BY <1>1, <1>2, Zenon DEF Fresh, Worker
<1>4. WorkerOk(f, {}) BY <1>3, Zenon DEF WorkerOk
<1>5. ASSUME NEW pc \in {"take", "done"}, NEW k, k = [f EXCEPT !.pc = pc]
      PROVE  k \in Worker /\ k.pc = pc /\ WorkerOk(k, {})
  <2>1. k \in Worker /\ k.pc = pc /\ ~k.lease /\ ~k.file /\ k.child = "none" /\ k.att = 0
    BY <1>3, <1>5, Zenon DEF Worker
  <2>2. WorkerOk(k, {}) BY <2>1, Zenon DEF WorkerOk
  <2> QED BY <2>1, <2>2, Zenon
<1> QED BY <1>2, <1>3, <1>4, <1>5, Zenon

\* Whoever works, works while the stage runs.
LEMMA Running ==
  ASSUME StageIInv, NEW p \in Procs, NEW t \in All, w[p][t].pc \notin {"off", "done"}
  PROVE  /\ stage[p] \in {"run", "inline"} /\ Handed(p) /\ queued[p] = Count
         /\ stage[p] = "inline" => t = "main"
         /\ stage[p] = "run" => t \in created[p]
<1>1. Crew(p) /\ Books(p) /\ stage[p] \in {"start", "run", "inline", "end"} /\ created[p] \subseteq Threads
  BY Zenon DEF StageIInv, StageTypes
<1>2. stage[p] \in {"run", "inline"} BY <1>1, Zenon DEF Crew
<1> QED BY <1>1, <1>2, Zenon DEF Crew, Books, All

\* The shared counter: a candidate, or the end of the worker.
LEMMA TakeStep ==
  ASSUME Counting, StageIInv, NEW p \in Procs, NEW t \in All, Take(p, t)
  PROVE  StageIInv'
<1>1. PICK i \in Worker : i = w[p][t] /\ WorkerOk(i, inherit[p][t]) BY WorkerOf, Zenon
<1>2. i.pc = "take" BY <1>1, Zenon DEF Take, At
<1>3. /\ stage[p] \in {"run", "inline"} /\ Handed(p) /\ queued[p] = Count
      /\ stage[p] = "inline" => t = "main"
      /\ stage[p] = "run" => t \in created[p]
  BY <1>1, <1>2, Running, Zenon
<1>4. PICK n \in Nat : n = next[p] BY Zenon DEF StageIInv, StageTypes
<1>5. /\ StageTypes /\ Crew(p) /\ Books(p) /\ \A u \in All : WorkerOk(w[p][u], inherit[p][u])
      /\ created[p] \subseteq Threads
  BY Zenon DEF StageIInv, StageTypes
<1>6. /\ UNCHANGED <<stage, created, outcome, seq, cancel, rec, queued, passed, failed, skipped, inherit>>
      /\ next' = [next EXCEPT ![p] = n + 1]
  BY <1>4, Zenon DEF Take
<1>7. next'[p] = n + 1 /\ next' \in [Procs -> Nat] /\ \A q \in Procs \ {p} : next'[q] = next[q]
  BY <1>4, <1>5, <1>6 DEF StageTypes
<1>8. inherit[p][t] = {} BY <1>1, <1>2, Zenon DEF WorkerOk
<1>9. ASSUME NEW k \in Worker, Set(p, t, k), WorkerOk(k, {}), Crew(p)', Handed(p)'
      PROVE  StageIInv'
  <2>1. /\ w'[p][t] = k /\ \A u \in All \ {t} : w'[p][u] = w[p][u]
        /\ \A q \in Procs \ {p} : w'[q] = w[q]
        /\ w' \in [Procs -> [All -> Worker]]
    BY <1>9, Frame, Zenon
  <2>2. StageTypes' BY <1>5, <1>6, <1>7, <2>1, Zenon DEF StageTypes
  <2>3. \A q \in Procs \ {p} : Same(q) BY <1>6, <1>7, <2>1, Zenon DEF Same
  <2>4. \A u \in All : WorkerOk(w[p][u], inherit[p][u])'
    BY <1>5, <1>6, <1>8, <1>9, <2>1 DEF WorkerOk
  <2>5. Books(p)'
    <3>1. /\ Having(p, {"PASSED"})' = Having(p, {"PASSED"}) /\ Having(p, Fails)' = Having(p, Fails)
          /\ Having(p, Skips)' = Having(p, Skips)
      BY <1>6, Zenon DEF Having
    <3> QED BY <1>3, <1>5, <1>6, <1>9, <3>1, Zenon DEF Books
  <2>6. Proc(p)' BY <1>9, <2>4, <2>5, Zenon DEF Proc
  <2> QED BY <2>2, <2>3, <2>6, OneScanner, Zenon
<1>10. "main" \in All /\ Threads \subseteq All /\ "main" \notin Threads BY StageAssumption, Zenon DEF All
<1>11. Finished(p) \subseteq All /\ IsFiniteSet(Finished(p)) /\ Cardinality(Finished(p)) \in Nat
      /\ t \notin Finished(p) /\ t \notin Busy(p) /\ Busy(p) \subseteq All
  <2>1. Finished(p) \subseteq All BY Zenon DEF Finished
  <2>2. IsFiniteSet(Finished(p)) BY <2>1, Zenon DEF Counting
  <2>3. Cardinality(Finished(p)) \in Nat BY <2>2, Zenon DEF Counting
  <2> QED BY <1>1, <1>2, <2>1, <2>2, <2>3, Zenon DEF Finished, Busy, Working
<1>12. CASE n >= Count
  <2>1. PICK k : k = [Fresh EXCEPT !.pc = "done"] BY Zenon
  <2>2. k \in Worker /\ k.pc = "done" /\ WorkerOk(k, {}) BY <2>1, FreshIs, Zenon
  <2>3. Set(p, t, k) BY <1>4, <1>12, <2>1, Zenon DEF Take
  <2>4. w'[p][t] = k /\ \A u \in All \ {t} : w'[p][u] = w[p][u] BY <2>2, <2>3, Frame
  <2>5. Busy(p)' = Busy(p)
    <3>1. "done" \notin Working BY Zenon DEF Working
    <3> QED BY <1>11, <2>2, <2>4, <3>1, Zenon DEF Busy
  <2>6. Finished(p)' = Finished(p) \cup {t} BY <2>2, <2>4, Zenon DEF Finished
  <2>7. Cardinality(Finished(p)') = Cardinality(Finished(p)) + 1
    BY <1>11, <2>6, Zenon DEF Counting
  <2>8. Crew(p)'
    <3>1. next[p] <= Count + Cardinality(Finished(p)) BY <1>5, Zenon DEF Crew
    <3>2. next'[p] <= Count + Cardinality(Finished(p)')
      BY <1>4, <1>7, <1>11, <2>7, <3>1, Sizes
    <3>3. next'[p] >= Count BY <1>7, <1>12, Sizes
    <3>4. stage'[p] = stage[p] /\ created'[p] = created[p] BY <1>6, Zenon
    <3>5. ASSUME stage[p] = "run" PROVE \A u \in All : w'[p][u].pc # "off" <=> u \in created[p]
      BY <1>3, <1>5, <2>2, <2>4, <3>5, Zenon DEF Crew
    <3>6. ASSUME stage[p] = "inline"
          PROVE  /\ \A u \in created[p] : w'[p][u].pc = "done"
                 /\ \A u \in Threads \ created[p] : w'[p][u].pc = "off"
                 /\ w'[p]["main"].pc # "off"
      BY <1>3, <1>5, <1>10, <2>2, <2>4, <3>6, SMTT(30) DEF Crew
    <3> QED BY <1>3, <3>2, <3>3, <3>4, <3>5, <3>6, Zenon DEF Crew
  <2>9. Handed(p)'
    <3>1. \A u \in Busy(p) : w'[p][u] = w[p][u] BY <1>11, <2>4, Zenon
    <3>2. \A u \in Busy(p) : w[p][u].item \in Items /\ w[p][u].item <= n BY <1>3, <1>4, Zenon DEF Handed
    <3>3. \A j \in Items : j <= n /\ ~(j > n) /\ ~(j > n + 1) BY <1>12, Sizes DEF Items
    <3>4. \A u \in Busy(p) : w[p][u].item <= n + 1 BY <3>2, Sizes DEF Items
    <3> QED BY <1>3, <1>4, <1>6, <1>7, <2>5, <3>1, <3>3, <3>4 DEF Handed
  <2> QED BY <1>9, <2>2, <2>3, <2>8, <2>9, Zenon
<1>13. CASE ~(n >= Count)
  <2>0. n + 1 \in 0..Count /\ n + 1 \in Items BY <1>13, Sizes DEF Items
  <2>1. PICK k : k = [Fresh EXCEPT !.pc = "find", !.item = n + 1] BY Zenon
  <2>2. k \in Worker /\ k.pc = "find" /\ k.item = n + 1 /\ WorkerOk(k, {}) BY <2>0, <2>1, FreshOk, Zenon
  <2>3. Set(p, t, k) BY <1>4, <1>13, <2>1, Zenon DEF Take
  <2>4. w'[p][t] = k /\ \A u \in All \ {t} : w'[p][u] = w[p][u] BY <2>2, <2>3, Frame
  <2>5. Busy(p)' = Busy(p) \cup {t} /\ "find" \in Working
    <3>1. "find" \in Working BY Zenon DEF Working
    <3> QED BY <1>11, <2>2, <2>4, <3>1, Zenon DEF Busy
  <2>6. Finished(p)' = Finished(p) BY <1>11, <2>2, <2>4, Zenon DEF Finished
  <2>7. Finished(p) = {} BY <1>4, <1>5, <1>13, Zenon DEF Crew
  <2>8. Crew(p)'
    <3>1. next'[p] <= Count + Cardinality(Finished(p)')
      <4>1. Cardinality(Finished(p)') \in Nat BY <1>11, <2>6, Zenon
      <4> QED BY <1>7, <1>13, <4>1, Sizes
    <3>2. Finished(p)' = {} BY <2>6, <2>7, Zenon
    <3>4. stage'[p] = stage[p] /\ created'[p] = created[p] BY <1>6, Zenon
    <3>5. ASSUME stage[p] = "run" PROVE \A u \in All : w'[p][u].pc # "off" <=> u \in created[p]
      BY <1>3, <1>5, <2>2, <2>4, <3>5, Zenon DEF Crew
    <3>6. ASSUME stage[p] = "inline"
          PROVE  /\ \A u \in created[p] : w'[p][u].pc = "done"
                 /\ \A u \in Threads \ created[p] : w'[p][u].pc = "off"
                 /\ w'[p]["main"].pc # "off"
      BY <1>3, <1>5, <1>10, <2>2, <2>4, <3>6 DEF Crew
    <3> QED BY <1>3, <3>1, <3>2, <3>4, <3>5, <3>6, Zenon DEF Crew
  <2>9. Handed(p)'
    <3>1. \A u \in Busy(p) : w'[p][u] = w[p][u] /\ u # t BY <1>11, <2>4, Zenon
    <3>2. \A u \in Busy(p) : /\ w[p][u].item \in Items /\ w[p][u].item <= n
                             /\ rec[p][w[p][u].item] = "QUEUED"
      BY <1>3, <1>4, Zenon DEF Handed
    <3>3. \A u \in Busy(p) : w[p][u].item <= n + 1 /\ w[p][u].item # n + 1 BY <3>2, Sizes DEF Items
    <3>4. rec[p][n + 1] = "QUEUED"
      <4>1. n + 1 > next[p] BY <1>4
      <4> QED BY <1>3, <2>0, <4>1, Zenon DEF Handed
    <3>5. \A u \in Busy(p)' : /\ w'[p][u].item \in Items /\ w'[p][u].item <= n + 1
                              /\ rec[p][w'[p][u].item] = "QUEUED"
      BY <2>0, <2>2, <2>4, <2>5, <3>1, <3>2, <3>3, <3>4, SMTT(30)
    <3>6. \A u, v \in Busy(p)' : w'[p][u].item = w'[p][v].item => u = v
      <4>1. \A u, v \in Busy(p) : w[p][u].item = w[p][v].item => u = v BY <1>3, Zenon DEF Handed
      <4> QED BY <2>2, <2>4, <2>5, <3>1, <3>3, <4>1
    <3>7. ASSUME NEW j \in Items
          PROVE  /\ rec[p][j] # "UNTESTED" /\ (j > n + 1 => rec[p][j] = "QUEUED")
                 /\ (rec[p][j] = "QUEUED" => j > n + 1 \/ \E u \in Busy(p)' : w'[p][u].item = j)
      <4>1. /\ rec[p][j] # "UNTESTED" /\ (j > n => rec[p][j] = "QUEUED")
            /\ (rec[p][j] = "QUEUED" => j > n \/ \E u \in Busy(p) : w[p][u].item = j)
        BY <1>3, <1>4, Zenon DEF Handed
      <4>2. (j > n + 1 => j > n) /\ (j > n => j > n + 1 \/ j = n + 1) BY Sizes DEF Items
      <4>3. (\E u \in Busy(p) : w[p][u].item = j) => \E u \in Busy(p)' : w'[p][u].item = j
        BY <2>5, <3>1, Zenon
      <4>4. j = n + 1 => \E u \in Busy(p)' : w'[p][u].item = j BY <2>2, <2>4, <2>5, Zenon
      <4> QED BY <4>1, <4>2, <4>3, <4>4, Zenon
    <3> QED BY <1>6, <1>7, <3>5, <3>6, <3>7, Zenon DEF Handed
  <2> QED BY <1>9, <2>2, <2>3, <2>8, <2>9, Zenon
<1> QED BY <1>12, <1>13, Zenon

\* One candidate gets its result: the count of those in a class goes up with it.
LEMMA Counts ==
  ASSUME Counting, NEW p \in Procs, NEW S, NEW j \in Items, NEW r, rec[p][j] \notin S, rec'[p][j] = r,
         \A i \in Items \ {j} : rec'[p][i] = rec[p][i]
  PROVE  Cardinality(Having(p, S)') = IF r \in S THEN Cardinality(Having(p, S)) + 1
                                      ELSE Cardinality(Having(p, S))
<1>1. Having(p, S) \subseteq Items /\ j \notin Having(p, S) BY Zenon DEF Having
<1>2. IsFiniteSet(Having(p, S)) BY <1>1, Zenon DEF Counting
<1>3. CASE r \in S
  <2>1. Having(p, S)' = Having(p, S) \cup {j} BY <1>3 DEF Having
  <2> QED BY <1>1, <1>2, <1>3, <2>1, Zenon DEF Counting
<1>4. CASE r \notin S
  <2>1. Having(p, S)' = Having(p, S) BY <1>4 DEF Having
  <2> QED BY <1>4, <2>1, Zenon
<1> QED BY <1>3, <1>4, Zenon

\* commit_tunnel_result.
LEMMA CommitStep ==
  ASSUME Counting, StageIInv, NEW p \in Procs, NEW t \in All, Commit(p, t)
  PROVE  StageIInv'
<1>1. PICK i \in Worker : i = w[p][t] /\ WorkerOk(i, inherit[p][t]) BY WorkerOf, Zenon
<1>2. i.pc = "commit" /\ i.pc \in Working BY <1>1, Zenon DEF Commit, At, Working
<1>3. /\ stage[p] \in {"run", "inline"} /\ Handed(p) /\ queued[p] = Count
  BY <1>1, <1>2, Running, Zenon
<1>4. /\ StageTypes /\ Crew(p) /\ Books(p) /\ (\A u \in All : WorkerOk(w[p][u], inherit[p][u]))
      /\ rec \in [Procs -> [Items -> Terminal \cup {"UNTESTED", "QUEUED"}]]
      /\ passed \in [Procs -> Nat] /\ failed \in [Procs -> Nat] /\ skipped \in [Procs -> Nat]
  BY Zenon DEF StageIInv, StageTypes
<1>5. PICK r \in Terminal : r = i.res
  <2>1. i.res \in Terminal \cup {"none"} /\ i.res # "none" BY <1>1, <1>2, Zenon DEF Worker, WorkerOk
  <2> QED BY <2>1, Zenon
<1>6. t \in Busy(p) BY <1>1, <1>2, Zenon DEF Busy
<1>7. PICK j \in Items : j = i.item /\ j <= next[p] /\ rec[p][j] = "QUEUED"
  BY <1>1, <1>3, <1>6 DEF Handed
<1>8. /\ rec' = [rec EXCEPT ![p][j] = r]
      /\ passed'  = IF r = "PASSED" THEN [passed EXCEPT ![p] = @ + 1] ELSE passed
      /\ skipped' = IF r \in Skips THEN [skipped EXCEPT ![p] = @ + 1] ELSE skipped
      /\ failed'  = IF r \in Fails THEN [failed EXCEPT ![p] = @ + 1] ELSE failed
  BY <1>1, <1>5, <1>7, Zenon DEF Commit
<1>9. UNCHANGED <<stage, created, outcome, next, queued, seq, cancel, inherit>> BY Zenon DEF Commit
<1>10. PICK k : k = [i EXCEPT !.pc = "take"] BY Zenon
<1>11. k \in Worker /\ k.pc = "take" /\ k.item = i.item /\ Alike(k, i) BY <1>10, Zenon DEF Worker, Alike
<1>12. WorkerOk(k, inherit[p][t]) BY <1>1, <1>2, <1>11, Zenon DEF WorkerOk, Alike
<1>13. Set(p, t, k) BY <1>1, <1>10, Zenon DEF Commit
<1>14. /\ w'[p][t] = k /\ \A u \in All \ {t} : w'[p][u] = w[p][u]
       /\ \A q \in Procs \ {p} : w'[q] = w[q]
       /\ w' \in [Procs -> [All -> Worker]]
  BY <1>11, <1>13, Frame, Zenon
<1>15. /\ rec' \in [Procs -> [Items -> Terminal \cup {"UNTESTED", "QUEUED"}]]
       /\ rec'[p][j] = r /\ \A x \in Items \ {j} : rec'[p][x] = rec[p][x]
       /\ \A q \in Procs \ {p} : rec'[q] = rec[q]
  BY <1>4, <1>8, Zenon
<1>16. /\ passed' \in [Procs -> Nat] /\ failed' \in [Procs -> Nat] /\ skipped' \in [Procs -> Nat]
       /\ \A q \in Procs \ {p} : passed'[q] = passed[q] /\ failed'[q] = failed[q] /\ skipped'[q] = skipped[q]
       /\ passed'[p] = (IF r = "PASSED" THEN passed[p] + 1 ELSE passed[p])
       /\ failed'[p] = (IF r \in Fails THEN failed[p] + 1 ELSE failed[p])
       /\ skipped'[p] = (IF r \in Skips THEN skipped[p] + 1 ELSE skipped[p])
  <2>1. /\ passed' \in [Procs -> Nat] /\ (\A q \in Procs \ {p} : passed'[q] = passed[q])
        /\ passed'[p] = (IF r = "PASSED" THEN passed[p] + 1 ELSE passed[p])
    BY <1>4, <1>8
  <2>2. /\ failed' \in [Procs -> Nat] /\ (\A q \in Procs \ {p} : failed'[q] = failed[q])
        /\ failed'[p] = (IF r \in Fails THEN failed[p] + 1 ELSE failed[p])
    BY <1>4, <1>8
  <2>3. /\ skipped' \in [Procs -> Nat] /\ (\A q \in Procs \ {p} : skipped'[q] = skipped[q])
        /\ skipped'[p] = (IF r \in Skips THEN skipped[p] + 1 ELSE skipped[p])
    BY <1>4, <1>8, SMTT(30)
  <2> QED BY <2>1, <2>2, <2>3, Zenon
<1>17. StageTypes' BY <1>4, <1>9, <1>14, <1>15, <1>16 DEF StageTypes
<1>18. \A q \in Procs \ {p} : Same(q) BY <1>9, <1>14, <1>15, <1>16, ZenonT(40) DEF Same
<1>19. \A u \in All : WorkerOk(w[p][u], inherit[p][u])' BY <1>4, <1>9, <1>12, <1>14, SMTT(30) DEF WorkerOk
<1>20. Busy(p)' = Busy(p) \ {t} /\ Finished(p)' = Finished(p)
  <2>1. "take" \notin Working BY Zenon DEF Working
  <2> QED BY <1>1, <1>2, <1>11, <1>14, <2>1 DEF Busy, Finished
<1>21. Crew(p)'
  <2>1. \A u \in All : /\ w'[p][u].pc = "off" <=> w[p][u].pc = "off"
                       /\ w'[p][u].pc = "done" <=> w[p][u].pc = "done"
    BY <1>1, <1>2, <1>11, <1>14, Zenon
  <2>2. "main" \in All /\ created[p] \subseteq All /\ Threads \subseteq All
    BY <1>4, Zenon DEF StageTypes, All
  <2> QED BY <1>4, <1>9, <1>20, <2>1, <2>2, Zenon DEF Crew
<1>22. Handed(p)'
  <2>1. \A u \in Busy(p)' : w'[p][u] = w[p][u] /\ u \in Busy(p) /\ w[p][u].item # j
    BY <1>1, <1>3, <1>6, <1>7, <1>14, <1>20, Zenon DEF Handed, Busy
  <2>2. \A u \in Busy(p)' : /\ w'[p][u].item \in Items /\ w'[p][u].item <= next[p]
                            /\ rec'[p][w'[p][u].item] = "QUEUED"
    BY <1>3, <1>15, <2>1 DEF Handed
  <2>3. \A u, v \in Busy(p)' : w'[p][u].item = w'[p][v].item => u = v
    BY <1>3, <2>1 DEF Handed
  <2>4. r # "UNTESTED" /\ r # "QUEUED" BY <1>5, Zenon DEF Terminal, Skips, Fails
  <2>5. ASSUME NEW x \in Items
        PROVE  /\ rec'[p][x] # "UNTESTED" /\ (x > next[p] => rec'[p][x] = "QUEUED")
               /\ (rec'[p][x] = "QUEUED" => x > next[p] \/ \E u \in Busy(p)' : w'[p][u].item = x)
    <3>1. CASE x = j
      <4>1. ~(x > next[p]) BY <1>4, <1>7, <3>1, Sizes DEF Items, StageTypes
      <4> QED BY <1>15, <2>4, <3>1, <4>1, Zenon
    <3>2. CASE x # j
      <4>1. rec'[p][x] = rec[p][x] BY <1>15, <3>2, Zenon
      <4>2. /\ rec[p][x] # "UNTESTED" /\ (x > next[p] => rec[p][x] = "QUEUED")
            /\ (rec[p][x] = "QUEUED" => x > next[p] \/ \E u \in Busy(p) : w[p][u].item = x)
        BY <1>3, Zenon DEF Handed
      <4>3. (\E u \in Busy(p) : w[p][u].item = x) => \E u \in Busy(p)' : w'[p][u].item = x
        BY <1>1, <1>7, <1>20, <2>1, <3>2, Zenon
      <4> QED BY <4>1, <4>2, <4>3, Zenon
    <3> QED BY <3>1, <3>2, Zenon
  <2> QED BY <1>9, <2>2, <2>3, <2>5, Zenon DEF Handed
<1>23. Books(p)'
  <2>1. "QUEUED" \notin {"PASSED"} /\ "QUEUED" \notin Fails /\ "QUEUED" \notin Skips
    BY Zenon DEF Fails, Skips
  <2>2. Cardinality(Having(p, {"PASSED"})') = passed'[p]
    <3>1. Cardinality(Having(p, {"PASSED"})') = IF r \in {"PASSED"} THEN Cardinality(Having(p, {"PASSED"})) + 1
                                                ELSE Cardinality(Having(p, {"PASSED"}))
      BY <1>7, <1>15, <2>1, Counts, ZenonT(40)
    <3> QED BY <1>4, <1>16, <3>1, Zenon DEF Books
  <2>3. Cardinality(Having(p, Fails)') = failed'[p]
    <3>1. Cardinality(Having(p, Fails)') = IF r \in Fails THEN Cardinality(Having(p, Fails)) + 1
                                           ELSE Cardinality(Having(p, Fails))
      BY <1>7, <1>15, <2>1, Counts
    <3> QED BY <1>4, <1>16, <3>1, Zenon DEF Books
  <2>4. Cardinality(Having(p, Skips)') = skipped'[p]
    <3>1. Cardinality(Having(p, Skips)') = IF r \in Skips THEN Cardinality(Having(p, Skips)) + 1
                                           ELSE Cardinality(Having(p, Skips))
      BY <1>7, <1>15, <2>1, Counts
    <3> QED BY <1>4, <1>16, <3>1, Zenon DEF Books
  <2>5. stage'[p] \in {"run", "inline"} /\ queued'[p] = Count /\ outcome'[p] # "SUCCESS"
    BY <1>3, <1>4, <1>9, Zenon DEF Books
  <2> QED BY <1>22, <2>2, <2>3, <2>4, <2>5, Zenon DEF Books
<1>24. Proc(p)' BY <1>19, <1>21, <1>23, Zenon DEF Proc
<1> QED BY <1>17, <1>18, <1>24, OneScanner, Zenon

\* A class no candidate is in, and one all of them are in.
LEMMA AllOf ==
  ASSUME Counting, NEW p \in Procs, NEW S, NEW res, \A i \in Items : rec[p][i] = res
  PROVE  Cardinality(Having(p, S)) = IF res \in S THEN Count ELSE 0
<1>1. CASE res \in S
  <2>1. Having(p, S) = Items BY <1>1, Zenon DEF Having
  <2> QED BY <1>1, <2>1, Zenon DEF Counting
<1>2. CASE res \notin S
  <2>1. Having(p, S) = {} BY <1>2, Zenon DEF Having
  <2> QED BY <1>2, <2>1, Zenon DEF Counting
<1> QED BY <1>1, <1>2, Zenon

(* As AllOf, after a step. *)
LEMMA AllOfNext ==
  ASSUME Counting, NEW p \in Procs, NEW S, NEW res, \A i \in Items : rec'[p][i] = res
  PROVE  Cardinality(Having(p, S)') = IF res \in S THEN Count ELSE 0
<1>1. CASE res \in S
  <2>1. Having(p, S)' = Items BY <1>1, Zenon DEF Having
  <2> QED BY <1>1, <2>1, Zenon DEF Counting
<1>2. CASE res \notin S
  <2>1. Having(p, S)' = {} BY <1>2, Zenon DEF Having
  <2> QED BY <1>2, <2>1, Zenon DEF Counting
<1> QED BY <1>1, <1>2, Zenon

\* Before the workers start nothing is counted.
LEMMA AtStart ==
  ASSUME Counting, StageIInv, NEW p \in Procs, stage[p] = "start"
  PROVE  /\ passed[p] = 0 /\ failed[p] = 0 /\ skipped[p] = 0 /\ next[p] = 0 /\ queued[p] = 0
         /\ \A i \in Items : rec[p][i] = "UNTESTED"
         /\ \A t \in All : w[p][t].pc = "off" /\ inherit[p][t] = {}
         /\ Finished(p) = {}
<1>1. Crew(p) /\ Books(p) /\ \A u \in All : WorkerOk(w[p][u], inherit[p][u]) BY Zenon DEF StageIInv
<1>2. \A t \in All : w[p][t].pc = "off" BY <1>1, Zenon DEF Crew
<1>3. \A t \in All : inherit[p][t] = {} BY <1>1, <1>2, Zenon DEF WorkerOk
<1>4. next[p] = 0 /\ queued[p] = 0 /\ \A i \in Items : rec[p][i] = "UNTESTED" BY <1>1, Zenon DEF Books
<1>5. "UNTESTED" \notin {"PASSED"} /\ "UNTESTED" \notin Fails /\ "UNTESTED" \notin Skips
  BY Zenon DEF Fails, Skips
<1>6. /\ Cardinality(Having(p, {"PASSED"})) = 0 /\ Cardinality(Having(p, Fails)) = 0
      /\ Cardinality(Having(p, Skips)) = 0
  BY <1>4, <1>5, AllOf, Zenon
<1>7. Finished(p) = {} BY <1>2, Zenon DEF Finished
<1> QED BY <1>1, <1>2, <1>3, <1>4, <1>6, <1>7, Zenon DEF Books

\* cf_scan_tunnel up to the workers.
LEMMA UnqueuedStep ==
  ASSUME Counting, StageIInv, NEW p \in Procs, stage[p] = "start", NEW out \in {"FAILED", "INCOMPLETE"},
         EndUnqueued(p, out), UNCHANGED <<seq, cancel, inherit>>
  PROVE  StageIInv'
<1>1. StageTypes /\ Crew(p) /\ Books(p) /\ \A u \in All : WorkerOk(w[p][u], inherit[p][u])
  BY Zenon DEF StageIInv
<1>2. /\ stage' = [stage EXCEPT ![p] = "end"] /\ outcome' = [outcome EXCEPT ![p] = out]
      /\ UNCHANGED <<created, next, rec, queued, passed, failed, skipped, w, seq, cancel, inherit>>
  BY Zenon DEF EndUnqueued
<1>3. /\ stage'[p] = "end" /\ outcome'[p] = out
      /\ \A q \in Procs \ {p} : stage'[q] = stage[q] /\ outcome'[q] = outcome[q]
      /\ StageTypes'
  BY <1>1, <1>2, Zenon DEF StageTypes
<1>4. \A q \in Procs \ {p} : Same(q) BY <1>2, <1>3, Zenon DEF Same
<1>5. \A u \in All : WorkerOk(w[p][u], inherit[p][u])' BY <1>1, <1>2, Zenon
<1>6. Crew(p)'
  <2>1. Finished(p)' = Finished(p) BY <1>2, Zenon DEF Finished
  <2> QED BY <1>1, <1>2, <1>3, <2>1, AtStart, Zenon DEF Crew
<1>7. Books(p)'
  <2>1. /\ Having(p, {"PASSED"})' = Having(p, {"PASSED"}) /\ Having(p, Fails)' = Having(p, Fails)
        /\ Having(p, Skips)' = Having(p, Skips)
    BY <1>2, Zenon DEF Having
  <2> QED BY <1>1, <1>2, <1>3, <2>1, AtStart, Zenon DEF Books
<1>8. Proc(p)' BY <1>5, <1>6, <1>7, Zenon DEF Proc
<1> QED BY <1>3, <1>4, <1>8, OneScanner, Zenon

(* Every candidate is committed with one result, because the stage cannot start. *)
LEMMA CommitAllStep ==
  ASSUME Counting, StageIInv, NEW p \in Procs, stage[p] = "start", NEW out \in {"FAILED", "INCOMPLETE"},
         NEW res \in Skips \cup Fails, CommitAll(p, res, out), UNCHANGED <<seq, cancel, inherit>>
  PROVE  StageIInv'
<1>1. StageTypes /\ Crew(p) /\ Books(p) /\ \A u \in All : WorkerOk(w[p][u], inherit[p][u])
  BY Zenon DEF StageIInv
<1>2. /\ rec' = [rec EXCEPT ![p] = [i \in Items |-> res]] /\ queued' = [queued EXCEPT ![p] = Count]
      /\ IF res \in Skips THEN skipped' = [skipped EXCEPT ![p] = Count] /\ UNCHANGED failed
                          ELSE failed' = [failed EXCEPT ![p] = Count] /\ UNCHANGED skipped
      /\ outcome' = [outcome EXCEPT ![p] = out] /\ stage' = [stage EXCEPT ![p] = "end"]
      /\ UNCHANGED <<created, next, passed, w, seq, cancel, inherit>>
  BY Zenon DEF CommitAll
<1>3. res \in Terminal /\ res \notin {"PASSED"} /\ (res \in Fails <=> res \notin Skips)
  BY Zenon DEF Terminal, Skips, Fails
<1>4. /\ passed \in [Procs -> Nat] /\ failed \in [Procs -> Nat] /\ skipped \in [Procs -> Nat]
      /\ queued \in [Procs -> Nat] /\ outcome \in [Procs -> {"SUCCESS", "CANCELLED", "INCOMPLETE", "FAILED"}]
      /\ stage \in [Procs -> {"start", "run", "inline", "end"}]
      /\ rec \in [Procs -> [Items -> Terminal \cup {"UNTESTED", "QUEUED"}]]
  BY <1>1, Zenon DEF StageTypes
<1>5. /\ skipped' \in [Procs -> Nat] /\ failed' \in [Procs -> Nat]
      /\ \A q \in Procs \ {p} : skipped'[q] = skipped[q] /\ failed'[q] = failed[q]
      /\ skipped'[p] = (IF res \in Skips THEN Count ELSE 0)
      /\ failed'[p] = (IF res \in Fails THEN Count ELSE 0)
  <2>1. failed[p] = 0 /\ skipped[p] = 0 /\ Count \in Nat BY AtStart, Sizes, Zenon
  <2>2. CASE res \in Skips
    <3>1. skipped' = [skipped EXCEPT ![p] = Count] /\ failed' = failed /\ res \notin Fails BY <1>2, <1>3, <2>2, Zenon
    <3> QED BY <1>4, <2>1, <2>2, <3>1, Zenon
  <2>3. CASE res \notin Skips
    <3>1. failed' = [failed EXCEPT ![p] = Count] /\ skipped' = skipped /\ res \in Fails BY <1>2, <1>3, <2>3, Zenon
    <3> QED BY <1>4, <2>1, <2>3, <3>1, Zenon
  <2> QED BY <2>2, <2>3, Zenon
<1>6. /\ rec' \in [Procs -> [Items -> Terminal \cup {"UNTESTED", "QUEUED"}]]
      /\ \A i \in Items : rec'[p][i] = res
      /\ \A q \in Procs \ {p} : rec'[q] = rec[q]
  BY <1>2, <1>3, <1>4, Zenon
<1>7. /\ queued' \in [Procs -> Nat] /\ queued'[p] = Count
      /\ outcome' \in [Procs -> {"SUCCESS", "CANCELLED", "INCOMPLETE", "FAILED"}] /\ outcome'[p] = out
      /\ stage' \in [Procs -> {"start", "run", "inline", "end"}] /\ stage'[p] = "end"
      /\ \A q \in Procs \ {p} : queued'[q] = queued[q] /\ outcome'[q] = outcome[q] /\ stage'[q] = stage[q]
  BY <1>2, <1>4, Sizes, Zenon
<1>8. StageTypes'
  <2>1. UNCHANGED <<created, next, passed, w, seq, cancel, inherit>> BY <1>2, Zenon
  <2> QED BY <1>1, <1>5, <1>6, <1>7, <2>1, Zenon DEF StageTypes
<1>9. \A q \in Procs \ {p} : Same(q) BY <1>2, <1>5, <1>6, <1>7 DEF Same
<1>10. \A u \in All : WorkerOk(w[p][u], inherit[p][u])' BY <1>1, <1>2, Zenon
<1>11. Crew(p)'
  <2>1. Finished(p)' = Finished(p) BY <1>2, Zenon DEF Finished
  <2> QED BY <1>1, <1>2, <1>7, <2>1, AtStart, ZenonT(40) DEF Crew
<1>12. Books(p)'
  <2>1. /\ Cardinality(Having(p, {"PASSED"})') = 0
        /\ Cardinality(Having(p, Fails)') = failed'[p] /\ Cardinality(Having(p, Skips)') = skipped'[p]
    <3>1. Cardinality(Having(p, {"PASSED"})') = 0 BY <1>3, <1>6, AllOfNext, Zenon
    <3>2. Cardinality(Having(p, Fails)') = IF res \in Fails THEN Count ELSE 0 BY <1>6, AllOfNext, Zenon
    <3>3. Cardinality(Having(p, Skips)') = IF res \in Skips THEN Count ELSE 0 BY <1>6, AllOfNext, Zenon
    <3> QED BY <1>5, <3>1, <3>2, <3>3, Zenon
  <2>2. passed'[p] = 0 BY <1>2, AtStart, Zenon
  <2> QED BY <1>3, <1>6, <1>7, <2>1, <2>2, Zenon DEF Books
<1>13. Proc(p)' BY <1>10, <1>11, <1>12, Zenon DEF Proc
<1> QED BY <1>8, <1>9, <1>13, OneScanner, Zenon

(* The stage starts: candidates are queued and threads created, some or all. *)
LEMMA ThreadsStep ==
  ASSUME Counting, StageIInv, NEW p \in Procs, stage[p] = "start", StartThreads(p), UNCHANGED <<seq, cancel, inherit>>
  PROVE  StageIInv'
<1>1. /\ StageTypes /\ Crew(p) /\ Books(p) /\ (\A u \in All : WorkerOk(w[p][u], inherit[p][u]))
      /\ queued \in [Procs -> Nat] /\ w \in [Procs -> [All -> Worker]]
      /\ stage \in [Procs -> {"start", "run", "inline", "end"}] /\ created \in [Procs -> SUBSET Threads]
      /\ rec \in [Procs -> [Items -> Terminal \cup {"UNTESTED", "QUEUED"}]]
  BY Zenon DEF StageIInv, StageTypes
<1>2. PICK c \in SUBSET Threads :
        /\ created' = [created EXCEPT ![p] = c]
        /\ rec' = [rec EXCEPT ![p] = [i \in Items |-> "QUEUED"]]
        /\ queued' = [queued EXCEPT ![p] = Count]
        /\ w' = [w EXCEPT ![p] = [t \in All |->
                    IF t \in c THEN [Fresh EXCEPT !.pc = "take"] ELSE Fresh]]
        /\ stage' = [stage EXCEPT ![p] = "run"]
        /\ UNCHANGED <<outcome, next, passed, failed, skipped>>
  BY Zenon DEF StartThreads
<1>3. PICK k : k = [Fresh EXCEPT !.pc = "take"] BY Zenon
<1>4. PICK f : f = Fresh BY Zenon
<1>5. /\ k \in Worker /\ k.pc = "take" /\ WorkerOk(k, {}) /\ f \in Worker /\ f.pc = "off" /\ WorkerOk(f, {})
  BY <1>3, <1>4, FreshIs, Zenon
<1>6. w' = [w EXCEPT ![p] = [t \in All |-> IF t \in c THEN k ELSE f]] BY <1>2, <1>3, <1>4, Zenon
<1>7. /\ \A t \in All : w'[p][t] = IF t \in c THEN k ELSE f
      /\ \A q \in Procs \ {p} : w'[q] = w[q]
      /\ w' \in [Procs -> [All -> Worker]]
  BY <1>1, <1>5, <1>6, Zenon
<1>8. /\ created' \in [Procs -> SUBSET Threads] /\ created'[p] = c
      /\ rec' \in [Procs -> [Items -> Terminal \cup {"UNTESTED", "QUEUED"}]]
      /\ \A i \in Items : rec'[p][i] = "QUEUED"
      /\ queued' \in [Procs -> Nat] /\ queued'[p] = Count
      /\ stage' \in [Procs -> {"start", "run", "inline", "end"}] /\ stage'[p] = "run"
      /\ \A q \in Procs \ {p} : /\ created'[q] = created[q] /\ rec'[q] = rec[q] /\ queued'[q] = queued[q]
                                /\ stage'[q] = stage[q]
  BY <1>1, <1>2, Sizes, Zenon
<1>9. StageTypes'
  <2>1. UNCHANGED <<outcome, next, passed, failed, skipped, seq, cancel, inherit>> BY <1>2, Zenon
  <2> QED BY <1>1, <1>7, <1>8, <2>1 DEF StageTypes
<1>10. \A q \in Procs \ {p} : Same(q)
  <2>1. UNCHANGED <<outcome, next, passed, failed, skipped, seq, cancel, inherit>> BY <1>2, Zenon
  <2> QED BY <1>7, <1>8, <2>1, Zenon DEF Same
<1>11. \A u \in All : w'[p][u].pc \in {"off", "take"} /\ (w'[p][u].pc # "off" <=> u \in c)
  BY <1>5, <1>7, Zenon
<1>12. \A u \in All : WorkerOk(w[p][u], inherit[p][u])'
  BY <1>5, <1>7, AtStart DEF WorkerOk
<1>13. Busy(p)' = {} /\ Finished(p)' = {} BY <1>11, Zenon DEF Busy, Finished, Working
<1>14. next'[p] = 0 BY <1>2, AtStart, Zenon
<1>15. Crew(p)'
  <2>1. Cardinality(Finished(p)') = 0 BY <1>13, Zenon DEF Counting
  <2>2. next'[p] <= Count + Cardinality(Finished(p)') BY <1>14, <2>1, Sizes
  <2> QED BY <1>8, <1>11, <1>13, <2>2, Zenon DEF Crew
<1>16. Handed(p)'
  <2>1. \A i \in Items : i > 0 BY DEF Items
  <2> QED BY <1>8, <1>13, <1>14, <2>1, Zenon DEF Handed
<1>17. Books(p)'
  <2>1. "QUEUED" \notin {"PASSED"} /\ "QUEUED" \notin Fails /\ "QUEUED" \notin Skips BY Zenon DEF Fails, Skips
  <2>2. /\ Cardinality(Having(p, {"PASSED"})') = 0 /\ Cardinality(Having(p, Fails)') = 0
        /\ Cardinality(Having(p, Skips)') = 0
    <3>1. \A i \in Items : rec'[p][i] = "QUEUED" BY <1>8, Zenon
    <3> QED BY <2>1, <3>1, AllOfNext, Zenon
  <2>3. passed'[p] = 0 /\ failed'[p] = 0 /\ skipped'[p] = 0 BY <1>2, AtStart, Zenon
  <2>4. outcome'[p] # "SUCCESS" BY <1>1, <1>2, Zenon DEF Books
  <2> QED BY <1>8, <1>16, <2>2, <2>3, <2>4, Zenon DEF Books
<1>18. Proc(p)' BY <1>12, <1>15, <1>17, Zenon DEF Proc
<1> QED BY <1>9, <1>10, <1>18, OneScanner, Zenon

(* cf_scan_tunnel begins, in each way it can. *)
LEMMA StartStep ==
  ASSUME Counting, StageIInv, NEW p \in Procs, StartStage(p)
  PROVE  StageIInv'
<1>1. stage[p] = "start" /\ UNCHANGED <<seq, cancel, inherit>> BY Zenon DEF StartStage
<1>2. CASE EndUnqueued(p, "FAILED") \/ EndUnqueued(p, "INCOMPLETE") BY <1>1, <1>2, UnqueuedStep, Zenon
<1>3. CASE \E r \in XrayFind(FALSE) \ {"found"} :
             CommitAll(p, r, IF r = "BINARY_MISSING" THEN "INCOMPLETE" ELSE "FAILED")
  <2>1. PICK r \in XrayFind(FALSE) \ {"found"} :
          CommitAll(p, r, IF r = "BINARY_MISSING" THEN "INCOMPLETE" ELSE "FAILED")
    BY <1>3, Zenon
  <2>2. PICK out \in {"FAILED", "INCOMPLETE"} : out = IF r = "BINARY_MISSING" THEN "INCOMPLETE" ELSE "FAILED"
    BY Zenon
  <2>3. r \in Skips \cup Fails BY <2>1, Zenon DEF XrayFind, Skips, Fails
  <2> QED BY <1>1, <2>1, <2>2, <2>3, CommitAllStep, Zenon
<1>4. CASE CommitAll(p, "START_FAILED", "FAILED")
  <2>1. "START_FAILED" \in Skips \cup Fails BY Zenon DEF Fails
  <2> QED BY <1>1, <1>4, <2>1, CommitAllStep, Zenon
<1>5. CASE StartThreads(p) BY <1>1, <1>5, ThreadsStep, Zenon
<1> QED BY <1>2, <1>3, <1>4, <1>5, Zenon DEF StartStage

\* When a worker has found the counter at the end and none is busy, every candidate
\* has its result.
LEMMA Drained ==
  ASSUME StageIInv, NEW p \in Procs, stage[p] \in {"run", "inline"}, Busy(p) = {}, Finished(p) # {}
  PROVE  \A i \in Items : rec[p][i] \in Terminal
<1>1. Crew(p) /\ Handed(p) /\ next[p] \in Nat /\ \A i \in Items : rec[p][i] \in Terminal \cup {"UNTESTED", "QUEUED"}
  BY DEF StageIInv, StageTypes, Books
<1>2. next[p] >= Count BY <1>1, Zenon DEF Crew
<1>3. \A i \in Items : ~(i > next[p]) BY <1>1, <1>2, Sizes DEF Items
<1> QED BY <1>1, <1>3, Zenon DEF Handed

\* The stage ends with its queue drained.
LEMMA EndStep ==
  ASSUME StageIInv, NEW p \in Procs, stage[p] \in {"run", "inline"},
         \A t \in All : w[p][t].pc \in {"off", "done"}, Finished(p) # {},
         NEW out \in {"SUCCESS", "CANCELLED", "INCOMPLETE", "FAILED"}, out = "SUCCESS" => passed[p] = Count,
         stage' = [stage EXCEPT ![p] = "end"], outcome' = [outcome EXCEPT ![p] = out],
         UNCHANGED <<created, next, rec, queued, passed, failed, skipped, seq, cancel, w, inherit>>
  PROVE  StageIInv'
<1>1. StageTypes /\ Crew(p) /\ Books(p) /\ \A u \in All : WorkerOk(w[p][u], inherit[p][u])
  BY Zenon DEF StageIInv
<1>2. /\ stage'[p] = "end" /\ outcome'[p] = out
      /\ \A q \in Procs \ {p} : stage'[q] = stage[q] /\ outcome'[q] = outcome[q]
      /\ StageTypes'
  BY <1>1, Zenon DEF StageTypes
<1>3. \A q \in Procs \ {p} : Same(q) BY <1>2, Zenon DEF Same
<1>4. \A u \in All : WorkerOk(w[p][u], inherit[p][u])' BY <1>1, Zenon
<1>5. Busy(p) = {} BY Zenon DEF Busy, Working
<1>6. \A i \in Items : rec[p][i] \in Terminal BY <1>5, Drained, Zenon
<1>7. Crew(p)'
  <2>1. Finished(p)' = Finished(p) BY Zenon DEF Finished
  <2> QED BY <1>1, <1>2, <2>1, Zenon DEF Crew
<1>8. Books(p)'
  <2>1. /\ Having(p, {"PASSED"})' = Having(p, {"PASSED"}) /\ Having(p, Fails)' = Having(p, Fails)
        /\ Having(p, Skips)' = Having(p, Skips)
    BY Zenon DEF Having
  <2>2. queued[p] = Count BY <1>1, Zenon DEF Books
  <2> QED BY <1>1, <1>2, <1>6, <2>1, <2>2, Zenon DEF Books
<1>9. Proc(p)' BY <1>4, <1>7, <1>8, Zenon DEF Proc
<1> QED BY <1>2, <1>3, <1>9, OneScanner, Zenon

(* The threads are joined, and the caller takes over what they did not. *)
LEMMA JoinStep ==
  ASSUME StageIInv, NEW p \in Procs, Join(p)
  PROVE  StageIInv'
<1>1. /\ StageTypes /\ Crew(p) /\ Books(p) /\ (\A u \in All : WorkerOk(w[p][u], inherit[p][u]))
      /\ created[p] \subseteq Threads /\ w \in [Procs -> [All -> Worker]]
      /\ stage \in [Procs -> {"start", "run", "inline", "end"}]
  BY Zenon DEF StageIInv, StageTypes
<1>2. stage[p] = "run" /\ \A t \in created[p] : w[p][t].pc = "done" BY Zenon DEF Join, Joined
<1>3. \A t \in All : w[p][t].pc # "off" <=> t \in created[p] BY <1>1, <1>2, Zenon DEF Crew
<1>4. "main" \in All /\ Threads \subseteq All /\ "main" \notin Threads /\ Threads # {}
  BY StageAssumption, Zenon DEF All
<1>5. CASE created[p] = Threads
  <2>1. \A t \in All : w[p][t].pc \in {"off", "done"} BY <1>2, <1>3, Zenon
  <2>2. Finished(p) # {} BY <1>2, <1>4, <1>5, Zenon DEF Finished
  <2>3. PICK out \in {"SUCCESS", "CANCELLED", "INCOMPLETE", "FAILED"} : out = FinalOutcome(p)
    BY Zenon DEF FinalOutcome
  <2>4. out = "SUCCESS" => passed[p] = Count BY <2>3, Zenon DEF FinalOutcome
  <2>5. /\ stage' = [stage EXCEPT ![p] = "end"] /\ outcome' = [outcome EXCEPT ![p] = out]
        /\ UNCHANGED <<created, next, rec, queued, passed, failed, skipped, seq, cancel, w, inherit>>
    BY <1>5, <2>3, Zenon DEF Join
  <2> QED BY <1>2, <2>1, <2>2, <2>4, <2>5, EndStep, Zenon
<1>6. CASE created[p] # Threads
  <2>1. /\ stage' = [stage EXCEPT ![p] = "inline"] /\ w' = [w EXCEPT ![p]["main"].pc = "take"]
        /\ UNCHANGED <<created, next, rec, queued, passed, failed, skipped, seq, cancel, inherit, outcome>>
    BY <1>6, Zenon DEF Join
  <2>2. PICK i \in Worker : i = w[p]["main"] /\ WorkerOk(i, inherit[p]["main"]) BY <1>4, WorkerOf, Zenon
  <2>3. i.pc = "off" BY <1>1, <1>3, <1>4, <2>2, Zenon
  <2>4. PICK k : k = [i EXCEPT !.pc = "take"] BY Zenon
  <2>5. k \in Worker /\ k.pc = "take" /\ Alike(k, i) BY <2>4, Zenon DEF Worker, Alike
  <2>6. WorkerOk(k, inherit[p]["main"]) BY <2>2, <2>3, <2>5, Zenon DEF WorkerOk, Alike
  <2>7. Set(p, "main", k) BY <1>1, <1>4, <2>1, <2>2, <2>4, Zenon DEF Set
  <2>8. /\ w'[p]["main"] = k /\ \A u \in All \ {"main"} : w'[p][u] = w[p][u]
        /\ \A q \in Procs \ {p} : w'[q] = w[q]
        /\ w' \in [Procs -> [All -> Worker]]
    BY <1>4, <2>5, <2>7, Frame, Zenon
  <2>9. /\ stage' \in [Procs -> {"start", "run", "inline", "end"}] /\ stage'[p] = "inline"
        /\ \A q \in Procs \ {p} : stage'[q] = stage[q]
    BY <1>1, <2>1, Zenon
  <2>10. UNCHANGED <<created, next, rec, queued, passed, failed, skipped, seq, cancel, inherit, outcome>>
    BY <2>1, Zenon
  <2>11. StageTypes' BY <1>1, <2>8, <2>9, <2>10, Zenon DEF StageTypes
  <2>12. \A q \in Procs \ {p} : Same(q) BY <2>8, <2>9, <2>10, ZenonT(40) DEF Same
  <2>13. \A u \in All : WorkerOk(w[p][u], inherit[p][u])' BY <1>1, <2>6, <2>8, <2>10 DEF WorkerOk
  <2>14. Busy(p)' = Busy(p) /\ Finished(p)' = Finished(p) /\ "main" \notin Busy(p)
    <3>1. "take" \notin Working /\ "off" \notin Working BY Zenon DEF Working
    <3> QED BY <2>2, <2>3, <2>5, <2>8, <3>1, Zenon DEF Busy, Finished
  <2>15. Crew(p)'
    <3>1. \A u \in Threads : w'[p][u] = w[p][u] BY <1>4, <2>8, Zenon
    <3> QED BY <1>1, <1>2, <1>3, <1>4, <2>5, <2>8, <2>9, <2>10, <2>14, <3>1, SMTT(30) DEF Crew
  <2>16. Handed(p)'
    <3>1. \A u \in Busy(p) : w'[p][u] = w[p][u] BY <2>8, <2>14, Zenon DEF Busy
    <3>2. Handed(p) BY <1>1, <1>2, Zenon DEF Books
    <3> QED BY <2>10, <2>14, <3>1, <3>2 DEF Handed
  <2>17. Books(p)'
    <3>1. /\ Having(p, {"PASSED"})' = Having(p, {"PASSED"}) /\ Having(p, Fails)' = Having(p, Fails)
          /\ Having(p, Skips)' = Having(p, Skips)
      BY <2>10, Zenon DEF Having
    <3> QED BY <1>1, <1>2, <2>9, <2>10, <2>16, <3>1, Zenon DEF Books
  <2>18. Proc(p)' BY <2>13, <2>15, <2>17, Zenon DEF Proc
  <2> QED BY <2>11, <2>12, <2>18, OneScanner, Zenon
<1> QED BY <1>5, <1>6, Zenon

(* The caller has worked off the rest. *)
LEMMA InlineStep ==
  ASSUME StageIInv, NEW p \in Procs, InlineEnds(p)
  PROVE  StageIInv'
<1>1. Crew(p) /\ stage[p] = "inline" /\ w[p]["main"].pc = "done" BY Zenon DEF StageIInv, InlineEnds
<1>2. "main" \in All BY Zenon DEF All
<1>3. \A t \in All : w[p][t].pc \in {"off", "done"} BY <1>1, Zenon DEF Crew, All
<1>4. Finished(p) # {} BY <1>1, <1>2, Zenon DEF Finished
<1> QED BY <1>1, <1>3, <1>4, EndStep, Zenon DEF InlineEnds

(* A cancel only sets its flag. *)
LEMMA CancelStep ==
  ASSUME StageIInv, NEW p \in Procs, Cancel(p)
  PROVE  StageIInv'
<1>1. cancel' = [cancel EXCEPT ![p] = TRUE] /\ UNCHANGED <<pool, seq, w, inherit>> BY Zenon DEF Cancel
<1>2. StageTypes' BY <1>1, Zenon DEF StageIInv, StageTypes, pool
<1>3. \A q \in Procs : Same(q) BY <1>1, Zenon DEF Same, pool
<1>4. Proc(p) BY Zenon DEF StageIInv, Proc
<1>5. Proc(p)' BY <1>3, <1>4, Kept, Zenon
<1> QED BY <1>2, <1>3, <1>5, OneScanner, Zenon

(* The invariant holds before the stage begins. *)
LEMMA StageInit ==
  ASSUME Counting, Init
  PROVE  StageIInv
<1>1. PICK f : f = Fresh BY Zenon
<1>2. f \in Worker /\ f.pc = "off" /\ WorkerOk(f, {}) BY <1>1, FreshIs, Zenon
<1>3. w = [p \in Procs |-> [t \in All |-> f]] BY <1>1, Zenon DEF Init
<1>4. \A p \in Procs, t \in All : w[p][t] = f /\ inherit[p][t] = {} BY <1>3 DEF Init
<1>5. StageTypes
  <2>1. w \in [Procs -> [All -> Worker]] BY <1>2, <1>3, Zenon
  <2>2. 0 \in Ports BY Sizes DEF Ports
  <2>3. rec \in [Procs -> [Items -> Terminal \cup {"UNTESTED", "QUEUED"}]] BY Zenon DEF Init
  <2>4. {queued, passed, failed, skipped} \subseteq [Procs -> Nat] /\ next \in [Procs -> Nat]
    BY DEF Init
  <2>5. seq \in [Procs -> Ports] /\ cancel \in [Procs -> BOOLEAN] /\ inherit \in [Procs -> [All -> SUBSET Ports]]
    BY <2>2, Zenon DEF Init
  <2>6. /\ stage \in [Procs -> {"start", "run", "inline", "end"}] /\ created \in [Procs -> SUBSET Threads]
        /\ outcome \in [Procs -> {"SUCCESS", "CANCELLED", "INCOMPLETE", "FAILED"}]
    BY Zenon DEF Init
  <2> QED BY <2>1, <2>3, <2>4, <2>5, <2>6, Zenon DEF StageTypes
<1>6. ASSUME NEW p \in Procs
      PROVE  (\A t \in All : WorkerOk(w[p][t], inherit[p][t])) /\ Crew(p) /\ Books(p)
  <2>1. \A t \in All : WorkerOk(w[p][t], inherit[p][t]) BY <1>2, <1>4, Zenon
  <2>2. /\ stage[p] = "start" /\ next[p] = 0 /\ queued[p] = 0 /\ passed[p] = 0 /\ failed[p] = 0 /\ skipped[p] = 0
        /\ outcome[p] = "INCOMPLETE" /\ \A i \in Items : rec[p][i] = "UNTESTED"
    BY Zenon DEF Init
  <2>3. Finished(p) = {} BY <1>2, <1>4, Zenon DEF Finished
  <2>4. Cardinality(Finished(p)) = 0 BY <2>3, Zenon DEF Counting
  <2>5. 0 <= Count + 0 BY Sizes
  <2>6. Crew(p) BY <1>2, <1>4, <2>2, <2>3, <2>4, <2>5, Zenon DEF Crew
  <2>7. "UNTESTED" \notin {"PASSED"} /\ "UNTESTED" \notin Fails /\ "UNTESTED" \notin Skips
    BY Zenon DEF Fails, Skips
  <2>8. /\ Cardinality(Having(p, {"PASSED"})) = 0 /\ Cardinality(Having(p, Fails)) = 0
        /\ Cardinality(Having(p, Skips)) = 0
    BY <2>2, <2>7, AllOf, Zenon
  <2>9. Books(p) BY <2>2, <2>8, Zenon DEF Books
  <2> QED BY <2>1, <2>6, <2>9, Zenon
<1> QED BY <1>5, <1>6, Zenon DEF StageIInv

(* Every step of every scanner, thread and child keeps the invariant. *)
LEMMA StageNext ==
  ASSUME Counting, StageIInv, [Next]_vars
  PROVE  StageIInv'
<1>1. CASE UNCHANGED vars
  <2>1. \A q \in Procs : Same(q) BY <1>1, Zenon DEF Same, vars
  <2>2. StageTypes' BY <1>1, Zenon DEF StageIInv, StageTypes, vars
  <2>3. \A q \in Procs : Proc(q) BY Zenon DEF StageIInv, Proc
  <2>4. \A q \in Procs : Proc(q)' BY <2>1, <2>3, Kept, Zenon
  <2> QED BY <2>2, <2>4, Zenon DEF StageIInv, Proc
<1>2. ASSUME NEW p \in Procs, StartStage(p) \/ Join(p) \/ InlineEnds(p) \/ Cancel(p) PROVE StageIInv'
  BY <1>2, StartStep, JoinStep, InlineStep, CancelStep, Zenon
<1>3. ASSUME NEW p \in Procs, NEW t \in All, Work(p, t) PROVE StageIInv'
  BY <1>3, TakeStep, FindStep, AttemptStep, ReserveStep, BindStep, ConfigStep, WriteStep, CheckForksStep,
     CheckEndsStep, ReleaseStep, SpawnStep, SocksWaitStep, SocksConnectStep, ProbeStep, OutStep,
     DecideStep, CommitStep, Zenon DEF Work
<1>4. ASSUME NEW p \in Procs, NEW t \in All, ChildExecs(p, t) \/ ChildBinds(p, t) \/ ChildExits(p, t)
      PROVE  StageIInv'
  BY <1>4, ChildSteps, Zenon
<1> QED BY <1>1, <1>2, <1>3, <1>4, Zenon DEF Next, Over

INSTANCE FiniteSetTheorems

(* What the proofs take from the theory of finite sets. *)
LEMMA Counted == Counting
<1>1. IsFiniteSet(All)
  <2>1. IsFiniteSet(Threads) BY StageAssumption, Zenon
  <2> QED BY <2>1, FS_AddElement, Zenon DEF All
<1>2. IsFiniteSet(1..Count) /\ Cardinality(1..Count) = Count BY Sizes, FS_Interval
<1>3. \A S, x : IsFiniteSet(S) /\ x \notin S => Cardinality(S \cup {x}) = Cardinality(S) + 1 BY FS_AddElement, Zenon
<1>4. \A S : IsFiniteSet(S) => \A T \in SUBSET S : IsFiniteSet(T) BY FS_Subset, Zenon
<1> QED BY <1>1, <1>2, <1>3, <1>4, FS_EmptySet, FS_CardinalityType, SMTT(30) DEF Counting, Items

\* Every candidate is in one of the three classes, so the classes add up.
LEMMA Classes ==
  ASSUME NEW p \in Procs, \A i \in Items : rec[p][i] \in Terminal
  PROVE  Cardinality(Having(p, {"PASSED"})) + Cardinality(Having(p, Fails)) + Cardinality(Having(p, Skips)) = Count
<1>1. PICK A, B, C : A = Having(p, {"PASSED"}) /\ B = Having(p, Fails) /\ C = Having(p, Skips) BY Zenon
<1>2. A \subseteq Items /\ B \subseteq Items /\ C \subseteq Items BY <1>1, Zenon DEF Having
<1>3. IsFiniteSet(A) /\ IsFiniteSet(B) /\ IsFiniteSet(C) BY <1>2, Counted, FS_Subset, Zenon DEF Counting
<1>4. A \cap B = {} /\ (A \cup B) \cap C = {} BY <1>1, Zenon DEF Having, Fails, Skips
<1>5. (A \cup B) \cup C = Items BY <1>1, <1>2, Zenon DEF Having, Terminal
<1>6. IsFiniteSet(A \cup B) /\ Cardinality(A \cup B) = Cardinality(A) + Cardinality(B) - Cardinality(A \cap B)
  BY <1>3, FS_Union, Zenon
<1>7. Cardinality((A \cup B) \cup C) = Cardinality(A \cup B) + Cardinality(C) - Cardinality((A \cup B) \cap C)
  BY <1>3, <1>6, FS_Union, Zenon
<1>8. Cardinality({}) = 0 /\ Cardinality(A) \in Nat /\ Cardinality(B) \in Nat /\ Cardinality(C) \in Nat
  BY <1>3, FS_EmptySet, FS_CardinalityType, Zenon
<1>9. Cardinality(A) + Cardinality(B) + Cardinality(C) = Count
  <2>1. PICK a, b, c \in Nat : a = Cardinality(A) /\ b = Cardinality(B) /\ c = Cardinality(C) BY <1>8, Zenon
  <2>2. Cardinality(A \cap B) = 0 /\ Cardinality((A \cup B) \cap C) = 0 BY <1>4, <1>8, Zenon
  <2>3. Cardinality((A \cup B) \cup C) = Count BY <1>5, Counted, Zenon DEF Counting
  <2>4. PICK u : u = Cardinality(A \cup B) BY Zenon
  <2>5. u = a + b - 0 BY <1>6, <2>1, <2>2, <2>4, Zenon
  <2>6. Count = u + c - 0 BY <1>7, <2>1, <2>2, <2>3, <2>4, Zenon
  <2>7. a + b + c = Count BY <2>1, <2>5, <2>6, Sizes, SMTT(30)
  <2> QED BY <2>1, <2>7, Zenon
<1> QED BY <1>1, <1>9, Zenon

(* The invariant says what the books of the stage promise. *)
LEMMA Implied == StageIInv => StageInv
<1> SUFFICES ASSUME StageIInv PROVE StageInv BY Zenon
<1>1. NothingLeftBehind
  <2> SUFFICES ASSUME NEW p \in Procs, NEW t \in All,
                      w[p][t].pc \in {"off", "take", "find", "attempt", "decide", "commit", "done"}
               PROVE  /\ ~w[p][t].lease /\ ~w[p][t].file /\ w[p][t].child = "none" /\ inherit[p][t] = {}
    BY Zenon DEF NothingLeftBehind
  <2>1. WorkerOk(w[p][t], inherit[p][t]) BY WorkerOf, Zenon
  <2> QED BY <2>1, Zenon DEF WorkerOk
<1>2. CommittedOnce
  <2> SUFFICES ASSUME NEW p \in Procs, NEW t \in All, At(p, t, "commit")
               PROVE  rec[p][w[p][t].item] = "QUEUED"
    BY Zenon DEF CommittedOnce
  <2>1. w[p][t].pc = "commit" /\ t \in Busy(p) BY Zenon DEF At, Busy, Working
  <2>2. Handed(p) BY <2>1, Running, Zenon
  <2> QED BY <2>1, <2>2, Zenon DEF Handed
<1>3. QueuedBalances
  <2> SUFFICES ASSUME NEW p \in Procs, stage[p] = "end"
               PROVE  /\ passed[p] + failed[p] + skipped[p] = queued[p]
                      /\ (queued[p] > 0 => \A i \in Items : rec[p][i] \in Terminal)
                      /\ passed[p] = Cardinality({i \in Items : rec[p][i] = "PASSED"})
                      /\ (outcome[p] = "SUCCESS" => queued[p] > 0 /\ \A i \in Items : rec[p][i] = "PASSED")
    BY Zenon DEF QueuedBalances
  <2>1. Books(p) BY Zenon DEF StageIInv
  <2>2. Having(p, {"PASSED"}) = {i \in Items : rec[p][i] = "PASSED"} BY Zenon DEF Having
  <2>3. passed[p] = Cardinality({i \in Items : rec[p][i] = "PASSED"}) BY <2>1, <2>2, Zenon DEF Books
  <2>4. outcome[p] = "SUCCESS" => queued[p] > 0 /\ \A i \in Items : rec[p][i] = "PASSED"
    <3> SUFFICES ASSUME outcome[p] = "SUCCESS"
                 PROVE  queued[p] > 0 /\ \A i \in Items : rec[p][i] = "PASSED"
      BY Zenon
    <3>1. queued[p] = Count /\ passed[p] = Count BY <2>1, Zenon DEF Books
    <3>2. {i \in Items : rec[p][i] = "PASSED"} = Items
      <4>1. {i \in Items : rec[p][i] = "PASSED"} \subseteq Items BY Zenon
      <4> QED BY <2>3, <3>1, <4>1, Counted, FS_Subset, SMTT(30) DEF Counting
    <3> QED BY <3>1, <3>2, Sizes, SMTT(30)
  <2>5. CASE queued[p] = 0 /\ \A i \in Items : rec[p][i] = "UNTESTED"
    <3>1. "UNTESTED" \notin {"PASSED"} /\ "UNTESTED" \notin Fails /\ "UNTESTED" \notin Skips
      BY Zenon DEF Fails, Skips
    <3>2. /\ Cardinality(Having(p, {"PASSED"})) = 0 /\ Cardinality(Having(p, Fails)) = 0
          /\ Cardinality(Having(p, Skips)) = 0
      BY <2>5, <3>1, AllOf, Counted, Zenon
    <3>3. passed[p] = 0 /\ failed[p] = 0 /\ skipped[p] = 0 BY <2>1, <3>2, Zenon DEF Books
    <3> QED BY <2>3, <2>4, <2>5, <3>3, SMTT(30)
  <2>6. CASE queued[p] = Count /\ \A i \in Items : rec[p][i] \in Terminal
    <3>1. passed[p] + failed[p] + skipped[p] = Count BY <2>1, <2>6, Classes, Zenon DEF Books
    <3> QED BY <2>3, <2>4, <2>6, <3>1, SMTT(30)
  <2> QED BY <2>1, <2>5, <2>6, Zenon DEF Books
<1> QED BY <1>1, <1>2, <1>3, Zenon DEF StageInv

(* The books of the tunnel stage (cf_scan_tunnel, tunnel_worker, commit_tunnel_result) *)
(* hold for any number of scanners, worker threads, candidates, attempts and ports,   *)
(* wherever pthread_create stops, whatever the children do and whenever the user      *)
(* cancels: each candidate is committed once, the totals of a finished stage add up   *)
(* to what was queued, a success means that every candidate passed, and a worker that *)
(* has left an attempt holds no lease, no config file and no child.                   *)
THEOREM StageCorrect == Spec => []StageInv
<1>1. Init => StageIInv BY StageInit, Counted, Zenon
<1>2. StageIInv /\ [Next]_vars => StageIInv' BY StageNext, Counted, Zenon
<1>3. StageIInv => StageInv BY Implied, Zenon
<1> QED BY <1>1, <1>2, <1>3, PTL DEF Spec

=============================================================================
