---------------------------- MODULE CommitProofs ----------------------------
(* The replacement of a file, for any number of calls, any size and any file     *)
(* there before.                                                                 *)
EXTENDS Commit, TLAPS

\* The files of the calls are no one else's.
LEMMA Files ==
  ASSUME CommitParameters
  PROVE  /\ \A f \in File : f # None /\ f # Torn /\ f.by \in Writers
         /\ \A f \in Before : f # Torn /\ f.by \notin Writers /\ f \notin File
         /\ Size \in Nat
<1>1. None.by \notin Writers /\ Torn.by \notin Writers BY DEF CommitParameters, None, Torn
<1>2. \A f \in File : f.by \in Writers BY DEF File
<1> QED BY <1>1, <1>2 DEF CommitParameters

\* What a step of call w may leave alone: everything but its job and the lock.
Only(w, j, locked) ==
  /\ co' \in World /\ co'.kind = co.kind /\ co'.dest = co.dest /\ co'.durable = co.durable
  /\ co'.renames = co.renames /\ co'.promised = co.promised /\ co'.request = co.request
  /\ co'.lock = locked /\ co'.job[w] = j /\ \A v \in Writers \ {w} : co'.job[v] = co.job[v]

(* A step of a call that only moves that call. *)
LEMMA DoOnly ==
  ASSUME co \in World, NEW w \in Writers, NEW j \in Job, Do(w, j)
  PROVE  Only(w, j, co.lock)
BY DEF World, Do, Only

(* qn_cf_ranges_update returns: its call ends and gives back the lock. *)
LEMMA UnlockOnly ==
  ASSUME co \in World, NEW w \in Writers, NEW j \in Job, co' = RangesReturn(w, j, co)
  PROVE  Only(w, j, co.lock \ {w})
BY Zenon DEF World, RangesReturn, Only

\* The calls that have touched the destination are past their rename.
Past(j) == j.pc \in {"syncdir", "dead"} \/ (j.pc = "over" /\ (j.ret = "ok" \/ j.late))

\* A call that moves on, returns or dies keeps the invariant.
LEMMA JobMoves ==
  ASSUME CommitParameters, CommitIInv, NEW w \in Writers, NEW j \in Job, Sound(w, j),
         NEW locked \in SUBSET Writers, Only(w, j, locked),
         \A v \in locked : v \in co.lock \/ v = w,
         w \in locked => co.kind = "ranges" /\ j.pc \notin {"start", "over", "dead"},
         j.pc # "syncdir", Past(co.job[w]) => Past(j)
  PROVE  CommitIInv'
<1>1. co \in World /\ co.promised <= co.renames /\ Placed(co.dest)
      /\ (\A f \in co.durable : Placed(f))
      /\ (co.request = None \/ Whole(co.request))
      /\ \A v \in Writers :
           /\ Sound(v, co.job[v])
           /\ v \in co.lock => co.kind = "ranges" /\ co.job[v].pc \notin {"start", "over", "dead"}
           /\ co.job[v].pc = "syncdir" =>
                co.job[v].mine <= co.renames /\ co.dest \in File /\ co.dest.at >= co.job[v].mine
  BY DEF CommitIInv
<1>2. ASSUME NEW f, Placed(f) PROVE Placed(f)'
  BY <1>2 DEF Placed, Only, Past
<1>3. Placed(co.dest)' /\ (\A f \in co.durable : Placed(f))' BY <1>1, <1>2, SMTT(30) DEF Only
<1>4. ASSUME NEW v \in Writers PROVE Sound(v, co.job[v])'
  BY <1>1, SMTT(30) DEF Only, Sound
<1>5. \A v \in Writers :
        /\ v \in co'.lock => co'.kind = "ranges" /\ co'.job[v].pc \notin {"start", "over", "dead"}
        /\ co'.job[v].pc = "syncdir" =>
             co'.job[v].mine <= co'.renames /\ co'.dest \in File /\ co'.dest.at >= co'.job[v].mine
  BY <1>1 DEF Only
<1> QED BY <1>1, <1>3, <1>4, <1>5 DEF Only, CommitIInv

\* A step of a call that is not past its rename: only its own job is at stake.
LEMMA Advance ==
  ASSUME CommitParameters, CommitIInv, NEW w \in Writers, NEW j \in Job, Do(w, j),
         Sound(w, j), j.pc \notin {"start", "syncdir"},
         w \in co.lock => j.pc \notin {"over", "dead"},
         Past(co.job[w]) => Past(j)
  PROVE  CommitIInv'
<1>1. co \in World /\ co.lock \in SUBSET Writers /\ (w \in co.lock => co.kind = "ranges")
  BY DEF CommitIInv, World
<1>2. Only(w, j, co.lock) BY <1>1, DoOnly
<1> QED BY <1>1, <1>2, JobMoves

\* A range update that returns gives the lock back.
LEMMA Unlocks ==
  ASSUME CommitParameters, CommitIInv, NEW w \in Writers, NEW j \in Job,
         co' = RangesReturn(w, j, co), Sound(w, j), j.pc \in {"over", "dead"},
         Past(co.job[w]) => Past(j)
  PROVE  CommitIInv'
<1>1. co \in World /\ co.lock \in SUBSET Writers BY DEF CommitIInv, World
<1>2. Only(w, j, co.lock \ {w}) BY <1>1, UnlockOnly
<1> QED BY <1>1, <1>2, JobMoves

\* What is known of the job of a call before its step.
LEMMA JobOf ==
  ASSUME CommitParameters, CommitIInv, NEW w \in Writers
  PROVE  co.job[w] \in Job /\ Sound(w, co.job[w]) /\ Size \in Nat
         /\ (w \in co.lock => co.kind = "ranges")
BY DEF CommitIInv, World, CommitParameters

\* What a call is once it has returned.
LEMMA ReturnedJob ==
  ASSUME CommitParameters, NEW j \in Job, NEW ok \in BOOLEAN
  PROVE  /\ Returns(j, ok) \in Job /\ Returns(j, ok).pc = "over"
         /\ Returns(j, ok).ret = (IF ok THEN "ok" ELSE "failed")
         /\ Returns(j, ok).tmp = j.tmp /\ Returns(j, ok).work = j.work
         /\ Returns(j, ok).mine = j.mine /\ Returns(j, ok).late = j.late
<1>1. 0 \in 0..Size BY DEF CommitParameters
<1> QED BY <1>1, Zenon DEF Returns, Job

(* The cleanup of a temporary file takes the file and nothing else. *)
LEMMA UnlinkedJob ==
  ASSUME NEW j \in Job
  PROVE  /\ Unlinked(j) \in Job /\ Unlinked(j).tmp = None /\ Unlinked(j).work = j.work
         /\ Unlinked(j).pc = j.pc /\ Unlinked(j).mine = j.mine /\ Unlinked(j).late = j.late
BY DEF Unlinked, Job

\* A call that returns before its rename has failed and left nothing.
LEMMA FailedJob ==
  ASSUME CommitParameters, NEW j \in Job, NEW ok \in BOOLEAN
  PROVE  /\ Returns(Unlinked(j), ok) \in Job /\ Returns(Unlinked(j), ok).pc = "over"
         /\ Returns(Unlinked(j), ok).tmp = None
         /\ Returns(Unlinked(j), ok).ret = (IF ok THEN "ok" ELSE "failed")
         /\ Returns(Unlinked(j), ok).work = j.work
BY ReturnedJob, UnlinkedJob

(* qn_xray_install returns with its temporary file and its work directory removed. *)
LEMMA XrayJob ==
  ASSUME CommitParameters, NEW j \in Job, NEW ok \in BOOLEAN
  PROVE  /\ XrayReturn(j, ok) \in Job /\ XrayReturn(j, ok).pc = "over"
         /\ XrayReturn(j, ok).tmp = None /\ ~XrayReturn(j, ok).work
         /\ XrayReturn(j, ok).ret = (IF ok THEN "ok" ELSE "failed")
         /\ XrayReturn(j, ok).mine = j.mine
<1> DEFINE u == Unlinked(j)
           v == [u EXCEPT !.work = FALSE]
<1>1. u \in Job /\ u.tmp = None /\ u.mine = j.mine BY UnlinkedJob
<1> HIDE DEF u
<1>2. v \in Job /\ v.tmp = None /\ v.mine = j.mine /\ ~v.work BY <1>1, Zenon DEF Job
<1>3. XrayReturn(j, ok) = Returns(v, ok) BY DEF XrayReturn, u
<1> HIDE DEF v
<1> QED BY <1>2, <1>3, ReturnedJob

(* output_finish and qn_scan_settings_save fail before the rename. *)
LEMMA Fails ==
  ASSUME CommitParameters, CommitIInv, NEW w \in Writers, NEW j \in Job,
         j.work => co.kind = "xray",
         co.kind \in {"export", "settings"}, ~Past(co.job[w]),
         Do(w, Returns(Unlinked(j), FALSE))
  PROVE  CommitIInv'
<1> DEFINE r == Returns(Unlinked(j), FALSE)
<1>1. r \in Job /\ r.pc = "over" /\ r.tmp = None /\ r.ret = "failed" /\ ~r.work
  BY FailedJob, Zenon
<1>2. Sound(w, r) BY <1>1, Zenon DEF Sound
<1>3. w \notin co.lock BY JobOf
<1> HIDE DEF r
<1>4. Do(w, r) BY Zenon DEF r
<1> QED BY <1>1, <1>2, <1>3, <1>4, Advance

(* qn_cf_ranges_update fails before the rename. *)
LEMMA RangesFails ==
  ASSUME CommitParameters, CommitIInv, NEW w \in Writers, co.kind = "ranges",
         ~Past(co.job[w]), RangesFail(w)
  PROVE  CommitIInv'
<1> DEFINE r == Returns(Unlinked(co.job[w]), FALSE)
<1>1. r \in Job /\ r.pc = "over" /\ r.tmp = None /\ r.ret = "failed" /\ ~r.work
  BY FailedJob, JobOf, ZenonT(40) DEF Sound
<1>2. Sound(w, r) BY <1>1, Zenon DEF Sound
<1>3. co' = RangesReturn(w, r, co) BY DEF RangesFail
<1> HIDE DEF r
<1> QED BY <1>1, <1>2, <1>3, Unlocks

(* qn_xray_install fails before the rename. *)
LEMMA XrayFails ==
  ASSUME CommitParameters, CommitIInv, NEW w \in Writers, NEW j \in Job, co.kind = "xray",
         ~Past(co.job[w]), Do(w, XrayReturn(j, FALSE))
  PROVE  CommitIInv'
<1> DEFINE r == XrayReturn(j, FALSE)
<1>1. r \in Job /\ r.pc = "over" /\ r.tmp = None /\ r.ret = "failed" /\ ~r.work
  BY XrayJob, Zenon
<1>2. Sound(w, r) BY <1>1, Zenon DEF Sound
<1>3. w \notin co.lock BY JobOf
<1> HIDE DEF r
<1>4. Do(w, r) BY Zenon DEF r
<1> QED BY <1>1, <1>2, <1>3, <1>4, Advance

\* The invariant, in parts the provers can use.
LEMMA Parts ==
  ASSUME CommitIInv
  PROVE  /\ co \in World /\ co.promised <= co.renames
         /\ Placed(co.dest) /\ (\A f \in co.durable : Placed(f))
         /\ co.request = None \/ Whole(co.request)
         /\ \A v \in Writers :
              /\ Sound(v, co.job[v])
              /\ v \in co.lock => co.kind = "ranges" /\ co.job[v].pc \notin {"start", "over", "dead"}
              /\ co.job[v].pc = "syncdir" =>
                   co.job[v].mine <= co.renames /\ co.dest \in File /\ co.dest.at >= co.job[v].mine
BY DEF CommitIInv

\* The world after a rename, and after a sync of the directory.
PutAs(d, s, n, g) == [co EXCEPT !.dest = d, !.durable = s, !.renames = n, !.job = g]
SyncedAs(s, n, g) == [co EXCEPT !.durable = s, !.job = g, !.promised = n]

(* The fields of the world when the destination changes. *)
LEMMA RenamedWorld ==
  ASSUME co \in World, NEW d \in Before \cup File, NEW s \in SUBSET (Before \cup File), NEW n \in Nat,
         NEW g \in [Writers -> Job], co' = PutAs(d, s, n, g)
  PROVE  /\ co' \in World /\ co'.dest = d /\ co'.renames = n /\ co'.job = g
         /\ co'.kind = co.kind /\ co'.lock = co.lock
         /\ co'.durable = s /\ co'.promised = co.promised /\ co'.request = co.request
BY Zenon DEF World, PutAs

(* The fields of the world when a directory sync makes the destination durable. *)
LEMMA DurableWorld ==
  ASSUME co \in World, NEW s \in SUBSET (Before \cup File), NEW n \in Nat, NEW g \in [Writers -> Job],
         NEW c, c = SyncedAs(s, n, g)
  PROVE  /\ c \in World /\ c.dest = co.dest /\ c.renames = co.renames
         /\ c.job = g /\ c.kind = co.kind /\ c.lock = co.lock
         /\ c.durable = s /\ c.promised = n /\ c.request = co.request
BY Zenon DEF World, SyncedAs

(* A call that a step does not move stays sound. *)
LEMMA StillSound ==
  ASSUME NEW v \in Writers, Sound(v, co.job[v]), co'.kind = co.kind, co'.job[v] = co.job[v]
  PROVE  Sound(v, co.job[v])'
BY DEF Sound

\* The rename puts a whole, synced and checked file in place, newer than any other.
LEMMA Puts ==
  ASSUME CommitParameters, CommitIInv, NEW w \in Writers, co.job[w].pc = "rename",
         NEW n \in Nat, n = co.renames + 1,
         NEW new \in File, new.by = w, Whole(new), new.synced, new.at = n,
         NEW j \in Job, j.pc = "syncdir", j.tmp = None, j.mine = n, j.ret # "failed",
         j.work => co.kind = "xray",
         NEW g, g = [co.job EXCEPT ![w] = j],
         NEW s \in SUBSET (Before \cup File), \A f \in s : f = new \/ f \in co.durable,
         co' = PutAs(new, s, n, g)
  PROVE  CommitIInv'
<1>1. /\ co \in World /\ co.renames \in Nat /\ co.promised \in Nat /\ co.promised <= co.renames
      /\ co.job \in [Writers -> Job]
  BY Parts DEF World
<1>2. /\ co' \in World /\ co'.dest = new /\ co'.renames = n /\ co'.job = g
      /\ co'.kind = co.kind /\ co'.lock = co.lock
      /\ co'.durable = s /\ co'.promised = co.promised /\ co'.request = co.request
  <2>1. g \in [Writers -> Job] BY <1>1
  <2> QED BY <2>1, <1>1, RenamedWorld
<1>3. co'.job[w] = j /\ \A v \in Writers \ {w} : co'.job[v] = co.job[v] BY <1>1, <1>2, SMTT(30)
<1>4. Placed(new)' BY <1>1, <1>2, <1>3, SMTT(30) DEF Placed, Whole
<1>5. Placed(co.dest)' /\ (\A f \in co.durable : Placed(f))'
  <2>1. ASSUME NEW f, Placed(f) PROVE Placed(f)' BY <1>2, <1>3, <2>1 DEF Placed
  <2>2. \A f \in co.durable : Placed(f)' BY <2>1, Parts
  <2>3. \A f \in s : Placed(f)' BY <1>4, <2>2
  <2> QED BY <1>2, <1>4, <2>3, Zenon
<1>6. \A v \in Writers : Sound(v, co.job[v])'
  <2>1. Sound(w, j)' BY <1>2 DEF Sound
  <2>2. \A v \in Writers \ {w} : Sound(v, co.job[v])' BY <1>2, <1>3, Parts, StillSound, SMTT(30)
  <2> QED BY <2>1, <2>2, <1>3
<1>7. \A v \in Writers :
        /\ v \in co'.lock => co'.kind = "ranges" /\ co'.job[v].pc \notin {"start", "over", "dead"}
        /\ co'.job[v].pc = "syncdir" =>
             co'.job[v].mine <= co'.renames /\ co'.dest \in File /\ co'.dest.at >= co'.job[v].mine
  <2> TAKE v \in Writers
  <2>1. v = w \/ (co'.job[v] = co.job[v] /\ co.job[v].mine \in Nat) BY <1>1, <1>3 DEF Job
  <2> QED BY <2>1, <1>1, <1>2, <1>3, Parts
<1>8. co'.promised <= co'.renames BY <1>1, <1>2
<1> QED BY <1>2, <1>5, <1>6, <1>7, <1>8, Parts, Zenon DEF CommitIInv, Whole

(* The rename of a whole, synced and checked file keeps the invariant. *)
LEMMA Renames ==
  ASSUME CommitParameters, CommitIInv, NEW w \in Writers, co.job[w].pc = "rename",
         co' = Renamed(w)
  PROVE  CommitIInv'
<1>1. /\ co \in World /\ co.job[w] \in Job /\ Sound(w, co.job[w]) /\ co.renames \in Nat
      /\ co.job \in [Writers -> Job]
  BY Parts, SMTT(30) DEF World
<1> DEFINE tmp == co.job[w].tmp
<1>2. tmp \in File /\ tmp.by = w /\ tmp.cells = Size /\ tmp.synced /\ tmp.good
  BY <1>1 DEF Sound
<1>3. PICK n \in Nat : n = co.renames + 1 BY <1>1
<1>4. PICK new : new = [tmp EXCEPT !.at = n] BY Zenon
<1> HIDE DEF tmp
<1>5. new \in File /\ new.by = w /\ new.cells = Size /\ new.synced /\ new.good /\ new.at = n
  BY <1>2, <1>4 DEF File
<1>6. Whole(new) BY <1>5, Files DEF Whole, IsFile
<1>7. PICK i \in Job : i = co.job[w] BY <1>1
<1>8. i.ret # "failed" /\ (i.work => co.kind = "xray") BY <1>1, <1>7 DEF Sound
<1>9. PICK j : j = [i EXCEPT !.tmp = None, !.pc = "syncdir", !.mine = n] OBVIOUS
<1>10. j \in Job /\ j.pc = "syncdir" /\ j.tmp = None /\ j.mine = n /\ j.ret = i.ret /\ j.work = i.work
  BY <1>7, <1>9, Zenon DEF Job
<1>11. PICK g : g = [co.job EXCEPT ![w] = j] BY Zenon
<1>12. [Unlinked(i) EXCEPT !.pc = "syncdir", !.mine = n] = j
  BY <1>7, <1>9 DEF Unlinked, Job
<1>13. PICK s : s = co.durable \cup {new} BY Zenon
<1>14. s \in SUBSET (Before \cup File) /\ \A f \in s : f = new \/ f \in co.durable
  BY <1>1, <1>5, <1>13 DEF World
<1>15. co' = PutAs(new, s, n, g)
  BY <1>1, <1>3, <1>4, <1>7, <1>11, <1>12, <1>13, Zenon DEF Renamed, tmp, World, PutAs
<1> QED BY <1>3, <1>5, <1>6, <1>8, <1>10, <1>11, <1>14, <1>15, Puts

\* The directory is synced: what is there is durable, and what this call
\* promises is there, or a later rename is.
LEMMA Syncs ==
  ASSUME CommitParameters, CommitIInv, NEW w \in Writers, co.job[w].pc = "syncdir",
         NEW j \in Job, j.pc = "over", j.ret = "ok", j.tmp = None, ~j.work,
         j.mine = co.job[w].mine, NEW locked \in SUBSET Writers, locked \subseteq co.lock,
         w \notin locked, co'.lock = locked,
         co' = Durable(w, j) \/ co' = RangesReturn(w, j, Durable(w, j))
  PROVE  CommitIInv'
<1> DEFINE p == IF j.mine > co.promised THEN j.mine ELSE co.promised
<1>1. /\ co \in World /\ co.job \in [Writers -> Job] /\ co.dest \in Before \cup File
      /\ co.renames \in Nat /\ co.promised \in Nat /\ co.promised <= co.renames
      /\ co.job[w] \in Job
  BY Parts, SMTT(30) DEF World
<1>2. /\ j.mine \in Nat /\ j.mine <= co.renames /\ co.dest \in File /\ co.dest.at >= j.mine
      /\ co.dest.at \in Nat
  BY <1>1, Parts, SMTT(30) DEF Job, File
<1>3. p \in Nat /\ p <= co.renames /\ p <= co.dest.at
  BY <1>1, <1>2, Parts DEF Placed
<1>4. /\ co' \in World /\ co'.dest = co.dest /\ co'.renames = co.renames
      /\ co'.job = [co.job EXCEPT ![w] = j] /\ co'.kind = co.kind
      /\ co'.durable = {co.dest} /\ co'.promised = p /\ co'.request = co.request
  <2> HIDE DEF p
  <2>1. Durable(w, j) = SyncedAs({co.dest}, p, [co.job EXCEPT ![w] = j])
    BY <1>1 DEF Durable, World, p, SyncedAs
  <2> DEFINE d == Durable(w, j)
  <2>4. /\ d \in World /\ d.dest = co.dest /\ d.renames = co.renames
        /\ d.job = [co.job EXCEPT ![w] = j] /\ d.kind = co.kind
        /\ d.durable = {co.dest} /\ d.promised = p /\ d.request = co.request
    <3>1. [co.job EXCEPT ![w] = j] \in [Writers -> Job] /\ {co.dest} \in SUBSET (Before \cup File)
      BY <1>1
    <3> HIDE DEF d
    <3> QED BY <3>1, <2>1, <1>1, <1>3, DurableWorld DEF d
  <2>2. CASE co' = Durable(w, j) BY <2>2, <2>4
  <2>3. CASE co' = RangesReturn(w, j, Durable(w, j))
    <3> HIDE DEF d
    <3>2. co' = [d EXCEPT !.job = [d.job EXCEPT ![w] = j], !.lock = d.lock \ {w}]
      BY <2>3, <2>4 DEF RangesReturn, World, d
    <3> QED BY <2>4, <3>2, <1>1, ZenonT(40) DEF World
  <2> QED BY <2>2, <2>3
<1> HIDE DEF p
<1>5. co'.job[w] = j /\ \A v \in Writers \ {w} : co'.job[v] = co.job[v] BY <1>1, <1>4
<1>6. Placed(co.dest)' /\ (\A f \in co.durable : Placed(f))'
  <2>1. Placed(co.dest)' BY <1>2, <1>3, <1>4, <1>5, Parts, SMTT(30) DEF Placed
  <2> QED BY <2>1, <1>4
<1>7. \A v \in Writers : Sound(v, co.job[v])'
  <2>1. Sound(w, j)' BY <1>4 DEF Sound
  <2> QED BY <2>1, <1>4, <1>5, Parts, SMTT(30) DEF Sound
<1>8. \A v \in Writers :
        /\ v \in co'.lock => co'.kind = "ranges" /\ co'.job[v].pc \notin {"start", "over", "dead"}
        /\ co'.job[v].pc = "syncdir" =>
             co'.job[v].mine <= co'.renames /\ co'.dest \in File /\ co'.dest.at >= co'.job[v].mine
  BY <1>4, <1>5, Parts
<1> QED BY <1>3, <1>4, <1>6, <1>7, <1>8, Parts, SMTT(30) DEF CommitIInv, Whole

\* The forms a job takes on its way to the rename.
LEMMA NewFile ==
  ASSUME CommitParameters, NEW w \in Writers, NEW g \in BOOLEAN
  PROVE  /\ New(w, g) \in File /\ New(w, g).by = w /\ New(w, g).cells = 0 /\ New(w, g).good = g
BY DEF New, File, CommitParameters

(* A call that goes on to its next position. *)
LEMMA MovedJob ==
  ASSUME NEW i \in Job,
         NEW pc \in {"digest", "extract", "write", "inspect", "rename", "syncdir", "over", "dead"}
  PROVE  \E j \in Job : /\ j = [i EXCEPT !.pc = pc] /\ j.pc = pc /\ j.tmp = i.tmp /\ j.work = i.work
                        /\ j.left = i.left /\ j.bad = i.bad /\ j.mine = i.mine /\ j.ret = i.ret
                        /\ j.late = i.late
<1> DEFINE j == [i EXCEPT !.pc = pc]
<1>1. /\ j \in Job /\ j.pc = pc /\ j.tmp = i.tmp /\ j.work = i.work
      /\ j.left = i.left /\ j.bad = i.bad /\ j.mine = i.mine /\ j.ret = i.ret /\ j.late = i.late
  BY DEF Job
<1>2. j = [i EXCEPT !.pc = pc] OBVIOUS
<1> HIDE DEF j
<1> QED BY <1>1, <1>2, Zenon

(* A call that has written a piece, or has failed to. *)
LEMMA WroteJob ==
  ASSUME CommitParameters, NEW i \in Job, i.tmp \in File, i.left > 0, i.tmp.cells + i.left <= Size,
         NEW j \in Wrote(i)
  PROVE  /\ j \in Job /\ j.tmp \in File /\ j.tmp.by = i.tmp.by /\ j.tmp.good = i.tmp.good
         /\ j.pc = i.pc /\ j.work = i.work /\ j.ret = i.ret /\ j.left = i.left - 1
         /\ \/ j.bad = i.bad /\ j.tmp.cells = i.tmp.cells + 1
            \/ j.bad /\ j.tmp.cells = i.tmp.cells
<1>1. /\ i.left \in 0..Size /\ i.tmp.cells \in 0..Size /\ Size \in Nat
      /\ i.left - 1 \in 0..Size /\ i.tmp.cells + 1 \in 0..Size
  <2>1. i.left \in 0..Size /\ i.tmp.cells \in 0..Size /\ Size \in Nat
    BY DEF Job, File, CommitParameters
  <2> QED BY <2>1
<1>2. PICK t : t = [i.tmp EXCEPT !.cells = i.tmp.cells + 1] BY Zenon
<1>3. t \in File /\ t.by = i.tmp.by /\ t.good = i.tmp.good /\ t.cells = i.tmp.cells + 1
  BY <1>1, <1>2 DEF File
<1>4. PICK l : l = i.left - 1 OBVIOUS
<1>5. j = [i EXCEPT !.tmp = t, !.left = l] \/ j = [i EXCEPT !.left = l, !.bad = TRUE]
  BY <1>2, <1>4 DEF Wrote, Job
<1> QED BY <1>1, <1>3, <1>4, <1>5, Zenon DEF Job

(* A call whose temporary file was synced. *)
LEMMA SyncedJob ==
  ASSUME NEW i \in Job, i.tmp \in File
  PROVE  /\ Synced(i) \in Job /\ Synced(i).tmp \in File /\ Synced(i).tmp.by = i.tmp.by
         /\ Synced(i).tmp.good = i.tmp.good /\ Synced(i).tmp.cells = i.tmp.cells
         /\ Synced(i).tmp.synced /\ Synced(i).pc = "rename" /\ Synced(i).work = i.work
         /\ Synced(i).ret = i.ret
<1>1. PICK t : t = [i.tmp EXCEPT !.synced = TRUE] BY Zenon
<1>2. t \in File /\ t.by = i.tmp.by /\ t.good = i.tmp.good /\ t.cells = i.tmp.cells /\ t.synced
  BY <1>1, Zenon DEF File
<1>3. Synced(i) = [i EXCEPT !.tmp = t, !.pc = "rename"] BY <1>1 DEF Synced, Job
<1> QED BY <1>2, <1>3, Zenon DEF Job

\* A temporary file is opened, for any kind.
LEMMA OpenedJob ==
  ASSUME CommitParameters, CommitIInv, NEW w \in Writers, co.job[w].pc = "start",
         NEW g \in BOOLEAN, NEW pc \in {"write", "digest"}, NEW wk \in BOOLEAN,
         wk => co.kind = "xray", pc = "write" => g \/ co.kind = "ranges",
         NEW j, j = [co.job[w] EXCEPT !.pc = pc, !.tmp = New(w, g), !.work = wk]
  PROVE  j \in Job /\ Sound(w, j) /\ j.pc = pc
<1>1. PICK i \in Job : i = co.job[w] BY JobOf, SMTT(30)
<1>2. i = Idle /\ Size \in Nat BY <1>1, JobOf DEF Sound
<1>3. i.left = Size /\ i.bad = FALSE /\ i.ret = "none" BY <1>2 DEF Idle
<1>4. PICK t \in File : t = New(w, g) /\ t.by = w /\ t.cells = 0 /\ t.good = g BY NewFile
<1>5. j = [i EXCEPT !.pc = pc, !.tmp = t, !.work = wk] BY <1>1, <1>4
<1>6. j \in Job /\ j.pc = pc /\ j.tmp = t /\ j.work = wk /\ j.left = Size /\ j.bad = FALSE
      /\ j.ret = "none"
  BY <1>3, <1>4, <1>5, Zenon DEF Job
<1> QED BY <1>2, <1>4, <1>6 DEF Sound

\* The steps the kinds share: the file is opened, written, synced; the
\* directory is synced, or is not.
LEMMA OpenStep ==
  ASSUME CommitParameters, CommitIInv, NEW w \in Writers, co.job[w].pc = "start",
         co.kind \in {"export", "settings"},
         \/ Do(w, [Moved(w, "write") EXCEPT !.tmp = New(w, TRUE)])
         \/ Do(w, Returns(co.job[w], FALSE))
  PROVE  CommitIInv'
<1>1. PICK i \in Job : i = co.job[w] BY JobOf
<1>2. i = Idle /\ ~i.work /\ i.tmp = None /\ w \notin co.lock
  <2>1. i = Idle /\ w \notin co.lock BY <1>1, JobOf DEF Sound
  <2>2. Idle.work = FALSE /\ Idle.tmp = None BY DEF Idle
  <2> QED BY <2>1, <2>2
<1>3. CASE Do(w, [Moved(w, "write") EXCEPT !.tmp = New(w, TRUE)])
  <2>1. PICK j : j = [co.job[w] EXCEPT !.pc = "write", !.tmp = New(w, TRUE), !.work = FALSE] OBVIOUS
  <2>2. j \in Job /\ Sound(w, j) /\ j.pc = "write" BY <2>1, OpenedJob, Zenon
  <2>3. j = [Moved(w, "write") EXCEPT !.tmp = New(w, TRUE)] BY <1>1, <1>2, <2>1, Zenon DEF Moved, Job
  <2> QED BY <1>2, <1>3, <2>2, <2>3, Advance, Zenon DEF Past
<1>4. CASE Do(w, Returns(co.job[w], FALSE))
  <2>1. Unlinked(i) = i BY <1>2 DEF Unlinked, Job
  <2> QED BY <1>1, <1>2, <1>4, <2>1, Fails, Zenon DEF Past
<1> QED BY <1>3, <1>4, Zenon

(* A piece is written to the temporary file. *)
LEMMA WriteStep ==
  ASSUME CommitParameters, CommitIInv, NEW w \in Writers, co.job[w].pc = "write",
         co.job[w].left > 0, NEW j \in Wrote(co.job[w]), j.bad => co.kind = "export", Do(w, j)
  PROVE  CommitIInv'
<1>1. PICK i \in Job : i = co.job[w] BY JobOf
<1>2. Sound(w, i) /\ Size \in Nat BY <1>1, JobOf
<1>3. i.pc = "write" /\ i.left > 0 /\ j \in Wrote(i) BY <1>1
<1>4. i.tmp \in File /\ i.tmp.cells + i.left <= Size /\ i.left \in 0..Size /\ i.tmp.cells \in 0..Size
  BY <1>2, <1>3 DEF Sound, Job, File
<1>5. /\ j \in Job /\ j.tmp \in File /\ j.tmp.by = i.tmp.by /\ j.tmp.good = i.tmp.good
      /\ j.pc = i.pc /\ j.work = i.work /\ j.ret = i.ret /\ j.left = i.left - 1
      /\ \/ j.bad = i.bad /\ j.tmp.cells = i.tmp.cells + 1
         \/ j.bad /\ j.tmp.cells = i.tmp.cells
  BY <1>3, <1>4, WroteJob, SMTT(30)
<1>6. Sound(w, j) BY <1>2, <1>3, <1>4, <1>5, SMTT(30) DEF Sound
<1> QED BY <1>1, <1>3, <1>5, <1>6, Advance DEF Past

\* Written to the end without an error, the file is whole; synced, it may be renamed.
LEMMA SyncStep ==
  ASSUME CommitParameters, CommitIInv, NEW w \in Writers, co.job[w].pc = "write",
         co.job[w].left = 0, ~co.job[w].bad, co.kind # "ranges", Do(w, Synced(co.job[w]))
  PROVE  CommitIInv'
<1>1. PICK i \in Job : i = co.job[w] BY JobOf
<1>2. Sound(w, i) /\ Size \in Nat /\ i.pc = "write" /\ i.left = 0 /\ ~i.bad BY <1>1, JobOf
<1>3. i.tmp \in File /\ i.tmp.cells + i.left = Size /\ i.tmp.cells \in 0..Size
  BY <1>2 DEF Sound, File
<1>4. i.tmp.by = w /\ i.tmp.cells = Size /\ i.tmp.good /\ (i.work => co.kind = "xray")
      /\ i.ret # "failed"
  BY <1>2, <1>3 DEF Sound
<1>5. PICK j \in Job : j = Synced(i) /\ j.tmp \in File /\ j.tmp.by = w /\ j.tmp.good
                       /\ j.tmp.cells = Size /\ j.tmp.synced /\ j.pc = "rename"
                       /\ j.work = i.work /\ j.ret = i.ret
  BY <1>3, <1>4, SyncedJob
<1>6. Sound(w, j) BY <1>4, <1>5 DEF Sound
<1> QED BY <1>1, <1>2, <1>5, <1>6, Advance DEF Past

\* Past the rename, the call returns without having synced the directory.
LEMMA NotSynced ==
  ASSUME CommitParameters, CommitIInv, NEW w \in Writers, co.job[w].pc = "syncdir",
         NEW j \in Job, j.pc = "over", j.tmp = None, ~j.work, j.ret = "ok" \/ j.late,
         \/ Do(w, j) /\ co.kind # "ranges"
         \/ co' = RangesReturn(w, j, co)
  PROVE  CommitIInv'
<1>1. Sound(w, j) BY DEF Sound
<1>2. Past(j) BY DEF Past
<1> QED BY <1>1, <1>2, JobOf, Advance, Unlocks

\* ... or having synced it.
LEMMA DirSynced ==
  ASSUME CommitParameters, CommitIInv, NEW w \in Writers, co.job[w].pc = "syncdir",
         NEW j \in Job, j.pc = "over", j.tmp = None, ~j.work, j.ret = "ok",
         j.mine = co.job[w].mine,
         \/ co' = Durable(w, j) /\ co.kind # "ranges"
         \/ co' = RangesReturn(w, j, Durable(w, j))
  PROVE  CommitIInv'
<1>1. co \in World /\ co.lock \in SUBSET Writers /\ co.job \in [Writers -> Job]
      /\ (w \in co.lock => co.kind = "ranges")
  BY Parts DEF World
<1>2. CASE co' = Durable(w, j) /\ co.kind # "ranges"
  <2>1. co'.lock = co.lock BY <1>1, <1>2 DEF Durable, World
  <2> QED BY <1>1, <1>2, <2>1, Syncs
<1>3. CASE co' = RangesReturn(w, j, Durable(w, j))
  <2>1. co'.lock = co.lock \ {w} BY <1>1, <1>3 DEF Durable, World, RangesReturn
  <2> QED BY <1>1, <1>3, <2>1, Syncs
<1> QED BY <1>2, <1>3

\* The job of a call that returns late, after its rename.
LEMMA LateJob ==
  ASSUME NEW i \in Job
  PROVE  \E j \in Job : /\ j = [i EXCEPT !.late = TRUE] /\ j.late /\ j.pc = i.pc /\ j.tmp = i.tmp
                        /\ j.work = i.work
<1> DEFINE j == [i EXCEPT !.late = TRUE]
<1>1. j \in Job /\ j.late /\ j.pc = i.pc /\ j.tmp = i.tmp /\ j.work = i.work BY Zenon DEF Job
<1>2. j = [i EXCEPT !.late = TRUE] OBVIOUS
<1> HIDE DEF j
<1> QED BY <1>1, <1>2, Zenon

(* A call that returns after its rename, as a success. *)
LEMMA ReturnsOk ==
  ASSUME CommitParameters, NEW i \in Job, i.tmp = None, ~i.work
  PROVE  \E j \in Job : j = Returns(i, TRUE) /\ j.pc = "over" /\ j.tmp = None /\ ~j.work
                        /\ j.ret = "ok" /\ j.mine = i.mine
<1>1. /\ Returns(i, TRUE) \in Job /\ Returns(i, TRUE).pc = "over"
      /\ Returns(i, TRUE).ret = (IF TRUE THEN "ok" ELSE "failed")
      /\ Returns(i, TRUE).tmp = i.tmp /\ Returns(i, TRUE).work = i.work
      /\ Returns(i, TRUE).mine = i.mine
  BY ReturnedJob, Zenon
<1> QED BY <1>1, Zenon

(* A call that returns after its rename, with the directory not synced. *)
LEMMA ReturnsLate ==
  ASSUME CommitParameters, NEW i \in Job, i.tmp = None, ~i.work
  PROVE  \E l \in Job : l = [Returns(i, FALSE) EXCEPT !.late = TRUE] /\ l.late /\ l.pc = "over"
                        /\ l.tmp = None /\ ~l.work
<1>1. /\ Returns(i, FALSE) \in Job /\ Returns(i, FALSE).pc = "over"
      /\ Returns(i, FALSE).tmp = i.tmp /\ Returns(i, FALSE).work = i.work
  BY ReturnedJob, Zenon
<1>2. PICK r \in Job : r = Returns(i, FALSE) BY <1>1, Zenon
<1>3. PICK l \in Job : l = [r EXCEPT !.late = TRUE] /\ l.late /\ l.pc = r.pc /\ l.tmp = r.tmp
                       /\ l.work = r.work
  BY LateJob
<1> QED BY <1>1, <1>2, <1>3, Zenon

\* The steps of an export (export.c).
LEMMA ExportStep ==
  ASSUME CommitParameters, CommitIInv, NEW w \in Writers, Export(w)
  PROVE  CommitIInv'
<1>1. PICK i \in Job : i = co.job[w] BY JobOf
<1>2. Sound(w, i) BY <1>1, JobOf
<1>3. co.kind = "export"
  BY Zenon DEF Export, OutputOpen, ExportRows, OutputAbort, OutputSync, OutputRename, OutputSyncDir, At
<1>4. ASSUME i.pc \in {"write", "rename"}, Do(w, Returns(Unlinked(i), FALSE)) PROVE CommitIInv'
  BY <1>1, <1>2, <1>3, <1>4, Fails, Zenon DEF Sound, Past
<1>5. CASE OutputOpen(w) BY <1>5, OpenStep, Zenon DEF OutputOpen, At
<1>6. CASE ExportRows(w) BY <1>6, WriteStep DEF ExportRows, At
<1>7. CASE OutputAbort(w) BY <1>1, <1>4, <1>7 DEF OutputAbort, At
<1>8. CASE OutputSync(w) BY <1>1, <1>3, <1>4, <1>8, SyncStep, Zenon DEF OutputSync, At
<1>9. CASE OutputRename(w) BY <1>1, <1>4, <1>9, Renames, Zenon DEF OutputRename, At
<1>10. CASE OutputSyncDir(w)
  <2>1. i.pc = "syncdir" /\ i.tmp = None /\ ~i.work
    BY <1>1, <1>2, <1>3, <1>10 DEF OutputSyncDir, At, Sound
  <2>2. PICK j \in Job : j = Returns(i, TRUE) /\ j.pc = "over" /\ j.tmp = None /\ ~j.work
                         /\ j.ret = "ok" /\ j.mine = i.mine
    BY <2>1, ReturnsOk, Zenon
  <2>3. PICK l \in Job : l = [Returns(i, FALSE) EXCEPT !.late = TRUE] /\ l.late /\ l.pc = "over"
                         /\ l.tmp = None /\ ~l.work
    BY <2>1, ReturnsLate, Zenon
  <2>4. co' = Durable(w, j) \/ Do(w, j) \/ Do(w, l)
    BY <1>1, <1>10, <2>2, <2>3, Zenon DEF OutputSyncDir
  <2> QED BY <1>1, <1>3, <2>1, <2>2, <2>3, <2>4, NotSynced, DirSynced, Zenon
<1> QED BY <1>5, <1>6, <1>7, <1>8, <1>9, <1>10 DEF Export

\* The steps of a save of the settings (scan_plan.c).
LEMMA SettingsStep ==
  ASSUME CommitParameters, CommitIInv, NEW w \in Writers, Settings(w)
  PROVE  CommitIInv'
<1>1. PICK i \in Job : i = co.job[w] BY JobOf
<1>2. Sound(w, i) BY <1>1, JobOf
<1>3. co.kind = "settings"
  BY Zenon DEF Settings, SettingsOpen, SettingsWrite, SettingsSync, SettingsRename, SettingsSyncDir, At
<1>4. ASSUME i.pc \in {"write", "rename"}, Do(w, Returns(Unlinked(i), FALSE)) PROVE CommitIInv'
  BY <1>1, <1>2, <1>3, <1>4, Fails, Zenon DEF Sound, Past
<1>5. CASE SettingsOpen(w) BY <1>5, OpenStep, Zenon DEF SettingsOpen, At
<1>6. CASE SettingsWrite(w)
  <2>1. i.pc = "write" /\ i.left > 0 /\ ~i.work /\ i.tmp \in File /\ i.tmp.cells + i.left <= Size
    BY <1>1, <1>2, <1>3, <1>6 DEF SettingsWrite, At, Sound
  <2>2. PICK j \in Wrote(i) : Do(w, IF j.bad THEN Returns(Unlinked(j), FALSE) ELSE j)
    BY <1>1, <1>6, Zenon DEF SettingsWrite
  <2>3. j \in Job /\ ~j.work BY <2>1, WroteJob
  <2>4. CASE j.bad BY <1>1, <1>3, <2>1, <2>2, <2>3, <2>4, Fails, Zenon DEF Past
  <2>5. CASE ~j.bad BY <1>1, <2>1, <2>2, <2>5, WriteStep
  <2> QED BY <2>4, <2>5, SMTT(30)
<1>7. CASE SettingsSync(w)
  <2>1. i.pc = "write" /\ ~i.bad BY <1>1, <1>2, <1>3, <1>7 DEF SettingsSync, At, Sound
  <2> QED BY <1>1, <1>3, <1>4, <1>7, <2>1, SyncStep, Zenon DEF SettingsSync, At
<1>8. CASE SettingsRename(w) BY <1>1, <1>4, <1>8, Renames, Zenon DEF SettingsRename, At
<1>9. CASE SettingsSyncDir(w)
  <2>1. i.pc = "syncdir" /\ i.tmp = None /\ ~i.work
    BY <1>1, <1>2, <1>3, <1>9 DEF SettingsSyncDir, At, Sound
  <2>2. PICK j \in Job : j = Returns(i, TRUE) /\ j.pc = "over" /\ j.tmp = None /\ ~j.work
                         /\ j.ret = "ok" /\ j.mine = i.mine
    BY <2>1, ReturnsOk, Zenon
  <2>3. PICK l \in Job : l = [Returns(i, FALSE) EXCEPT !.late = TRUE] /\ l.late /\ l.pc = "over"
                         /\ l.tmp = None /\ ~l.work
    BY <2>1, ReturnsLate, Zenon
  <2>4. co' = Durable(w, j) \/ Do(w, l)
    BY <1>1, <1>9, <2>2, <2>3, Zenon DEF SettingsSyncDir
  <2> QED BY <1>1, <1>3, <2>1, <2>2, <2>3, <2>4, NotSynced, DirSynced, Zenon
<1> QED BY <1>5, <1>6, <1>7, <1>8, <1>9 DEF Settings

\* The steps of an update of the range list (ranges.c).
LEMMA RangesStep ==
  ASSUME CommitParameters, CommitIInv, NEW w \in Writers, Ranges(w)
  PROVE  CommitIInv'
<1>1. PICK i \in Job : i = co.job[w] BY JobOf
<1>2. Sound(w, i) /\ Size \in Nat BY <1>1, JobOf
<1>3. co.kind = "ranges"
  BY Zenon DEF Ranges, RangesOpen, RangesDownload, RangesSync, RangesInspect, RangesRename, RangesSyncDir, At
<1>4. ASSUME ~Past(i), RangesFail(w) PROVE CommitIInv' BY <1>1, <1>3, <1>4, RangesFails
<1>5. CASE RangesOpen(w)
  <2>1. i.pc = "start" /\ ~Past(i) BY <1>1, <1>5, Zenon DEF RangesOpen, At, Past
  <2>2. ASSUME co.lock = {}, NEW g \in BOOLEAN,
               co' = [co EXCEPT !.lock = {w}, !.job[w] = [Moved(w, "write") EXCEPT !.tmp = New(w, g)]]
        PROVE  CommitIInv'
    <3>1. PICK j : j = [co.job[w] EXCEPT !.pc = "write", !.tmp = New(w, g), !.work = FALSE] OBVIOUS
    <3>2. j \in Job /\ Sound(w, j) /\ j.pc = "write" BY <1>1, <1>3, <2>1, <3>1, OpenedJob, ZenonT(40)
    <3>3. j = [Moved(w, "write") EXCEPT !.tmp = New(w, g)]
      <4>1. i.work = FALSE BY <1>2, <1>3 DEF Sound, Job
      <4> QED BY <1>1, <4>1, <3>1, Zenon DEF Moved, Job
    <3>4. co' = [co EXCEPT !.lock = {w}, !.job[w] = j] BY <2>2, <3>3
    <3>5. Only(w, j, {w}) BY <3>2, <3>4, Parts, Zenon DEF Only, World
    <3> QED BY <1>1, <1>3, <2>1, <2>2, <3>2, <3>5, JobMoves
  <2> QED BY <1>4, <1>5, <2>1, <2>2, Zenon DEF RangesOpen
<1>6. CASE RangesDownload(w)
  <2>1. i.pc = "write" /\ ~Past(i) BY <1>1, <1>6 DEF RangesDownload, At, Past
  <2> QED BY <1>1, <1>4, <1>6, <2>1, WriteStep DEF RangesDownload, At
<1>7. CASE RangesSync(w)
  <2>1. i.pc = "write" /\ i.left = 0 /\ ~i.bad /\ ~Past(i)
    BY <1>1, <1>2, <1>3, <1>7 DEF RangesSync, At, Past, Sound
  <2>2. ASSUME Do(w, [Synced(i) EXCEPT !.pc = "inspect"]) PROVE CommitIInv'
    <3>1. i.tmp \in File /\ i.tmp.cells + i.left = Size /\ i.tmp.cells \in 0..Size /\ i.tmp.by = w
          /\ (i.work => co.kind = "xray") /\ i.ret # "failed"
      BY <1>2, <2>1, SMTT(30) DEF Sound, File
    <3>2. PICK s \in Job : s = Synced(i) /\ s.tmp \in File /\ s.tmp.by = w
                           /\ s.tmp.cells = Size /\ s.tmp.synced /\ s.work = i.work /\ s.ret = i.ret
      BY <1>2, <2>1, <3>1, SyncedJob
    <3>3. PICK j \in Job : j = [s EXCEPT !.pc = "inspect"] /\ j.pc = "inspect" /\ j.tmp = s.tmp
                           /\ j.work = s.work /\ j.ret = s.ret
      BY MovedJob, SMTT(30)
    <3>4. Sound(w, j) BY <3>1, <3>2, <3>3 DEF Sound
    <3> QED BY <1>1, <2>1, <2>2, <3>2, <3>3, <3>4, Advance, Zenon
  <2> QED BY <1>1, <1>4, <1>7, <2>1, <2>2 DEF RangesSync
<1>8. CASE RangesInspect(w)
  <2>1. i.pc = "inspect" /\ ~Past(i) BY <1>1, <1>8 DEF RangesInspect, At, Past
  <2>2. ASSUME i.tmp.good, Do(w, Moved(w, "rename")) PROVE CommitIInv'
    <3>1. PICK j \in Job : j = [i EXCEPT !.pc = "rename"] /\ j.pc = "rename" /\ j.tmp = i.tmp
                           /\ j.work = i.work /\ j.ret = i.ret
      BY MovedJob, SMTT(30)
    <3>2. Sound(w, j) BY <1>2, <2>1, <2>2, <3>1 DEF Sound
    <3> QED BY <1>1, <2>1, <2>2, <3>1, <3>2, Advance, Zenon DEF Moved
  <2> QED BY <1>1, <1>4, <1>8, <2>1, <2>2 DEF RangesInspect
<1>9. CASE RangesRename(w)
  <2>1. i.pc = "rename" /\ ~Past(i) BY <1>1, <1>9 DEF RangesRename, At, Past
  <2> QED BY <1>1, <1>4, <1>9, <2>1, Renames DEF RangesRename
<1>10. CASE RangesSyncDir(w)
  <2>1. i.pc = "syncdir" /\ i.tmp = None /\ ~i.work
    BY <1>1, <1>2, <1>3, <1>10 DEF RangesSyncDir, At, Sound
  <2>2. PICK j \in Job : j = Returns(i, TRUE) /\ j.pc = "over" /\ j.tmp = None /\ ~j.work
                         /\ j.ret = "ok" /\ j.mine = i.mine
    BY <2>1, ReturnsOk, Zenon
  <2>3. co' = RangesReturn(w, j, Durable(w, j)) \/ co' = RangesReturn(w, j, co)
    BY <1>1, <1>10, <2>2, Zenon DEF RangesSyncDir
  <2> QED BY <1>1, <2>1, <2>2, <2>3, NotSynced, DirSynced, Zenon
<1> QED BY <1>5, <1>6, <1>7, <1>8, <1>9, <1>10 DEF Ranges

\* The steps of an installation of Xray (xray_install.c).
LEMMA XrayStep ==
  ASSUME CommitParameters, CommitIInv, NEW w \in Writers, Xray(w)
  PROVE  CommitIInv'
<1>1. PICK i \in Job : i = co.job[w] BY JobOf
<1>2. Sound(w, i) /\ Size \in Nat BY <1>1, JobOf
<1>3. co.kind = "xray" /\ w \notin co.lock
  <2>1. co.kind = "xray"
    BY Zenon DEF Xray, XrayDownload, XrayDigest, XrayExtract, XrayCopy, XraySync, XrayRename, XraySyncDir, At
  <2> QED BY <2>1, JobOf
<1>4. ASSUME ~Past(i), Do(w, XrayReturn(i, FALSE)) PROVE CommitIInv' BY <1>1, <1>3, <1>4, XrayFails, Zenon
<1>5. CASE XrayDownload(w)
  <2>1. i.pc = "start" /\ ~Past(i) BY <1>1, <1>5, Zenon DEF XrayDownload, At, Past
  <2>2. ASSUME NEW g \in BOOLEAN,
               Do(w, [Moved(w, "digest") EXCEPT !.work = TRUE, !.tmp = New(w, g)])
        PROVE  CommitIInv'
    <3>1. PICK j : j = [co.job[w] EXCEPT !.pc = "digest", !.tmp = New(w, g), !.work = TRUE] OBVIOUS
    <3>2. j \in Job /\ Sound(w, j) /\ j.pc = "digest" BY <1>1, <1>3, <2>1, <3>1, OpenedJob, ZenonT(40)
    <3>3. j = [Moved(w, "digest") EXCEPT !.work = TRUE, !.tmp = New(w, g)]
      BY <1>1, <3>1, Zenon DEF Moved, Job
    <3> QED BY <1>1, <1>3, <2>1, <2>2, <3>2, <3>3, Advance, Zenon
  <2> QED BY <1>1, <1>4, <1>5, <2>1, <2>2, Zenon DEF XrayDownload
<1>6. CASE XrayDigest(w)
  <2>1. i.pc = "digest" /\ ~Past(i) BY <1>1, <1>6 DEF XrayDigest, At, Past
  <2>2. ASSUME i.tmp.good, Do(w, Moved(w, "extract")) PROVE CommitIInv'
    <3>1. PICK j \in Job : j = [i EXCEPT !.pc = "extract"] /\ j.pc = "extract" /\ j.tmp = i.tmp
                           /\ j.work = i.work /\ j.ret = i.ret /\ j.left = i.left /\ j.bad = i.bad
      BY MovedJob
    <3>2. Sound(w, j) BY <1>2, <2>1, <2>2, <3>1 DEF Sound
    <3> QED BY <1>1, <2>1, <2>2, <3>1, <3>2, Advance, Zenon DEF Moved
  <2> QED BY <1>1, <1>4, <1>6, <2>1, <2>2, Zenon DEF XrayDigest
<1>7. CASE XrayExtract(w)
  <2>1. i.pc = "extract" /\ ~Past(i) BY <1>1, <1>7 DEF XrayExtract, At, Past
  <2>2. ASSUME Do(w, Moved(w, "write")) PROVE CommitIInv'
    <3>1. PICK j \in Job : j = [i EXCEPT !.pc = "write"] /\ j.pc = "write" /\ j.tmp = i.tmp
                           /\ j.work = i.work /\ j.ret = i.ret /\ j.left = i.left /\ j.bad = i.bad
      BY MovedJob
    <3>2. j.tmp \in File /\ j.tmp.cells + j.left = Size /\ j.tmp.good /\ ~j.bad
      BY <1>2, <2>1, <3>1 DEF Sound
    <3>3. Sound(w, j) BY <1>2, <1>3, <2>1, <3>1, <3>2 DEF Sound
    <3> QED BY <1>1, <2>1, <2>2, <3>1, <3>3, Advance, Zenon DEF Moved
  <2> QED BY <1>1, <1>4, <1>7, <2>1, <2>2, Zenon DEF XrayExtract
<1>8. CASE XrayCopy(w)
  <2>1. i.pc = "write" /\ i.left > 0 /\ ~Past(i) /\ i.tmp \in File /\ i.tmp.cells + i.left <= Size
    BY <1>1, <1>2, <1>8 DEF XrayCopy, At, Sound, Past
  <2>2. PICK j \in Wrote(i) : Do(w, IF j.bad THEN XrayReturn(j, FALSE) ELSE j)
    BY <1>1, <1>8, Zenon DEF XrayCopy
  <2>3. j \in Job BY <2>1, WroteJob
  <2>4. CASE j.bad BY <1>1, <1>3, <2>1, <2>2, <2>3, <2>4, XrayFails, Zenon
  <2>5. CASE ~j.bad BY <1>1, <2>1, <2>2, <2>5, WriteStep
  <2> QED BY <2>4, <2>5, SMTT(30)
<1>9. CASE XraySync(w)
  <2>1. i.pc = "write" /\ i.left = 0 /\ ~i.bad /\ ~Past(i)
    BY <1>1, <1>2, <1>3, <1>9 DEF XraySync, At, Sound, Past
  <2> QED BY <1>1, <1>3, <1>4, <1>9, <2>1, SyncStep, Zenon DEF XraySync
<1>10. CASE XrayRename(w)
  <2>1. i.pc = "rename" /\ ~Past(i) BY <1>1, <1>10 DEF XrayRename, At, Past
  <2> QED BY <1>1, <1>4, <1>10, <2>1, Renames, Zenon DEF XrayRename
<1>11. CASE XraySyncDir(w)
  <2>1. i.pc = "syncdir" BY <1>1, <1>11 DEF XraySyncDir, At
  <2>2. PICK j \in Job : j = XrayReturn(i, TRUE) /\ j.pc = "over" /\ j.tmp = None /\ ~j.work
                         /\ j.ret = "ok" /\ j.mine = i.mine
    <3>1. TRUE \in BOOLEAN OBVIOUS
    <3> QED BY <3>1, XrayJob, Zenon
  <2>3. PICK r \in Job : r = XrayReturn(i, FALSE) /\ r.pc = "over" /\ r.tmp = None /\ ~r.work
    BY XrayJob, Zenon
  <2>4. PICK l \in Job : l = [r EXCEPT !.late = TRUE] /\ l.late /\ l.pc = r.pc /\ l.tmp = r.tmp
                         /\ l.work = r.work
    BY LateJob
  <2>5. co' = Durable(w, j) \/ Do(w, l)
    BY <1>1, <1>11, <2>2, <2>3, <2>4, Zenon DEF XraySyncDir
  <2> QED BY <1>1, <1>3, <2>1, <2>2, <2>3, <2>4, <2>5, NotSynced, DirSynced, ZenonT(40)
<1> QED BY <1>5, <1>6, <1>7, <1>8, <1>9, <1>10, <1>11 DEF Xray

\* The job of a process that is gone.
LEMMA DeadJob ==
  ASSUME CommitParameters
  PROVE  \E j \in Job : j = [Idle EXCEPT !.pc = "dead"] /\ \A w \in Writers : j.pc = "dead" /\ Sound(w, j)
<1>1. Idle \in Job BY DEF Idle, Job, CommitParameters
<1>2. PICK i \in Job : i = Idle /\ i.tmp = None /\ ~i.work /\ i.ret = "none" BY <1>1 DEF Idle
<1>3. PICK j \in Job : j = [i EXCEPT !.pc = "dead"] /\ j.pc = "dead" /\ j.tmp = i.tmp
                       /\ j.work = i.work /\ j.ret = i.ret
  BY MovedJob
<1>4. \A w \in Writers : Sound(w, j) BY <1>2, <1>3 DEF Sound
<1> QED BY <1>2, <1>3, <1>4, Zenon

(* A kill in the middle of a call keeps the invariant. *)
LEMMA KillStep ==
  ASSUME CommitParameters, CommitIInv, NEW w \in Writers, Kill(w)
  PROVE  CommitIInv'
<1>1. PICK j \in Job : j = [Idle EXCEPT !.pc = "dead"] /\ j.pc = "dead" /\ Sound(w, j) BY DeadJob
<1>2. co' = RangesReturn(w, j, co) BY <1>1 DEF Kill, RangesReturn
<1> QED BY <1>1, <1>2, Unlocks, Zenon DEF Past

\* Every file with the destination's name is on the disk: a crash tears none.
LEMMA NothingTorn ==
  ASSUME CommitParameters, NEW f \in Before \cup File, Placed(f)
  PROVE  AfterCrash(f) = {f}
<1>1. f = None \/ f.synced BY DEF CommitParameters, Placed
<1> QED BY <1>1 DEF AfterCrash, IsFile

(* A machine that stops keeps the invariant: what was not durable is lost. *)
LEMMA CrashStep ==
  ASSUME CommitParameters, CommitIInv, Crash
  PROVE  CommitIInv'
<1>1. PICK j \in Job : /\ j = [Idle EXCEPT !.pc = "dead"]
                       /\ \A w \in Writers : j.pc = "dead" /\ Sound(w, j)
  BY DeadJob
<1>2. PICK g : g = [w \in Writers |-> j] BY Zenon
<1>3. g \in [Writers -> Job] /\ \A w \in Writers : g[w] = j BY <1>2
<1>4. /\ co \in World /\ co.durable \in SUBSET (Before \cup File)
      /\ co.renames \in Nat /\ co.promised \in Nat
  BY Parts, SMTT(30) DEF World
<1>5. \A f \in co.durable : AfterCrash(f) = {f}
  BY <1>4, NothingTorn, Parts
<1>6. PICK f \in UNION {AfterCrash(d) : d \in co.durable} :
        co' = [co EXCEPT !.dest = f, !.durable = {f}, !.lock = {}, !.request = None, !.job = g]
  BY <1>1, <1>2, Zenon DEF Crash
<1>7. f \in Before \cup File /\ Placed(f) BY <1>4, <1>5, <1>6, Parts
<1>8. /\ co' \in World /\ co'.dest = f /\ co'.durable = {f} /\ co'.lock = {} /\ co'.request = None
      /\ co'.job = g /\ co'.kind = co.kind /\ co'.renames = co.renames /\ co'.promised = co.promised
  BY <1>3, <1>4, <1>6, <1>7, Zenon DEF World
<1>9. Placed(co.dest)' /\ (\A d \in co.durable : Placed(d))'
  <2>1. Placed(f)' BY <1>1, <1>3, <1>7, <1>8, Zenon DEF Placed
  <2> QED BY <2>1, <1>8
<1>10. \A w \in Writers : Sound(w, co.job[w])'
  <2> TAKE w \in Writers
  <2>1. Sound(w, j)' BY <1>1, <1>8, SMTT(30) DEF Sound
  <2> QED BY <2>1, <1>3, <1>8 DEF Sound
<1> QED BY <1>1, <1>3, <1>8, <1>9, <1>10, Parts, Zenon DEF CommitIInv

\* Only a whole file is loaded as settings.
LEMMA LoadStep ==
  ASSUME CommitParameters, CommitIInv, SettingsLoad
  PROVE  CommitIInv'
<1>1. co \in World /\ Whole(co.dest) BY Parts DEF SettingsLoad
<1>2. /\ co' \in World /\ co'.dest = co.dest /\ co'.durable = co.durable /\ co'.lock = co.lock
      /\ co'.request = co.dest /\ co'.job = co.job /\ co'.kind = co.kind
      /\ co'.renames = co.renames /\ co'.promised = co.promised
  BY <1>1, SMTT(30) DEF SettingsLoad, World
<1>3. Placed(co.dest)' /\ (\A f \in co.durable : Placed(f))'
  <2>1. ASSUME NEW f, Placed(f) PROVE Placed(f)' BY <1>2, <2>1 DEF Placed
  <2> QED BY <1>2, <2>1, Parts
<1>4. \A w \in Writers : Sound(w, co.job[w])' BY <1>2, Parts, StillSound
<1> QED BY <1>1, <1>2, <1>3, <1>4, Parts DEF CommitIInv, Whole

(* The invariant holds at the start, whatever file is there. *)
LEMMA CommitInit ==
  ASSUME CommitParameters, Init
  PROVE  CommitIInv
<1>1. PICK k \in Kinds, f \in Before, d \in BOOLEAN :
        co = [kind |-> k, dirsync |-> d, job |-> [w \in Writers |-> Idle], lock |-> {},
              dest |-> f, durable |-> {f}, renames |-> 0, promised |-> 0, request |-> None]
  BY Zenon DEF Init
<1>2. Idle \in Job /\ Idle.pc = "start" BY DEF Idle, Job, CommitParameters
<1>3. PICK g : g = [w \in Writers |-> Idle] BY Zenon
<1>4. g \in [Writers -> Job] /\ \A w \in Writers : g[w] = Idle BY <1>2, <1>3, SMTT(30)
<1>5. /\ co \in World /\ co.dest = f /\ co.durable = {f} /\ co.lock = {} /\ co.request = None
      /\ co.job = g /\ co.kind = k /\ co.renames = 0 /\ co.promised = 0
  BY <1>1, <1>3, <1>4 DEF World
<1>6. \A w \in Writers : Sound(w, co.job[w])
  <2>1. Idle.work = FALSE /\ Idle.ret = "none" BY DEF Idle
  <2> QED BY <2>1, <1>2, <1>4, <1>5, Zenon DEF Sound
<1>7. Placed(f) BY <1>5, Files DEF Placed
<1> QED BY <1>2, <1>4, <1>5, <1>6, <1>7 DEF CommitIInv

(* Every step of every call, a kill, a crash and a load keep the invariant. *)
LEMMA CommitNext ==
  ASSUME CommitParameters, CommitIInv, [Next]_co
  PROVE  CommitIInv'
<1>1. ASSUME co' = co PROVE CommitIInv'
  <2>1. Placed(co.dest)' /\ (\A f \in co.durable : Placed(f))'
    BY <1>1, Parts, SMTT(30) DEF Placed
  <2>2. \A w \in Writers : Sound(w, co.job[w])' BY <1>1, Parts, StillSound
  <2> QED BY <1>1, <2>1, <2>2, Parts, SMTT(30) DEF CommitIInv, Whole
<1>2. CASE UNCHANGED co BY <1>1, <1>2, SMTT(30)
<1>3. CASE Next
  BY <1>1, <1>3, ExportStep, SettingsStep, RangesStep, XrayStep, KillStep, LoadStep, CrashStep, SMTT(30)
     DEF Next, Done
<1> QED BY <1>2, <1>3, SMTT(30)

\* What the inductive invariant says of the destination.
LEMMA CommitImplied ==
  ASSUME CommitParameters, CommitIInv
  PROVE  CommitInv
<1>1. /\ co \in World /\ co.dest \in Before \cup File /\ co.durable \in SUBSET (Before \cup File)
      /\ co.renames \in Nat /\ co.promised \in Nat /\ co.promised <= co.renames
      /\ co.lock \in SUBSET Writers /\ co.job \in [Writers -> Job]
  BY Parts DEF World
<1>2. TypeOK BY <1>1, SMTT(30) DEF TypeOK, Job
<1>3. FailedLeavesIt
  BY <1>1, Parts, SMTT(30) DEF FailedLeavesIt, Placed, Sound
<1>4. CleansUp BY <1>1, Parts, SMTT(30) DEF CleansUp, Sound
<1>5. ASSUME NEW f \in Before \cup File, Placed(f) PROVE Unbroken(f) /\ Survives(f)
  BY <1>1, <1>5, Files DEF Placed, Unbroken, Survives, IsFile
<1> QED BY <1>1, <1>2, <1>3, <1>4, <1>5, Parts DEF CommitInv

(* Whatever calls of one kind are interleaved, whichever is killed and       *)
(* wherever the machine stops, the destination of output_finish,             *)
(* qn_scan_settings_save, qn_cf_ranges_update and qn_xray_install is what    *)
(* was there before or a whole, checked file; what was reported durable is   *)
(* there or something newer is; a failure before the rename leaves the       *)
(* destination alone; and a call that returns leaves nothing behind.  This   *)
(* holds for any set of calls, any size and any file there before.           *)
THEOREM CommitCorrect ==
  ASSUME CommitParameters
  PROVE  Spec => []CommitInv
<1>1. Init => CommitIInv BY CommitInit
<1>2. CommitIInv /\ [Next]_co => CommitIInv' BY CommitNext
<1>3. CommitIInv => CommitInv BY CommitImplied
<1> QED BY <1>1, <1>2, <1>3, PTL DEF Spec

=============================================================================
