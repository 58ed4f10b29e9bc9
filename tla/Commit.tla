------------------------------- MODULE Commit -------------------------------
(***************************************************************************)
(* How a whole file takes the place of another: the reports (src/export.c), *)
(* the scan settings (src/core/scan_plan.c), the managed range list        *)
(* (src/core/ranges.c) and the Xray binary (src/net/xray_install.c).  All  *)
(* write a temporary file beside the destination, sync it, rename it and   *)
(* sync the directory; they differ in what they check first, in what they  *)
(* make of a directory that cannot be synced, and in what they clean up.   *)
(*                                                                         *)
(* A behaviour is some calls of one kind on one destination, interleaved;  *)
(* a process may be killed and the machine may crash between two steps.    *)
(* A file is written in Size pieces.  good says that the pieces are what   *)
(* the kind's check accepts: a list of ranges, an archive that matches its *)
(* digest, settings with every name once.                                  *)
(***************************************************************************)
EXTENDS Integers

CONSTANTS Writers, Kinds, Size,
          Before      \* files the destination may hold at first

VARIABLE co

None == [by |-> "none"]
Torn == [by |-> "torn"]
IsFile(f) == f \notin {None, Torn}

\* What was there before any call is on the disk, and is no call's own file.
CommitParameters ==
  /\ Size \in Nat /\ "none" \notin Writers /\ "torn" \notin Writers
  /\ \A f \in Before : f # Torn /\ f.by \notin Writers /\ (f # None => f.synced = TRUE)

New(w, g) == [by |-> w, cells |-> 0, good |-> g, synced |-> FALSE, at |-> 0]
Whole(f) == IsFile(f) /\ f.cells = Size /\ f.good

Idle == [pc |-> "start", tmp |-> None, work |-> FALSE, left |-> Size, bad |-> FALSE,
         mine |-> 0, ret |-> "none", late |-> FALSE]

\* dirsync: the file system can sync a directory.  durable: the files the name
\* may lead to after a crash.  promised: history, the rename that the last durable
\* success reported.  request: the settings in memory.
Init == \E k \in Kinds, f \in Before, d \in BOOLEAN :
  co = [kind |-> k, dirsync |-> d, job |-> [w \in Writers |-> Idle], lock |-> {},
        dest |-> f, durable |-> {f}, renames |-> 0, promised |-> 0, request |-> None]

At(w, k, pc) == co.kind = k /\ co.job[w].pc = pc
Do(w, j) == co' = [co EXCEPT !.job[w] = j]
Moved(w, pc) == [co.job[w] EXCEPT !.pc = pc]

\* A call returns; what it unlinks and unlocks is its own business.
Returns(j, ok) == [j EXCEPT !.pc = "over", !.ret = IF ok THEN "ok" ELSE "failed",
                            !.left = 0, !.bad = FALSE]
Unlinked(j) == [j EXCEPT !.tmp = None]

(* One piece reaches the temporary file, or the stream keeps an error.     *)
Wrote(j) == {[j EXCEPT !.tmp.cells = @ + 1, !.left = @ - 1], [j EXCEPT !.left = @ - 1, !.bad = TRUE]}
Synced(j) == [j EXCEPT !.tmp.synced = TRUE, !.pc = "rename"]

Renamed(w) ==
  LET new == [co.job[w].tmp EXCEPT !.at = co.renames + 1] IN
  [co EXCEPT !.dest = new, !.durable = @ \cup {new}, !.renames = @ + 1,
             !.job[w] = [Unlinked(@) EXCEPT !.pc = "syncdir", !.mine = co.renames + 1]]

\* The directory is synced: the name is durable, and so is what this call renamed.
Durable(w, j) ==
  [co EXCEPT !.durable = {co.dest}, !.job[w] = j,
             !.promised = IF j.ret = "ok" /\ j.mine > @ THEN j.mine ELSE @]

(***************************************************************************)
(* export.c.  A write error is kept by the stream and found by fflush.     *)
(***************************************************************************)
OutputOpen(w) ==
  /\ At(w, "export", "start")
  /\ \/ Do(w, [Moved(w, "write") EXCEPT !.tmp = New(w, TRUE)])
     \/ Do(w, Returns(co.job[w], FALSE))

ExportRows(w) ==
  /\ At(w, "export", "write") /\ co.job[w].left > 0
  /\ \E j \in Wrote(co.job[w]) : Do(w, j)

OutputAbort(w) ==
  /\ At(w, "export", "write") /\ co.job[w].left > 0
  /\ Do(w, Returns(Unlinked(co.job[w]), FALSE))

\* Mutant: the stream's error is not asked for.
OutputSyncUnchecked(w) ==
  /\ At(w, "export", "write") /\ co.job[w].left = 0
  /\ Do(w, Synced(co.job[w]))

OutputSync(w) ==
  /\ At(w, "export", "write") /\ co.job[w].left = 0
  /\ \/ ~co.job[w].bad /\ Do(w, Synced(co.job[w]))
     \/ Do(w, Returns(Unlinked(co.job[w]), FALSE))

OutputRename(w) ==
  /\ At(w, "export", "rename")
  /\ \/ co' = Renamed(w)
     \/ Do(w, Returns(Unlinked(co.job[w]), FALSE))

\* A directory that cannot be synced (EINVAL, ENOTSUP, EROFS) counts as synced.
OutputSyncDir(w) ==
  /\ At(w, "export", "syncdir")
  /\ \/ co.dirsync /\ co' = Durable(w, Returns(co.job[w], TRUE))
     \/ ~co.dirsync /\ Do(w, Returns(co.job[w], TRUE))
     \/ Do(w, [Returns(co.job[w], FALSE) EXCEPT !.late = TRUE])

(***************************************************************************)
(* scan_plan.c.  The first failing line stops the writing.                 *)
(***************************************************************************)
SettingsOpen(w) ==
  /\ At(w, "settings", "start")
  /\ \/ Do(w, [Moved(w, "write") EXCEPT !.tmp = New(w, TRUE)])
     \/ Do(w, Returns(co.job[w], FALSE))

SettingsWrite(w) ==
  /\ At(w, "settings", "write") /\ co.job[w].left > 0
  /\ \E j \in Wrote(co.job[w]) :
       Do(w, IF j.bad THEN Returns(Unlinked(j), FALSE) ELSE j)

SettingsSync(w) ==
  /\ At(w, "settings", "write") /\ co.job[w].left = 0
  /\ \/ Do(w, Synced(co.job[w]))
     \/ Do(w, Returns(Unlinked(co.job[w]), FALSE))

SettingsRename(w) ==
  /\ At(w, "settings", "rename")
  /\ \/ co' = Renamed(w)
     \/ Do(w, Returns(Unlinked(co.job[w]), FALSE))

SettingsSyncDir(w) ==
  /\ At(w, "settings", "syncdir")
  /\ \/ co.dirsync /\ co' = Durable(w, Returns(co.job[w], TRUE))
     \/ Do(w, [Returns(co.job[w], FALSE) EXCEPT !.late = TRUE])

(* Every name once, a version that fits the names, and a valid request, or *)
(* the request in memory stays what it was.                                *)
SettingsLoad ==
  /\ co.kind = "settings" /\ Whole(co.dest)
  /\ co' = [co EXCEPT !.request = co.dest]

(***************************************************************************)
(* ranges.c.  Updates take turns under a lock; the list is inspected       *)
(* before it is installed; nothing is made of a directory that will not    *)
(* sync.                                                                   *)
(***************************************************************************)
RangesReturn(w, j, c) == [c EXCEPT !.job[w] = j, !.lock = @ \ {w}]
RangesFail(w) == co' = RangesReturn(w, Returns(Unlinked(co.job[w]), FALSE), co)

RangesOpen(w) ==
  /\ At(w, "ranges", "start")
  /\ \/ RangesFail(w)
     \/ /\ co.lock = {}
        /\ \E g \in BOOLEAN :
             co' = [co EXCEPT !.lock = {w},
                              !.job[w] = [Moved(w, "write") EXCEPT !.tmp = New(w, g)]]

RangesDownload(w) ==
  /\ At(w, "ranges", "write") /\ co.job[w].left > 0
  /\ \/ \E j \in Wrote(co.job[w]) : ~j.bad /\ Do(w, j)
     \/ RangesFail(w)

RangesSync(w) ==
  /\ At(w, "ranges", "write") /\ co.job[w].left = 0
  /\ \/ Do(w, [Synced(co.job[w]) EXCEPT !.pc = "inspect"])
     \/ RangesFail(w)

RangesInspect(w) ==
  /\ At(w, "ranges", "inspect")
  /\ \/ co.job[w].tmp.good /\ Do(w, Moved(w, "rename"))
     \/ ~co.job[w].tmp.good /\ RangesFail(w)

RangesRename(w) ==
  /\ At(w, "ranges", "rename")
  /\ co' = Renamed(w) \/ RangesFail(w)

RangesSyncDir(w) ==
  /\ At(w, "ranges", "syncdir")
  /\ LET j == Returns(co.job[w], TRUE) IN
     \/ co.dirsync /\ co' = RangesReturn(w, j, Durable(w, j))
     \/ co' = RangesReturn(w, j, co)

(***************************************************************************)
(* xray_install.c.  The archive and what is unpacked from it live in a     *)
(* directory of the call's own, removed on every way out.                  *)
(***************************************************************************)
XrayReturn(j, ok) == Returns([Unlinked(j) EXCEPT !.work = FALSE], ok)

XrayDownload(w) ==
  /\ At(w, "xray", "start")
  /\ \/ Do(w, XrayReturn(co.job[w], FALSE))
     \/ \E g \in BOOLEAN :
          Do(w, [Moved(w, "digest") EXCEPT !.work = TRUE, !.tmp = New(w, g)])

XrayDigest(w) ==
  /\ At(w, "xray", "digest")
  /\ \/ co.job[w].tmp.good /\ Do(w, Moved(w, "extract"))
     \/ ~co.job[w].tmp.good /\ Do(w, XrayReturn(co.job[w], FALSE))

XrayExtract(w) ==
  /\ At(w, "xray", "extract")
  /\ Do(w, Moved(w, "write")) \/ Do(w, XrayReturn(co.job[w], FALSE))

XrayCopy(w) ==
  /\ At(w, "xray", "write") /\ co.job[w].left > 0
  /\ \E j \in Wrote(co.job[w]) :
       Do(w, IF j.bad THEN XrayReturn(j, FALSE) ELSE j)

XraySync(w) ==
  /\ At(w, "xray", "write") /\ co.job[w].left = 0
  /\ \/ Do(w, Synced(co.job[w]))
     \/ Do(w, XrayReturn(co.job[w], FALSE))

XrayRename(w) ==
  /\ At(w, "xray", "rename")
  /\ \/ co' = Renamed(w)
     \/ Do(w, XrayReturn(co.job[w], FALSE))

XraySyncDir(w) ==
  /\ At(w, "xray", "syncdir")
  /\ \/ co.dirsync /\ co' = Durable(w, XrayReturn(co.job[w], TRUE))
     \/ Do(w, [XrayReturn(co.job[w], FALSE) EXCEPT !.late = TRUE])

(***************************************************************************)
(* The world.                                                              *)
(***************************************************************************)
(* A process dies where it stands; the kernel lets its lock go.            *)
Kill(w) ==
  /\ co.job[w].pc \notin {"start", "over", "dead"}
  /\ co' = [co EXCEPT !.job[w] = [Idle EXCEPT !.pc = "dead"], !.lock = @ \ {w}]

(* The machine stops: the name leads where it led at the last sync of the  *)
(* directory or to any later file, whose data is lost unless it was synced. *)
AfterCrash(f) == IF IsFile(f) /\ ~f.synced THEN {Torn, [f EXCEPT !.synced = TRUE]} ELSE {f}

Crash ==
  /\ \E w \in Writers : co.job[w].pc \notin {"start", "over", "dead"}
  /\ \E f \in UNION {AfterCrash(d) : d \in co.durable} :
       co' = [co EXCEPT !.dest = f, !.durable = {f}, !.lock = {}, !.request = None,
                        !.job = [w \in Writers |-> [Idle EXCEPT !.pc = "dead"]]]

Done ==
  /\ \A w \in Writers : co.job[w].pc \in {"over", "dead"}
  /\ UNCHANGED co

Export(w) == OutputOpen(w) \/ ExportRows(w) \/ OutputAbort(w) \/ OutputSync(w)
             \/ OutputRename(w) \/ OutputSyncDir(w)
Settings(w) == SettingsOpen(w) \/ SettingsWrite(w) \/ SettingsSync(w) \/ SettingsRename(w)
               \/ SettingsSyncDir(w)
Ranges(w) == RangesOpen(w) \/ RangesDownload(w) \/ RangesSync(w) \/ RangesInspect(w)
             \/ RangesRename(w) \/ RangesSyncDir(w)
Xray(w) == XrayDownload(w) \/ XrayDigest(w) \/ XrayExtract(w) \/ XrayCopy(w) \/ XraySync(w)
           \/ XrayRename(w) \/ XraySyncDir(w)

Next ==
  \/ \E w \in Writers : Export(w) \/ Settings(w) \/ Ranges(w) \/ Xray(w) \/ Kill(w)
  \/ SettingsLoad
  \/ Crash
  \/ Done

Spec == Init /\ [][Next]_co

(***************************************************************************)
(* Properties.                                                             *)
(***************************************************************************)
TypeOK ==
  /\ co.lock \subseteq Writers /\ co.renames \in Nat /\ co.promised \in 0..co.renames
  /\ \A w \in Writers : co.job[w].left \in 0..Size /\ co.job[w].ret \in {"none", "ok", "failed"}

(* A destination that a call has replaced is a whole file its check        *)
(* accepted, whichever call was killed and wherever the machine stopped;   *)
(* the rest of the time it is what was there before.                       *)
Unbroken(f) == f \in Before \/ Whole(f)

(* What a call reported as done after it had synced the directory is there *)
(* after a crash, or something newer is.                                   *)
Survives(f) == co.promised > 0 => IsFile(f) /\ f.at >= co.promised

(* A call that failed has not touched the destination, unless it was the   *)
(* sync of the directory that failed, after the rename.                    *)
FailedLeavesIt ==
  \A w \in Writers : co.job[w].ret = "failed" /\ ~co.job[w].late => co.dest.by # w

(* A call that has returned leaves no temporary file, no working directory *)
(* and no lock behind.                                                     *)
CleansUp ==
  \A w \in Writers : co.job[w].pc = "over" =>
    co.job[w].tmp = None /\ ~co.job[w].work /\ w \notin co.lock

File == [by : Writers, cells : 0..Size, good : BOOLEAN, synced : BOOLEAN, at : Nat]
Job == [pc : {"start", "digest", "extract", "write", "inspect", "rename", "syncdir", "over", "dead"},
        tmp : {None} \cup File, work : BOOLEAN, left : 0..Size, bad : BOOLEAN, mine : Nat,
        ret : {"none", "ok", "failed"}, late : BOOLEAN]

(* How far a call has got.  Its temporary file is as long as what it has   *)
(* written, unless an error is pending; it is whole, synced and checked    *)
(* before the rename; and nothing of it is left once the call is over.     *)
Sound(w, j) ==
  /\ j.pc = "start" => j = Idle
  /\ j.pc \in {"syncdir", "over", "dead"} => j.tmp = None
  /\ j.pc \in {"over", "dead"} => ~j.work
  /\ j.pc \in {"digest", "extract", "write", "inspect", "rename"} => j.tmp \in File /\ j.tmp.by = w
  /\ j.pc \in {"digest", "extract"} => j.left = Size /\ j.tmp.cells = 0 /\ ~j.bad
  /\ j.pc = "write" => j.tmp.cells + j.left <= Size /\ (~j.bad => j.tmp.cells + j.left = Size)
  /\ j.pc = "write" /\ j.bad => co.kind = "export"
  /\ j.pc = "extract" \/ (j.pc = "write" /\ co.kind # "ranges") => j.tmp.good
  /\ j.pc \in {"inspect", "rename"} => j.tmp.cells = Size /\ j.tmp.synced
  /\ j.pc = "rename" => j.tmp.good
  /\ j.work => co.kind = "xray"
  /\ j.ret = "failed" => j.pc = "over"

(* A file with the destination's name is what was there before, or whole   *)
(* and synced and from a call that got past its rename; and it is no older *)
(* than what was promised.                                                 *)
Placed(f) ==
  /\ f \in File => Whole(f) /\ f.synced
  /\ co.promised > 0 => f \in File /\ f.at >= co.promised
  /\ \A w \in Writers : f.by = w =>
       LET j == co.job[w]
       IN j.pc \in {"syncdir", "dead"} \/ (j.pc = "over" /\ (j.ret = "ok" \/ j.late))

World == [kind : Kinds, dirsync : BOOLEAN, job : [Writers -> Job], lock : SUBSET Writers,
          dest : Before \cup File, durable : SUBSET (Before \cup File), renames : Nat,
          promised : Nat, request : {None} \cup Before \cup File]

(* The inductive invariant of a commit.                                    *)
CommitIInv ==
  /\ co \in World /\ co.promised <= co.renames
  /\ Placed(co.dest) /\ \A f \in co.durable : Placed(f)
  /\ co.request = None \/ Whole(co.request)
  /\ \A w \in Writers :
       /\ Sound(w, co.job[w])
       /\ w \in co.lock => co.kind = "ranges" /\ co.job[w].pc \notin {"start", "over", "dead"}
       /\ co.job[w].pc = "syncdir" =>
            co.job[w].mine <= co.renames /\ co.dest \in File /\ co.dest.at >= co.job[w].mine

(* The structure of a commit, for all four: the destination is unbroken    *)
(* and keeps what was promised, failures leave it alone, calls clean up,   *)
(* and settings in memory were loaded from a whole file; with what this    *)
(* rests on.                                                               *)
CommitInv ==
  /\ CommitIInv /\ TypeOK /\ FailedLeavesIt /\ CleansUp
  /\ \A f \in {co.dest} \cup co.durable : Unbroken(f) /\ Survives(f)
  /\ co.request = None \/ Whole(co.request)
=============================================================================
