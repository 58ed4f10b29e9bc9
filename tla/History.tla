------------------------------ MODULE History ------------------------------
(***************************************************************************)
(* The history of a scanner (src/core/store.c): a table of decayed         *)
(* evidence per address, loaded when a Cloudflare scan is prepared, fed    *)
(* with the verified finalists and saved at the end by merging it, under a *)
(* lock, with what other scanners have saved since.  Several processes     *)
(* share one file; a process may be killed and the machine may crash       *)
(* between any two steps.                                                  *)
(*                                                                         *)
(* An entry is [addr, last, runs, score, weight, mask]; mask is a set of   *)
(* path tags, one bit each.  The handshake time takes no part in any       *)
(* decision and is left out.  A file is the sequence of its entries; it is *)
(* torn when a crash has kept its name and lost its data.                  *)
(***************************************************************************)
EXTENDS Integers, Sequences, FiniteSets

CONSTANTS Procs, Addrs, Opers,
          Caps,       \* sizes of the table; 8192 in task_cf.c
          Limit,      \* UINT32_MAX, the ceiling of score and weight
          Before,     \* files that earlier scans may have left
          Times,      \* wall-clock readings, in seconds; the clock may step back
          MaxObs,     \* bound: observations of one scan
          MaxScans    \* bound: scans of all processes together

HistoryParameters ==
  /\ Caps \subseteq Nat \ {0} /\ Limit \in Nat /\ Limit >= 2048
  /\ MaxObs \in Nat /\ MaxScans \in Nat
  /\ Times \subseteq Nat \ {0}

VARIABLES pc,       \* where each process is in its scan
          mem,      \* its qn_store, with the clock reading and path tag of the scan
          merged,   \* the table qn_store_save is about to write
          tmp,      \* its temporary file
          lock,     \* the processes that hold the flock
          dest,     \* the file of that name, as every process sees it
          durable,  \* the files the name may lead to after a crash
          dirsync,  \* whether the file system can sync a directory
          scans,
          Cap,      \* the size of every table, one of Caps
          known,    \* history: the rows of the last save that reported success
          blind     \* history: processes whose save could not read the file

vars == <<pc, mem, merged, tmp, lock, dest, durable, scans, known, blind>>

None == [kind |-> "none"]
File(s, sync) == [kind |-> "file", rows |-> s, synced |-> sync]
Torn == [kind |-> "torn"]

Q10 == 1024
HalfLife == 259200

Lesser(a, b) == IF a < b THEN a ELSE b
Greater(a, b) == IF a > b THEN a ELSE b

(***************************************************************************)
(* Decay: halve per half-life, then interpolate linearly.                  *)
(***************************************************************************)
Halved[q \in 0..Q10, dt \in Nat] ==
  IF dt >= HalfLife /\ q > 1 THEN Halved[q \div 2, dt - HalfLife]
  ELSE <<q, dt>>

Decay(dt) ==
  LET h == Halved[Q10, dt] IN
  IF h[1] > 1 THEN h[1] - (((h[1] \div 2) * h[2]) \div HalfLife) ELSE h[1]

Faded(e, now) == IF now > e.last THEN Decay(now - e.last) ELSE Q10

(* Decayed rate scaled by decayed weight.                                  *)
Standing(e, now) ==
  LET w == (e.weight * Faded(e, now)) \div Q10
      v == (e.score * Faded(e, now)) \div Q10
  IN ((v * Q10) \div (w + 1)) * (w + 1)

(***************************************************************************)
(* The table: finding, evicting, observing, merging.                       *)
(***************************************************************************)
AddrsOf(rows) == {rows[i].addr : i \in DOMAIN rows}

IndexOf(rows, a) == CHOOSE i \in DOMAIN rows : rows[i].addr = a

RowOf(rows, a) == rows[IndexOf(rows, a)]

Blank(a) == [addr |-> a, last |-> 0, runs |-> 0, score |-> 0, weight |-> 0, mask |-> {}]

(* slot_for: the row of the address, a new row, or the row of the lowest   *)
(* standing (the first of them), cleared.                                  *)
WorstRow(rows, now) ==
  CHOOSE i \in DOMAIN rows :
    \A j \in DOMAIN rows :
      \/ Standing(rows[i], now) < Standing(rows[j], now)
      \/ Standing(rows[i], now) = Standing(rows[j], now) /\ i <= j

WithSlot(rows, a, now) ==
  IF a \in AddrsOf(rows) THEN rows
  ELSE IF Len(rows) < Cap THEN Append(rows, Blank(a))
  ELSE [rows EXCEPT ![WorstRow(rows, now)] = Blank(a)]

(* qn_store_observe on one row: decay, make room below the ceiling, count. *)
Scaled(score, weight) ==
  IF score > Limit - Q10 \/ weight > Limit - Q10
  THEN <<(score + 1) \div 2, (weight + 1) \div 2>> ELSE <<score, weight>>

Observed(e, oper, good, now) ==
  LET at == Greater(now, e.last)
      d  == IF e.last # 0 THEN Faded(e, at) ELSE Q10
      sw == Scaled((e.score * d) \div Q10, (e.weight * d) \div Q10)
  IN [e EXCEPT !.last = at, !.runs = Lesser(@ + 1, Limit),
               !.score = IF good THEN sw[1] + Q10 ELSE sw[1],
               !.weight = sw[2] + Q10,
               !.mask = IF good THEN @ \cup {oper} ELSE @]

(* merge_disk on one address both sides know.                              *)
\* Mutant: our own row stands whatever the file says.
CombineOurs(ours, theirs) == [ours EXCEPT !.mask = @ \cup theirs.mask]

Combine(ours, theirs) ==
  LET fresher == \/ theirs.last > ours.last
                 \/ theirs.last = ours.last /\ theirs.weight > ours.weight
  IN [(IF fresher THEN theirs ELSE ours) EXCEPT
        !.mask = ours.mask \cup theirs.mask,
        !.runs = Greater(ours.runs, theirs.runs)]

(* merge_disk: our rows first, then the rows only the file has, as long as *)
(* there is room.                                                          *)
Merged(ours, theirs) ==
  LET both == [i \in DOMAIN ours |->
                 IF ours[i].addr \in AddrsOf(theirs)
                 THEN Combine(ours[i], RowOf(theirs, ours[i].addr)) ELSE ours[i]]
      new == SelectSeq(theirs, LAMBDA e : e.addr \notin AddrsOf(ours))
  IN both \o SubSeq(new, 1, Lesser(Len(new), Cap - Len(ours)))

(* What load_into accepts of a file.                                       *)
Loadable(f) ==
  \/ f.kind = "none"
  \/ /\ f.kind = "file"
     /\ Len(f.rows) <= Cap
     /\ Cardinality(AddrsOf(f.rows)) = Len(f.rows)
     /\ \A i \in DOMAIN f.rows :
          /\ f.rows[i].score <= f.rows[i].weight
          /\ f.rows[i].weight <= Limit
          /\ (f.rows[i].runs = 0) = (f.rows[i].weight = 0)

RowsOf(f) == IF f.kind = "file" THEN f.rows ELSE <<>>

(***************************************************************************)
(* A scan of one process.                                                  *)
(***************************************************************************)
Saving == {"merge", "write", "sync", "rename", "syncdir"}

NoStore == [rows |-> <<>>, seen |-> {}, now |-> 0, oper |-> "none"]

Init ==
  /\ pc = [p \in Procs |-> "idle"]
  /\ mem = [p \in Procs |-> NoStore]
  /\ merged = [p \in Procs |-> <<>>]
  /\ tmp = [p \in Procs |-> None]
  /\ lock = {}
  /\ scans = 0
  /\ blind = {}
  /\ Cap \in Caps
  /\ dest \in {f \in Before : Loadable(f)}
  /\ durable = {dest} /\ known = RowsOf(dest)
  /\ dirsync \in BOOLEAN

(* The scan is prepared: qn_store_init, qn_store_load.  A history that     *)
(* cannot be read is left alone: the scan neither feeds nor saves it.      *)
Load(p) ==
  /\ pc[p] \in {"idle", "failed"} /\ scans < MaxScans
  /\ scans' = scans + 1
  /\ \/ /\ Loadable(dest)
        /\ \E now \in Times, oper \in Opers :
             mem' = [mem EXCEPT ![p] =
                       [rows |-> RowsOf(dest), seen |-> {}, now |-> now, oper |-> oper]]
        /\ pc' = [pc EXCEPT ![p] = "scan"]
     \/ UNCHANGED <<mem, pc>>
  /\ UNCHANGED <<merged, tmp, lock, dest, durable, known, blind>>

(* A finalist of the scan has been verified; each is observed once, all at *)
(* the clock reading taken before the first.                               *)
Observe(p, a, good) ==
  /\ pc[p] = "scan"
  /\ Cardinality(mem[p].seen) < MaxObs /\ a \notin mem[p].seen
  /\ LET rows == WithSlot(mem[p].rows, a, mem[p].now) IN
     mem' = [mem EXCEPT ![p].rows = [rows EXCEPT ![IndexOf(rows, a)] =
                                       Observed(@, mem[p].oper, good, mem[p].now)],
                        ![p].seen = @ \cup {a}]
  /\ UNCHANGED <<pc, merged, tmp, lock, dest, durable, scans, known, blind>>

(* A batch that does not complete ends the scan before the save.           *)
GiveUp(p) ==
  /\ pc[p] = "scan"
  /\ pc' = [pc EXCEPT ![p] = "idle"] /\ mem' = [mem EXCEPT ![p] = NoStore]
  /\ UNCHANGED <<merged, tmp, lock, dest, durable, scans, known, blind>>

(***************************************************************************)
(* qn_store_save.                                                          *)
(***************************************************************************)
Forget(p) ==
  /\ mem' = [mem EXCEPT ![p] = NoStore]
  /\ merged' = [merged EXCEPT ![p] = <<>>]
  /\ tmp' = [tmp EXCEPT ![p] = None]
  /\ blind' = blind \ {p}

(* lock_open: waits for the exclusive lock beside the file.                *)
LockOpen(p) ==
  /\ pc[p] = "scan" /\ lock = {}
  /\ pc' = [pc EXCEPT ![p] = "merge"]
  /\ lock' = {p}
  /\ UNCHANGED <<mem, merged, tmp, dest, durable, scans, known, blind>>

(* merge_disk reads the file again; if it cannot, its own table stands.    *)
MergeDisk(p) ==
  /\ pc[p] = "merge"
  /\ \/ /\ Loadable(dest)
        /\ merged' = [merged EXCEPT ![p] = Merged(mem[p].rows, RowsOf(dest))]
        /\ UNCHANGED blind
     \/ /\ merged' = [merged EXCEPT ![p] = mem[p].rows]
        /\ blind' = blind \cup {p}
  /\ pc' = [pc EXCEPT ![p] = "write"]
  /\ UNCHANGED <<mem, tmp, lock, dest, durable, scans, known>>

(* mkstemp and the rows; the data is in the page cache only.               *)
WriteTmp(p) ==
  /\ pc[p] = "write"
  /\ tmp' = [tmp EXCEPT ![p] = File(merged[p], FALSE)]
  /\ pc' = [pc EXCEPT ![p] = "sync"]
  /\ UNCHANGED <<mem, merged, lock, dest, durable, scans, known, blind>>

\* Mutant: flushed and closed, never synced.
SyncFlushOnly(p) ==
  /\ pc[p] = "sync"
  /\ pc' = [pc EXCEPT ![p] = "rename"]
  /\ UNCHANGED <<mem, merged, tmp, lock, dest, durable, scans, known, blind>>

SyncTmp(p) ==
  /\ pc[p] = "sync"
  /\ tmp' = [tmp EXCEPT ![p].synced = TRUE]
  /\ pc' = [pc EXCEPT ![p] = "rename"]
  /\ UNCHANGED <<mem, merged, lock, dest, durable, scans, known, blind>>

Rename(p) ==
  /\ pc[p] = "rename"
  /\ dest' = tmp[p]
  /\ tmp' = [tmp EXCEPT ![p] = None]
  /\ pc' = [pc EXCEPT ![p] = "syncdir"]
  /\ durable' = durable \cup {dest'}
  /\ known' = IF p \in blind THEN <<>> ELSE known
  /\ UNCHANGED <<mem, merged, lock, scans, blind>>

\* Mutant: any error of the sync passes for a file system that has none.
SyncParentDirAnyError(p) ==
  /\ pc[p] = "syncdir"
  /\ durable' \in {durable, {dest}} /\ known' = merged[p]
  /\ pc' = [pc EXCEPT ![p] = "idle"]
  /\ lock' = lock \ {p} /\ Forget(p)
  /\ UNCHANGED <<dest, scans>>

(* sync_parent_dir and the return: its verdict is the verdict of the save. *)
(* A file system that cannot sync a directory (EINVAL, ENOTSUP, EROFS) is  *)
(* a success that makes nothing durable.                                   *)
SyncParentDir(p) ==
  /\ pc[p] = "syncdir"
  /\ \/ /\ durable' = IF dirsync THEN {dest} ELSE durable
        /\ known' = merged[p]
        /\ pc' = [pc EXCEPT ![p] = "idle"]
     \/ /\ pc' = [pc EXCEPT ![p] = "failed"]
        /\ UNCHANGED <<durable, known>>
  /\ lock' = lock \ {p} /\ Forget(p)
  /\ UNCHANGED <<dest, scans>>

(* lock_open, calloc, or one of the steps up to the rename fails: the      *)
(* temporary file is unlinked and the lock let go.                         *)
Fail(p) ==
  /\ pc[p] \in {"scan", "merge", "write", "sync", "rename"}
  /\ pc' = [pc EXCEPT ![p] = "failed"]
  /\ lock' = lock \ {p} /\ Forget(p)
  /\ UNCHANGED <<dest, durable, scans, known>>

(***************************************************************************)
(* The world.                                                              *)
(***************************************************************************)
(* A process dies; the kernel closes its lock.  A temporary file stays     *)
(* under a name nobody reads.                                              *)
Kill(p) ==
  /\ pc[p] \notin {"idle", "failed"}
  /\ pc' = [pc EXCEPT ![p] = "idle"]
  /\ lock' = lock \ {p} /\ Forget(p)
  /\ UNCHANGED <<dest, durable, scans, known>>

(* The machine stops.  The name leads to the file it led to at the last    *)
(* sync of the directory or to any later one, whose data is lost if it was *)
(* not synced.  Without a sync of directories nothing was promised.        *)
AfterCrash(f) ==
  IF f.kind = "file" /\ ~f.synced THEN {Torn, File(f.rows, TRUE)} ELSE {f}

Crash ==
  /\ \E p \in Procs : pc[p] \notin {"idle", "failed"}
  /\ dest' \in UNION {AfterCrash(f) : f \in durable}
  /\ durable' = {dest'}
  /\ known' = IF dirsync THEN known ELSE RowsOf(dest')
  /\ pc' = [p \in Procs |-> "idle"]
  /\ mem' = [p \in Procs |-> NoStore]
  /\ merged' = [p \in Procs |-> <<>>]
  /\ tmp' = [p \in Procs |-> None]
  /\ lock' = {} /\ blind' = {}
  /\ UNCHANGED scans

Over ==
  /\ scans = MaxScans /\ \A p \in Procs : pc[p] \in {"idle", "failed"}
  /\ UNCHANGED vars

Step(p) ==
  \/ LockOpen(p) \/ MergeDisk(p) \/ WriteTmp(p) \/ SyncTmp(p)
  \/ Rename(p) \/ SyncParentDir(p)

Next ==
  \/ \E p \in Procs :
       \/ Load(p) \/ GiveUp(p) \/ Step(p) \/ Fail(p) \/ Kill(p)
       \/ \E a \in Addrs, good \in BOOLEAN : Observe(p, a, good)
  \/ Crash
  \/ Over

Spec == Init /\ [][Next /\ UNCHANGED <<Cap, dirsync>>]_<<vars, Cap, dirsync>>

(***************************************************************************)
(* Properties.                                                             *)
(***************************************************************************)
Row == [addr : Addrs, last : Times, runs : 1..Limit, score : 0..Limit,
        weight : Q10..Limit, mask : SUBSET Opers]

IsTable(rows) ==
  /\ Len(rows) <= Cap
  /\ \A i \in DOMAIN rows : rows[i] \in Row

IsFile(f) == f \in {None, Torn} \/ (f.synced \in BOOLEAN /\ IsTable(f.rows))

(* Types: every table has at most Cap rows of evidence that fit their      *)
(* 32-bit columns.                                                         *)
TypeOK ==
  /\ pc \in [Procs -> {"idle", "failed", "scan"} \cup Saving]
  /\ \A p \in Procs : IsTable(mem[p].rows) /\ IsTable(merged[p]) /\ IsFile(tmp[p])
  /\ lock \subseteq Procs
  /\ IsFile(dest) /\ (\A f \in durable : IsFile(f)) /\ IsTable(known)
  /\ scans \in 0..MaxScans

(* Whatever scanners were killed and wherever the machine stopped, the     *)
(* file is one that qn_store_load accepts: whole, with no address twice,   *)
(* and with no score above its weight after decays, halvings and merges.   *)
FileIsLoadable == Loadable(dest)

NotOlder(rows, than) ==
  \A i \in DOMAIN than :
    /\ than[i].addr \in AddrsOf(rows)
    /\ LET e == RowOf(rows, than[i].addr) IN
       /\ e.last >= than[i].last /\ e.runs >= than[i].runs
       /\ than[i].mask \subseteq e.mask

(* What a save that returned true has written stays: neither another       *)
(* scanner that loaded an older file nor a crash takes an address, a       *)
(* sighting, a count or a path of it away.  Where there is room for every  *)
(* address, until a save puts its own view in place of a file that         *)
(* merge_disk could not read, and as to a crash on a file system that can  *)
(* sync a directory: on others sync_parent_dir lets the save succeed       *)
(* although a crash may bring back the file before it.                     *)
SavedSurvives ==
  Cap >= Cardinality(Addrs) =>
    /\ NotOlder(RowsOf(dest), known)
    /\ dirsync => \A f \in durable : NotOlder(RowsOf(f), known)

(* merge_disk keeps both sides: the file a save puts in place is not       *)
(* older, row by row, than the table of the scan, nor than the file it     *)
(* replaces, of which it may drop rows only when the new one is full.      *)
KeepsBothSides ==
  [][\A p \in Procs : pc[p] = "rename" /\ pc'[p] = "syncdir" =>
       /\ NotOlder(RowsOf(dest'), mem[p].rows)
       /\ p \notin blind =>
            NotOlder(RowsOf(dest'),
                     SelectSeq(RowsOf(dest), LAMBDA e :
                       Len(RowsOf(dest')) < Cap \/ e.addr \in AddrsOf(RowsOf(dest'))))]_vars

(* The lock is let go on every path out of qn_store_save, and only one     *)
(* scanner at a time is between taking it and letting it go.               *)
LockGuardsSave ==
  /\ lock = {p \in Procs : pc[p] \in Saving}
  /\ Cardinality(lock) <= 1

(* What qn_store_load and qn_store_save keep: one writer at a time, a file *)
(* that can always be read, and what was saved still in it.                *)
StoreInv == TypeOK /\ LockGuardsSave /\ FileIsLoadable /\ SavedSurvives

=============================================================================
