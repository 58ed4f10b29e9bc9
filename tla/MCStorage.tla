----------------------------- MODULE MCStorage -----------------------------
(***************************************************************************)
(* The files a scanner keeps and the way to a scan: the files it replaces  *)
(* whole (Commit), its history (History), the range file it loads while    *)
(* others edit it (Snapshot), and the menu, the options and the plan view, *)
(* where a request is made, saved and loaded (Launcher).  A behaviour is   *)
(* about one of them.                                                      *)
(***************************************************************************)
EXTENDS Commit, Launcher

CONSTANT Off             \* a model value: the module is not in the behaviour

ASSUME CommitParameters

VARIABLES part, sn,
          pc, mem, merged, tmp, lock, dest, durable, scans, Cap, dirsync,
          known, blind

\* Calls over no file, a whole one, or one that was cut short.
Older(n) == [by |-> "old", cells |-> n, good |-> TRUE, synced |-> TRUE, at |-> 0]
OldFiles == {None, Older(2), Older(1)}

\* Two scanners over two addresses, with a table that holds both or one.  A clock reads an
\* hour or two days after the epoch, so that rows decay and the clock of one scanner may be
\* behind that of another.  The file they start from has rows at the ceiling, or none.
Seen(host, last, score) ==
  [addr |-> host, last |-> last, runs |-> 2, score |-> score, weight |-> 2048, mask |-> {}]
Saved(rows) == [kind |-> "file", rows |-> rows, synced |-> TRUE]
H == INSTANCE History WITH Procs <- {"p", "q"}, Addrs <- {"a", "b"}, Opers <- {"o"},
  Caps <- {1, 2}, Limit <- 2048, Times <- {3600, 172800}, MaxObs <- 1, MaxScans <- 2,
  Before <- {[kind |-> "none"], Saved(<<Seen("a", 3600, 2048)>>),
             Saved(<<Seen("b", 172800, 1024), Seen("a", 3600, 0)>>)}

ASSUME H!HistoryParameters

store == <<pc, mem, merged, tmp, lock, dest, durable, scans, known, blind>>

\* Files of up to two lines, changed twice in up to three ticks.
S == INSTANCE Snapshot WITH Lines <- {"v4", "bad", "note"}, FileMax <- 2,
  MaxEdits <- 2, MaxTicks <- 2

\* An editor line of every kind, an option of every kind that main tells apart, and two
\* numbers, one of which most fields refuse.
AllArgs ==
  {<<"cf", 0>>, <<"scan_cf", 0>>, <<"ports", 0>>, <<"discover", 0>>, <<"net", 0>>, <<"target", 0>>,
   <<"scope", 0>>, <<"scope", 4>>, <<"reachable", 300>>, <<"limit", 300>>, <<"candidate", 256>>,
   <<"candidate", 0>>, <<"tunnel_target", -1>>, <<"link", "good">>, <<"link", "bad">>,
   <<"file", "good">>, <<"xray", 0>>, <<"confirmed", 0>>, <<"headless", 0>>, <<"tui", 0>>,
   <<"v6", 0>>, <<"method", 0>>, <<"engine", 0>>, <<"timeout", 0>>, <<"json", 0>>, <<"seed", 0>>, <<"update", 0>>}
SomeLines == <<"preset", "scope", "finalists", "tunnel_stage", "review">>

StorageInit ==
  /\ part \in {"commit", "history", "snapshot", "launcher"}
  /\ Init /\ (part # "commit" => co.kind = "export" /\ co.dest = None /\ co.dirsync)
  /\ H!Init /\ (part # "history" => Cap = 1 /\ dest = H!None /\ dirsync)
  /\ IF part = "snapshot" THEN S!Init ELSE sn = Off
  /\ IF part = "launcher" THEN LaunchInit ELSE la = Off

StorageNext ==
  /\ UNCHANGED <<part, Cap, dirsync>>
  /\ \/ part = "commit" /\ Next /\ UNCHANGED <<store, sn, la>>
     \/ part = "history" /\ H!Next /\ UNCHANGED <<co, sn, la>>
     \/ part = "snapshot" /\ S!Next /\ UNCHANGED <<store, co, la>>
     \/ part = "launcher" /\ LaunchNext /\ UNCHANGED <<store, co, sn>>

StorageSpec == StorageInit /\ [][StorageNext]_<<part, store, Cap, dirsync, co, sn, la>>

\* The history is whole and nothing saved is lost (History).
StoreInv == part = "history" => H!StoreInv

\* A save keeps what this scanner and the others know (History).
KeepsBothSides == H!KeepsBothSides

\* A range file is loaded as one version of it or not at all (Snapshot).
SnapshotIsOneVersion == part = "snapshot" => S!SnapshotIsOneVersion

\* The plan that is shown, confirmed and run is that of the request on the screen, and what
\* the menu accepts is started (handle_plan_key, prepare_cf_scan, launch_cf_scan; LaunchInv
\* of Launcher).
ScanIsConfirmed == part = "launcher" => LaunchInv
==============================================================================
