------------------------------ MODULE FrontEnd ------------------------------
(***************************************************************************)
(* The two front ends of the scanner: qn_app_run (src/ui/app.c), whose     *)
(* main loop shares the screen with one background thread, and             *)
(* run_headless (src/main.c), which runs the same pieces in a straight     *)
(* line.  The engine is seen from outside: it runs, it ends, it is         *)
(* finalized (module Engine models its inside), and so are the verifier    *)
(* and the tunnel stage (Verifier, TunnelStage).                           *)
(*                                                                         *)
(* What the outside world does to a scan - how each phase, the verifier,   *)
(* the tunnel stage and ICMP end when nobody interferes - is drawn once,   *)
(* in env, so that the two front ends can be compared on it.               *)
(***************************************************************************)
EXTENDS Integers

CONSTANTS Configs      \* the sessions: [mode : {"cf", "ports", "discover"},
                       \*   method : {"auto", "tcp", "icmp", "both"}, the
                       \*   --discover-method; tunnel : scan_plan.tunnel_enabled;
                       \*   phases, scans : bounds on the engine phases a task
                       \*   offers and on the scans started in one session]

ASSUME FrontEndAssumption ==
  \A c \in Configs :
    /\ c.mode \in {"cf", "ports", "discover"}
    /\ c.method \in {"auto", "tcp", "icmp", "both"}
    /\ c.tunnel \in BOOLEAN
    /\ c.phases \in Nat \ {0} /\ c.scans \in Nat \ {0}

VARIABLES pc,    \* where the main thread is; "advance" is a call with return ret
          ret,
          app,   \* the fields of qn_app that only the main thread touches
          bg,    \* the background thread and the atomics it shares
          eng,   \* the engine: "none", "ready", "running", "ended"
          cf,    \* the scan's records: "none", "live", "finished"
          intr,  \* g_intr, raised by the signal handler
          cfg,   \* the session, one of Configs
          env,   \* how the pieces of a scan end when left alone
          hist   \* history: what really happened to the current scan:
                 \* truth, complete: what its pieces reported, whether all ran;
                 \* stopped: x was pressed in time; disturbed: the user, a
                 \* signal or a missing resource interfered; lost: a result
                 \* that was awaited can no longer be folded in

vars == <<pc, ret, app, bg, eng, cf, intr, env, hist>>

Mode == cfg.mode
Method == cfg.method
Tunnel == cfg.tunnel
MaxPhases == cfg.phases
MaxScans == cfg.scans

Outcomes == {"SUCCESS", "INCOMPLETE", "CANCELLED", "FAILED"}

Rank(o) == CASE o = "SUCCESS" -> 0 [] o = "INCOMPLETE" -> 1
             [] o = "CANCELLED" -> 2 [] OTHER -> 3

Worst(a, b) == IF Rank(a) >= Rank(b) THEN a ELSE b

Icmp == Mode = "discover" /\ Method # "tcp"

(* An ICMP failure is forgiven when TCP was going to run anyway (auto).    *)
IcmpCounts(o) == o = "CANCELLED" \/ Method # "auto"

Phases == IF Mode # "discover" THEN 1..MaxPhases
          ELSE IF Method = "icmp" THEN {0}
          ELSE IF Method = "auto" THEN {0, 1} ELSE {1}

When(used, outcomes) == IF used THEN outcomes ELSE {"SUCCESS"}

(* "NOSTART": qn_engine_start refuses the phase.  That a phase nobody      *)
(* cancels ends SUCCESS or FAILED is what module Engine shows              *)
(* (OwedMeansInterrupted).                                                 *)
AnyEnv ==
        [n : Phases, phase : [1..MaxPhases -> {"SUCCESS", "FAILED", "NOSTART"}],
         init : BOOLEAN,
         icmp : When(Icmp, {"SUCCESS", "INCOMPLETE", "FAILED"}),
         verify : When(Mode = "cf", {"SUCCESS", "FAILED"}),
         tunnel : When(Mode = "cf" /\ Tunnel, {"SUCCESS", "INCOMPLETE", "FAILED"}),
         io : {FALSE, Mode = "cf"}]

(* A phase the task does not offer has no outcome worth telling apart.     *)
Envs == {e \in AnyEnv : \A k \in 1..MaxPhases : k > e.n => e.phase[k] = "SUCCESS"}

(***************************************************************************)
(* run_headless: the straight line, as the outcome it computes.            *)
(***************************************************************************)
HeadlessPhases(e) ==
  LET after[k \in 1..(MaxPhases + 1)] ==
        IF k > e.n THEN "SUCCESS"
        ELSE IF e.phase[k] # "SUCCESS" THEN "FAILED"
        ELSE after[k + 1]
  IN after[1]

HeadlessVerify(e, o) ==
  LET v == IF o = "FAILED" THEN o ELSE Worst(o, e.verify)
      t == IF v = "FAILED" \/ ~Tunnel THEN v ELSE Worst(v, e.tunnel)
  IN IF e.io THEN Worst(t, "INCOMPLETE") ELSE t

Headless(e, export) ==
  LET i == IF Icmp /\ Method # "auto" THEN e.icmp ELSE "SUCCESS"
      r == IF Mode = "discover" /\ Method = "icmp" THEN i
           ELSE IF ~e.init THEN "FAILED"
           ELSE Worst(i, HeadlessPhases(e))
      f == IF Mode = "cf" /\ e.init THEN HeadlessVerify(e, r) ELSE r
  IN Worst(f, export)

(***************************************************************************)
(* The background thread.                                                  *)
(***************************************************************************)
NoThread == [joinable |-> FALSE, kind |-> "none", busy |-> FALSE,
             result |-> "SUCCESS", cancel |-> FALSE, at |-> "none",
             out |-> "SUCCESS", netReady |-> FALSE, verified |-> FALSE]

EntryOf(kind) == CASE kind = "verify" -> "verify" [] kind = "icmp" -> "icmp"
                   [] OTHER -> "netinfo"

(* bg_reap: join a thread that has cleared bg_busy.                        *)
Reaped == IF bg.joinable /\ ~bg.busy
          THEN [bg EXCEPT !.joinable = FALSE, !.at = "none"] ELSE bg

(* bg_start: reaps, gives up if a thread is still busy, else starts one;   *)
(* ok says whether pthread_create succeeds.                                *)
BgStarted(kind, ok) ==
  IF Reaped.busy THEN Reaped
  ELSE [Reaped EXCEPT !.result = IF ok THEN "SUCCESS" ELSE "FAILED",
                      !.kind = kind, !.busy = ok, !.joinable = ok,
                      !.at = IF ok THEN EntryOf(kind) ELSE "none",
                      !.out = "SUCCESS"]

BgStartWorks(ok) == ~Reaped.busy /\ ok

Cancelled(o) == {o} \cup (IF bg.cancel THEN {"CANCELLED"} ELSE {})

OnlyBg == UNCHANGED <<pc, ret, app, eng, intr, env>>

BgNetinfo ==
  /\ bg.at = "netinfo"
  /\ bg' = [bg EXCEPT !.at = "clear", !.netReady = TRUE]
  /\ OnlyBg /\ UNCHANGED <<cf, hist>>

(* host_discover_icmp, at the last place where it looks at the flag.       *)
BgIcmp ==
  /\ bg.at = "icmp"
  /\ bg' = [bg EXCEPT !.at = "publish",
                      !.out = IF bg.cancel THEN "CANCELLED" ELSE env.icmp]
  /\ OnlyBg /\ UNCHANGED <<cf, hist>>

(* cf_scan_verify; a scan that is verified already is not verified again.  *)
BgVerify ==
  /\ bg.at = "verify"
  /\ \E o \in IF bg.verified THEN {"SUCCESS"} ELSE Cancelled(env.verify) :
       bg' = [bg EXCEPT !.out = o, !.verified = o = "SUCCESS",
                        !.at = IF o = "SUCCESS" /\ Tunnel THEN "tunnel" ELSE "finish"]
  /\ OnlyBg /\ UNCHANGED <<cf, hist>>

BgTunnel ==
  /\ bg.at = "tunnel"
  /\ \E o \in Cancelled(env.tunnel) :
       bg' = [bg EXCEPT !.out = Worst(bg.out, o), !.at = "finish"]
  /\ OnlyBg /\ UNCHANGED <<cf, hist>>

BgFinish ==
  /\ bg.at = "finish"
  /\ cf' = "finished"
  /\ bg' = [bg EXCEPT !.at = "check"]
  /\ OnlyBg /\ UNCHANGED hist

BgCheck ==
  /\ bg.at = "check"
  /\ bg' = [bg EXCEPT !.at = "publish",
                      !.out = IF bg.cancel THEN "CANCELLED" ELSE bg.out]
  /\ OnlyBg /\ UNCHANGED <<cf, hist>>

BgPublish ==
  /\ bg.at = "publish"
  /\ bg' = [bg EXCEPT !.at = "clear", !.result = bg.out]
  /\ hist' = [hist EXCEPT
       !.truth = IF bg.kind = "verify" \/ IcmpCounts(bg.out)
                 THEN Worst(@, bg.out) ELSE @,
       !.complete = @ \/ bg.kind = "verify" \/ Method = "icmp"]
  /\ OnlyBg /\ UNCHANGED cf

BgClear ==
  /\ bg.at = "clear"
  /\ bg' = [bg EXCEPT !.at = "gone", !.busy = FALSE]
  /\ OnlyBg /\ UNCHANGED <<cf, hist>>

Bg == BgNetinfo \/ BgIcmp \/ BgVerify \/ BgTunnel \/ BgFinish \/ BgCheck
        \/ BgPublish \/ BgClear

(***************************************************************************)
(* Starting and ending a scan.                                             *)
(***************************************************************************)
Idle == ~app.live /\ ~bg.busy

Fold(o) == [app EXCEPT !.outcome = Worst(@, o)]

(* finish_scan_results                                                     *)
Finished(a) == [a EXCEPT !.live = FALSE, !.done = TRUE]


FreshHistory == [hist EXCEPT !.truth = "SUCCESS", !.complete = FALSE,
                             !.stopped = FALSE, !.scans = @ + 1,
                             !.disturbed = intr \/ app.quit, !.lost = app.quit]

(* reset_scan_state, and the outcome of the new scan starts at SUCCESS.    *)
ResetApp == [app EXCEPT !.done = FALSE, !.waiting = FALSE, !.prepared = FALSE,
                        !.launched = FALSE, !.pending = FALSE,
                        !.outcome = "SUCCESS", !.step = 0]

(* prepare_cf_scan: ok stands for the profile and cf_scan_init; b is bg,   *)
(* reaped when the call comes through start_scan.                          *)
Prepare(b, ok) ==
  /\ app' = IF ok THEN [ResetApp EXCEPT !.prepared = TRUE, !.pending = TRUE]
            ELSE [ResetApp EXCEPT !.outcome = "FAILED"]
  /\ cf' = IF ok THEN "live" ELSE "none"
  /\ eng' = "none"
  /\ bg' = [b EXCEPT !.cancel = FALSE, !.verified = FALSE]
  /\ hist' = FreshHistory
  /\ UNCHANGED <<pc, ret>>

(* launch_cf_scan: a refused engine leaves the plan pending.               *)
Launch ==
  /\ IF env.init
     THEN /\ app' = [app EXCEPT !.launched = TRUE, !.pending = FALSE]
          /\ eng' = "ready"
          /\ pc' = "advance" /\ ret' = pc
     ELSE /\ app' = Fold("FAILED")
          /\ UNCHANGED <<eng, pc, ret>>
  /\ bg' = Reaped
  /\ hist' = [hist EXCEPT !.lost = @ \/ app.quit]
  /\ UNCHANGED cf

(* start_non_cf_scan: ok says whether the ICMP thread could be created.    *)
StartOther(ok) ==
  LET fresh == [ResetApp EXCEPT !.launched = TRUE]
      back  == IF pc = "start" THEN "test" ELSE pc IN
  /\ cf' = "none"
  /\ hist' = [FreshHistory EXCEPT !.disturbed = @ \/ (Icmp /\ env.init /\ ~ok)]
  /\ \/ /\ ~env.init
        /\ app' = [fresh EXCEPT !.outcome = "FAILED"]
        /\ eng' = "none" /\ bg' = [Reaped EXCEPT !.cancel = FALSE]
        /\ pc' = back /\ UNCHANGED ret
     \/ /\ env.init /\ Icmp /\ ok
        /\ app' = [fresh EXCEPT !.waiting = TRUE]
        /\ eng' = "ready"
        /\ bg' = [BgStarted("icmp", TRUE) EXCEPT !.cancel = FALSE]
        /\ pc' = back /\ UNCHANGED ret
     \/ /\ env.init /\ Icmp /\ ~ok
        /\ app' = LET a == [fresh EXCEPT !.outcome = IF Method = "auto" THEN @ ELSE "FAILED"]
                  IN IF Method = "icmp" THEN Finished(a) ELSE a
        /\ eng' = "ready"
        /\ bg' = [BgStarted("icmp", FALSE) EXCEPT !.cancel = FALSE]
        /\ pc' = IF Method = "icmp" THEN back ELSE "advance"
        /\ ret' = back
     \/ /\ env.init /\ ~Icmp
        /\ app' = fresh
        /\ eng' = "ready" /\ bg' = [Reaped EXCEPT !.cancel = FALSE]
        /\ pc' = "advance" /\ ret' = back

(* discard_unlaunched_plan                                                 *)
Discarded(a) == IF a.prepared /\ ~a.launched
                THEN [a EXCEPT !.prepared = FALSE, !.pending = FALSE] ELSE a
DiscardCf == cf' = IF app.prepared /\ ~app.launched THEN "none" ELSE cf

(***************************************************************************)
(* advance_phase: the next engine phase, or the end of the scan.           *)
(***************************************************************************)
Call(return) == pc' = "advance" /\ ret' = return

StartVerify(a) ==
  \E ok \in BOOLEAN :
    /\ bg' = BgStarted("verify", ok)
    /\ IF BgStartWorks(ok)
       THEN /\ app' = [a EXCEPT !.live = FALSE, !.waiting = TRUE]
            /\ UNCHANGED cf
       ELSE /\ app' = [a EXCEPT !.live = FALSE, !.done = TRUE, !.outcome = "FAILED"]
            /\ cf' = "finished"
    /\ hist' = [hist EXCEPT !.disturbed = @ \/ ~ok]

Advance ==
  LET k == app.step + 1
      a == [app EXCEPT !.step = IF k > env.n THEN env.n + 1 ELSE k] IN
  /\ pc = "advance"
  /\ pc' = ret
  /\ \/ /\ k <= env.n /\ env.phase[k] # "NOSTART"
        /\ app' = [a EXCEPT !.live = TRUE]
        /\ eng' = "running"
        /\ UNCHANGED <<bg, cf, hist>>
     \/ /\ k <= env.n /\ env.phase[k] = "NOSTART"
        /\ app' = [a EXCEPT !.live = FALSE, !.outcome = "FAILED"]
        /\ UNCHANGED <<bg, eng, cf, hist>>
     \/ /\ k > env.n /\ Mode = "cf" /\ StartVerify(a)
        /\ UNCHANGED eng
     \/ /\ k > env.n /\ Mode # "cf"
        /\ app' = Finished(a)
        /\ hist' = [hist EXCEPT !.complete = TRUE]
        /\ UNCHANGED <<bg, eng, cf>>
  /\ UNCHANGED <<ret, intr, env>>

(***************************************************************************)
(* pump: fold what the background thread published, then the engine.       *)
(***************************************************************************)
PumpVerify ==
  /\ app' = [app EXCEPT !.waiting = FALSE, !.done = TRUE,
       !.outcome = Worst(@, IF bg.result = "SUCCESS" /\ env.io
                            THEN "INCOMPLETE" ELSE bg.result)]
  /\ pc' = "pumpEngine" /\ UNCHANGED ret

\* Mutant: a cancelled ICMP stage does not end the scan.
PumpIcmpGoesOn ==
  LET a == [app EXCEPT !.waiting = FALSE,
              !.outcome = IF IcmpCounts(bg.result) THEN Worst(@, bg.result) ELSE @] IN
  IF Method = "icmp"
  THEN app' = Finished(a) /\ pc' = "pumpEngine" /\ UNCHANGED ret
  ELSE app' = a /\ Call("pumpEngine")

PumpIcmp ==
  LET a == [app EXCEPT !.waiting = FALSE,
              !.outcome = IF IcmpCounts(bg.result) THEN Worst(@, bg.result) ELSE @] IN
  IF Method = "icmp" \/ bg.result = "CANCELLED"
  THEN app' = Finished(a) /\ pc' = "pumpEngine" /\ UNCHANGED ret
  ELSE app' = a /\ Call("pumpEngine")

(* A thread of any other kind is taken for the one that was awaited.       *)
PumpOther == app' = [app EXCEPT !.waiting = FALSE] /\ Call("pumpEngine")

Pump ==
  /\ pc = "pump"
  /\ bg' = Reaped
  /\ \/ /\ app.waiting /\ ~bg.busy
        /\ \/ bg.kind = "verify" /\ PumpVerify
           \/ bg.kind = "icmp" /\ PumpIcmp
           \/ bg.kind = "netinfo" /\ PumpOther
     \/ /\ ~(app.waiting /\ ~bg.busy)
        /\ pc' = "pumpEngine" /\ UNCHANGED <<app, ret>>
  /\ UNCHANGED <<eng, cf, intr, env, hist>>

(* finalize_engine_phase, on an engine that reports o.                     *)
Finalize(a, o, cancel) ==
  /\ eng' = "ready"
  /\ hist' = [hist EXCEPT !.truth = Worst(@, o),
                          !.stopped = @ \/ (cancel /\ pc = "keys"),
                          !.disturbed = @ \/ cancel]
  /\ LET b == [a EXCEPT !.live = FALSE, !.outcome = Worst(@, o)]
         over == cancel \/ o = "FAILED" IN
     /\ app' = IF over THEN Finished(b) ELSE b
     /\ cf' = IF over /\ Mode = "cf" THEN "finished" ELSE cf

(* What qn_engine_finalize(cancel = true) reports: stopping is raised      *)
(* before the join, so even a phase that had ended is CANCELLED, but a     *)
(* failure that has happened stays one.                                    *)
StoppedOutcomes ==
  LET failed == {env.phase[app.step]} \cap {"FAILED"} IN
  IF eng = "ended" /\ failed # {} THEN failed ELSE {"CANCELLED"} \cup failed

PumpEngine ==
  /\ pc = "pumpEngine"
  /\ \/ /\ ~app.live \/ eng = "running"
        /\ pc' = "render"
        /\ UNCHANGED <<ret, app, eng, cf, hist>>
     \/ /\ app.live /\ eng = "ended"
        /\ Finalize(app, env.phase[app.step], FALSE)
        /\ IF env.phase[app.step] = "FAILED"
           THEN pc' = "render" /\ UNCHANGED ret
           ELSE Call("render")
  /\ UNCHANGED <<bg, intr, env>>

(***************************************************************************)
(* handle_key: one action per key that changes state.  Keys are read until *)
(* none is left, also after one of them has set quit.                      *)
(***************************************************************************)
Typing == pc = "keys"

Working == app.live \/ bg.busy \/ app.waiting \/ app.pending

Quitting(a) == [a EXCEPT !.quit = TRUE]

\* Mutant: q forgets that a background stage may be running.
KeyQuitEngineOnly ==
  /\ Typing
  /\ bg' = [bg EXCEPT !.cancel = TRUE]
  /\ app' = Quitting(IF app.live \/ app.pending
                     THEN Fold("CANCELLED") ELSE app)
  /\ hist' = [hist EXCEPT !.disturbed = @ \/ Working]
  /\ UNCHANGED <<pc, ret, eng, cf, intr, env>>

(* q outside the plan view, and Ctrl-C anywhere.                           *)
KeyQuit ==
  /\ Typing
  /\ bg' = [bg EXCEPT !.cancel = TRUE]
  /\ app' = Quitting(IF app.live \/ bg.busy \/ app.pending
                     THEN Fold("CANCELLED") ELSE app)
  /\ hist' = [hist EXCEPT !.disturbed = @ \/ Working]
  /\ UNCHANGED <<pc, ret, eng, cf, intr, env>>

KeyPlanQuit ==
  /\ Typing
  /\ app' = Quitting(IF app.pending THEN Fold("CANCELLED") ELSE app)
  /\ hist' = [hist EXCEPT !.disturbed = @ \/ Working, !.lost = @ \/ Working]
  /\ UNCHANGED <<pc, ret, bg, eng, cf, intr, env>>

(* Whether the thread will still look at the flag: host_discover_icmp reads *)
(* it for the last time before its final wait, bg_main after cf_scan_finish. *)
Heard == bg.at \in {"icmp", "verify", "tunnel", "finish", "check"}

(* x: finalize the engine now, or ask the background thread to stop.       *)
KeyStop ==
  /\ Typing
  /\ \/ /\ app.live
        /\ \E o \in StoppedOutcomes : Finalize(app, o, TRUE)
        /\ UNCHANGED bg
     \/ /\ ~app.live /\ bg.busy /\ bg.kind \in {"verify", "icmp"}
        /\ bg' = [bg EXCEPT !.cancel = TRUE]
        /\ hist' = [hist EXCEPT !.stopped = Heard, !.disturbed = TRUE]
        /\ UNCHANGED <<app, eng, cf>>
  /\ UNCHANGED <<pc, ret, intr, env>>

(* s, and Enter on Review / Start in the plan view.                        *)
KeyStart ==
  /\ Typing
  /\ Idle
  /\ \/ /\ Mode = "cf" /\ ~app.pending /\ hist.scans < MaxScans
        /\ \E b \in {bg, Reaped}, ok \in BOOLEAN : Prepare(b, ok)
     \/ /\ Mode = "cf" /\ app.pending
        /\ Launch
     \/ /\ Mode # "cf" /\ hist.scans < MaxScans
        /\ \E ok \in BOOLEAN : StartOther(ok)
  /\ UNCHANGED <<intr, env>>

(* A changed or reloaded setting: the prepared plan is dropped in silence. *)
KeyEdit ==
  /\ Typing
  /\ DiscardCf
  /\ app' = [Discarded(app) EXCEPT !.pending = FALSE]
  /\ UNCHANGED <<pc, ret, bg, eng, intr, env, hist>>

(* Esc in the plan view: the prepared scan is cancelled.                   *)
KeyEsc ==
  /\ Typing
  /\ app.pending
  /\ DiscardCf
  /\ app' = Discarded(Fold("CANCELLED"))
  /\ hist' = [hist EXCEPT !.disturbed = TRUE]
  /\ UNCHANGED <<pc, ret, bg, eng, intr, env>>

KeyExport ==
  /\ Typing
  /\ Idle
  /\ \E o \in {"SUCCESS", "INCOMPLETE", "FAILED"} :
       /\ app' = Fold(o)
       /\ hist' = [hist EXCEPT !.disturbed = @ \/ o # "SUCCESS"]
  /\ UNCHANGED <<pc, ret, bg, eng, cf, intr, env>>

KeysDone ==
  /\ pc = "keys"
  /\ pc' = "pump"
  /\ UNCHANGED <<ret, app, bg, eng, cf, intr, env, hist>>

Keys == KeyQuit \/ KeyPlanQuit \/ KeyStop \/ KeyStart \/ KeyEdit \/ KeyEsc \/ KeyExport

(***************************************************************************)
(* The rest of the loop.  Drawing the network view starts a thread of its  *)
(* own; a frame that cannot be written ends the session.                   *)
(***************************************************************************)
Render ==
  /\ pc = "render"
  /\ pc' = "test"
  /\ \/ UNCHANGED <<app, bg, hist>>
     \/ /\ ~bg.netReady /\ ~bg.busy
        /\ \E ok \in BOOLEAN :
             /\ bg' = BgStarted("netinfo", ok)
             /\ hist' = [hist EXCEPT !.disturbed = @ \/ app.live \/ app.waiting,
                                     !.lost = @ \/ app.waiting]
        /\ UNCHANGED app
     \/ /\ app' = Quitting(Fold("FAILED"))
        /\ hist' = [hist EXCEPT !.disturbed = TRUE]
        /\ UNCHANGED bg
  /\ UNCHANGED <<ret, eng, cf, intr, env>>

\* Mutant: the loop does not look at the signal.
TestQuitOnly ==
  /\ pc = "test"
  /\ pc' = IF app.quit THEN "exit" ELSE "keys"
  /\ UNCHANGED <<ret, app, bg, eng, cf, intr, env, hist>>

Test ==
  /\ pc = "test"
  /\ pc' = IF app.quit \/ intr THEN "exit" ELSE "keys"
  /\ UNCHANGED <<ret, app, bg, eng, cf, intr, env, hist>>

Exit ==
  /\ pc = "exit"
  /\ pc' = "join"
  /\ bg' = [bg EXCEPT !.cancel = TRUE]
  /\ LET a == IF intr \/ app.live THEN Fold("CANCELLED") ELSE app IN
     IF app.live THEN \E o \in StoppedOutcomes : Finalize(a, o, TRUE)
     ELSE app' = a /\ UNCHANGED <<eng, cf, hist>>
  /\ UNCHANGED <<ret, intr, env>>

\* Mutant: the thread is detached, not joined.
JoinNoWait ==
  /\ pc = "join"
  /\ pc' = "leave"
  /\ bg' = [bg EXCEPT !.joinable = FALSE]
  /\ UNCHANGED <<ret, app, eng, cf, intr, env, hist>>

Join ==
  /\ pc = "join"
  /\ bg.joinable => bg.at = "gone"
  /\ pc' = "leave"
  /\ bg' = [bg EXCEPT !.joinable = FALSE, !.at = "none"]
  /\ UNCHANGED <<ret, app, eng, cf, intr, env, hist>>

(* Results are finished if nobody did, the requested files are written and *)
(* everything is released.                                                 *)
Leave ==
  /\ pc = "leave"
  /\ pc' = "ended"
  /\ LET a == Discarded(app)
         b == IF ~a.done /\ (Mode # "cf" \/ a.launched) THEN Finished(a) ELSE a IN
     \E export \in {"SUCCESS", "INCOMPLETE", "FAILED"} :
       /\ app' = [b EXCEPT !.outcome = Worst(@, export)]
       /\ hist' = [hist EXCEPT !.export = export]
  /\ eng' = "none" /\ cf' = "none"
  /\ UNCHANGED <<ret, bg, intr, env>>

(***************************************************************************)
(* Outside: the engine's workers end, a signal arrives.                    *)
(***************************************************************************)
EngineEnds ==
  /\ eng = "running"
  /\ eng' = "ended"
  /\ UNCHANGED <<pc, ret, app, bg, cf, intr, env, hist>>

Interrupt ==
  /\ ~intr /\ pc # "ended"
  /\ intr' = TRUE
  /\ hist' = [hist EXCEPT !.disturbed = TRUE]
  /\ UNCHANGED <<pc, ret, app, bg, eng, cf, env>>

(* qn_app_run up to its loop: every mode but cf starts its scan at once.   *)
Start ==
  /\ pc = "start"
  /\ \/ /\ Mode = "cf"
        /\ pc' = "test"
        /\ UNCHANGED <<ret, app, bg, eng, cf, hist>>
     \/ /\ Mode # "cf"
        /\ \E ok \in BOOLEAN : StartOther(ok)
  /\ UNCHANGED <<intr, env>>

Init ==
  /\ pc = "start" /\ ret = "keys"
  /\ app = [quit |-> FALSE, live |-> FALSE, done |-> FALSE, waiting |-> FALSE,
            prepared |-> FALSE, launched |-> FALSE, pending |-> FALSE,
            outcome |-> "SUCCESS", step |-> 0]
  /\ bg = NoThread /\ eng = "none" /\ cf = "none" /\ intr = FALSE
  /\ cfg \in Configs
  /\ env \in Envs
  /\ hist = [truth |-> "SUCCESS", complete |-> FALSE, stopped |-> FALSE,
             disturbed |-> FALSE, lost |-> FALSE, scans |-> 0,
             export |-> "SUCCESS"]

Ended == pc = "ended" /\ UNCHANGED vars

Loop == Start \/ KeysDone \/ Advance \/ Pump \/ PumpEngine \/ Render \/ Test
          \/ Exit \/ Join \/ Leave

Next == Loop \/ Keys \/ Bg \/ EngineEnds \/ Interrupt \/ Ended

Spec == Init /\ [][Next /\ UNCHANGED cfg]_<<vars, cfg>>

(* The main thread and the background thread are scheduled, and a phase    *)
(* ends (RunEnds of module Engine); keys and signals may never come.       *)
FairSpec == Spec /\ WF_vars(Loop) /\ WF_vars(Bg) /\ WF_vars(EngineEnds)

-----------------------------------------------------------------------------

(* Type correctness of the front end's state; the main thread runs an      *)
(* engine only while engine_live says so, and awaits only a started scan.  *)
TypeOK ==
  /\ pc \in {"start", "keys", "advance", "pump", "pumpEngine", "render", "test",
             "exit", "join", "leave", "ended"}
  /\ ret \in {"keys", "pumpEngine", "render", "test"}
  /\ app \in [quit : BOOLEAN, live : BOOLEAN, done : BOOLEAN, waiting : BOOLEAN,
              prepared : BOOLEAN, launched : BOOLEAN, pending : BOOLEAN,
              outcome : Outcomes, step : 0..(MaxPhases + 1)]
  /\ bg \in [joinable : BOOLEAN, kind : {"none", "verify", "icmp", "netinfo"},
             busy : BOOLEAN, result : Outcomes, cancel : BOOLEAN,
             at : {"none", "netinfo", "icmp", "verify", "tunnel", "finish", "check",
                   "publish", "clear", "gone"},
             out : Outcomes, netReady : BOOLEAN, verified : BOOLEAN]
  /\ eng \in {"none", "ready", "running", "ended"}
  /\ cf \in {"none", "live", "finished"} /\ intr \in BOOLEAN /\ env \in Envs
  /\ hist \in [truth : Outcomes, complete : BOOLEAN, stopped : BOOLEAN,
               disturbed : BOOLEAN, lost : BOOLEAN, scans : 0..MaxScans,
               export : Outcomes]
  /\ eng \in {"running", "ended"} <=> app.live

VerifierOwns == bg.at \in {"verify", "tunnel", "finish", "check"}

(* While bg_main works on the Cloudflare records (cf_scan_verify,          *)
(* cf_scan_tunnel, cf_scan_finish) they exist, the engine they belong to   *)
(* is idle and not destroyed, and no second thread can be started over it. *)
OneOwner == VerifierOwns => cf # "none" /\ eng = "ready" /\ bg.busy /\ bg.joinable

(* The structure of a session: types, an engine that runs only while           *)
(* engine_live says so, and one owner of the records.                      *)
AppInv == TypeOK /\ OneOwner

(* Exit code 0 is the truth: when qn_app_run returns SUCCESS for a scan    *)
(* that was launched, all of its phases ran, its verification or ICMP      *)
(* stage ended and none of them reported anything worse than SUCCESS.  Not *)
(* so (lost) when q was typed in the plan view during the scan, the scan   *)
(* was launched by a key typed after q, or the network view took the       *)
(* background thread before pump had read the awaited result.              *)
SuccessMeansComplete ==
  pc = "ended" /\ app.launched /\ app.outcome = "SUCCESS" /\ ~hist.lost
    => hist.complete /\ hist.truth = "SUCCESS"

(* "Headless and the TUI settle on the same outcome, so exit codes agree": *)
(* a launched scan that nobody interrupted, that lost no local resource    *)
(* and did not share its thread with the network view ends the session     *)
(* with the outcome run_headless computes.  An ICMP-only discovery is left *)
(* out where the engine cannot be initialised: only the TUI needs it then. *)
FrontEndsAgree ==
  pc = "ended" /\ app.launched /\ ~hist.disturbed /\ (Method = "icmp" => env.init)
    => app.outcome = Headless(env, hist.export)

(* The outcome a session ends with is the truth, in either front end.      *)
OutcomeIsTrue == SuccessMeansComplete /\ FrontEndsAgree

(* x stops the scan: once handle_key accepted it while the stage still     *)
(* looks at the flag, no further engine phase of that scan is started.     *)
StopStops ==
  [][hist.stopped /\ hist'.stopped /\ ~hist'.lost => ~(~app.live /\ app'.live)]_vars

(* q, Ctrl-C, a signal or a lost terminal end the session: the loop is     *)
(* left, the engine stopped and the background thread joined.              *)
QuitEnds == (app.quit \/ intr) ~> (pc = "ended")

(* A scan left alone comes to an end: no phase and no background stage is  *)
(* awaited forever.                                                        *)
ScanEnds == (app.live \/ app.waiting) ~> ((~app.live /\ ~app.waiting) \/ pc = "ended")

(* Nothing keeps qn_app_run from ending what it was told to end or started. *)
SessionEnds == QuitEnds /\ ScanEnds

(* Sessions for model checking: the interactive front end in every mode.   *)
Session(mode, method, tunnel, phases, scans) ==
  [mode |-> mode, method |-> method, tunnel |-> tunnel,
   phases |-> phases, scans |-> scans]

AllSessions ==
  {Session("cf", "tcp", TRUE, 2, 1), Session("cf", "tcp", FALSE, 1, 2),
   Session("ports", "tcp", FALSE, 2, 1), Session("discover", "icmp", FALSE, 1, 1),
   Session("discover", "auto", FALSE, 1, 1), Session("discover", "both", FALSE, 1, 2)}

CfSession == {Session("cf", "tcp", FALSE, 1, 1)}
=============================================================================
