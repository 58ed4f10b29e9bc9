------------------------------ MODULE Launcher ------------------------------
(***************************************************************************)
(* From the start of the program to a running Cloudflare scan: the         *)
(* numbered menu (qn_menu_run) or the command line (parse_args), the       *)
(* checks of main, and the plan view of the application, where a request   *)
(* is edited, reviewed as an effective plan and confirmed.                 *)
(*                                                                         *)
(* What a page asks about and main never looks at (samples, ports,         *)
(* fingerprint and the like) is left out, and so is a line that a prompt   *)
(* refuses and asks for again.  The plan is the request it was resolved    *)
(* from; the resolution itself is the module ScanPlan.                     *)
(***************************************************************************)
EXTENDS ScanRequest

CONSTANTS Order,      \* the editor's lines, from "preset" to "review"
          Args,       \* arguments that may be given, as <<name, value>>
          MaxInputs,  \* bound: answers or arguments before the start
          MaxEdits,   \* bound: these and the changes in the plan view
          NoRequest   \* no request: no plan, no file, no scan

VARIABLE la

NoConfig ==
  [mode |-> "none", target |-> FALSE, host |-> FALSE, prefix |-> FALSE, link |-> "none",
   file |-> "none", xray |-> FALSE, confirmed |-> FALSE, headless |-> FALSE, v6 |-> FALSE,
   update |-> FALSE, scan |-> Defaults]

\* at: the page or the stage; sel, nmode: the menu's selected and network_mode; c: cfg;
\* seen: the SEEN_ flags; label: the preset named on the page; ed: the plan editor; the flags of qn_app that concern the plan; saved: the
\* settings file; base: history, the request last started with, saved or loaded; live: the
\* request on the screen when the scan that runs was confirmed.
Start(tty, menu, saved) ==
  [at |-> IF menu THEN "modes" ELSE "args", tty |-> tty, menu |-> menu, n |-> 0,
   sel |-> 0, nmode |-> "net", seen |-> {}, label |-> 0,
   c |-> [NoConfig EXCEPT !.scan = PresetApply(@, IF menu THEN 1 ELSE 0)],
   ed |-> [line |-> 1, editing |-> FALSE, text |-> All], dirty |-> FALSE,
   view |-> "plan", prepared |-> FALSE, launched |-> FALSE, pending |-> FALSE,
   changed |-> FALSE, valid |-> FALSE, plan |-> NoRequest,
   saved |-> saved, base |-> NoRequest, live |-> NoRequest]

\* The menu opens when no argument is given on a terminal.
LaunchInit ==
  \E tty \in BOOLEAN, menu \in BOOLEAN, saved \in {NoRequest, PresetApply(Defaults, 4)} :
    (menu => tty) /\ la = Start(tty, menu, saved)

On(page) == la.at = page
Go(page) == la' = [la EXCEPT !.at = page]
Count == la.n < MaxInputs

\* The program is over; the settings file is what is left of it.
Exit == la' = [Start(FALSE, FALSE, la.saved) EXCEPT !.at = "exit"]

----------------------------------------------------------------------------
(* The menu.                                                               *)

\* The end of the input, or 0 on the first page, leaves the program.
Leave ==
  /\ la.at \in {"modes", "actions", "cdn", "plan", "tunnel", "host", "network",
                "confirm_tunnel", "confirm_full", "ask_host"}
  /\ Exit

SelectMode(s) ==
  /\ On("modes")
  /\ la' = [la EXCEPT !.at = "actions", !.sel = s,
       !.c.mode = <<"cf", "ports", la.nmode>>[s],
       !.c.target = <<FALSE, la.c.host, la.nmode = "discover" /\ la.c.prefix>>[s]]

Back == On("actions") /\ Go("modes")

OpenSettings == On("actions") /\ Go(<<"cdn", "host", "network">>[la.sel])

\* The settings pages return to the actions; network_mode is taken from the mode then.
CloseSettings ==
  /\ la.at \in {"cdn", "host", "network"}
  /\ la' = [la EXCEPT !.at = "actions", !.nmode = IF On("network") THEN la.c.mode ELSE @]

OpenPlan == On("cdn") /\ la' = [la EXCEPT !.at = "plan", !.label = PresetDetect(la.c.scan)]
OpenTunnel == On("cdn") /\ Go("tunnel")
CloseInner == la.at \in {"plan", "tunnel"} /\ Go("cdn")

\* The page that edits them is the one of the tunnel.
TunnelFields == {"tunnel_target", "tunnel_concurrency", "tunnel_attempts"}

\* scan_plan_settings: the preset, a field, saving, restoring.
MenuPreset(q) ==
  /\ On("plan") /\ Count
  /\ la' = [la EXCEPT !.n = @ + 1, !.label = q, !.c.scan = PresetApply(@, q)]

MenuField(f) ==
  /\ On("plan") /\ Count /\ f \notin TunnelFields \cup {"tunnel_stage"}
  /\ \E r \in MenuEdits(la.c.scan, f) :
       la' = [la EXCEPT !.n = @ + 1, !.label = 0, !.c.scan = r]

MenuSave ==
  /\ On("plan") /\ Count /\ Valid(la.c.scan)
  /\ la' = [la EXCEPT !.n = @ + 1, !.saved = la.c.scan]

MenuLoad ==
  /\ On("plan") /\ Count /\ la.saved # NoRequest
  /\ la' = [la EXCEPT !.n = @ + 1, !.c.scan = la.saved, !.label = PresetDetect(la.saved)]

\* tunnel_settings: the stage, its numbers, a pasted link, a link file, the executable
\* (found, named or installed); a link that does not parse is refused there.
MenuTunnel ==
  /\ On("tunnel") /\ Count
  /\ \/ la' = [la EXCEPT !.n = @ + 1, !.c.scan = ToggleStage(@)]
     \/ \E f \in TunnelFields : \E r \in MenuEdits(la.c.scan, f) :
          la' = [la EXCEPT !.n = @ + 1, !.c.scan = r]
     \/ la' = [la EXCEPT !.n = @ + 1, !.c.link = "good", !.c.file = "none"]
     \/ \E kind \in {"good", "bad"} : la' = [la EXCEPT !.n = @ + 1, !.c.file = kind, !.c.link = "none"]
     \/ la' = [la EXCEPT !.n = @ + 1, !.c.xray = TRUE]

\* host_settings: the target and the address family.
MenuHost ==
  /\ On("host") /\ Count
  /\ \/ la' = [la EXCEPT !.n = @ + 1, !.c.host = TRUE, !.c.target = TRUE]
     \/ \E six \in BOOLEAN : la' = [la EXCEPT !.n = @ + 1, !.c.v6 = six]

\* network_settings: the operation; a prefix or a method makes it discovery.
MenuNetwork ==
  /\ On("network") /\ Count
  /\ \/ la' = [la EXCEPT !.n = @ + 1, !.c.mode = "net", !.c.target = FALSE]
     \/ la' = [la EXCEPT !.n = @ + 1, !.c.mode = "discover", !.c.target = la.c.prefix]
     \/ \E some \in BOOLEAN :
          la' = [la EXCEPT !.n = @ + 1, !.c.mode = "discover", !.c.prefix = some, !.c.target = some]
     \/ la' = [la EXCEPT !.n = @ + 1, !.c.mode = "discover"]

FullSweep(r) == r.scope.n = 1 \/ (r.scope.n = 2 /\ r.coverage.n = 1000000)

\* ready_to_start, up to the first question it asks.
Ready(c) ==
  LET r == c.scan
      linked == c.link = "good" \/ (c.link = "none" /\ c.file # "none") IN
  CASE la.sel = 1 ->
         la' = [la EXCEPT !.c = [c EXCEPT !.mode = "cf", !.target = FALSE],
           !.at = CASE ~Valid(r) -> "actions"
                    [] Valid(r) /\ r.tunnel_stage.n = 1 -> IF linked THEN "confirm_tunnel" ELSE "actions"
                    [] OTHER -> IF FullSweep(r) THEN "confirm_full" ELSE "main"]
    [] la.sel = 2 -> la' = [la EXCEPT !.c = [c EXCEPT !.mode = "ports"],
                                      !.at = IF c.target THEN "main" ELSE "ask_host"]
    [] la.sel = 3 -> la' = [la EXCEPT !.c = [c EXCEPT !.mode = IF @ = "discover" THEN @ ELSE "net"],
                                      !.at = "main"]

\* Start, and Auto mode (apply_auto first).
MenuStart == On("actions") /\ Ready(la.c)

MenuAuto ==
  /\ On("actions")
  /\ Ready(CASE la.sel = 1 -> [la.c EXCEPT !.scan = PresetApply(@, 1)]
             [] la.sel = 2 -> [la.c EXCEPT !.v6 = FALSE]
             [] la.sel = 3 -> [la.c EXCEPT !.mode = "net", !.target = FALSE])

\* The questions of ready_to_start; 0 goes back to the actions.
Answer ==
  \/ la.at \in {"confirm_tunnel", "confirm_full"} /\ Go("actions")
  \/ On("confirm_tunnel")
     /\ la' = [la EXCEPT !.c.confirmed = TRUE,
                         !.at = IF FullSweep(la.c.scan) THEN "confirm_full" ELSE "main"]
  \/ On("confirm_full") /\ Go("main")
  \/ On("ask_host") /\ la' = [la EXCEPT !.c.host = TRUE, !.c.target = TRUE, !.at = "main"]

Menu ==
  \/ Leave \/ Back \/ OpenSettings \/ CloseSettings \/ OpenPlan \/ OpenTunnel \/ CloseInner
  \/ MenuSave \/ MenuLoad \/ MenuTunnel \/ MenuHost \/ MenuNetwork
  \/ MenuStart \/ MenuAuto \/ Answer
  \/ \E s \in 1..3 : SelectMode(s)
  \/ \E q \in 0..4 : MenuPreset(q)
  \/ \E f \in ToSet(Order) \cap Fields : MenuField(f)

----------------------------------------------------------------------------
(* The command line.                                                       *)

Modes == {"cf", "scan_cf", "ports", "discover", "net"}
ScopeFlags == {"coverage", "budget", "reachable"}

\* The SEEN_ flags an argument raises.
Flags(name) ==
  CASE name = "scope" -> {"cf", "scope"}
    [] name \in ScopeFlags \cup {"limit"} -> {"cf", name}
    [] name \in {"engine", "scan"} -> {"engine"}
    [] name = "v6" -> {"ports"}
    [] name \in {"method", "timeout", "json", "seed"} -> {name}
    [] name \in Modes \cup {"target", "headless", "tui", "update"} -> {}
    [] OTHER -> {"cf"}

\* set_mode for --cf: without a scan mode so far it means the whole range.
ModeOption(c, seen, name) ==
  CASE name = "cf" -> [c EXCEPT !.mode = "cf", !.scan.scope.n = IF "scope" \in seen THEN @ ELSE 1]
    [] name = "scan_cf" -> [c EXCEPT !.mode = "cf"]
    [] name = "ports" -> [c EXCEPT !.mode = "ports", !.target = TRUE]
    [] OTHER -> [c EXCEPT !.mode = name]

\* One turn of parse_args; an argument it does not take ends the program.
Argument(name, v) ==
  LET c == la.c
      bad == \/ name \in Modes /\ c.mode # "none"
             \/ name = "target" /\ c.target
             \/ name \in Fields /\ ~OptionTakes(name, v)
             \/ name = "limit" /\ v \notin 1..Limit
      next == CASE name \in Modes -> ModeOption(c, la.seen, name)
                [] name \in Fields -> [c EXCEPT !.scan = Option(@, name, v)]
                [] name = "limit" -> [c EXCEPT !.scan.scope.n = 4, !.scan.reachable.n = v]
                [] name \in {"link", "file"} -> [c EXCEPT ![name] = v]
                [] name \in {"target", "xray", "confirmed", "headless", "v6", "update"} -> [c EXCEPT ![name] = TRUE]
                [] name = "tui" -> [c EXCEPT !.headless = FALSE]
                [] OTHER -> c IN
  /\ On("args") /\ Count
  /\ la' = IF bad THEN [la EXCEPT !.at = "usage"]
           ELSE [la EXCEPT !.n = @ + 1, !.c = next, !.seen = @ \cup Flags(name)]

EndOfArguments == On("args") /\ Go("main")

----------------------------------------------------------------------------
(* main.                                                                   *)

\* validate_options: what the combination of options allows.
Accepted(c, seen) ==
  LET scopes == seen \cap ScopeFlags
      on == c.scan.tunnel_stage.n = 1 IN
  /\ "cf" \in seen => c.mode = "cf"
  /\ "limit" \in seen => "scope" \notin seen /\ scopes = {}
  /\ IF "scope" \in seen
     THEN scopes = <<{}, {}, {"coverage"}, {"budget"}, {"reachable"}>>[c.scan.scope.n + 1]
     ELSE scopes = {}
  /\ "ports" \in seen => c.mode = "ports"
  /\ "method" \in seen => c.mode = "discover"
  /\ "engine" \in seen => c.mode \notin {"none", "net"}
  /\ seen \cap {"timeout", "json"} # {} => c.mode # "none"
  /\ "seed" \in seen => c.mode \in {"cf", "ports"}
  /\ c.mode \in {"cf", "net"} => ~c.target
  /\ c.update => c.mode \in {"none", "cf"}
  /\ on => c.link # "none" \/ c.file # "none"
  /\ c.link = "none" \/ c.file = "none"
  /\ ~on => c.link = "none" /\ c.file = "none" /\ ~c.xray
  /\ on /\ c.headless => c.confirmed

\* load_tunnel_link: a link file becomes the link, and stays the link file.
LoadTunnelLink(c) ==
  IF c.scan.tunnel_stage.n = 1 /\ c.file # "none" THEN [c EXCEPT !.link = c.file] ELSE c

\* The front end for the options that passed.
Enter(c, ok) ==
  IF ~ok THEN [la EXCEPT !.at = "refused"]
  ELSE IF c.headless \/ ~la.tty THEN [la EXCEPT !.at = "headless", !.c = c]
  ELSE IF c.mode # "cf" THEN [la EXCEPT !.at = "other", !.c = c]
  ELSE [la EXCEPT !.at = "app", !.menu = FALSE, !.seen = {}, !.sel = 0, !.nmode = "net",
                  !.c = [NoConfig EXCEPT !.mode = "cf", !.confirmed = c.confirmed, !.scan = c.scan],
                  !.label = PresetDetect(c.scan), !.base = c.scan]

\* The rest of main: the two passes of validate_options, the link and the ranges between
\* them, the checks of the mode and the choice of the front end, which is the headless one
\* without a terminal.  What the application does not read is forgotten.
Main ==
  LET c == LoadTunnelLink(la.c)
      first == Accepted(la.c, la.seen) /\ (c.scan.tunnel_stage.n = 1 => c.link = "good")
      second == /\ Accepted(c, la.seen)
                /\ c.mode # "none" /\ (c.mode = "ports" => c.target) /\ (c.v6 => c.mode = "ports") IN
  /\ On("main")
  /\ \E fetched \in {TRUE, ~c.update} :
       la' = CASE ~first \/ ~fetched -> [la EXCEPT !.at = "refused"]
               [] first /\ fetched /\ c.update /\ c.mode = "none" -> [la EXCEPT !.at = "exit"]
               [] OTHER -> Enter(c, second)

----------------------------------------------------------------------------
(* The plan view.                                                          *)

InPlan == On("app") /\ la.view = "plan"
Browsing == InPlan /\ ~la.ed.editing
Line == Order[la.ed.line]
MayEdit == la.n < MaxEdits

\* discard_unlaunched_plan.
Discard(a) ==
  IF ~a.prepared \/ a.launched THEN a
  ELSE [a EXCEPT !.prepared = FALSE, !.pending = FALSE, !.valid = FALSE]

\* Mutant: a plan that waits for its confirmation survives the edit.
EditedKeeps(r, label) == [la EXCEPT !.n = @ + 1, !.c.scan = r, !.label = label, !.dirty = TRUE]

\* QN_SCAN_EDIT_CHANGED: the request has changed, a plan made from the old one is dropped.
Edited(r, label) ==
  [Discard([la EXCEPT !.n = @ + 1, !.c.scan = r, !.label = label, !.dirty = TRUE])
     EXCEPT !.changed = TRUE, !.pending = FALSE]

\* Up, Down, Page Up, Page Down, Home, End; 's' goes to the last line.
Move ==
  LET i == la.ed.line
      last == Len(Order) IN
  /\ Browsing
  /\ \E j \in {IF i > 1 THEN i - 1 ELSE i, IF i < last THEN i + 1 ELSE i,
               IF i > 6 THEN i - 5 ELSE 1, IF i + 5 <= last THEN i + 5 ELSE last, 1, last} :
       la' = [la EXCEPT !.ed.line = j]

\* Left and Right.  On the review line nothing changes, and a plan is dropped all the same.
Cycle(dir) ==
  LET r == la.c.scan
      q == (la.label + dir) % 5 IN
  /\ Browsing /\ MayEdit
  /\ la' = CASE Line = "preset" -> Edited(PresetApply(r, q), q)
             [] Line = "review" -> [Edited(r, la.label) EXCEPT !.dirty = la.dirty]
             [] OTHER -> Edited(CycleField(r, Line, dir), 0)

\* Enter or a digit opens the line, digits and Backspace change its text, Esc closes it.
Type ==
  /\ InPlan
  /\ \/ ~la.ed.editing /\ Line \in Editable /\ MayEdit
        /\ \E v \in Typed \cup {All} : la' = [la EXCEPT !.ed.editing = TRUE, !.ed.text = v]
     \/ la.ed.editing /\ \E v \in Typed \cup {All} : la' = [la EXCEPT !.ed.text = v]
     \/ la.ed.editing /\ la' = [la EXCEPT !.ed.editing = FALSE, !.ed.text = All]

\* Enter in an open line: commit_edit.
CommitEdit ==
  /\ InPlan /\ la.ed.editing /\ la.ed.text # All /\ Accepts(Line, la.ed.text)
  /\ la' = [Edited(Commit(la.c.scan, Line, la.ed.text), 0)
              EXCEPT !.ed.editing = FALSE, !.ed.text = All]

\* 'w': save_plan_settings.  A failure may come after the file was replaced.
Save ==
  /\ Browsing /\ MayEdit /\ Valid(la.c.scan)
  /\ \/ la' = [la EXCEPT !.n = @ + 1, !.saved = la.c.scan, !.base = la.c.scan, !.dirty = FALSE]
     \/ la' = [la EXCEPT !.n = @ + 1, !.saved = la.c.scan]

\* 'r': load_plan_settings.
Load ==
  /\ Browsing /\ MayEdit /\ la.saved # NoRequest
  /\ la' = [Edited(la.saved, PresetDetect(la.saved)) EXCEPT !.base = la.saved, !.dirty = FALSE]

\* prepare_cf_scan in the plan view: a request that is not valid changes nothing; otherwise
\* the last scan is reset, and the plan may fail to be made before or after it is resolved.
Prepare ==
  LET a == [la EXCEPT !.view = "plan"]
      reset == [a EXCEPT !.prepared = FALSE, !.launched = FALSE, !.pending = FALSE,
                         !.valid = FALSE, !.plan = NoRequest]
      resolved == [reset EXCEPT !.valid = TRUE, !.plan = la.c.scan]
      ready == [resolved EXCEPT !.prepared = TRUE, !.pending = TRUE, !.changed = FALSE] IN
  la' \in IF Valid(la.c.scan) THEN {reset, resolved, ready} ELSE {a}

\* launch_cf_scan: the engine may refuse the plan, which then goes on waiting.
Launch ==
  /\ la.prepared /\ ~la.launched
  /\ la' \in {la, [la EXCEPT !.launched = TRUE, !.pending = FALSE, !.view = "scan", !.live = la.c.scan,
                             !.c.confirmed = @ \/ la.plan.tunnel_stage.n = 1]}

\* Enter on the review line: start_scan.
Review ==
  /\ Browsing /\ Line = "review" /\ la.live = NoRequest
  /\ IF la.pending THEN Launch ELSE Prepare

\* Esc drops a plan that waits; Tab and '?' do not.
LeavePlan ==
  /\ Browsing
  /\ \E a \in {la, IF la.pending THEN Discard(la) ELSE la} : la' = [a EXCEPT !.view = "scan"]

\* In another view 's' prepares, or goes to the plan that waits; '3' and Tab go to the plan.
OtherView ==
  /\ On("app") /\ la.view = "scan"
  /\ \/ la.live = NoRequest /\ ~la.pending /\ Prepare
     \/ la' = [la EXCEPT !.view = "plan"]

\* The scan ends or is stopped (FrontEnd).
ScanEnds == On("app") /\ la.live # NoRequest /\ la' = [la EXCEPT !.live = NoRequest]

\* 'q' and Ctrl-C; qn_app_run stops the scan and drops a plan that waits.
Quit == On("app") /\ Exit

App ==
  \/ Move \/ Type \/ CommitEdit \/ Save \/ Load \/ Review \/ LeavePlan \/ OtherView \/ ScanEnds \/ Quit
  \/ \E dir \in {-1, 1} : Cycle(dir)

Ended == la.at \in {"exit", "usage", "refused", "headless", "other"} /\ UNCHANGED la

LaunchNext == Menu \/ (\E a \in Args : Argument(a[1], a[2])) \/ EndOfArguments \/ Main \/ App \/ Ended

LaunchSpec == LaunchInit /\ [][LaunchNext]_la

----------------------------------------------------------------------------
(* Properties.                                                             *)

\* draw_plan_summary shows the effective plan.
Shown == la.valid /\ la.prepared /\ ~la.changed

\* What a menu leaves behind that main refuses: tunnel options of a stage that is off or of
\* another mode, the address family of another mode, and a link file (see LinkFileWorks).
Leftover(c) ==
  \/ c.v6 /\ c.mode # "ports"
  \/ c.file # "none"
  \/ IF c.scan.tunnel_stage.n = 1 THEN c.mode # "cf" /\ c.link = "none" ELSE c.link # "none" \/ c.xray

\* The plan on the screen is the plan of the request on the screen.  Only such a plan waits
\* for a confirmation, and the scan that runs is the one that was confirmed, whatever is
\* edited, saved, loaded or left in between.  A preset is named only while the request is
\* that preset, and an unmarked request is the one last started with, saved or loaded.  A
\* scan accepted by the menu is started by main, but for what an earlier page left behind.
LaunchInv ==
  /\ la.c.scan \in [Fields -> [n : Nat, auto : BOOLEAN, all : BOOLEAN]]
  /\ Shown => la.plan = la.c.scan
  /\ la.pending => Shown /\ ~la.launched /\ la.live = NoRequest
  /\ la.live # NoRequest =>
       /\ la.plan = la.live /\ Valid(la.live) /\ la.prepared /\ la.launched
       /\ la.live.tunnel_stage.n = 1 => la.c.confirmed
  /\ la.at \in {"plan", "app"} /\ la.label # 0 => la.c.scan = PresetApply(la.c.scan, la.label)
  /\ On("app") /\ ~la.dirty => la.c.scan = la.base
  /\ On("refused") /\ la.menu => Leftover(la.c)

\* The command line of README.md:418 starts a headless scan: main does not refuse its
\* options, of which parse_args took each one, when the link in the file is a good one.
LinkFileWorks ==
  On("refused") =>
    la.c # [NoConfig EXCEPT !.mode = "cf", !.headless = TRUE, !.file = "good", !.xray = TRUE,
              !.confirmed = TRUE, !.scan = Option([Defaults EXCEPT !.scope.n = 1,
                !.tunnel_concurrency.n = 2, !.tunnel_attempts.n = 2], "tunnel_target", 5)]

(* For model checking: the plan editor is not reached.                     *)
Lines == <<"preset", "review">>

\* The options of the command of README.md:418, in any order.
FileArgs == {<<"cf", 0>>, <<"headless", 0>>, <<"tunnel_target", 5>>, <<"tunnel_concurrency", 2>>,
             <<"tunnel_attempts", 2>>, <<"file", "good">>, <<"xray", 0>>, <<"confirmed", 0>>,
             <<"json", 0>>}
=============================================================================
