----------------------------- MODULE ScanRequest -----------------------------
(***************************************************************************)
(* The request for a scan (qn_scan_request) and everything that edits it:  *)
(* the presets, the fields of the plan editor, the questions of the menu   *)
(* and the options of the command line.                                    *)
(*                                                                         *)
(* A request gives every field a number and says whether Auto or All       *)
(* stands in its place; the number stays behind the word, as it does in    *)
(* the code.  Choices are counted from zero, memory is in MiB, and a       *)
(* number that a person enters belongs to Typed.                           *)
(***************************************************************************)
EXTENDS Integers, Sequences, SequencesExt

CONSTANTS Typed,     \* numbers that may be entered
          Limit      \* UINT32_MAX

All == -1            \* the word All, where a number is expected; Auto is 0

Chosen == [scope |-> 5, selection |-> 4, rank |-> 4]            \* enumerations, with their sizes
Counted == {"coverage", "budget", "reachable", "explore", "tunnel_concurrency", "tunnel_attempts"}
OrAuto == {"candidate", "finalists", "scan", "verify", "stability", "memory"}
OrAll == {"finalists", "output", "tunnel_target"}
Editable == Counted \cup OrAuto \cup OrAll                       \* qn_scan_field_editable
Fields == DOMAIN Chosen \cup Editable \cup {"tunnel_stage"}

Cell(n, auto, all) == [n |-> n, auto |-> auto, all |-> all]

\* QN_SCAN_REQUEST_INIT.
Defaults ==
  [f \in Fields |->
     CASE f \in OrAuto -> Cell(0, TRUE, FALSE)
       [] f = "selection" -> Cell(3, FALSE, FALSE)
       [] f = "coverage" -> Cell(100000, FALSE, FALSE)
       [] f \in {"explore", "output"} -> Cell(20, FALSE, FALSE)
       [] f = "tunnel_concurrency" -> Cell(1, FALSE, FALSE)
       [] f = "tunnel_attempts" -> Cell(2, FALSE, FALSE)
       [] OTHER -> Cell(0, FALSE, FALSE)]

----------------------------------------------------------------------------
(* Presets: 0 is custom, 1 quick, 2 balanced, 3 deep, 4 full.              *)

\* What a preset sets on top of the defaults: scope, coverage, candidates, finalists, output.
PresetSets ==
  <<[scope |-> 2, coverage |-> 10000, finalists |-> 64, output |-> 20],
    [scope |-> 2, coverage |-> 100000, candidate |-> 16384, finalists |-> 256, output |-> 50],
    [scope |-> 2, coverage |-> 250000, candidate |-> 65536, finalists |-> 1024, output |-> 100],
    [scope |-> 1, output |-> 100]>>

\* qn_scan_preset_apply: custom leaves the request alone, the others replace it.
PresetApply(r, preset) ==
  IF preset = 0 THEN r
  ELSE LET s == PresetSets[preset] IN
       [f \in Fields |-> IF f \in DOMAIN s THEN Cell(s[f], FALSE, FALSE) ELSE Defaults[f]]

\* qn_scan_preset_detect: the preset the request equals, field by field.
PresetDetect(r) ==
  LET same == {q \in 1..4 : PresetApply(r, q) = r} IN
  IF same = {} THEN 0 ELSE CHOOSE q \in same : \A o \in same : q <= o

\* qn_scan_request_validate.
Valid(r) ==
  LET fixed(f) == ~r[f].auto /\ ~r[f].all
      counted(f) == fixed(f) => r[f].n \in 1..Limit IN
  /\ r.coverage.n \in 100..1000000 /\ r.explore.n <= 100
  /\ r.scope.n = 3 => r.budget.n > 0
  /\ r.scope.n = 4 => r.reachable.n > 0
  /\ counted("candidate") /\ counted("finalists") /\ counted("output")
  /\ ~(r.finalists.auto /\ r.finalists.all)
  /\ fixed("candidate") /\ fixed("finalists") => r.finalists.n <= r.candidate.n
  /\ fixed("candidate") /\ r.scope.n = 4 => r.reachable.n <= r.candidate.n
  /\ \A f \in {"memory", "scan", "verify", "stability"} : fixed(f) => r[f].n > 0
  /\ r.tunnel_stage.n = 1 =>
       /\ fixed("tunnel_target") => r.tunnel_target.n > 0
       /\ r.tunnel_concurrency.n \in 1..32 /\ r.tunnel_attempts.n \in 1..2

----------------------------------------------------------------------------
(* The plan editor.                                                        *)

\* The tables of cycle_field.
Table ==
  [coverage |-> <<100, 10000, 100000, 125000, 250000, 500000, 1000000>>,
   budget |-> <<10000, 100000, 250000, 1000000>>, reachable |-> <<256, 1024, 4096, 16384>>,
   explore |-> <<0, 10, 20, 25, 50, 100>>,
   candidate |-> <<0, 4096, 8192, 16384, 32768, 65536, 131072>>,
   finalists |-> <<0, 32, 64, 128, 256, 512, 1024, 2048, All>>,
   output |-> <<10, 20, 50, 100, 256, All>>,
   scan |-> <<0, 64, 128, 256, 512, 1024>>, verify |-> <<0, 16, 32, 64, 128, 256>>,
   stability |-> <<0, 32, 64, 128, 256, 512, 1024>>,
   tunnel_target |-> <<1, 2, 5, 10, 20, 50, All>>,
   tunnel_concurrency |-> <<1, 2, 4, 8, 16, 32>>, tunnel_attempts |-> <<1, 2>>,
   memory |-> <<0, 64, 128, 256, 512>>]

\* cycle_value: the neighbour in a table, or an end of it for a number that is not there.
CycleValue(t, v, dir) ==
  LET at == SelectInSeq(t, LAMBDA x : x = v) IN
  IF at # 0 THEN t[((at - 1 + dir) % Len(t)) + 1]
  ELSE IF dir > 0 THEN Head(t) ELSE Last(t)

\* A value of a table put into a field: Auto and All keep the number that was there.
Put(f, cell, v) ==
  LET auto == v = 0 /\ f \in OrAuto IN
  Cell(IF auto \/ v = All THEN cell.n ELSE v, auto, v = All)

\* The stage is switched; switched on it wants at least one target.
ToggleStage(r) ==
  [r EXCEPT !.tunnel_stage.n = 1 - @,
            !.tunnel_target.n = IF r.tunnel_stage.n = 0 /\ @ = 0 THEN 5 ELSE @]

\* cycle_field, for every field but the preset and the review line.
CycleField(r, f, dir) ==
  LET now == IF r[f].all THEN All ELSE IF r[f].auto THEN 0 ELSE r[f].n IN
  IF f = "tunnel_stage" THEN ToggleStage(r)
  ELSE IF f \in DOMAIN Chosen THEN [r EXCEPT ![f].n = (@ + dir) % Chosen[f]]
  ELSE [r EXCEPT ![f] = Put(f, @, CycleValue(Table[f], now, dir))]

\* commit_edit: the numbers a field takes, and the request with one of them.
Accepts(f, v) ==
  CASE f = "coverage" -> v \in 100..1000000
    [] f = "explore" -> v <= 100
    [] f = "tunnel_concurrency" -> v \in 1..32
    [] f = "tunnel_attempts" -> v \in 1..2
    [] f \in {"budget", "reachable", "memory"} -> v > 0
    [] OTHER -> v \in 1..Limit

Commit(r, f, v) ==
  [r EXCEPT ![f] = Cell(v, FALSE, FALSE),
            !.tunnel_stage.n = IF f = "tunnel_target" THEN 1 ELSE @]

----------------------------------------------------------------------------
(* The menu and the command line.                                          *)

\* The requests one question of the menu can lead to.  A blank line keeps the number on
\* offer, which for finalists and output may be one that Auto or All had hidden.
MenuEdits(r, f) ==
  LET typed == {v \in Typed : Accepts(f, v) /\ (f = "reachable" => v <= Limit)}
      hidden == IF f \in {"finalists", "output"} \/ ~r[f].auto THEN {r[f].n} \ {0} ELSE {} IN
  CASE f \in DOMAIN Chosen -> {[r EXCEPT ![f].n = v] : v \in 0..(Chosen[f] - 1)}
    [] f = "tunnel_target" ->
         {[Commit(r, f, v) EXCEPT ![f].all = (v = 0)] :
            v \in typed \cup {0, IF r[f].all THEN 0 ELSE r[f].n}}
    [] f \in {"candidate", "finalists", "output", "memory"} ->
         {[r EXCEPT ![f] = Put(f, @, v)] : v \in ToSet(Table[f])}
         \cup {Commit(r, f, v) : v \in typed \cup hidden}
    [] OTHER -> {r} \cup {Commit(r, f, v) : v \in typed}
                \cup {[r EXCEPT ![f].auto = TRUE] : v \in {f} \cap OrAuto}

\* parse_scan_option: the values an option takes, and the request it leaves.
OptionTakes(f, v) ==
  CASE f \in DOMAIN Chosen -> v \in 0..(Chosen[f] - 1)
    [] v = All -> f \in OrAll
    [] v = 0 /\ f \in OrAuto -> f \notin {"scan", "verify", "stability"}
    [] f = "scan" -> v \in 32..4096
    [] f = "verify" -> v \in 1..256
    [] f = "stability" -> v \in 1..4096
    [] OTHER -> Accepts(f, v) /\ (f = "reachable" => v <= Limit)

Option(r, f, v) ==
  LET forgets == f \in {"candidate", "memory", "tunnel_target"} IN
  [r EXCEPT ![f] = IF v = All \/ (v = 0 /\ f \in OrAuto)
                   THEN Cell(IF forgets THEN 0 ELSE @.n, v = 0, v = All) ELSE Cell(v, FALSE, FALSE),
            !.tunnel_stage.n = IF f = "tunnel_target" THEN 1 ELSE @]
=============================================================================
