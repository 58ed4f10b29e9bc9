------------------------------ MODULE CertScan ------------------------------
(***************************************************************************)
(* The streaming checks of Certificate framing (net/certscan.h): one       *)
(* cursor for TLS 1.2, one for TLS 1.3.  A message is never held whole;    *)
(* each byte moves a cursor, and the verdict at the end must be the one    *)
(* a parser of the whole message would give.  A push of n bytes is n of    *)
(* the pushes here: the loop keeps nothing outside the structure.          *)
(***************************************************************************)
EXTENDS Integers, SequencesExt

CONSTANTS MaxTotal,      \* the largest message the client accepts
          Filler         \* bytes of a certificate or an extension block

VARIABLE cs

NewScan(total, v13) ==
  [total |-> total, seen |-> 0, list |-> 0, entry |-> 0, ext |-> 0, count |-> 0, acc |-> <<>>,
   state |-> IF total < (IF v13 THEN 10 ELSE 3) \/ total > MaxTotal THEN "failed"
             ELSE IF v13 THEN "context" ELSE "list"]

Number(bytes) == FoldLeft(LAMBDA n, b : 256 * n + b, 0, bytes)

Failed(c) == [c EXCEPT !.state = "failed"]
Entered(c, state) == [c EXCEPT !.acc = <<>>, !.state = state]
Counted(c) == [c EXCEPT !.count = @ + 1, !.state = IF c.list > 0 THEN "entry" ELSE "done"]

\* A list length that leaves `frame` bytes of the message around it.
ListLength(c, frame) ==
  LET n == Number(c.acc)
  IN IF n = 0 \/ n + frame # c.total THEN Failed(c) ELSE [Entered(c, "entry") EXCEPT !.list = n]

Entry12(c) ==
  LET n == Number(c.acc)
  IN IF c.list < 3 \/ n = 0 \/ n > c.list - 3 THEN Failed(c)
     ELSE [Entered(c, "body") EXCEPT !.list = @ - (3 + n), !.entry = n]

Push12(c, b) ==
  LET k == [c EXCEPT !.acc = Append(@, b)]
  IN CASE c.state = "list"  -> IF Len(k.acc) < 3 THEN k ELSE ListLength(k, 3)
       [] c.state = "entry" -> IF Len(k.acc) < 3 THEN k ELSE Entry12(k)
       [] c.state = "body"  -> IF c.entry > 1 THEN [c EXCEPT !.entry = @ - 1]
                               ELSE Counted([c EXCEPT !.entry = 0])
       [] OTHER -> Failed(c)

\* Two bytes of extension length follow the certificate, within the list.
Entry13(c) ==
  LET n == Number(c.acc)
  IN IF c.list < 5 \/ n = 0 \/ n > c.list - 5 THEN Failed(c)
     ELSE [Entered(c, "body") EXCEPT !.list = @ - 3, !.entry = n]

\* An empty extension block is waited for like any other.
Extensions13Awaited(c) ==
  LET n == Number(c.acc)
  IN IF n > c.list THEN Failed(c) ELSE [Entered(c, "exts") EXCEPT !.ext = n]

Extensions13(c) ==
  LET n == Number(c.acc)
  IN IF n > c.list THEN Failed(c)
     ELSE IF n = 0 THEN Counted([c EXCEPT !.acc = <<>>]) ELSE [Entered(c, "exts") EXCEPT !.ext = n]

Push13(c, b) ==
  LET k == [c EXCEPT !.acc = Append(@, b)]
      less == [c EXCEPT !.list = @ - 1]
      lessk == [k EXCEPT !.list = @ - 1]
  IN CASE c.state = "context" -> IF b # 0 THEN Failed(c) ELSE [c EXCEPT !.state = "list"]
       [] c.state = "list"    -> IF Len(k.acc) < 3 THEN k ELSE ListLength(k, 4)
       [] c.state = "entry"   -> IF Len(k.acc) < 3 THEN k ELSE Entry13(k)
       [] c.state = "body"    -> IF c.entry > 1 THEN [less EXCEPT !.entry = @ - 1]
                                 ELSE [less EXCEPT !.entry = 0, !.state = "extlen"]
       [] c.state = "extlen"  -> IF c.list = 0 THEN Failed(c)
                                 ELSE IF Len(k.acc) < 2 THEN lessk ELSE Extensions13(lessk)
       [] c.state = "exts"    -> IF c.ext > 1 THEN [less EXCEPT !.ext = @ - 1]
                                 ELSE Counted([less EXCEPT !.ext = 0])
       [] OTHER -> Failed(c)

Push(c, v13, b) ==
  IF c.seen = c.total \/ (v13 /\ c.state = "done") THEN Failed(c)
  ELSE LET k == [c EXCEPT !.seen = @ + 1] IN IF v13 THEN Push13(k, b) ELSE Push12(k, b)

ScanDone(c) == c.state = "done" /\ c.seen = c.total /\ c.count > 0

(***************************************************************************)
(* The reference: every message of a non-empty chain, with -1 for a byte   *)
(* whose value does not matter.  A chain is a sequence of lengths, of a    *)
(* certificate and (in TLS 1.3) of its extensions.                         *)
(***************************************************************************)
AnyOf(n) == [i \in 1..n |-> -1]
Wide(n) == <<0, 0, n>>
EntryOf(e, v13) == Wide(e.cert) \o AnyOf(e.cert) \o (IF v13 THEN <<0, e.ext>> \o AnyOf(e.ext) ELSE <<>>)
Message(chain, v13) ==
  LET list == FlattenSeq([i \in 1..Len(chain) |-> EntryOf(chain[i], v13)])
  IN (IF v13 THEN <<0>> ELSE <<>>) \o Wide(Len(list)) \o list


\* In a chain of n no certificate is longer than the frames and n - 1 others leave room for.
Entries(v13, n) ==
  LET most == MaxTotal - (n - 1) - (IF v13 THEN 4 + 5 * n ELSE 3 + 3 * n)
  IN [cert : 1..most, ext : IF v13 THEN 0..most ELSE {0}]
Chains(v13) == UNION {[1..n -> Entries(v13, n)] : n \in 1..(IF v13 THEN 2 ELSE 3)}
Messages(v13) == {Message(ch, v13) : ch \in Chains(v13)}

Init ==
  \E v13 \in BOOLEAN :
    LET all == Messages(v13) IN
    \E total \in 0..(MaxTotal + 1) :
      cs = [c |-> NewScan(total, v13), v13 |-> v13, sent |-> 0,
            may |-> {m \in all : Len(m) = total /\ total <= MaxTotal}]

\* The high bytes of a length are 0 or 1, its last byte any; elsewhere the fillers
\* stand for all.
LastByte == Len(cs.c.acc) = (IF cs.c.state = "extlen" THEN 1 ELSE 2)
Alphabet == IF cs.c.state \in {"list", "entry", "extlen"} /\ LastByte THEN 0..MaxTotal ELSE Filler

\* The peer may send one byte more than the message header announced.
NextByte ==
  /\ cs.c.state # "failed" /\ cs.sent <= cs.c.total
  /\ \E b \in Alphabet :
       cs' = [cs EXCEPT !.c = Push(cs.c, cs.v13, b), !.sent = @ + 1,
                        !.may = {m \in @ : cs.sent < Len(m) /\ m[cs.sent + 1] \in {-1, b}}]

Done == (cs.c.state = "failed" \/ cs.sent > cs.c.total) /\ UNCHANGED cs

Next == NextByte \/ Done

(***************************************************************************)
(* The cursor accepts exactly the messages whose every length agrees: it   *)
(* is done when, and only when, the bytes pushed are a whole chain, and it *)
(* fails only when none of the announced size can follow.                  *)
(***************************************************************************)
FramingIsExact ==
  /\ ScanDone(cs.c) <=> \E m \in cs.may : cs.sent = Len(m)
  /\ cs.c.state = "failed" => cs.may = {}
=============================================================================
