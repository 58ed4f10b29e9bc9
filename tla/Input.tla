------------------------------- MODULE Input --------------------------------
(***************************************************************************)
(* The terminal decoder (ui/input.c): bytes typed at a terminal become     *)
(* keys, whatever pieces they arrive in.  A lone Escape and the start of   *)
(* an escape sequence are told apart only by 30 ms of silence, so what     *)
(* the environment chooses is how reads cut the bytes and when that time   *)
(* is over.  The ring is the sequence of bytes it holds.                   *)
(***************************************************************************)
EXTENDS Integers, SequencesExt

CONSTANTS Tokens,        \* what a user may type: its bytes, and the keys it means
          MaxTyped,      \* bound: tokens typed in a behaviour
          Unread,        \* bound: typed while this many bytes are unread
          RingCap,       \* QN_INPUT_RING_CAP
          SeqCap         \* QN_INPUT_SEQ_CAP

VARIABLE ti

ESC == 27
BadChar == 65533
PasteEnd == <<27, 91, 50, 48, 49, 126>>

NoKey == [kind |-> "none", ch |-> 0, ctrl |-> FALSE, paste |-> FALSE]
Key(kind) == [NoKey EXCEPT !.kind = kind]
Char(ch, paste) == [NoKey EXCEPT !.kind = "char", !.ch = ch, !.paste = paste]

NewInput == [state |-> "ground", ring |-> <<>>, seq |-> <<>>, value |-> 0, min |-> 0, need |-> 0,
             utfpaste |-> FALSE, key |-> NoKey]

Pop(i, n) == [i EXCEPT !.ring = SubSeq(@, n + 1, Len(@))]
Out(i, state, key) == [i EXCEPT !.state = state, !.key = key]
Home(paste) == IF paste THEN "paste" ELSE "ground"

\* emit_ascii
Ascii(b, paste) ==
  CASE b \in {13, 10} -> [Key("enter") EXCEPT !.paste = paste]
    [] b = 9          -> [Key("tab") EXCEPT !.paste = paste]
    [] b \in {127, 8} -> [Key("backspace") EXCEPT !.paste = paste]
    [] b < 32 /\ paste -> Char(BadChar, TRUE)
    [] b < 32         -> [Char(b + 96, FALSE) EXCEPT !.ctrl = TRUE]
    [] OTHER          -> Char(b, paste)

BeginUtf8(i, b, paste) ==
  LET go(value, min, need) == [i EXCEPT !.value = value, !.min = min, !.need = need,
                                        !.utfpaste = paste, !.state = "utf8"]
  IN CASE b \in 194..223 -> go(b - 192, 128, 1)
       [] b \in 224..239 -> go(b - 224, 2048, 2)
       [] b \in 240..244 -> go(b - 240, 65536, 3)
       [] OTHER -> [i EXCEPT !.key = Char(BadChar, paste)]

FinishUtf8(i) ==
  LET bad == i.value < i.min \/ i.value > 1114111 \/ i.value \in 55296..57343
  IN Out([i EXCEPT !.need = 0], Home(i.utfpaste), Char(IF bad THEN BadChar ELSE i.value, i.utfpaste))

Utf8(i) ==
  IF i.ring[1] \notin 128..191 THEN FinishUtf8([i EXCEPT !.value = BadChar])
  ELSE LET k == [Pop(i, 1) EXCEPT !.value = 64 * @ + i.ring[1] - 128, !.need = @ - 1]
       IN IF k.need = 0 THEN FinishUtf8(k) ELSE k

\* csi_first_param: the digits before the first ';', or nothing readable.
FirstParam(seq) ==
  LET upto == SelectInSeq(seq, LAMBDA b : b = 59)
      ds == SubSeq(seq, 1, IF upto = 0 THEN Len(seq) - 1 ELSE upto - 1)
  IN IF \E d \in ToSet(ds) : d \notin 48..57 THEN -1
     ELSE FoldLeft(LAMBDA n, d : 10 * n + d - 48, 0, ds)

Arrow(b) ==
  CASE b = 65 -> "up" [] b = 66 -> "down" [] b = 67 -> "right" [] b = 68 -> "left"
    [] b = 72 -> "home" [] b = 70 -> "end" [] OTHER -> "none"

Tilde(n) ==
  CASE n \in {1, 7} -> "home" [] n = 3 -> "delete" [] n \in {4, 8} -> "end"
    [] n = 5 -> "pgup" [] n = 6 -> "pgdn" [] OTHER -> "none"

\* A complete CSI that names no key is dropped; 200~ opens a paste.
DecodeCsi(i) ==
  LET final == Last(i.seq)
      n == FirstParam(i.seq)
      kind == IF n < 0 THEN "none" ELSE IF final = 126 THEN Tilde(n) ELSE Arrow(final)
  IN Out([i EXCEPT !.seq = <<>>], IF final = 126 /\ n = 200 THEN "paste" ELSE "ground", Key(kind))

Sequence(i) ==
  LET b == i.ring[1]
      k == [Pop(i, 1) EXCEPT !.seq = Append(@, b)]
  IN CASE Len(i.seq) >= SeqCap -> Out(Pop(i, 1), "ground", Char(BadChar, FALSE))
       [] i.state = "ss3"  -> Out(k, "ground", IF b = 80 THEN Key("f1") ELSE IF Arrow(b) = "none"
                                               THEN Char(BadChar, FALSE) ELSE Key(Arrow(b)))
       [] b \in 64..126    -> DecodeCsi(k)
       [] b \in 32..63     -> k
       [] OTHER            -> Out([k EXCEPT !.seq = <<>>], "ground", Char(BadChar, FALSE))

\* A prefix of the end mark is taken for text.
PasteEager(i) ==
  LET b == i.ring[1]
  IN CASE IsPrefix(PasteEnd, i.ring) -> [Pop(i, 6) EXCEPT !.state = "ground"]
       [] b < 128 -> Out(Pop(i, 1), "paste", Ascii(IF b = ESC THEN 0 ELSE b, TRUE))
       [] OTHER   -> BeginUtf8(Pop(i, 1), b, TRUE)

\* Inside a paste only the end mark is special; a prefix of it waits for more.
Paste(i) ==
  LET b == i.ring[1]
  IN CASE IsPrefix(PasteEnd, i.ring) -> [Pop(i, 6) EXCEPT !.state = "ground"]
       [] IsPrefix(i.ring, PasteEnd) -> i
       [] b < 128 -> Out(Pop(i, 1), "paste", Ascii(IF b = ESC THEN 0 ELSE b, TRUE))
       [] OTHER   -> BeginUtf8(Pop(i, 1), b, TRUE)

Escape(i, late) ==
  CASE i.ring = <<>> -> IF late THEN Out(i, "ground", Key("esc")) ELSE i
    [] i.ring[1] = 91 -> [Pop(i, 1) EXCEPT !.state = "csi", !.seq = <<>>]
    [] i.ring[1] = 79 -> [Pop(i, 1) EXCEPT !.state = "ss3", !.seq = <<>>]
    [] OTHER -> Out(i, "ground", Key("esc"))

Ground(i) ==
  LET b == i.ring[1]
  IN CASE b = ESC -> [Pop(i, 1) EXCEPT !.state = "esc"]
       [] b < 128 -> Out(Pop(i, 1), "ground", Ascii(b, FALSE))
       [] OTHER   -> BeginUtf8(Pop(i, 1), b, FALSE)

\* One turn of qn_input_next's loop; it waits when the turn changes nothing.  An
\* Escape taken in this call is not yet late.
Turn(i, late) ==
  CASE i.state = "esc" -> Escape(i, late)
    [] i.ring = <<>>   -> i
    [] i.state = "utf8" -> Utf8(i)
    [] i.state \in {"csi", "ss3"} -> Sequence(i)
    [] i.state = "paste" -> Paste(i)
    [] OTHER -> Ground(i)

RECURSIVE NextKey(_, _)
NextKey(i, late) ==
  LET k == Turn(i, late) IN IF k.key.kind # "none" \/ k = i THEN k ELSE NextKey(k, FALSE)

Free(i) == RingCap - Len(i.ring)

Init == ti = [i |-> NewInput, wire |-> <<>>, owed |-> <<>>, typed |-> 0,
              raced |-> FALSE, fits |-> TRUE]

\* A key came out: it is the one the user's keys had next.
Settle(i, wire, raced) ==
  [ti EXCEPT !.i = [i EXCEPT !.key = NoKey], !.wire = wire,
             !.fits = @ /\ (i.key = NoKey \/ (ti.owed # <<>> /\ Head(ti.owed) = i.key)),
             !.owed = IF i.key = NoKey \/ @ = <<>> THEN @ ELSE Tail(@),
             !.raced = @ \/ raced]

\* Silence ended an escape sequence whose rest was still to be read.
Cuts(i, before, wire) == i.key.kind = "esc" /\ before.ring = <<>> /\ wire # <<>> /\ wire[1] \in {91, 79}

(***************************************************************************)
(* qn_input_poll: what the ring holds, and if that makes no key, one read  *)
(* and what it makes.  Time passes between the two looks.                  *)
(***************************************************************************)
PollRing(i, late) == Settle(i, ti.wire, late /\ Cuts(i, ti.i, ti.wire))

PollRead(i, n, late) ==
  LET fed == [i EXCEPT !.ring = @ \o SubSeq(ti.wire, 1, n)]
      rest == SubSeq(ti.wire, n + 1, Len(ti.wire))
      k == NextKey(fed, late)
  IN Settle(k, rest, late /\ Cuts(k, fed, rest))

Poll ==
  \/ \E late \in BOOLEAN : \E i \in {NextKey(ti.i, late)} :
       i.key # NoKey /\ ti' = PollRing(i, late)
  \/ \E i \in {NextKey(ti.i, FALSE)}, n \in 0..Len(ti.wire), late \in BOOLEAN :
       i.key = NoKey /\ n <= Free(i) /\ Free(i) > 0 /\ ti' = PollRead(i, n, late)

\* A token that an Escape just before it would swallow is typed once that one is over.
Swallowed(t) == t.bytes[1] \in {91, 79} /\ (ti.i.state = "esc" \/ (ti.wire # <<>> /\ Last(ti.wire) = ESC)
                                            \/ (ti.i.ring # <<>> /\ Last(ti.i.ring) = ESC))

Type ==
  /\ ti.typed < MaxTyped /\ Len(ti.wire) < Unread
  /\ \E t \in Tokens :
       /\ ~Swallowed(t)
       /\ ti' = [ti EXCEPT !.wire = @ \o t.bytes, !.owed = @ \o t.keys, !.typed = @ + 1]

Next == Poll \/ Type

TypeOK ==
  /\ ti.i.state \in {"ground", "esc", "csi", "ss3", "utf8", "paste"}
  /\ Len(ti.i.ring) <= RingCap /\ Len(ti.i.seq) <= SeqCap /\ ti.i.need \in 0..3

(***************************************************************************)
(* Unless silence cut an escape sequence in two, the keys that come out    *)
(* are the keys typed, in order and none twice, however the reads cut the  *)
(* bytes: sequences, characters of several bytes and pastes are whole, no  *)
(* byte of a paste acts as a key, and when nothing is left to read nothing *)
(* is owed but an Escape still waiting for its 30 ms.  The decoder never   *)
(* waits for more bytes with a ring that can take none.                    *)
(***************************************************************************)
KeysAreTyped ==
  /\ TypeOK
  /\ ~ti.raced => ti.fits
  /\ ~ti.raced /\ ti.wire = <<>> /\ ti.i.ring = <<>> =>
       ti.owed = (IF ti.i.state = "esc" THEN <<Key("esc")>> ELSE <<>>)
  /\ \A i \in {NextKey(ti.i, FALSE)} : i.key = NoKey => Free(i) > 0
=============================================================================
