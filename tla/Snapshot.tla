------------------------------ MODULE Snapshot ------------------------------
(***************************************************************************)
(* Loading a range file that others may be editing                         *)
(* (qn_cidr_set_load_snapshot, src/core/cidr.c): the file is read through  *)
(* one descriptor, and its metadata is compared before and after, through  *)
(* the descriptor and through the path.  The scan runs over what was read  *)
(* and its report carries the digest of it, so it has to be one version of *)
(* the file.                                                               *)
(*                                                                         *)
(* A file is a sequence of lines and the time it was last changed; time    *)
(* passes in the ticks of the kernel's clock, so that two changes may have *)
(* the same time.  A path leads to a file, to something that is not a      *)
(* regular file (Other) or nowhere (0).                                    *)
(***************************************************************************)
EXTENDS Integers, Sequences, TLC

CONSTANTS Lines,      \* "v4" a prefix of the family asked for, "bad", "note"
          FileMax,    \* QN_CIDR_FILE_MAX, in lines
          MaxEdits, MaxTicks

VARIABLE sn

Other == -1
Texts == UNION {[1..n -> Lines] : n \in 0..FileMax}
File(text, t) == [text |-> text, time |-> t]
Meta(ino) == [ino |-> ino, size |-> Len(sn.files[ino].text), time |-> sn.files[ino].time]
NoMeta == [ino |-> 0, size |-> 0, time |-> 0]

\* was: history, the text when the descriptor was first looked at.  raced:
\* history, the file changed again within the tick its metadata shows.
Reader == [pc |-> "open", before |-> NoMeta, buf |-> <<>>, status |-> "none", ok |-> FALSE,
           was |-> <<>>, raced |-> FALSE]

Init == \E text \in Texts :
  \E path \in {1, Other} :
    sn = Reader @@ [files |-> <<File(text, 0)>>, path |-> path, clock |-> 0, edits |-> 0]

Ends(status) ==
  sn' = [sn EXCEPT !.pc = "over", !.status = status, !.buf = <<>>, !.was = <<>>,
                   !.before = NoMeta]

(***************************************************************************)
(* The loader.                                                             *)
(***************************************************************************)
Open ==
  /\ sn.pc = "open"
  /\ \/ sn.path = 0 /\ Ends("OPEN_FAILED")
     \/ sn.path = Other /\ Ends("NOT_REGULAR")
     \/ /\ sn.path \notin {0, Other}
        /\ IF Meta(sn.path).size > FileMax THEN Ends("TOO_LARGE")
           ELSE sn' = [sn EXCEPT !.pc = "read", !.before = Meta(sn.path),
                                 !.was = sn.files[sn.path].text]

Text == sn.files[sn.before.ino].text

\* read returns what there is, in as many pieces as it likes; nothing is an early end.
Read ==
  /\ sn.pc = "read" /\ Len(sn.buf) < sn.before.size
  /\ \/ /\ Len(Text) <= Len(sn.buf) /\ Ends("SHORT_READ")
     \/ \E n \in (Len(sn.buf) + 1)..sn.before.size :
          /\ n <= Len(Text)
          /\ sn' = [sn EXCEPT !.buf = @ \o SubSeq(Text, Len(@) + 1, n)]

ReadExtra ==
  /\ sn.pc = "read" /\ Len(sn.buf) = sn.before.size
  /\ IF Len(Text) > sn.before.size THEN Ends("GREW")
     ELSE sn' = [sn EXCEPT !.pc = "fstat"]

\* Mutant: the times are not compared.
SameSnapshotSize(a, b) == a.ino = b.ino /\ a.size = b.size

SameSnapshotMetadata(a, b) == a = b

FinalFstat ==
  /\ sn.pc = "fstat"
  /\ IF ~SameSnapshotMetadata(sn.before, Meta(sn.before.ino)) THEN Ends("METADATA_CHANGED")
     ELSE sn' = [sn EXCEPT !.pc = "stat"]

PathStat ==
  /\ sn.pc = "stat"
  /\ IF sn.path # sn.before.ino THEN Ends("REPLACED")
     ELSE IF ~SameSnapshotMetadata(sn.before, Meta(sn.path)) THEN Ends("METADATA_CHANGED")
     ELSE sn' = [sn EXCEPT !.pc = "parse"]

\* Each line is accepted or rejected; comments count as none.  The set is made for as many
\* prefixes as a first pass finds lines, so that it is never full.
Accepted(buf) == {i \in DOMAIN buf : buf[i] = "v4"}
Refused(buf) == {i \in DOMAIN buf : buf[i] # "note"} \ Accepted(buf)

Parse ==
  /\ sn.pc = "parse"
  /\ \E memory \in BOOLEAN :
       sn' = [sn EXCEPT !.pc = "over", !.status = "OK",
                        !.ok = memory /\ Accepted(sn.buf) # {} /\ Refused(sn.buf) = {}]

IoFailed == sn.pc \in {"open", "read", "fstat", "stat"} /\ Ends("IO_FAILED")

(***************************************************************************)
(* Everybody else.                                                         *)
(***************************************************************************)
Edited(ino, text) ==
  sn' = [sn EXCEPT !.files[ino] = File(text, sn.clock), !.edits = @ + 1,
                   !.raced = @ \/ (sn.before.ino = ino /\ sn.before.time = sn.clock)]

\* A change in place: another line, a line more, a line less, of any file still open.
Edit ==
  /\ sn.edits < MaxEdits /\ sn.pc # "over"
  /\ \E ino \in {sn.path, sn.before.ino} \ {0, Other} : LET text == sn.files[ino].text IN
       \/ \E i \in DOMAIN text, l \in Lines : Edited(ino, [text EXCEPT ![i] = l])
       \/ \E l \in Lines : Edited(ino, Append(text, l))
       \/ text # <<>> /\ Edited(ino, SubSeq(text, 1, Len(text) - 1))

\* A new file, or something else, takes the name, or the name goes.
Replace ==
  /\ sn.edits < MaxEdits /\ sn.pc # "over"
  /\ \/ \E l \in Lines :
          sn' = [sn EXCEPT !.files = Append(@, File(<<l>>, sn.clock)),
                           !.path = Len(sn.files) + 1, !.edits = @ + 1]
     \/ \E no \in {0, Other} : sn' = [sn EXCEPT !.path = no, !.edits = @ + 1]

Tick ==
  /\ sn.clock < MaxTicks /\ sn.pc # "over"
  /\ sn' = [sn EXCEPT !.clock = @ + 1]

Done == sn.pc = "over" /\ UNCHANGED sn

Next ==
  \/ Open \/ Read \/ ReadExtra \/ FinalFstat \/ PathStat \/ Parse \/ IoFailed
  \/ Edit \/ Replace \/ Tick \/ Done

(***************************************************************************)
(* Properties.                                                             *)
(***************************************************************************)
(* What a load reports as OK is the text the path led to when it was       *)
(* opened, whole, however the file was edited or replaced meanwhile;       *)
(* except where the file changed in the same tick of the clock as the      *)
(* change before it, which no metadata shows.                              *)
SnapshotIsOneVersion == sn.status = "OK" /\ ~sn.raced => sn.buf = sn.was

=============================================================================
