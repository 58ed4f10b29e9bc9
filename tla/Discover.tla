------------------------------ MODULE Discover ------------------------------
(***************************************************************************)
(* Host discovery, src/task/task_discover.c: echo requests are sent in     *)
(* batches, replies are matched to the probe they answer, and a TCP sweep  *)
(* asks the hosts that stayed silent.  The network may lose, duplicate,    *)
(* delay and reorder replies, and deliver datagrams that answer nothing.   *)
(***************************************************************************)
EXTENDS Integers, Sequences, FiniteSets, SequencesExt, FiniteSetsExt

CONSTANTS NHosts,        \* host_count; the offsets are 1..NHosts
          NPorts,        \* qn_discover_ports
          Batch,         \* ICMP_BATCH, 64 in the code
          Stalls,        \* send attempts that may find no room, 4 in the code
          Copies,        \* bound: how often the network delivers one reply
          Junk,          \* bound: datagrams that answer nothing
          Methods        \* subset of {"auto", "tcp", "icmp", "both"}

VARIABLE hd

Hosts == 1..NHosts

\* host_discover_init.  canCancel says whether the caller gave a cancel flag.
Init ==
  \E m \in Methods, c \in BOOLEAN :
    hd = [method |-> m, canCancel |-> c, cancel |-> FALSE,
          at |-> IF m = "tcp" THEN "tcp_next" ELSE "icmp", back |-> "none",
          base |-> 0, sentTotal |-> 0, stalls |-> 0, sent |-> {}, asked |-> {},
          copies |-> [h \in Hosts |-> 0], junk |-> 0,
          ok |-> FALSE, outcome |-> "FAILED", attempted |-> 0, replied |-> 0, found |-> 0,
          unsent |-> 0, rejected |-> 0, probed |-> 0,
          total |-> NHosts * NPorts + (IF m = "tcp" THEN 0 ELSE NHosts),
          host |-> << >>, tcp |-> << >>, todo |-> {}, tcpDone |-> 0, silent |-> {}]

Seen(s) == {s.host[i].off : i \in DOMAIN s.host}

\* note_host: a known host keeps its place and its first hint.
NoteHost(s, off, port) ==
  IF off \in Seen(s)
  THEN [s EXCEPT !.host = [i \in DOMAIN @ |-> IF @[i].off = off /\ port # 0 /\ @[i].hint = 0
                                               THEN [@[i] EXCEPT !.hint = port] ELSE @[i]]]
  ELSE [s EXCEPT !.host = Append(@, [off |-> off, hint |-> port])]

-----------------------------------------------------------------------------
(* host_discover_icmp.                                                     *)

\* The code at done, but for the close.
Leave(s, outcome) == [s EXCEPT !.outcome = outcome, !.at = "close"]

IcmpStart ==
  LET s == [hd EXCEPT !.ok = FALSE, !.outcome = "FAILED", !.attempted = 0, !.replied = 0,
                      !.found = 0, !.unsent = NHosts, !.rejected = 0, !.sent = {}] IN
  /\ hd.at = "icmp"
  /\ \/ hd.cancel /\ hd' = Leave(s, "CANCELLED")
     \/ ~hd.cancel /\ hd' = Leave(s, "FAILED")                  \* no socket
     \/ ~hd.cancel /\ hd' = [s EXCEPT !.ok = TRUE, !.at = "batch", !.base = 0]

BatchSize == Min({Batch, NHosts - hd.base})

NextBatch ==
  /\ hd.at = "batch" /\ hd.base < NHosts
  /\ hd' = IF hd.cancel THEN Leave(hd, "CANCELLED")
           ELSE [hd EXCEPT !.at = "send", !.sentTotal = 0, !.stalls = 0]

\* The send loop ends, whole or stalled: what has arrived is read, then the next batch.
BatchOver(s) == [s EXCEPT !.at = "drain", !.back = "batch", !.base = @ + Batch]

\* The offsets of the first n requests that were still to be sent.
SentOffsets(n) == (hd.base + hd.sentTotal + 1)..(hd.base + hd.sentTotal + n)

Send ==
  /\ hd.at = "send" /\ hd.sentTotal < BatchSize
  /\ \/ hd.cancel /\ hd' = Leave(hd, "CANCELLED")
     \/ /\ ~hd.cancel
        /\ \E n \in 1..(BatchSize - hd.sentTotal) :
             hd' = [hd EXCEPT !.sent = @ \cup SentOffsets(n), !.asked = @ \cup SentOffsets(n),
                              !.sentTotal = @ + n, !.probed = @ + n, !.attempted = @ + n,
                              !.stalls = 0, !.at = "drain", !.back = "send"]

\* sendmmsg finds no room: wait a moment, read what came, try again.
SendStalls ==
  /\ hd.at = "send" /\ hd.sentTotal < BatchSize /\ ~hd.cancel
  /\ \/ hd.stalls < Stalls /\ hd' = [hd EXCEPT !.stalls = @ + 1]
     \/ hd.stalls < Stalls /\ hd' = [hd EXCEPT !.stalls = @ + 1, !.at = "drain", !.back = "send"]
     \/ hd.stalls = Stalls /\ hd' = BatchOver(hd)
     \/ hd' = Leave(hd, "FAILED")                               \* another errno, or poll

SendOver == hd.at = "send" /\ hd.sentTotal = BatchSize /\ hd' = BatchOver(hd)

BatchesOver == hd.at = "batch" /\ hd.base >= NHosts /\ hd' = [hd EXCEPT !.at = "wait"]

\* Mutant: an answered probe stays outstanding.
ConsumedNot(s, off) == s
\* accept_reply consumes the probe, so that a copy of the reply answers nothing.
Consumed(s, off) == [s EXCEPT !.sent = @ \ {off}]

\* drain_icmp_replies, one datagram: a reply to a request that was sent, maybe a copy.
RecvReply(off) ==
  LET s == [hd EXCEPT !.copies[off] = @ + 1] IN
  /\ hd.at = "drain" /\ off \in hd.asked /\ hd.copies[off] < Copies
  /\ hd' = IF off \notin hd.sent THEN [s EXCEPT !.rejected = @ + 1]
           ELSE [NoteHost(Consumed([s EXCEPT !.replied = @ + 1], off), off, 0)
                   EXCEPT !.found = @ + (IF off \in Seen(hd) THEN 0 ELSE 1)]

\* Another length, type, checksum, nonce, or an address that was not asked.
RecvJunk ==
  /\ hd.at = "drain" /\ hd.junk < Junk
  /\ hd' = [hd EXCEPT !.junk = @ + 1, !.rejected = @ + 1]

DrainEnds == hd.at = "drain" /\ hd' = [hd EXCEPT !.at = hd.back]
DrainFails == hd.at = "drain" /\ hd' = Leave(hd, "FAILED")

\* The last wait: it ends at the deadline, at the first silence, or on a cancel.
Wait ==
  /\ hd.at = "wait"
  /\ \/ hd.cancel /\ hd' = Leave(hd, "CANCELLED")
     \/ ~hd.cancel /\ hd' = [hd EXCEPT !.at = "drain", !.back = "wait"]
     \/ ~hd.cancel /\ hd' = Leave(hd, IF hd.attempted = NHosts THEN "SUCCESS" ELSE "INCOMPLETE")
     \/ ~hd.cancel /\ hd' = Leave(hd, "FAILED")                 \* poll fails

\* done: what the caller reads, and every outstanding probe (and every local) is forgotten.
IcmpDone ==
  /\ hd.at = "close"
  /\ \E closed \in BOOLEAN :
       LET o == IF ~closed /\ hd.ok /\ hd.outcome \notin {"FAILED", "CANCELLED"} THEN "FAILED"
                ELSE hd.outcome IN
       hd' = [hd EXCEPT !.unsent = NHosts - hd.attempted, !.sent = {}, !.outcome = o,
                        !.back = "none", !.base = 0, !.sentTotal = 0, !.stalls = 0, !.junk = 0,
                        !.copies = [h \in Hosts |-> 0], !.cancel = FALSE,
                        !.at = IF o = "CANCELLED" \/ hd.method = "icmp" THEN "finish"
                               ELSE "tcp_next"]

Cancel ==
  /\ hd.canCancel /\ ~hd.cancel /\ hd.at \in {"icmp", "batch", "send", "drain", "wait", "close"}
  /\ hd' = [hd EXCEPT !.cancel = TRUE]

-----------------------------------------------------------------------------
(* The TCP sweep.                                                          *)

\* host_discover_next_phase: the hosts that are asked.
Unresolved == IF hd.method = "auto" /\ hd.ok THEN Hosts \ Seen(hd) ELSE Hosts

TcpPhase ==
  LET tcp == SetToSortSeq(Unresolved, <) IN
  /\ hd.at = "tcp_next"
  /\ hd' = IF tcp = << >> THEN [hd EXCEPT !.at = "finish"]
           ELSE [hd EXCEPT !.tcp = tcp, !.total = hd.attempted + Len(tcp) * NPorts,
                           !.todo = 0..(Len(tcp) * NPorts - 1), !.at = "tcp",
                           !.silent = Hosts \ Seen(hd)]

\* hd_next_tcp: job idx is a port of a host.
JobOf(idx) == << hd.tcp[1 + (idx % Len(hd.tcp))], 1 + (idx \div Len(hd.tcp)) >>

\* hd_on_tcp: a refusal shows a live host too.  The engine gives jobs in any order.
OnTcp(idx, res) ==
  LET s == [hd EXCEPT !.probed = @ + 1, !.tcpDone = @ + 1, !.todo = @ \ {idx}]
      job == JobOf(idx) IN
  /\ hd.at = "tcp" /\ idx \in hd.todo
  /\ hd' = CASE res = "OPEN" -> NoteHost(s, job[1], job[2])
             [] res = "REFUSED" -> NoteHost(s, job[1], 0)
             [] OTHER -> s

TcpOver == hd.at = "tcp" /\ hd.todo = {} /\ hd' = [hd EXCEPT !.at = "finish"]
\* A stop, or a failed launch, leaves jobs behind.
TcpStopped == hd.at = "tcp" /\ hd.todo # {} /\ hd' = [hd EXCEPT !.at = "finish"]

\* host_discover_finish
Finish ==
  /\ hd.at = "finish"
  /\ hd' = [hd EXCEPT !.at = "done",
                      !.host = SetToSortSeq(ToSet(@), LAMBDA a, b : a.off < b.off)]

Done == hd.at = "done" /\ UNCHANGED hd

Next ==
  \/ IcmpStart \/ NextBatch \/ Send \/ SendStalls \/ SendOver \/ BatchesOver
  \/ \E off \in Hosts : RecvReply(off)
  \/ RecvJunk \/ DrainEnds \/ DrainFails \/ Wait \/ IcmpDone \/ Cancel
  \/ TcpPhase \/ \E idx \in hd.todo, res \in {"OPEN", "REFUSED", "TIMEOUT"} : OnTcp(idx, res)
  \/ TcpOver \/ TcpStopped \/ Finish \/ Done

-----------------------------------------------------------------------------
TypeOK ==
  /\ hd.sent \subseteq Hosts /\ hd.outcome \in {"SUCCESS", "INCOMPLETE", "CANCELLED", "FAILED"}
  /\ hd.at \in {"icmp", "batch", "send", "drain", "wait", "close", "tcp_next", "tcp",
                "finish", "done"}

\* Whatever the network repeats, delays or invents, a probe is answered at most
\* once: the replies that counted and the probes still open are the ones that
\* were sent, attempted and unsent make up the hosts when ICMP is over, every
\* host is listed once, found counts the hosts that only ICMP had found, and a
\* success means every host was asked.  The TCP sweep of "auto" asks every port
\* of exactly the hosts that were silent, and no more probes than the total.
DiscoverInv ==
  /\ TypeOK
  /\ Cardinality(Seen(hd)) = Len(hd.host)
  /\ hd.attempted = Cardinality(hd.asked) /\ hd.sent \subseteq hd.asked
  /\ hd.at \in {"send", "drain", "batch", "wait"} =>
       /\ hd.replied + Cardinality(hd.sent) = hd.attempted
       /\ hd.replied + hd.rejected = hd.junk + FoldFunctionOnSet(+, 0, hd.copies, Hosts)
  /\ hd.replied <= hd.attempted /\ hd.found = hd.replied
  /\ hd.at \in {"tcp_next", "tcp", "finish", "done"} /\ hd.method # "tcp" =>
       /\ hd.attempted + hd.unsent = NHosts
       /\ hd.outcome = "SUCCESS" => hd.asked = Hosts
  /\ hd.at = "tcp" =>
       /\ {JobOf(idx) : idx \in 0..(Len(hd.tcp) * NPorts - 1)}
            = (IF hd.method = "auto" /\ hd.ok THEN hd.silent ELSE Hosts) \X (1..NPorts)
       /\ hd.probed + Cardinality(hd.todo) = hd.total
=============================================================================
