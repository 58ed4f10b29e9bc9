-------------------------------- MODULE Ring --------------------------------
(* The single-producer single-consumer ring of src/core/ring.c that carries    *)
(* results from one worker thread to the owner thread.                         *)
(*                                                                             *)
(* Every load or store of a shared index is a step of its own, and the copy of  *)
(* a payload takes two steps, between which the slot holds Torn.  Indices are   *)
(* kept modulo Mod, as the uint32_t indices are kept modulo 2^32.  The release  *)
(* and acquire orders of the code make its executions sequentially consistent   *)
(* on these accesses, so interleaving the steps is enough.                      *)
EXTENDS Integers, Sequences

CONSTANTS Cap,        \* mask + 1
          Mod,        \* 2^32 in the code
          MaxBatch,   \* largest `max` the consumer asks for
          MaxPush,    \* bound: pushes per run
          MaxResets   \* bound: runs after the first

RingParameters == /\ Cap \in Nat \ {0, 1}
                  /\ Mod \in Nat /\ Mod >= 2 * Cap /\ Mod % Cap = 0
                  /\ MaxBatch \in Nat \ {0} /\ MaxPush \in Nat

Torn == 0
Items == 1..MaxPush

VARIABLES tail, tailCache,   \* producer's line
          head, headCache,   \* consumer's line
          buf, dropped,
          prod,              \* [pc, item]: the push in progress
          cons,              \* [pc, n, dst]: the pop in progress
          pushes, sent, got, \* history: attempts, results published, results handed out
          resets

vars == <<tail, tailCache, head, headCache, buf, dropped, prod, cons,
          pushes, sent, got, resets>>

Sub(a, b) == (a - b) % Mod
Add(a, n) == (a + n) % Mod
Slot(i) == i % Cap
LooksFullOffByOne(cache) == Sub(tail, cache) > Cap              \* mutant
LooksFull(cache) == Sub(tail, cache) > Cap - 1

IdleProd == [pc |-> "idle", item |-> Torn]
IdleCons == [pc |-> "idle", n |-> 0, dst |-> << >>]

\* qn_ring_init; the buffer is arena memory, its content not yet meaningful.
Init == /\ tail = 0 /\ head = 0 /\ tailCache = 0 /\ headCache = 0
        /\ buf = [s \in 0..(Cap - 1) |-> Torn]
        /\ dropped = 0 /\ pushes = 0 /\ resets = 0
        /\ sent = << >> /\ got = << >>
        /\ prod = IdleProd /\ cons = IdleCons

-----------------------------------------------------------------------------
\* Mutant: the push decides on the stale index alone.
PushCheckStale ==
  /\ prod.pc = "idle" /\ pushes < MaxPush
  /\ pushes' = pushes + 1
  /\ IF LooksFull(tailCache)
     THEN dropped' = dropped + 1 /\ tailCache' = head /\ UNCHANGED prod
     ELSE prod' = [pc |-> "copy", item |-> pushes'] /\ UNCHANGED <<dropped, tailCache>>
  /\ UNCHANGED <<tail, head, headCache, buf, cons, sent, got, resets>>

\* qn_ring_push up to the decision to drop: the consumer's index is loaded only
\* when the cached one makes the ring look full.
PushCheck ==
  /\ prod.pc = "idle" /\ pushes < MaxPush
  /\ pushes' = pushes + 1
  /\ tailCache' = IF LooksFull(tailCache) THEN head ELSE tailCache
  /\ IF LooksFull(tailCache')
     THEN dropped' = dropped + 1 /\ UNCHANGED prod
     ELSE prod' = [pc |-> "copy", item |-> pushes'] /\ UNCHANGED dropped
  /\ UNCHANGED <<tail, head, headCache, buf, cons, sent, got, resets>>

\* The memcpy of the payload into the slot: begun, then done.
PushCopy ==
  /\ prod.pc \in {"copy", "copying"}
  /\ LET done == prod.pc = "copying" IN
       /\ buf' = [buf EXCEPT ![Slot(tail)] = IF done THEN prod.item ELSE Torn]
       /\ prod' = [prod EXCEPT !.pc = IF done THEN "publish" ELSE "copying"]
  /\ UNCHANGED <<tail, tailCache, head, headCache, dropped, cons, pushes, sent, got, resets>>

\* The release store of the producer's index.
PushPublish ==
  /\ prod.pc = "publish"
  /\ tail' = Add(tail, 1)
  /\ sent' = Append(sent, prod.item)
  /\ prod' = IdleProd
  /\ UNCHANGED <<tailCache, head, headCache, buf, dropped, cons, pushes, got, resets>>

-----------------------------------------------------------------------------
\* qn_ring_pop_batch up to the count of results it will take.
PopCheck(max) ==
  /\ cons.pc = "idle"
  /\ headCache' = IF head = headCache THEN tail ELSE headCache
  /\ head # headCache'
  /\ LET avail == Sub(headCache', head) IN
       cons' = [pc |-> "copy", n |-> IF avail > max THEN max ELSE avail, dst |-> << >>]
  /\ UNCHANGED <<tail, tailCache, head, buf, dropped, prod, pushes, sent, got, resets>>

\* One memcpy out of the batch.
PopCopy ==
  /\ cons.pc = "copy" /\ Len(cons.dst) < cons.n
  /\ cons' = [cons EXCEPT !.dst = Append(@, buf[Slot(Add(head, Len(@)))])]
  /\ UNCHANGED <<tail, tailCache, head, headCache, buf, dropped, prod, pushes, sent, got, resets>>

\* The release store of the consumer's index; the caller now owns the batch.
PopPublish ==
  /\ cons.pc = "copy" /\ Len(cons.dst) = cons.n
  /\ head' = Add(head, cons.n)
  /\ got' = got \o cons.dst
  /\ cons' = IdleCons
  /\ UNCHANGED <<tail, tailCache, headCache, buf, dropped, prod, pushes, sent, resets>>

\* qn_ring_reset, between runs: the producer is joined and the consumer is the
\* caller.  What was still queued is gone, and so are the counts.
Reset ==
  /\ prod.pc = "idle" /\ cons.pc = "idle" /\ resets < MaxResets
  /\ resets' = resets + 1
  /\ tail' = 0 /\ head' = 0 /\ tailCache' = 0 /\ headCache' = 0 /\ dropped' = 0
  /\ pushes' = 0 /\ sent' = << >> /\ got' = << >>
  /\ UNCHANGED <<buf, prod, cons>>

Produce == PushCheck \/ PushCopy \/ PushPublish
Consume == (\E max \in 1..MaxBatch : PopCheck(max)) \/ PopCopy \/ PopPublish

Next == Produce \/ Consume \/ Reset

\* The owner keeps polling the ring until the run is over; a started push is
\* straight-line code of a running thread.
Spec == Init /\ [][Next]_vars /\ WF_vars(Consume) /\ WF_vars(Produce)

-----------------------------------------------------------------------------
\* The fields of qn_ring keep their types: the indices and their cached copies
\* stay inside the width at which they wrap.
TypeOK ==
  /\ {tail, head, tailCache, headCache} \subseteq 0..(Mod - 1)
  /\ buf \in [0..(Cap - 1) -> Items \cup {Torn}]
  /\ dropped \in Nat /\ pushes \in 0..MaxPush /\ resets \in Nat
  /\ prod \in [pc : {"idle", "copy", "copying", "publish"}, item : Items \cup {Torn}]
  /\ cons \in [pc : {"idle", "copy"}, n : 0..MaxBatch, dst : Seq(Items \cup {Torn})]
  /\ sent \in Seq(Items) /\ got \in Seq(Items \cup {Torn})

\* Every result the owner has copied out, including those of a batch still being
\* copied, is the next result the worker published: none is torn by a concurrent
\* push into the same slot, lost, duplicated or reordered, at any index value.
InOrderAndWhole ==
  LET out == got \o cons.dst
  IN  Len(out) <= Len(sent) /\ \A i \in 1..Len(out) : out[i] = sent[i]

\* The stale copies each side keeps of the other's index are safe: the producer's
\* never runs ahead of the consumer and the consumer's never ahead of the
\* producer, so a decision taken on a stale copy errs towards full or empty.
CachesAreConservative ==
  /\ Sub(tail, head) <= Sub(tail, tailCache)
  /\ Sub(headCache, head) <= Sub(tail, head)
  /\ Sub(tail, tailCache) <= Cap

\* The indices count what was published and handed out, modulo their width.
IndicesCount == tail = Len(sent) % Mod /\ head = Len(got) % Mod

\* The producer's copy of the consumer's index is a count c the consumer has
\* passed, with at most Cap results published since; a push under way has room.
ProducerView ==
  \E c \in 0..Len(got) : /\ tailCache = c % Mod
                         /\ Len(sent) - c <= Cap
                         /\ prod.pc # "idle" => Len(sent) - c < Cap

\* The consumer's copy of the producer's index is a count d of published results
\* not below what it has taken, and a batch under way stays within it.
ConsumerView ==
  /\ \E d \in Len(got)..Len(sent) : /\ headCache = d % Mod
                                    /\ cons.n <= d - Len(got)
  /\ Len(cons.dst) <= cons.n
  /\ cons.pc = "idle" => cons.n = 0
  /\ cons.pc = "copy" => cons.n >= 1

\* A result not yet handed out is whole in its slot, and what was copied out is
\* what was published.
Stored ==
  /\ \A i \in 1..Len(got) : got[i] = sent[i]
  /\ \A i \in 1..Len(cons.dst) : cons.dst[i] = sent[Len(got) + i]
  /\ \A i \in (Len(got) + 1)..Len(sent) : buf[(i - 1) % Cap] = sent[i]
  /\ prod.pc = "publish" => buf[Len(sent) % Cap] = prod.item
  /\ prod.pc # "idle" => prod.item \in Items

\* The inductive invariant of the ring: the wrapped indices stand for the true
\* counts, and each side's copy of the other's index for an earlier count.
RingIInv == TypeOK /\ IndicesCount /\ ProducerView /\ ConsumerView /\ Stored

\* What every step of qn_ring_push, qn_ring_pop_batch and qn_ring_reset keeps:
\* conservative caches, and results handed out in order and whole; with what they
\* rest on.
RingInv == RingIInv /\ CachesAreConservative /\ InOrderAndWhole

\* Nothing stays in the ring for ever once the worker has published it.
Drains == []<>(Len(got) = Len(sent))

queued == SubSeq(sent, Len(got) + 1, Len(sent))

Fifo == INSTANCE BoundedFifo WITH queue <- queued, refused <- dropped

\* qn_ring_push and qn_ring_pop_batch implement the bounded queue: in particular
\* the drop counter moves only while Cap unread results are really in the ring,
\* and what is in it is delivered.
ImplementsBoundedFifo == Fifo!Spec /\ Drains
=============================================================================
