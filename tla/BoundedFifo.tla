---------------------------- MODULE BoundedFifo ----------------------------
(* What the per-worker result ring promises to the engine: a queue of at      *)
(* most Cap results that loses nothing it accepted, hands results out in the   *)
(* order they were accepted, and refuses (and counts) a result only while it   *)
(* is really full.                                                             *)
EXTENDS Naturals, Sequences

CONSTANTS Cap, Items

VARIABLES queue, refused

Init == queue = << >> /\ refused = 0

Enqueue == /\ Len(queue) < Cap
           /\ \E item \in Items : queue' = Append(queue, item)
           /\ UNCHANGED refused

Refuse == /\ Len(queue) = Cap
          /\ refused' = refused + 1
          /\ UNCHANGED queue

DequeueBatch == /\ \E n \in 1..Len(queue) : queue' = SubSeq(queue, n + 1, Len(queue))
                /\ UNCHANGED refused

Clear == queue' = << >> /\ refused' = 0

Next == Enqueue \/ Refuse \/ DequeueBatch \/ Clear

Spec == Init /\ [][Next]_<<queue, refused>>
=============================================================================
