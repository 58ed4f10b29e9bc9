------------------------------ MODULE MCWorker ------------------------------
(***************************************************************************)
(* The two data structures of a worker thread: the ring that carries its   *)
(* results (Ring) and its timeout wheel (TimeWheel).  They share no state, *)
(* so a behaviour moves one of them and leaves the other as it was         *)
(* initialised.                                                            *)
(*                                                                         *)
(* The ring has two slots and indices modulo 4, so that both the buffer    *)
(* and the index wrap several times within one run.  The wheel has eight   *)
(* slots of two milliseconds.                                              *)
(***************************************************************************)
EXTENDS Ring

ASSUME RingParameters

VARIABLES clock, nowMs, cursor, slot, deadline, armed, sweep, rearmed, load, part

wheelVars == <<clock, nowMs, cursor, slot, deadline, armed, sweep, rearmed, load>>

\* Deadlines of up to and beyond a turn, swept at most one tick late; and
\* deadlines well inside the wheel, swept several ticks late.
Prompt == [delays |-> {1, 18}, stall |-> 2]
Late == [delays |-> {1, 5}, stall |-> 7]

W == INSTANCE TimeWheel WITH Nodes <- {"n1", "n2"}, SLOTS <- 8, TICK <- 2,
                             Loads <- {Prompt, Late}, MaxClock <- 20

ASSUME W!WheelParameters

WorkerInit == Init /\ W!Init /\ part \in {"wheel", "ring"} /\ (part = "ring" => load = Late)

WorkerNext ==
  /\ UNCHANGED part
  /\ \/ part = "wheel" /\ W!Next /\ UNCHANGED vars
     \/ part = "ring" /\ Next /\ UNCHANGED wheelVars

\* The fairness of the two: the worker's code runs on, and so does its owner's.
WorkerSpec ==
  /\ WorkerInit /\ [][WorkerNext]_<<vars, wheelVars, part>>
  /\ WF_wheelVars(part = "wheel" /\ W!Sweep)
  /\ WF_vars(part = "ring" /\ Consume) /\ WF_vars(part = "ring" /\ Produce)

\* The lists of the wheel hold the armed nodes, and qn_tw_next_timeout never sleeps past
\* a deadline (TimeWheel).
WheelInv == W!WheelInv

\* A sweep of the wheel ends, with nothing overdue left (TimeWheel).
SweepIsPunctual == W!SweepIsPunctual
=============================================================================
