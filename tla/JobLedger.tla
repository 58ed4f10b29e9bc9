------------------------------ MODULE JobLedger ------------------------------
(* What the scan engine of src/net/engine.c promises a task: every index of     *)
(* the task's domain has at most one fate per run.  An index is drawn at most    *)
(* once; a drawn job is reported to the task exactly once; an index that is not  *)
(* drawn may be declined (deliberately left) or owed (left by a stop); and a     *)
(* run is closed only when no drawn job is still unreported.                     *)
EXTENDS Integers

CONSTANT Idx        \* the task's domain

VARIABLES phase,    \* "idle", "open", "closed" or "failed"
          fate      \* fate of each index in the current run

vars == <<phase, fate>>

Fates == {"unseen", "drawn", "reported", "declined", "owed"}

TypeOK == /\ phase \in {"idle", "open", "closed", "failed"}
          /\ fate \in [Idx -> Fates]

Init == phase = "idle" /\ fate = [i \in Idx |-> "unseen"]

Open == /\ phase \in {"idle", "closed"}
        /\ phase' = "open"
        /\ fate' = [i \in Idx |-> "unseen"]

\* Indices S, all of the same fate `from`, get the fate `to`.
Move(S, from, to) == /\ phase = "open" /\ UNCHANGED phase
                     /\ \A i \in S : fate[i] = from
                     /\ fate' = [i \in Idx |-> IF i \in S THEN to ELSE fate[i]]

Draw(i) == Move({i}, "unseen", "drawn")
Report(S) == Move(S, "drawn", "reported")
Leave(S, how) == how \in {"declined", "owed"} /\ Move(S, "unseen", how)

Close == /\ phase = "open"
         /\ \A i \in Idx : fate[i] # "drawn"
         /\ phase' = "closed" /\ UNCHANGED fate

\* The threads could not all be started: the run has no result.
Fail == phase = "open" /\ phase' = "failed" /\ UNCHANGED fate

Next == \/ Open \/ Close \/ Fail
        \/ \E i \in Idx : Draw(i)
        \/ \E S \in SUBSET Idx : Report(S) \/ Leave(S, "declined") \/ Leave(S, "owed")

Spec == Init /\ [][Next]_vars
=============================================================================
