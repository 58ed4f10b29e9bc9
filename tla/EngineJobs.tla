----------------------------- MODULE EngineJobs -----------------------------
(* What a task sees of the engine that runs its jobs: Engine as an               *)
(* implementation of JobLedger.                                                  *)
EXTENDS Engine, TLC

\* The run's phase and the fate of every index, as the task sees them.
Phase == IF owner \in {"idle", "closed", "failed"} THEN owner ELSE "open"
FateOf(i) == IF got[i] > 0 THEN "reported"
             ELSE IF left[i] # "no" THEN left[i]
             ELSE IF \E w \in Workers : Holds(w, i) THEN "drawn" ELSE "unseen"
Ledger == INSTANCE JobLedger WITH phase <- Phase, fate <- [i \in Idx |-> FateOf(i)]

\* The engine keeps the ledger's promise to its task, and a task that sees
\* qn_engine_done may rely on it.
ImplementsLedger == Ledger!Spec /\ DoneIsStable

\* The workers are interchangeable: qn_engine_start gives each the same fields.
Symmetry == Permutations(Workers)
=============================================================================
