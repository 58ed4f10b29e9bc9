------------------------------ MODULE MCVerify ------------------------------
(***************************************************************************)
(* The background thread's work on the finalists: the pool of connections  *)
(* that qn_verify_run keeps (Verifier), and the tunnel stage of one        *)
(* scanner (TunnelStage).  A behaviour moves one of them and leaves the    *)
(* other as it was initialised.                                            *)
(*                                                                         *)
(* The pool has three candidates, one or two transfers, one or two holds   *)
(* and descriptor budgets from one to more than enough.                    *)
(***************************************************************************)
EXTENDS TunnelStage

VARIABLES part,
          vpc, i, todo, plan, slot, vnext, live, done, activeLive, stabLive, dialFailed,
          res, state, attempted, unattempted, cancelled, caller, progress, vcancel

V == INSTANCE Verifier WITH pc <- vpc, next <- vnext, cancel <- vcancel, N <- 3,
  Actives <- {1, 2}, Stabilities <- {1, 2}, FdBudgets <- {1, 2, 3, 4},
  WithIdle <- TRUE, WithSocks <- TRUE

ASSUME V!VerifierParameters

poolVars == <<vpc, i, todo, plan, slot, vnext, live, done, activeLive, stabLive, dialFailed,
              res, state, attempted, unattempted, cancelled, caller, progress, vcancel>>

VerifyInit == part \in {"pool", "tunnel"} /\ Init /\ V!Init

VerifyNext ==
  /\ UNCHANGED part
  /\ \/ part = "pool" /\ V!Next /\ UNCHANGED vars
     \/ part = "tunnel" /\ Next /\ UNCHANGED poolVars

\* The fairness of the pool (Verifier): the thread runs on, epoll_wait returns, and a
\* connection the sweep keeps meeting is eventually found expired; and that of the stage.
VerifySpec ==
  /\ VerifyInit /\ [][VerifyNext]_<<part, vars, poolVars>>
  /\ WF_poolVars(part = "pool" /\ V!Run)
  /\ SF_poolVars(part = "pool" /\ V!Wait /\ vpc' = "events")
  /\ \A s \in 1..3 : SF_poolVars(part = "pool" /\ V!SweepExpires(s))
  /\ \A p \in Procs :
       /\ WF_vars(part = "tunnel" /\ (StartStage(p) \/ Join(p) \/ InlineEnds(p)))
       /\ \A t \in All : WF_vars(part = "tunnel" /\ Work(p, t))

\* Every connection, hold and candidate of the pass is accounted for (Verifier).
PoolInv == part = "pool" => V!PoolInv

\* The pass ends, cancelled or not (Verifier).
RunEnds == <>(part = "pool" => vpc = "end")

\* The tunnel stage ends, whatever the children do (TunnelStage).
TunnelEnds == <>(part = "tunnel" => \A p \in Procs : stage[p] = "end")
=============================================================================
