----------------------------- MODULE Strategies -----------------------------
(***************************************************************************)
(* run_strategy (scalar/strategy.hpp): one run of one strategy, by rounds    *)
(* (SolverRounds) or by restarts of CMA-ES (CmaRestarts), over one evaluator. *)
(***************************************************************************)
EXTENDS SolverRounds, CmaRestarts

vars == <<evaluator, rounds, restarts>>

Init == StartEvaluator /\ InitRounds /\ InitRestarts

\* the run has ended: nothing happens any more
Ended ==
    /\ phase \in {"over", "failed"}
    /\ UNCHANGED vars

Next ==
    \/ knobs.strategy \in Rounds /\ NextRounds /\ UNCHANGED restarts
    \/ knobs.strategy \in Restarting /\ NextRestarts /\ UNCHANGED rounds
    \/ Ended

Spec == Init /\ [][Next]_vars /\ FairRounds /\ FairRestarts

-----------------------------------------------------------------------------
(* Properties. *)

\* STRAT-8, RST-8: a strategy ends below its budget too, where its points cost nothing; and so
\* does one whose evaluation throws, or reaches the target.
RunEnds == <>(phase \in {"over", "failed"})
=============================================================================
