----------------------------- MODULE Evaluator -----------------------------
(***************************************************************************)
(* The scalar layer's Evaluator (scalar/evaluator.hpp): the archive of the  *)
(* points a run of a strategy has evaluated, what they cost, and the budget  *)
(* they are charged to.  A point of the archive costs nothing again.         *)
(***************************************************************************)
EXTENDS Integers, FiniteSets, SequencesExt

CONSTANTS
    Points,         \* points of the box
    Target,         \* those at or below Problem::stop_at
    Throwing,       \* those whose evaluation throws
    GradCost,       \* what a gradient costs the budget (grad_cost)
    Runs            \* the runs tried: a strategy, its budget, its knobs threads, cap
                    \* (start_budget; 0: none), starts (n_starts, memetic_points; mlsl: at most),
                    \* draws (mlsl_n, tiktak_n), and joint: the problem gives a value only
                    \* with its gradient (value_grad)

\* walk: basin_hopping, ils; restart: ils with ils_accept restart
Rounds == {"multistart", "mlsl", "walk", "restart", "halving", "memetic", "tiktak"}
Restarting == {"ipop", "bipop"}

ASSUME EvaluatorAssumption ==
    /\ Runs \subseteq [strategy : Rounds \cup Restarting, budget : Nat \ {0}, threads : Nat \ {0},
                       cap : Nat, starts : Nat \ {0}, draws : Nat, joint : BOOLEAN]
    /\ GradCost \in Nat

VARIABLES
    knobs,     \* the run of Runs
    phase,     \* "loop": the strategy's own loop; "round", "run" (of CMA-ES); "over"; "failed"
    ev         \* the Evaluator

evaluator == <<knobs, phase, ev>>

MinOf(a, b) == IF a <= b THEN a ELSE b
MaxOf(a, b) == IF a >= b THEN a ELSE b

NewEvaluator == [order |-> <<>>, grads |-> {}, spent |-> 0, gradCalls |-> 0,
                 budget |-> knobs.budget, out |-> FALSE]

Known(e) == ToSet(e.order)
Used(e) == e.spent + GradCost * e.gradCalls
Left(e) == e.budget - e.spent

\* what an evaluation is charged
Cost == IF knobs.joint THEN 1 + GradCost ELSE 1

\* keep() of a counted point; out: it threw BudgetSpent, the target reached
Keep(e, x) ==
    LET spent == e.spent + 1 IN
    [e EXCEPT !.order = Append(@, x), !.spent = spent, !.out = x \in Target,
              !.budget = IF x \in Target THEN spent ELSE @]

\* what index() does with x: a point of the archive, a charge refused by the budget or by
\* the limit of a part of it, an evaluation
Outcome(x, limit) ==
    CASE x \in Known(ev) -> "known"
      [] x \notin Known(ev) /\ Used(ev) + Cost > ev.budget -> "BudgetSpent"
      [] x \notin Known(ev) /\ Used(ev) + Cost <= ev.budget /\ Used(ev) + Cost > limit -> "SubBudgetSpent"
      [] OTHER -> IF x \in Throwing THEN "throws" ELSE "fresh"

\* ... and what it leaves: a joint call's gradient counts before keep(), and is kept after it
Indexed(x, limit) ==
    LET kept == Keep(IF knobs.joint THEN [ev EXCEPT !.gradCalls = @ + 1] ELSE ev, x)
    IN  CASE Outcome(x, limit) # "fresh" -> ev
          [] Outcome(x, limit) = "fresh" /\ knobs.joint /\ ~kept.out -> [kept EXCEPT !.grads = @ \cup {x}]
          [] OTHER -> kept

\* index() returned
Returned(x, limit) == Outcome(x, limit) = "known" \/ (Outcome(x, limit) = "fresh" /\ x \notin Target)

StartEvaluator ==
    /\ knobs \in Runs
    /\ phase = "loop"
    /\ ev = NewEvaluator

-----------------------------------------------------------------------------
(* Properties. *)

\* The run is in a phase, and its archive holds points, some with their gradients.
EvaluatorTypeOK ==
    /\ knobs \in Runs
    /\ phase \in {"loop", "round", "run", "over", "failed"}
    /\ ev.order \in Seq(Points) /\ ev.grads \subseteq Known(ev)
    /\ {ev.spent, ev.gradCalls, ev.budget} \subseteq Nat

\* A point or a gradient two starts of a round asked for counts once, whatever threads asked
\* first (Evaluator::adopt), and a restart's samples count once: the counts are those of the
\* archive.
CountedOnce ==
    /\ ev.spent = Len(ev.order) /\ IsInjective(ev.order)
    /\ ev.gradCalls - Cardinality(ev.grads) \in (IF ev.out THEN {0, 1} ELSE {0})

\* STRAT-6: "a round never spends past the run's budget", the budget being
\* "evaluations + grad_cost * grad_calls" (docs/running.md).
WithinBudget == Used(ev) <= knobs.budget
=============================================================================
