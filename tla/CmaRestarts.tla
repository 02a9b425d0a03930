---------------------------- MODULE CmaRestarts ----------------------------
(***************************************************************************)
(* The restarts of CMA-ES (scalar/restarts.hpp): ipop doubles its population *)
(* at each run; bipop, after a first run, takes large runs and small ones,   *)
(* the regime that has spent less next, a small run within an allowance of   *)
(* its own.  A run samples generations until a criterion holds or an         *)
(* evaluation is refused.                                                    *)
(***************************************************************************)
EXTENDS Evaluator

CONSTANTS
    LamDef,          \* the first run's population, 4 + floor(3 ln n) in the code
    Large,           \* bipop_large: runs of the large regime
    MaxGenerations   \* generations after which a criterion holds (MaxIter)

ASSUME RestartsAssumption ==
    /\ {LamDef, Large, MaxGenerations} \subseteq Nat \ {0}
    \* the strategies draw their start in the box and have none of the rounds' knobs
    /\ \A r \in Runs : r.strategy \in Restarting =>
           r.threads = 1 /\ r.cap = 0 /\ r.starts = 1 /\ r.draws = 0

VARIABLES
    runs,      \* the runs behind it: [regime, lambda, evaluations, out]
    run        \* the run it is in: regime, lambda, limit, what was spent before it, the points
               \* of its generation sampled, its generations

restarts == <<runs, run>>

NoRun == [regime |-> 0, lambda |-> 0, limit |-> 0, before |-> 0, sampled |-> 0, generations |-> 0]

InitRestarts == runs = <<>> /\ run = NoRun

\* the runs of a regime (bipop: 0 the first, 1 large, 2 small), and what they spent
Of(regime) == {i \in DOMAIN runs : runs[i].regime = regime}
Spent(regime) ==
    FoldLeft(LAMBDA a, r : IF r.regime = regime THEN a + r.evaluations ELSE a, 0, runs)

\* run_cma: an allowance of 0 is none but the budget
BeginRun(regime, lambda, allowance) ==
    /\ phase' = "run"
    /\ run' = [NoRun EXCEPT !.regime = regime, !.lambda = lambda, !.before = ev.spent,
                            !.limit = IF allowance > 0 THEN MinOf(knobs.budget, ev.spent + allowance)
                                      ELSE knobs.budget]

Ipop == knobs.strategy = "ipop" /\ BeginRun(0, LamDef * 2^Len(runs), 0)

FirstRun == knobs.strategy = "bipop" /\ runs = <<>> /\ BeginRun(0, LamDef, 0)

\* the large regime is next (RST-4, RST-5)
LargeNext == Of(1) = {} \/ Spent(2) >= Spent(1)

LargeRun ==
    /\ knobs.strategy = "bipop" /\ runs # <<>> /\ LargeNext
    /\ BeginRun(1, LamDef * 2^(Cardinality(Of(1)) + 1), 0)

\* a population up to half the last large one's, at most half of its evaluations (RST-3)
SmallRun ==
    /\ knobs.strategy = "bipop" /\ runs # <<>> /\ ~LargeNext
    /\ LET large == runs[Max(Of(1))] IN
         \E lambda \in LamDef..MaxOf(LamDef, large.lambda \div 2 - 1) :
           BeginRun(2, lambda, MaxOf(1, large.evaluations \div 2))

NextRun ==
    /\ phase = "loop" /\ knobs.strategy \in Restarting
    /\ \/ /\ ev.spent >= ev.budget
          /\ phase' = "over"
          /\ UNCHANGED run
       \/ /\ ev.spent < ev.budget
          /\ Ipop \/ FirstRun \/ LargeRun \/ SmallRun
    /\ UNCHANGED <<knobs, ev, runs>>

OutAsRun(e, out) == out          \* mutant: a small run's own allowance taken for the budget

\* the budget ended the run; a small run's own allowance does not end the strategy
OutOfBudget(e, out) == out /\ (run.regime = 2 => e.spent >= e.budget)

\* the run ended, refused (out) or by a criterion; the strategy after it (RST-5, RST-8)
EndRun(e, out) ==
    LET evaluations == e.spent - run.before
        lastLarge == run.regime = 1 /\ Cardinality(Of(1)) + 1 >= Large
    IN  /\ runs' = Append(runs, [regime |-> run.regime, lambda |-> run.lambda,
                                 evaluations |-> evaluations, out |-> out])
        /\ run' = NoRun
        /\ phase' = IF lastLarge \/ OutOfBudget(e, out) \/ evaluations = 0 THEN "over" ELSE "loop"

\* a point of the generation, at its clip to the box
Sample(x) ==
    /\ phase = "run" /\ run.sampled < run.lambda
    /\ ev' = Indexed(x, run.limit)
    /\ CASE Outcome(x, run.limit) = "throws" ->
              phase' = "failed" /\ UNCHANGED restarts
         [] Outcome(x, run.limit) # "throws" /\ Returned(x, run.limit) ->
              run' = [run EXCEPT !.sampled = @ + 1] /\ UNCHANGED <<phase, runs>>
         [] OTHER -> EndRun(ev', TRUE)
    /\ UNCHANGED knobs

\* tell(), and stop(): a criterion may hold
Tell ==
    /\ phase = "run" /\ run.sampled = run.lambda
    /\ \/ EndRun(ev, FALSE)
       \/ /\ run.generations + 1 < MaxGenerations
          /\ run' = [run EXCEPT !.sampled = 0, !.generations = @ + 1]
          /\ UNCHANGED <<phase, runs>>
    /\ UNCHANGED <<knobs, ev>>

NextRestarts ==
    \/ NextRun
    \/ \E x \in Points : Sample(x)
    \/ Tell

restartVars == <<evaluator, restarts>>

FairRestarts == WF_restartVars(NextRestarts)

-----------------------------------------------------------------------------
(* Properties. *)

\* The run begins within its budget, with what was spent before it.
RestartsTypeOK ==
    /\ run.regime \in 0..2 /\ {run.lambda, run.sampled, run.generations} \subseteq Nat
    /\ run.before <= ev.spent /\ run.limit <= knobs.budget
    /\ \A i \in DOMAIN runs : runs[i].regime \in 0..2 /\ runs[i].evaluations \in Nat

\* RST-8, RST-5: the restarts end when the budget (or the target) leaves no evaluation, when
\* the large regime has had its runs, or when a run, sampling points of the archive alone,
\* came to a criterion without an evaluation - never because a small run has used up its own
\* allowance.
RestartsGoOn ==
    [][knobs.strategy \in Restarting /\ phase' = "over" /\ phase # "over" =>
         \/ Used(ev') + Cost > ev'.budget
         \/ Cardinality({i \in DOMAIN runs' : runs'[i].regime = 1}) = Large
         \/ Last(runs').evaluations = 0 /\ ~Last(runs').out]_restartVars
=============================================================================
