---------------------------- MODULE MCStrategies ----------------------------
(* Six points: four that cost, one at the target, one whose evaluation throws. *)
EXTENDS Strategies

CONSTANTS a, b, near, far, goal, bad

Call(x, kind, rep) == [x |-> x, kind |-> kind, rep |-> rep]

AllPlans ==
    {<<Call(a, "values", 1), Call(a, "grad", 0), Call(b, "values", 0)>>,
     <<Call(b, "joint", 0), Call(far, "values", 0)>>,
     <<Call(a, "values", 0), Call(goal, "values", 1), Call(b, "values", 0)>>,
     <<Call(near, "values", 1), Call(bad, "values", 0)>>}

GradientPlans ==
    {<<Call(a, "values", 0), Call(a, "grad", 0)>>, <<Call(b, "values", 0), Call(b, "grad", 0)>>}

Trial(strategy, budget, threads, cap, starts, draws) ==
    [strategy |-> strategy, budget |-> budget, threads |-> threads, cap |-> cap,
     starts |-> starts, draws |-> draws, joint |-> FALSE]

AllRuns ==
    {Trial("multistart", 4, t, 0, n, 0) : t \in {1, 2}, n \in 1..3}
        \cup {Trial("mlsl", 3, t, 0, 3, 1) : t \in {1, 2}} \cup {Trial("mlsl", 4, 2, 2, 2, 1)}
        \cup {Trial(s, 5, 1, c, 1, 0) : s \in {"walk", "restart"}, c \in {0, 2}}
        \cup {Trial("tiktak", 5, 1, c, 1, 2) : c \in {0, 2}}
        \cup {Trial("halving", 6, t, 0, n, 0) : t \in {1, 2}, n \in 1..3}
        \cup {Trial("halving", 2, 1, 0, 3, 0)}         \* a share of nothing
        \cup {Trial("memetic", 4, t, 0, 2, 0) : t \in {1, 2}}
        \cup {Trial(s, n, 1, 0, 1, 0) : s \in {"ipop", "bipop"}, n \in {4, 5}}
        \cup {[Trial("ipop", 5, 1, 0, 1, 0) EXCEPT !.joint = TRUE]}

WalkRuns == {Trial("walk", 3, 1, 0, 1, 0)}
=============================================================================
