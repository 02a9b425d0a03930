---------------------------- MODULE MCRunDriver ----------------------------
(* Five runs: one that fills an archive under the problem's frame, one under *)
(* the archive's own; two on a budget of evaluations, recorded at counts and *)
(* on the log grid; one on a budget of distinct points.                      *)
EXTENDS RunDriver

Plain ==
    [budget |-> "steps", limit |-> 0, every |-> 1, setup |-> 5, rows |-> {},
     points |-> (0..3) \X (0..3), fails |-> FALSE, cap |-> 1, observe |-> FALSE,
     finishes |-> FALSE, timeouts |-> FALSE, grid |-> "generations", counts |-> {},
     reads |-> {}, frame |-> <<<<0, 0>>, <<4, 4>>>>]

Framed == Plain
Own == [Plain EXCEPT !.frame = <<NoFrame, NoFrame>>]

Counted ==
    [Plain EXCEPT !.budget = "evaluations", !.limit = 5, !.every = 2, !.setup = 1,
                  !.rows = {0, 1, 3}, !.points = {<<0, 2>>, <<2, 0>>}, !.fails = TRUE,
                  !.cap = 2, !.observe = TRUE, !.finishes = TRUE, !.timeouts = TRUE,
                  !.grid = "budgets", !.counts = {1, 3, 4, 5}, !.reads = {2, 3, 5}]

Logged == [Counted EXCEPT !.grid = "log", !.cap = 9, !.fails = FALSE, !.timeouts = FALSE]

Generations == [Counted EXCEPT !.budget = "steps", !.limit = 3, !.grid = "generations",
                               !.points = {<<0, 2>>}, !.cap = 3]

Distinct == [Counted EXCEPT !.budget = "distinct", !.limit = 4, !.setup = 1, !.rows = {0, 2},
                            !.points = {<<0, 2>>, <<1, 1>>, <<2, 0>>}, !.fails = FALSE,
                            !.grid = "budgets", !.timeouts = FALSE]

Runs == {Framed, Own, Counted, Logged, Generations, Distinct}
=============================================================================
