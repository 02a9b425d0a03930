---------------------------- MODULE SolverRounds ----------------------------
(***************************************************************************)
(* Search strategies by rounds (scalar/strategy.hpp, search.hpp, tiktak.hpp): *)
(* a strategy spends its budget on rounds of starts; every start runs the   *)
(* inner solver on a view of the archive, in any number of threads, and     *)
(* when all have ended what they counted and what they found is brought     *)
(* together in the order of the starts.                                     *)
(*                                                                          *)
(* An inner solver is the sequence of its calls of the problem (a plan): a  *)
(* point, what is asked of it, and how many repairs of the box it makes     *)
(* before the call.  It depends on the start, and on no other start.        *)
(***************************************************************************)
EXTENDS Evaluator

CONSTANTS
    Plans,          \* sequences of calls [x, kind, rep]
    InnerGradCost,  \* what a gradient costs the inner solver (its own grad_cost)
    Searches,       \* searches of tiktak (N*, a share of tiktak_n)
    Every,          \* memetic_every: what a global phase may spend
    LocalPart,      \* ... and the local searches after it, of local_share
    RestartAfter,   \* ils_restart: steps not better than the best before a new point
    MaxIdle         \* a walk's steps in a row that spend nothing (100 in the code)

Calls == [x : Points, kind : {"values", "grad", "joint"}, rep : Nat]

ASSUME RoundsAssumption ==
    /\ Plans \subseteq Seq(Calls)
    /\ \E most \in Runs : \A r \in Runs : r.threads <= most.threads
    /\ {Searches, Every, RestartAfter, MaxIdle} \subseteq Nat \ {0}
    /\ {InnerGradCost, LocalPart} \subseteq Nat
    /\ \A r \in Runs : r.strategy \in Rounds => ~r.joint
    \* the first two have no knob start_budget, the others no knob threads
    /\ \A r \in Runs : r.strategy \in {"multistart", "halving"} => r.cap = 0
    /\ \A r \in Runs : r.strategy \in {"walk", "restart", "tiktak"} => r.threads = 1
    /\ \A r \in Runs : r.strategy = "tiktak" => Searches <= r.draws

VARIABLES
    log,       \* what the problem's functions counted in this round, in order, each call with
               \* the repairs it saw (what earlier rounds counted stays as it is)
    counts,    \* thread -> ops::repair_counts, a thread's own; 0 is the strategy's thread
    before,    \* used() when the iteration began
    drawn,     \* points mlsl has drawn in this iteration, and tiktak before its searches
    idle,      \* a walk's steps in a row that spent nothing
    turn,      \* rounds of halving, searches of tiktak behind it; ils: since, steps not better
    stage,     \* ils: "first", "step", "again"; memetic: "global", "local", "last"
    arms,      \* halving's arms, memetic's global start: [plan, allowance], kept between rounds
    specs,     \* the round's starts
    views,     \* each start's View and inner run
    later,     \* each start's deferred calls
    made,      \* each start's repairs
    next,      \* the round's next start
    at,        \* thread -> the start it runs; 0: none
    counts0,   \* thread -> start_counts0
    base       \* [history] counts[0] when the round began

loop == <<before, drawn, idle, turn, stage, arms>>
roundState == <<specs, views, later, made, next, at, counts0, base>>
rounds == <<log, counts, loop, roundState>>
roundVars == <<evaluator, rounds>>

AllThreads == 0..CHOOSE n \in {r.threads : r \in Runs} : \A r \in Runs : r.threads <= n

-----------------------------------------------------------------------------
(* The views brought into the archive. *)

AdoptTwice(e, event) ==          \* mutant: a known point counted again
    IF e.out THEN e
    ELSE IF event.x \in Known(e) THEN [e EXCEPT !.spent = @ + event.evals]
    ELSE Keep(e, event.x)

\* a start's event brought into the archive; an earlier start's point costs nothing again
Adopt(e, event) ==
    LET gradNew == event.grads > 0 /\ event.x \notin e.grads
        counted == [e EXCEPT !.gradCalls = IF gradNew THEN @ + 1 ELSE @]
        kept == IF event.x \in Known(e) THEN counted ELSE Keep(counted, event.x)
    IN  IF e.out THEN e
        \* a throw of keep() leaves the gradient out
        ELSE IF gradNew /\ ~kept.out THEN [kept EXCEPT !.grads = @ \cup {event.x}]
        ELSE kept

\* a start's events, in their order, and those of all the starts
Adopted(e, events) == FoldLeft(Adopt, e, events)

Merge(e, vs) == FoldLeft(LAMBDA acc, v : Adopted(acc, v.events), e, vs)

-----------------------------------------------------------------------------
(* A start: the inner solver's run on its view. *)

NewView == [own |-> {}, grads |-> {}, events |-> <<>>, spent |-> 0,
            asked |-> 0, pos |-> 0, state |-> "new"]

\* a start without an allowance does not run
Begun(spec) == [NewView EXCEPT !.state = IF spec.allowance > 0 THEN "running" ELSE "stopped"]

AffordableAlways(v, spec, cost) == TRUE       \* mutant: any call

\* what the view may still spend on a new call
Affordable(v, spec, cost) == v.spent + cost <= spec.fresh

\* a call of the problem itself
Calling(v, spec, x, evals, grads) ==
    LET cost == evals + GradCost * grads IN
    CASE ~Affordable(v, spec, cost) -> [v EXCEPT !.state = "stopped"]
      [] Affordable(v, spec, cost) /\ x \in Throwing -> [v EXCEPT !.state = "failed"]
      [] OTHER -> [v EXCEPT !.spent = @ + cost, !.own = @ \cup {x},
                            !.grads = IF grads > 0 THEN @ \cup {x} ELSE @,
                            !.events = Append(@, [x |-> x, evals |-> evals, grads |-> grads])]

\* the point's values: the view's own, those of the archive e, or a call
Looked(e, v, spec, x, kind) ==
    CASE x \in v.own -> v
      [] x \in Known(e) \ v.own ->
            [v EXCEPT !.own = @ \cup {x}, !.grads = @ \cup (e.grads \cap {x})]
      [] OTHER -> Calling(v, spec, x, 1, IF kind = "joint" THEN 1 ELSE 0)

\* View::get
Get(e, v, spec, x, kind) ==
    LET w == Looked(e, v, spec, x, kind) IN
    IF w.state = "running" /\ kind # "values" /\ x \notin w.grads
    THEN Calling(w, spec, x, 0, 1)
    ELSE w

InnerCost(kind) ==
    CASE kind = "values" -> 1 [] kind = "grad" -> InnerGradCost [] kind = "joint" -> 1 + InnerGradCost

Repairs(v, spec) == IF v.pos < Len(spec.plan) THEN spec.plan[v.pos + 1].rep ELSE 0

\* the inner solver's next call: past its allowance, and at the target, it stops
Ask(e, v, spec) ==
    IF v.pos = Len(spec.plan) THEN [v EXCEPT !.state = "stopped"]
    ELSE LET c == spec.plan[v.pos + 1]
             w == Get(e, [v EXCEPT !.pos = @ + 1, !.asked = @ + InnerCost(c.kind)], spec, c.x, c.kind)
         IN  CASE v.asked + InnerCost(c.kind) > spec.allowance -> [v EXCEPT !.state = "stopped"]
               [] w.state = "running" /\ c.kind # "grad" /\ c.x \in Target -> [w EXCEPT !.state = "stopped"]
               [] OTHER -> w

\* what the problem's functions count in the step from v to w, n repairs made so far
Counted(v, w, n) ==
    [i \in 1..(Len(w.events) - Len(v.events)) |->
        [event |-> w.events[Len(v.events) + i], repairs |-> n]]

-----------------------------------------------------------------------------
(* One thread, as the comment of the deferred count states it: the starts *)
(* one after the other, each call counted at once.                         *)

AloneStep(e, s, spec) ==
    LET w == Ask(e, s.view, spec)
        n == s.count + Repairs(s.view, spec)
    IN  IF s.view.state # "running" THEN s
        ELSE [view |-> w, count |-> n, log |-> s.log \o Counted(s.view, w, n)]

\* as many steps as there are calls, and the one that ends it
AloneRun(e, s, spec) ==
    FoldLeft(LAMBDA r, i : AloneStep(e, r, spec), s, [i \in 1..(Len(spec.plan) + 1) |-> i])

Alone(e, s, spec) ==
    LET end == AloneRun(e, [view |-> Begun(spec), count |-> s.count, log |-> s.log], spec)
    IN  [views |-> Append(s.views, end.view), count |-> end.count, log |-> end.log]

InTurn(e, s, given) == FoldLeft(LAMBDA acc, spec : Alone(e, acc, spec), s, given)

OneThread == InTurn(ev, [views |-> <<>>, count |-> base, log |-> <<>>], specs)

Throws(vs) == \E k \in DOMAIN vs : vs[k].state = "failed"

-----------------------------------------------------------------------------
(* The strategies' loops. *)

InitRounds ==
    /\ log = <<>>
    /\ counts = [t \in AllThreads |-> 0]
    /\ before = 0 /\ drawn = 0 /\ idle = 0 /\ turn = 0
    /\ stage = IF knobs.strategy = "memetic" THEN "global" ELSE "first"
    /\ arms \in CASE knobs.strategy = "halving" -> [1..knobs.starts -> [plan : Plans, allowance : {0}]]
                  [] knobs.strategy = "memetic" -> [1..1 -> [plan : Plans, allowance : {0}]]
                  [] OTHER -> {<<>>}
    /\ specs = <<>> /\ views = <<>> /\ later = <<>> /\ made = <<>>
    /\ next = 1
    /\ at = [t \in AllThreads |-> 0]
    /\ counts0 = [t \in AllThreads |-> 0]
    /\ base = 0

\* the points an iteration draws itself
ToDraw == IF knobs.strategy \in {"mlsl", "tiktak"} THEN knobs.draws ELSE 0

\* mlsl and tiktak draw a point of their sample: Evaluator::index in the strategy's thread
Draw(x) ==
    /\ phase = "loop" /\ drawn < ToDraw
    /\ ev' = Indexed(x, knobs.budget)
    /\ drawn' = IF Returned(x, knobs.budget) THEN drawn + 1 ELSE drawn
    /\ phase' = CASE Outcome(x, knobs.budget) = "throws" -> "failed"
                  [] Outcome(x, knobs.budget) # "throws" /\ Returned(x, knobs.budget) -> phase
                  [] OTHER -> "over"
    /\ UNCHANGED <<knobs, log, counts, before, idle, turn, stage, arms, roundState>>

Spec1(plan, allowance) == [plan |-> plan, allowance |-> allowance, fresh |-> allowance]

\* strategy::round takes its starts
Begin(given) ==
    /\ phase = "loop" /\ drawn = ToDraw
    /\ specs' = given
    /\ views' = [k \in DOMAIN given |-> NewView]
    /\ later' = [k \in DOMAIN given |-> <<>>]
    /\ made' = [k \in DOMAIN given |-> 0]
    /\ base' = counts[0]
    /\ log' = <<>>
    /\ phase' = "round"
    /\ UNCHANGED <<knobs, ev, counts, before, drawn, idle, turn, stage, next, at, counts0>>

\* search::starts: start_budget each, else what is left shared among them
Each(cap, rest, n) == IF cap > 0 THEN MinOf(cap, rest) ELSE MaxOf(1, rest \div n)

RestSharesFull(cap, n) ==                  \* mutant: what was given is not subtracted
    [k \in 1..n |-> Each(cap, Left(ev), n)]

RestShares(cap, n) ==
    LET each == Each(cap, Left(ev), n) IN
    [k \in 1..n |-> MaxOf(0, MinOf(each, Left(ev) - (k - 1) * each))]

\* its round: the last starts, those without an allowance, are left out; none left, no round
Starts(plan, cap) ==
    LET share == RestShares(cap, Len(plan))
        last == Max({0} \cup {k \in DOMAIN plan : share[k] > 0})
    IN  [k \in 1..last |-> Spec1(plan[k], share[k])]

\* multistart's shares of the budget (STRAT-3)
EvenShares(n) == [k \in 1..n |-> knobs.budget \div n + (IF k <= knobs.budget % n THEN 1 ELSE 0)]

Multistart ==
    /\ knobs.strategy = "multistart"
    /\ \E plan \in [1..knobs.starts -> Plans] :
         Begin([k \in DOMAIN plan |-> Spec1(plan[k], EvenShares(knobs.starts)[k])])
    /\ UNCHANGED arms

\* the sample's points far from the better ones: any number of them
Mlsl ==
    /\ knobs.strategy = "mlsl"
    /\ \E n \in 0..knobs.starts : \E plan \in [1..n -> Plans] : Begin(Starts(plan, knobs.cap))
    /\ UNCHANGED arms

\* local() of a walk: from the problem's start, from a step, from a new point of ils
Walk ==
    /\ knobs.strategy \in {"walk", "restart"}
    /\ \E plan \in Plans : Begin(Starts(<<plan>>, knobs.cap))
    /\ UNCHANGED arms

\* tiktak's search i of N*, alone in its round
Tiktak ==
    /\ knobs.strategy = "tiktak"
    /\ \E plan \in Plans :
         Begin(IF Left(ev) <= 0 THEN <<>>
               ELSE <<Spec1(plan, Each(knobs.cap, Left(ev), Searches - turn))>>)
    /\ UNCHANGED arms

Ceil2(n) == CHOOSE r \in 1..n : 2^r >= n /\ \A q \in 1..(r - 1) : 2^q < n

\* every arm of halving again from its beginning, with more than before
Halving ==
    /\ knobs.strategy = "halving"
    /\ LET more == knobs.budget \div (Len(arms) * Ceil2(knobs.starts))
           fresh == MinOf(more, Left(ev) \div Len(arms))
           grown == [a \in DOMAIN arms |-> [arms[a] EXCEPT !.allowance = @ + more]]
       IN  IF fresh <= 0
           THEN Begin(<<>>) /\ UNCHANGED arms
           ELSE /\ Begin([a \in DOMAIN arms |-> [Spec1(grown[a].plan, grown[a].allowance)
                                                     EXCEPT !.fresh = fresh]])
                /\ arms' = grown

\* memetic's global run goes on: from its beginning, its points known
GlobalPhase ==
    /\ knobs.strategy = "memetic" /\ stage = "global"
    /\ LET fresh == MinOf(Every, Left(ev))
           allowance == arms[1].allowance + fresh
       IN  /\ Begin(<<[Spec1(arms[1].plan, allowance) EXCEPT !.fresh = fresh]>>)
           /\ arms' = [arms EXCEPT ![1].allowance = allowance]

\* ... and the local searches from its best points not yet searched from
LocalPhase ==
    /\ knobs.strategy = "memetic" /\ stage \in {"local", "last"}
    /\ \E n \in 0..knobs.starts : \E plan \in [1..n -> Plans] :
         LET part == MaxOf(1, LocalPart \div MaxOf(1, n))
         IN  Begin(Starts(plan, IF knobs.cap > 0 THEN MinOf(knobs.cap, part) ELSE part))
    /\ UNCHANGED arms

StartRound == Multistart \/ Mlsl \/ Walk \/ Tiktak \/ Halving \/ GlobalPhase \/ LocalPhase

\* T of round(): one thread is the strategy's own
Pool ==
    LET T == MinOf(Len(specs), knobs.threads) IN IF T <= 1 THEN {0} ELSE 1..T

InThreads == 0 \notin Pool

StartCounts0(t) == IF InThreads THEN counts[t] ELSE counts0[t]

\* next++ of the atomic
Advanced(k) == k + 1

\* k = next++, and the start begins
Claim(t) ==
    /\ phase = "round" /\ t \in Pool
    /\ at[t] = 0 /\ next <= Len(specs)
    /\ at' = [at EXCEPT ![t] = next]
    /\ next' = Advanced(next)
    /\ counts0' = [counts0 EXCEPT ![t] = StartCounts0(t)]
    /\ views' = [views EXCEPT ![next] = Begun(specs[next])]
    /\ UNCHANGED <<knobs, phase, ev, log, counts, loop, specs, later, made, base>>

\* the inner solver's next call, counted at once or deferred (defer_or_run)
Step(t) ==
    /\ phase = "round" /\ at[t] # 0
    /\ views[at[t]].state = "running"
    /\ LET k == at[t]
           w == Ask(ev, views[k], specs[k])
           n == counts[t] + Repairs(views[k], specs[k])
       IN  /\ views' = [views EXCEPT ![k] = w]
           /\ counts' = [counts EXCEPT ![t] = n]
           /\ IF InThreads
              THEN /\ later' = [later EXCEPT ![k] = @ \o Counted(views[k], w, n - counts0[t])]
                   /\ UNCHANGED log
              ELSE /\ log' = log \o Counted(views[k], w, n)
                   /\ UNCHANGED later
    /\ UNCHANGED <<knobs, phase, ev, loop, specs, made, next, at, counts0, base>>

\* the start has ended, by itself or by an exception kept in error[k]
Finish(t) ==
    /\ phase = "round" /\ at[t] # 0
    /\ views[at[t]].state \in {"stopped", "failed"}
    /\ made' = [made EXCEPT ![at[t]] = IF InThreads THEN counts[t] - counts0[t] ELSE @]
    /\ at' = [at EXCEPT ![t] = 0]
    /\ UNCHANGED <<knobs, phase, ev, log, counts, loop, specs, views, later, next, counts0, base>>

MadeBeforeNone(k) == 0                   \* mutant: the earlier starts forgotten

Total(q) == FoldLeft(+, 0, q)

\* the earlier starts' totals
MadeBefore(k) == Total(SubSeq(made, 1, k - 1))

\* a list's calls, each seeing the repairs one thread shows
Shown(k) ==
    [i \in DOMAIN later[k] |-> [later[k][i] EXCEPT !.repairs = counts[0] + MadeBefore(k) + @]]

\* the lists run start by start
Flushed == FoldLeft(LAMBDA acc, k : acc \o Shown(k), log, [k \in DOMAIN later |-> k])

\* a start gave an answer
HasAnswer(k) == views[k].own # {}

Walks == {"walk", "restart"}

IdleAfter(e) == IF knobs.strategy \in Walks /\ Used(e) = before THEN idle + 1 ELSE 0

Stage(s, n) == [stage |-> s, turn |-> n]

\* what comes next: a step of ils is better than the best or not, and after RestartAfter
\* that are not it goes on from a new point; memetic's global run has ended when it spent
\* nothing
Stages(e) ==
    CASE stage = "step" /\ knobs.strategy = "restart" ->
            {Stage("step", 0),
             IF turn + 1 <= RestartAfter THEN Stage("step", turn + 1)
             ELSE IF Left(e) > 0 /\ HasAnswer(1) THEN Stage("again", 0) ELSE Stage("step", 0)}
      [] stage = "global" -> {Stage(IF Used(e) = before THEN "last" ELSE "local", 0)}
      [] stage \in {"local", "last"} -> {Stage("global", 0)}
      [] knobs.strategy \in {"halving", "tiktak"} -> {Stage("step", turn + 1)}
      [] OTHER -> {Stage("step", 0)}

SampleWhileLeft(e) == Left(e) > 0        \* mutant: an iteration that spent nothing goes on

SampleAgain(e) == Left(e) > 0 /\ Used(e) # before

\* the strategy goes on after the round, to stage s
GoesOn(e, s) ==
    CASE knobs.strategy = "multistart" -> FALSE
      [] knobs.strategy = "mlsl" -> SampleAgain(e)
      [] knobs.strategy \in Walks ->
            /\ stage = "again" \/ (specs # <<>> /\ HasAnswer(1))
            /\ Left(e) > 0
            /\ s = "again" \/ IdleAfter(e) < MaxIdle
      [] knobs.strategy = "tiktak" -> turn + 1 < Searches /\ Left(e) > 0
      [] knobs.strategy = "halving" -> specs # <<>> /\ turn + 1 < Ceil2(knobs.starts)
      [] knobs.strategy = "memetic" -> stage = "global" \/ (stage = "local" /\ Left(e) > 0)

\* the better half of the arms, the better first (a stable sort: an arm without an answer
\* is behind those with one and those before it)
Halved ==
    {order \in [1..((Len(arms) + 1) \div 2) -> DOMAIN arms] :
        /\ IsInjective(order)
        /\ \A i \in DOMAIN order : \A k \in DOMAIN arms :
             ~HasAnswer(order[i]) /\ (HasAnswer(k) \/ k < order[i])
                => \E j \in 1..(i - 1) : order[j] = k}

\* the threads joined: count, rethrow the first error, merge, and the strategy's loop
EndRound ==
    /\ phase = "round"
    /\ next > Len(specs) /\ \A t \in AllThreads : at[t] = 0
    /\ log' = Flushed
    /\ counts' = [t \in AllThreads |-> IF t = 0 THEN counts[0] + MadeBefore(Len(made) + 1) ELSE 0]
    /\ counts0' = [t \in AllThreads |-> 0]              \* the next round's threads are new
    /\ ev' = IF Throws(views) THEN ev ELSE Merge(ev, views)
    /\ \E s \in Stages(ev') :
         /\ phase' = CASE Throws(views) -> "failed"
                       [] ~Throws(views) /\ ~ev'.out /\ GoesOn(ev', s.stage) -> "loop"
                       [] OTHER -> "over"
         /\ stage' = s.stage
         /\ turn' = s.turn
         \* ils's new point belongs to the step it follows
         /\ idle' = IF s.stage = "again" THEN idle ELSE IdleAfter(ev')
         /\ before' = IF s.stage = "again" THEN before ELSE Used(ev')
    /\ drawn' = IF knobs.strategy = "mlsl" THEN 0 ELSE drawn
    /\ IF knobs.strategy = "halving" /\ phase' = "loop"
       THEN \E order \in Halved : arms' = [k \in DOMAIN order |-> arms[order[k]]]
       ELSE UNCHANGED arms
    /\ specs' = <<>> /\ views' = <<>> /\ later' = <<>> /\ made' = <<>>
    /\ next' = 1
    /\ base' = 0
    /\ UNCHANGED <<knobs, at>>

NextRounds ==
    \/ \E x \in Points : Draw(x)
    \/ StartRound
    \/ \E t \in AllThreads : Claim(t)
    \/ \E t \in AllThreads : Step(t)
    \/ \E t \in AllThreads : Finish(t)
    \/ EndRound

\* the strategy's thread runs, and so does every thread of the pool
FairRounds ==
    /\ WF_roundVars(EndRound) /\ WF_roundVars(StartRound)
    /\ WF_roundVars(\E x \in Points : Draw(x))
    /\ \A t \in AllThreads : WF_roundVars(Claim(t) \/ Step(t) \/ Finish(t))

-----------------------------------------------------------------------------
(* Properties. *)

\* A thread runs a start of the round, and no two the same.
RoundsTypeOK ==
    /\ {before, drawn, idle, turn} \subseteq Nat
    /\ DOMAIN views = DOMAIN specs /\ DOMAIN later = DOMAIN specs /\ DOMAIN made = DOMAIN specs
    /\ next \in 1..(Len(specs) + 1)
    /\ \A t \in AllThreads :
         /\ at[t] \in 0..(next - 1) /\ counts[t] \in Nat /\ counts0[t] \in 0..counts[t]
         /\ at[t] # 0 => phase = "round" /\ views[at[t]].state # "new"
    /\ \A t, u \in AllThreads : at[t] = at[u] /\ at[t] # 0 => t = u

\* "1 thread and 12 give the same run, bit for bit", and "any number of threads gives the
\* count of 1 thread": when a round ends, what the problem's functions counted - in its
\* order, each call with the repairs it saw -, the strategy's own counter, the archive and
\* whether the round throws are what the starts run one after the other give
\* (strategy.hpp: the deferred calls, the repair counts, the merge in order).
SameAsOneThread ==
    [][phase = "round" /\ phase' # "round" =>
         /\ log' = OneThread.log
         /\ counts'[0] = OneThread.count
         /\ (phase' = "failed") = Throws(OneThread.views)
         /\ ~Throws(OneThread.views) => ev' = Merge(ev, OneThread.views)]_roundVars

\* STRAT-6: what a round adds to what the run has spent, gradients included, is at most what
\* its starts were given, however little the inner solver counts for a gradient; and they
\* were given at most the evaluations left, however many starts share them.
RoundWithinGiven ==
    [][phase = "round" /\ phase' # "round" =>
         LET given == FoldLeft(LAMBDA a, s : a + s.fresh, 0, specs)
         IN  Used(ev') - Used(ev) <= given /\ given <= Left(ev)]_roundVars
=============================================================================
