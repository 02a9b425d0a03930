----------------------------- MODULE DataVault -----------------------------
(***************************************************************************)
(* The vault that holds an algorithm's points (data_vault.hpp), driven by  *)
(* one run (run_core.hpp): a set-up, then steps; before a step the driver  *)
(* may move the epsilon level and lower the tolerance of the equality,     *)
(* and the algorithm brings the copies it keeps to the vault's present     *)
(* when present() has moved.  Inside a step it writes, evaluates, copies,  *)
(* archives and drops points in any order.                                 *)
(*                                                                         *)
(* A point is a model value; Outcome is what the problem makes of it: one  *)
(* objective f, one inequality g (g <= 0 satisfied) and the |h| of one     *)
(* equality, or Fails, a value that is not finite.                         *)
(***************************************************************************)
EXTENDS Integers, Sequences, FiniteSets

CONSTANTS
    Points, NoPoint,     \* the points of the search space; a slot nothing was written to
    Outcome, Fails,      \* [Points -> [f, g, h]], or Fails
    PopSize,
    Kept,                \* places for the copies the algorithm keeps
    Tol0, TolEnd, Tols,  \* the equality's tolerances: the first, the last, those between
    Modes,               \* "level": constraint_mode = "eps_level"; "linear": eq_tol_schedule
    Theta, Tau, Alpha,   \* its schedule: a rank, and two percentages
    SetupFails,          \* under "level", an evaluation of the set-up may fail
    MaxSlots, MaxArchive, MaxSteps, MaxMoves, MaxWork    \* bounds of the model

ASSUME VaultAssumption ==
    /\ NoPoint \notin Points
    /\ \A x \in Points : Outcome[x] = Fails \/
          (Outcome[x].f \in Int /\ Outcome[x].g \in Int /\ Outcome[x].h \in Nat)
    /\ PopSize \in Nat \ {0} /\ Theta \in Nat \ {0}
    /\ Tau \in 0..100 /\ Alpha \in 0..100
    /\ Tol0 \in Nat /\ {Tol0, TolEnd} \subseteq Tols /\ Tols \subseteq 0..Tol0
    /\ {MaxSlots, MaxArchive, MaxSteps, MaxMoves, MaxWork} \subseteq Nat /\ MaxSlots >= 2 * PopSize
    /\ Modes \subseteq {"level", "linear"} /\ SetupFails \in BOOLEAN

VARIABLES
    buf,                    \* the slots
    active, free, archive,  \* who holds which
    range,                  \* fin_lo_, fin_hi_, lim_hi_; seen is FALSE before a finite value
    anyFailed,              \* failed_n_ > 0
    eqTol, level, cvMax,
    present,
    copies, seen,           \* the algorithm's: its copies, the present they were brought to
    failRaise,              \* on_failure = "raise"
    mode, phase, steps, moves,  \* the driver's
    work                        \* how many operations the algorithm has done

places == <<active, free, archive>>
values == <<buf, range, anyFailed, cvMax, present>>
core == <<copies, seen>>
driver == <<failRaise, mode, phase, steps, moves>>
vars == <<places, values, eqTol, level, core, driver, work>>

-----------------------------------------------------------------------------
(* What the vault computes of a point.                                     *)

Pos(n) == IF n > 0 THEN n ELSE 0
Least(a, b) == IF a < b THEN a ELSE b
Most(a, b) == IF a > b THEN a ELSE b

Blank == [x |-> NoPoint, dirty |-> FALSE, failed |-> FALSE, f |-> 0, g |-> 0,
          eq |-> 0, hAbs |-> -1, cvRaw |-> 0, cv |-> 0]

Slots == [x : Points \cup {NoPoint}, dirty : BOOLEAN, failed : BOOLEAN, f : Int, g : Int,
          eq : Int, hAbs : Int, cvRaw : Nat, cv : Nat]
Ranges == [seen : BOOLEAN, fLo : Int, fHi : Int, gHi : Int, eqHi : Int]

Violation(s) == Pos(s.g) + Pos(s.eq)
AtLevel(v, e) == IF v > e THEN v ELSE 0

\* A mistake: the level is left out of what a point is ranked by.
RatedRaw(s, e) == [s EXCEPT !.cvRaw = Violation(s), !.cv = Violation(s)]
Rated(s, e) == [s EXCEPT !.cvRaw = Violation(s), !.cv = AtLevel(Violation(s), e)]

WorstObjective(r) ==
    IF ~r.seen THEN 1 ELSE r.fHi + (IF r.fHi > r.fLo THEN r.fHi - r.fLo ELSE 1)
\* A mistake: the worst value seen, and not beyond it.
WorstLimitTied(r, worst) == IF r.seen THEN Pos(worst) ELSE 1
WorstLimit(r, worst) == IF r.seen THEN 2 * Pos(worst) + 1 ELSE 1

Penalized(s, r) ==
    LET g == WorstLimit(r, r.gHi)  eq == WorstLimit(r, r.eqHi)
    IN  [s EXCEPT !.f = WorstObjective(r), !.g = g, !.eq = eq, !.cvRaw = g + eq, !.cv = g + eq]

Widened(r, s) ==
    IF ~r.seen
    THEN [seen |-> TRUE, fLo |-> s.f, fHi |-> s.f, gHi |-> s.g, eqHi |-> s.eq]
    ELSE [seen |-> TRUE, fLo |-> Least(r.fLo, s.f), fHi |-> Most(r.fHi, s.f),
          gHi |-> Most(r.gHi, s.g), eqHi |-> Most(r.eqHi, s.eq)]

\* A mistake: a copy keeps the penalty it was taken with.
BringUpStale(s, r, tol, e) ==
    Rated(IF s.failed \/ s.hAbs < 0 THEN s ELSE [s EXCEPT !.eq = s.hAbs - tol], e)
BringUp(s, r, tol, e) ==
    Rated(IF s.failed THEN Penalized(s, r)
          ELSE IF s.hAbs < 0 THEN s
          ELSE [s EXCEPT !.eq = s.hAbs - tol], e)

Finite(x, tol) ==
    [Blank EXCEPT !.x = x, !.f = Outcome[x].f, !.g = Outcome[x].g,
                  !.hAbs = Outcome[x].h, !.eq = Outcome[x].h - tol]

-----------------------------------------------------------------------------
(* The slots.                                                              *)

Back(q) == q[Len(q)]
Front(q) == SubSeq(q, 1, Len(q) - 1)
Elements(q) == {q[i] : i \in DOMAIN q}
ActiveSlots == Elements(active)
Live == ActiveSlots \cup Elements(archive)

\* grow_buf, when free_ holds fewer than need
Shortage(need) == Pos(need - Len(free))
GrownBuf(need) == buf \o [i \in 1..Shortage(need) |-> Blank]
GrownFree(need) == free \o [i \in 1..Shortage(need) |-> Len(buf) + i]
Room(need) == Len(buf) + Shortage(need) <= MaxSlots

Init ==
    /\ buf = [i \in 1..(2 * PopSize) |-> Blank]
    /\ active = [i \in 1..PopSize |-> i]
    /\ free = [i \in 1..PopSize |-> PopSize + i]
    /\ archive = << >>
    /\ range = [seen |-> FALSE, fLo |-> 0, fHi |-> 0, gHi |-> 0, eqHi |-> 0]
    /\ anyFailed = FALSE
    /\ eqTol = Tol0 /\ level = 0 /\ cvMax = 0 /\ present = 0
    /\ copies = [c \in Kept |-> Blank] /\ seen = 0
    /\ failRaise \in BOOLEAN /\ mode \in Modes
    /\ phase = "setup" /\ steps = 0 /\ moves = 0 /\ work = 0

ValueTypes ==
    /\ buf \in Seq(Slots) /\ Len(buf) \in (2 * PopSize)..MaxSlots
    /\ \A i \in DOMAIN buf : buf[i].dirty => buf[i].x \in Points
    /\ {active, free, archive} \subseteq Seq(DOMAIN buf) /\ Len(archive) <= MaxArchive
    /\ range \in Ranges /\ (range.seen => range.fLo <= range.fHi)
    /\ eqTol \in Tols /\ level \in Nat /\ cvMax \in Nat
    /\ copies \in [Kept -> Slots] /\ \A c \in Kept : ~copies[c].dirty

DriverTypes ==
    /\ anyFailed \in BOOLEAN /\ present \in Nat /\ seen \in 0..present
    /\ failRaise \in BOOLEAN /\ mode \in Modes
    /\ phase \in {"setup", "level", "refresh", "step", "final", "over"}
    /\ steps \in 0..MaxSteps /\ moves \in 0..MaxMoves /\ work \in 0..MaxWork

TypeOK == ValueTypes /\ DriverTypes

-----------------------------------------------------------------------------
(* Writing and evaluating.                                                 *)

Count == work < MaxWork /\ work' = work + 1
Working == phase \in {"setup", "step"} /\ Count
MayFail(x) == (mode = "level" /\ phase = "setup" /\ ~SetupFails) => Outcome[x] # Fails

SetVariables(v, x) ==
    /\ Working /\ MayFail(x)
    /\ buf' = [buf EXCEPT ![active[v]].x = x, ![active[v]].dirty = TRUE]
    /\ UNCHANGED <<places, range, anyFailed, cvMax, present, eqTol, level, core, driver>>

\* A mistake: the failed points of the archive keep the penalty they had.
ToPenalizeActive == {j \in ActiveSlots : buf[j].failed}
ToPenalize == {j \in DOMAIN buf : buf[j].failed}

\* A mistake: only a new tolerance or level moves the count.
PresentNot(moved) == present
PresentAfter(moved) == IF moved /\ anyFailed THEN present + 1 ELSE present

\* settle and calc_cv_slot, on slot r that holds x
Settle(r, x) ==
    LET new == Finite(x, eqTol)
        wider == Widened(range, new)
        moved == wider # range
        mark == [buf[r] EXCEPT !.x = x, !.dirty = FALSE, !.failed = TRUE]
    IN  \/ /\ Outcome[x] # Fails
           /\ range' = wider
           /\ buf' = [j \in DOMAIN buf |->
                         IF j = r THEN Rated(new, level)
                         ELSE IF moved /\ anyFailed /\ j \in ToPenalize
                              THEN Penalized(buf[j], wider) ELSE buf[j]]
           /\ present' = PresentAfter(moved)
           /\ cvMax' = Most(cvMax, Violation(new))
           /\ UNCHANGED <<anyFailed, phase>>
        \/ /\ Outcome[x] = Fails /\ ~failRaise
           /\ buf' = [buf EXCEPT ![r] = Rated(Penalized(mark, range), level)]
           /\ anyFailed' = TRUE
           /\ UNCHANGED <<range, present, cvMax, phase>>
        \/ /\ Outcome[x] = Fails /\ failRaise
           /\ phase' = "over"
           /\ UNCHANGED <<buf, anyFailed, range, present, cvMax>>

\* ensure_ready, and one turn of sync: nothing is written between two turns
Evaluate(v) ==
    /\ Working /\ buf[active[v]].dirty
    /\ Settle(active[v], buf[active[v]].x)
    /\ UNCHANGED <<places, eqTol, level, core, failRaise, mode, steps, moves>>

\* seed_individual with raw values, from the caller's seed population
Seed(v, x) ==
    /\ phase = "setup" /\ Count /\ MayFail(x)
    /\ Settle(active[v], x)
    /\ UNCHANGED <<places, eqTol, level, core, failRaise, mode, steps, moves>>

Expand(k) ==
    /\ phase = "step" /\ Count /\ Room(k)
    /\ LET f == GrownFree(k)
           taken == [i \in 1..k |-> f[Len(f) + 1 - i]]
       IN  /\ active' = active \o taken
           /\ free' = SubSeq(f, 1, Len(f) - k)
           /\ buf' = [i \in DOMAIN GrownBuf(k) |->
                         IF i \in Elements(taken) THEN Blank ELSE GrownBuf(k)[i]]
    /\ UNCHANGED <<archive, range, anyFailed, cvMax, present, eqTol, level, core, driver>>

Reduce(n) ==
    /\ phase = "step" /\ Count
    /\ free' = free \o SubSeq(active, n + 1, Len(active))
    /\ active' = SubSeq(active, 1, n)
    /\ UNCHANGED <<archive, values, eqTol, level, core, driver>>

SwapActive(v, w) ==
    /\ phase = "step" /\ Count
    /\ active' = [active EXCEPT ![v] = active[w], ![w] = active[v]]
    /\ UNCHANGED <<free, archive, values, eqTol, level, core, driver>>

-----------------------------------------------------------------------------
(* Points the algorithm keeps, and the archive.                            *)

Readable(r) == ~buf[r].dirty /\ buf[r].x # NoPoint

PointOf(c, r) ==
    /\ Working /\ Readable(r)
    /\ copies' = [copies EXCEPT ![c] = buf[r]]
    /\ UNCHANGED <<places, values, eqTol, level, seen, driver>>

\* write_point
WritePoint(b, r, p) ==
    LET s == BringUp(p, range, eqTol, level)
    IN  /\ buf' = [b EXCEPT ![r] = s]
        /\ cvMax' = IF s.failed THEN cvMax ELSE Most(cvMax, s.cvRaw)
        /\ UNCHANGED <<range, anyFailed, present>>

PutPoint(v, p) ==
    /\ phase = "step" /\ Count /\ p.x # NoPoint
    /\ WritePoint(buf, active[v], p)
    /\ UNCHANGED <<places, eqTol, level, core, driver>>

CopyPoint(from, to) == Readable(active[from]) /\ PutPoint(to, buf[active[from]])

\* A mistake: the slot taken stays free.
TakeToArchiveStillFree ==
    /\ Room(1) /\ Len(archive) < MaxArchive
    /\ free' = GrownFree(1) /\ archive' = Append(archive, Back(GrownFree(1)))
    /\ UNCHANGED active
\* alloc_slot, and the slot to the archive
TakeToArchive ==
    /\ Room(1) /\ Len(archive) < MaxArchive
    /\ LET f == GrownFree(1)
       IN  free' = Front(f) /\ archive' = Append(archive, Back(f))
    /\ UNCHANGED active

ArchivePush(v) ==
    /\ Working /\ Readable(active[v]) /\ TakeToArchive
    /\ buf' = [GrownBuf(1) EXCEPT ![Back(archive')] = buf[active[v]]]
    /\ UNCHANGED <<range, anyFailed, cvMax, present, eqTol, level, core, driver>>

ArchivePushPoint(p) ==
    /\ phase = "step" /\ Count /\ p.x # NoPoint /\ TakeToArchive
    /\ WritePoint(GrownBuf(1), Back(archive'), p)
    /\ UNCHANGED <<eqTol, level, core, driver>>

ArchiveErase(i) ==
    /\ phase = "step" /\ Count
    /\ free' = Append(free, archive[i])
    /\ archive' = Front([archive EXCEPT ![i] = Back(archive)])
    /\ UNCHANGED <<active, values, eqTol, level, core, driver>>

ArchiveClear ==
    /\ phase = "step" /\ Count /\ archive # << >>
    /\ free' = free \o archive /\ archive' = << >>
    /\ UNCHANGED <<active, values, eqTol, level, core, driver>>

-----------------------------------------------------------------------------
(* The driver: the level and the tolerance.                                *)

\* A mistake: the points of the archive stay at the tolerance they had.
FollowsTolActive(i) == i \in ActiveSlots /\ ~buf[i].dirty /\ ~buf[i].failed /\ buf[i].hAbs >= 0
FollowsTol(i) == ~buf[i].dirty /\ ~buf[i].failed /\ buf[i].hAbs >= 0

Largest(S) == CHOOSE m \in S : \A n \in S : n <= m

SetEqTol(d) ==
    LET moved(i) == Rated([buf[i] EXCEPT !.eq = buf[i].hAbs - d], level)
        following == {i \in DOMAIN buf : FollowsTol(i)}
    IN  /\ eqTol' = d
        /\ IF d = eqTol
           THEN UNCHANGED <<buf, cvMax, present>>
           ELSE /\ present' = present + 1
                /\ buf' = [i \in DOMAIN buf |-> IF i \in following THEN moved(i) ELSE buf[i]]
                /\ cvMax' = Largest({cvMax} \cup {moved(i).cvRaw : i \in following})
        /\ UNCHANGED <<range, anyFailed>>

SetCvLevel(e) ==
    /\ level' = e
    /\ IF e = level
       THEN UNCHANGED <<buf, present>>
       ELSE /\ present' = present + 1
            /\ buf' = [i \in DOMAIN buf |->
                          IF buf[i].dirty THEN buf[i]
                          ELSE [buf[i] EXCEPT !.cv = AtLevel(buf[i].cvRaw, e)]]
    /\ UNCHANGED <<range, anyFailed, cvMax>>

\* the members of the population that are evaluated
Evaluated == {v \in 1..Least(Len(active), PopSize) : ~buf[active[v]].dirty}

\* the Theta-th largest violation among them
ThetaLevel ==
    LET raw(v) == buf[active[v]].cvRaw
        k == Least(Theta, Cardinality(Evaluated))
        v0 == CHOOSE v \in Evaluated :
                 /\ Cardinality({w \in Evaluated : raw(w) > raw(v)}) < k
                 /\ Cardinality({w \in Evaluated : raw(w) >= raw(v)}) >= k
    IN  IF Evaluated = {} THEN 0 ELSE raw(v0)

StartRun ==
    /\ phase = "setup" /\ phase' = "level"
    /\ SetCvLevel(IF mode = "level" THEN ThetaLevel ELSE 0)
    /\ UNCHANGED <<places, eqTol, core, failRaise, mode, steps, moves, work>>

\* Eq. 8, rules 2 to 4; the generation from which rule 4 holds is left open
NextLevel ==
    LET feasible == {v \in Evaluated : buf[active[v]].cvRaw <= 0}
        few == IF Evaluated = {} THEN Alpha > 0
               ELSE 100 * Cardinality(feasible) < Alpha * Cardinality(Evaluated)
    IN  /\ phase = "level" /\ mode = "level" /\ moves < MaxMoves
        /\ moves' = moves + 1
        /\ \E e \in {0, IF few THEN ((100 - Tau) * level) \div 100
                              ELSE ((100 + Tau) * cvMax) \div 100} : SetCvLevel(e)
        /\ UNCHANGED <<places, eqTol, core, failRaise, mode, phase, steps, work>>

NextTol(d) ==
    /\ phase = "level" /\ steps < MaxSteps /\ phase' = "refresh"
    /\ (IF mode = "linear" THEN d <= eqTol ELSE d = eqTol) /\ SetEqTol(d)
    /\ UNCHANGED <<places, level, core, failRaise, mode, steps, moves, work>>

Refresh ==
    /\ phase = "refresh" /\ phase' = "step"
    /\ seen' = present
    /\ copies' = IF seen = present THEN copies
                 ELSE [c \in Kept |-> IF copies[c].x = NoPoint THEN Blank
                                      ELSE BringUp(copies[c], range, eqTol, level)]
    /\ UNCHANGED <<places, values, eqTol, level, failRaise, mode, steps, moves, work>>

EndStep ==
    /\ phase = "step" /\ phase' = "level" /\ steps' = steps + 1
    /\ UNCHANGED <<places, values, eqTol, level, core, failRaise, mode, moves, work>>

\* the answer at the final tolerance, and its cv the violation itself
FinalTol ==
    /\ phase = "level" /\ phase' = "final"
    /\ SetEqTol(IF mode = "linear" THEN TolEnd ELSE eqTol)
    /\ UNCHANGED <<places, level, core, failRaise, mode, steps, moves, work>>
FinalLevel ==
    /\ phase = "final" /\ phase' = "over"
    /\ SetCvLevel(0)
    /\ UNCHANGED <<places, eqTol, core, failRaise, mode, steps, moves, work>>

Over == phase = "over" /\ UNCHANGED vars

CoreStep ==
    \/ \E v \in DOMAIN active, x \in Points : SetVariables(v, x)
    \/ \E v \in DOMAIN active, x \in Points : Seed(v, x)
    \/ \E v \in DOMAIN active : Evaluate(v)
    \/ \E k \in 1..PopSize : Expand(k)
    \/ \E n \in 1..(Len(active) - 1) : Reduce(n)
    \/ \E v \in DOMAIN active, w \in DOMAIN active : v < w /\ SwapActive(v, w)
    \/ \E c \in Kept, r \in Live : PointOf(c, r)
    \/ \E c \in Kept, v \in DOMAIN active : PutPoint(v, copies[c])
    \/ \E v \in DOMAIN active, w \in DOMAIN active : v # w /\ CopyPoint(v, w)
    \/ \E v \in DOMAIN active : ArchivePush(v)
    \/ \E c \in Kept : ArchivePushPoint(copies[c])
    \/ \E i \in DOMAIN archive : ArchiveErase(i)
    \/ ArchiveClear

DriverStep ==
    \/ StartRun \/ NextLevel \/ (\E d \in Tols : NextTol(d)) \/ Refresh \/ EndStep
    \/ FinalTol \/ FinalLevel

Next == CoreStep \/ DriverStep \/ Over

Spec == Init /\ [][Next]_vars

-----------------------------------------------------------------------------
(* What makes the vault correct.                                           *)

\* Every slot of the buffer has exactly one place, active, free or archive,
\* whatever was expanded, dropped, archived and erased (data_vault.hpp,
\* active_, free_ and archive_ over one pool): a slot in two places would be
\* overwritten while it is read, one in none is lost.
OnePlace ==
    LET all == active \o free \o archive
    IN  Len(all) = Len(buf) /\ Elements(all) = DOMAIN buf

\* what the vault's present makes of the point p says it is
Agrees(p) ==
    IF Outcome[p.x] = Fails
    THEN /\ p.failed /\ p.f = WorstObjective(range)
         /\ p.g = WorstLimit(range, range.gHi) /\ p.eq = WorstLimit(range, range.eqHi)
         /\ p.cvRaw = p.g + p.eq /\ p.cv = AtLevel(p.cvRaw, level)
    ELSE /\ ~p.failed /\ p.f = Outcome[p.x].f /\ p.g = Outcome[p.x].g
         /\ p.hAbs = Outcome[p.x].h /\ p.eq = p.hAbs - eqTol
         /\ p.cvRaw = Pos(p.g) + Pos(p.eq) /\ p.cv = AtLevel(p.cvRaw, level)

\* A slot in use that is not waiting for its evaluation holds what the problem
\* makes of its own variables, at the tolerance, the level and the penalty of
\* now: evaluated, seeded, copied, written back, moved to the archive, or
\* there while the tolerance, the level or the penalty moved.  One of the
\* archive never waits.
Truthful ==
    /\ \A i \in Live : ~buf[i].dirty /\ buf[i].x # NoPoint => Agrees(buf[i])
    /\ \A i \in Elements(archive) : ~buf[i].dirty

\* Between two points of the vault, one that failed and one that did not, the
\* one that failed is worse in the objective, in each constraint and in the
\* violation the algorithm ranks by: never the ideal, never preferred
\* (data_vault.hpp, FAILED EVALUATIONS).  Only while the tolerance stands
\* where it was: set_eq_tol lowers it without moving the penalty.
FailedIsWorst ==
    eqTol = Tol0 => \A i, j \in {k \in Live : Readable(k)} :
        buf[i].failed /\ ~buf[j].failed =>
            /\ buf[j].f < buf[i].f /\ buf[j].g < buf[i].g /\ buf[j].eq < buf[i].eq
            /\ buf[j].cv < buf[i].cv

\* A point that failed equals every other that did, in all the algorithm
\* compares, whenever each of them failed (FAILED EVALUATIONS).
FailuresEqual ==
    \A i, j \in {k \in Live : Readable(k) /\ buf[k].failed} :
        /\ buf[i].f = buf[j].f /\ buf[i].g = buf[j].g /\ buf[i].eq = buf[j].eq
        /\ buf[i].cvRaw = buf[j].cvRaw /\ buf[i].cv = buf[j].cv

\* A copy the algorithm keeps and refreshes only when present() has moved
\* (mosa.hpp, inner_archive.hpp) is what the vault would make of it now,
\* as long as present() stands where the algorithm saw it: present() moves
\* with everything a copy depends on.
CopiesCurrent == seen = present => \A c \in Kept : copies[c].x # NoPoint => Agrees(copies[c])
=============================================================================
