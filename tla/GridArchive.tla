--------------------------- MODULE GridArchive ---------------------------
(***************************************************************************)
(* The run archive at two objectives (grid_archive.hpp): the nondominated  *)
(* points offered so far, at most one in each cell of a grid, and beside   *)
(* the grid the best point of each objective.  Points lie in numbered      *)
(* slots, which are numbered anew when the store is full and more than     *)
(* half of it is dead.  Objectives are integers and the grid's step is a   *)
(* fraction of the frame, so that a point's cell and its distance to the   *)
(* cell's corner are exact.                                                *)
(***************************************************************************)
EXTENDS Integers, Sequences, FiniteSets, SequencesExt, FiniteSetsExt

CONSTANTS
    Cuts,          \* 1/delta: the cells a span is cut into
    Store, Slack   \* slots before the store grows (256), and compact()'s 64

ASSUME ArchiveAssumption == Cuts \in Nat \ {0} /\ Store \in Nat \ {0} /\ Slack \in Nat

Objectives == 1..2
NoFrame == <<>>

\* f with v at x; a step for each number of S, in rising order.
With(f, x, v) == [y \in DOMAIN f \cup {x} |-> IF y = x THEN v ELSE f[y]]
Rising(step(_, _), base, S) == MapThenFoldSet(LAMBDA b, k : step(k, b), base, LAMBDA b : b, Max, S)

\* A new archive; lo and span are the problem's frame, or none yet.  Of the slots
\* of F some are live, and of those some are in a cell.
NewArchive(lo, span) ==
    [F |-> <<>>, live |-> {}, cellOf |-> [s \in {} |-> 0], cell |-> [c \in {} |-> 0],
     ext |-> [j \in Objectives |-> 0], lo |-> lo, span |-> span, own |-> lo = NoFrame, cap |-> Store]

IsExtreme(a, s) == \E j \in Objectives : a.ext[j] = s

Without(a, S) ==
    [a EXCEPT !.live = @ \ S,
              !.cellOf = [s \in DOMAIN @ \ S |-> @[s]],
              !.cell = [c \in {d \in DOMAIN @ : @[d] \notin S} |-> @[c]],
              !.ext = [j \in Objectives |-> IF @[j] \in S THEN 0 ELSE @[j]]]

-----------------------------------------------------------------------------
(* Whether f is stored, and what it beats: the points form a staircase, f2  *)
(* falling as f1 rises, and one look at the step below f decides.           *)

Covered(a, f) ==
    LET before == {s \in a.live : a.F[s][1] <= f[1]}
    IN \E s \in before : (\A t \in before : a.F[t][1] <= a.F[s][1]) /\ a.F[s][2] <= f[2]

\* A mistake: all that lie beyond f are taken for beaten.
BeatenBeyond(a, f) == {s \in a.live : a.F[s][1] >= f[1]}

\* From f on up to the first step that is lower than f.
Beaten(a, f) ==
    LET from == {s \in a.live : a.F[s][1] >= f[1]}
    IN {s \in from : \A t \in from : a.F[t][1] <= a.F[s][1] => a.F[t][2] >= f[2]}

-----------------------------------------------------------------------------
(* The store.                                                              *)

\* A live slot's number among the live ones, and the slot of a number.
Rank(a, s) == Cardinality({t \in a.live : t <= s})
Ranked(a, i) == CHOOSE s \in a.live : Rank(a, s) = i

\* A mistake: the extremes keep the numbers their slots had.
CompactKeepsExt(a) ==
    LET slots == 1..Cardinality(a.live)
        own == [i \in {Rank(a, s) : s \in DOMAIN a.cellOf} |-> a.cellOf[Ranked(a, i)]]
    IN [a EXCEPT !.F = [i \in slots |-> @[Ranked(a, i)]], !.live = slots, !.cellOf = own,
                 !.cell = [c \in Range(own) |-> CHOOSE i \in DOMAIN own : own[i] = c]]

Compact(a) ==
    LET slots == 1..Cardinality(a.live)
        own == [i \in {Rank(a, s) : s \in DOMAIN a.cellOf} |-> a.cellOf[Ranked(a, i)]]
    IN [a EXCEPT !.F = [i \in slots |-> @[Ranked(a, i)]], !.live = slots, !.cellOf = own,
                 !.cell = [c \in Range(own) |-> CHOOSE i \in DOMAIN own : own[i] = c],
                 !.ext = [j \in Objectives |-> IF @[j] = 0 THEN 0 ELSE Rank(a, @[j])]]

MadeRoom(a) ==
    IF Len(a.F) # a.cap THEN a
    ELSE LET b == IF Len(a.F) > 2 * Cardinality(a.live) + Slack THEN Compact(a) ELSE a
         IN IF Len(b.F) = b.cap THEN [b EXCEPT !.cap = 2 * @] ELSE b

Appended(a, f) ==
    LET b == MadeRoom(a)
    IN [b EXCEPT !.F = Append(@, f), !.live = @ \cup {Len(b.F) + 1}]

-----------------------------------------------------------------------------
(* The grid.                                                               *)

Key(a, f) == [j \in Objectives |-> ((f[j] - a.lo[j]) * Cuts) \div a.span[j]]

\* The squared distance to the cell's corner, over the spans' product.
Corner(a, f) ==
    LET in(j) == ((f[j] - a.lo[j]) * Cuts) % a.span[j]
    IN (in(1) * a.span[2]) ^ 2 + (in(2) * a.span[1]) ^ 2

InCell(a, s) ==
    LET c == Key(a, a.F[s])
    IN [a EXCEPT !.cellOf = With(@, s, c), !.cell = With(@, c, s)]

\* Slot s put into its cell: the point nearer the corner stays.
Place(a, s) ==
    LET c == Key(a, a.F[s])
    IN IF c \notin DOMAIN a.cell THEN InCell(a, s)
       ELSE IF Corner(a, a.F[s]) < Corner(a, a.F[a.cell[c]])
       THEN InCell(Without(a, {a.cell[c]}), s)
       ELSE Without(a, {s})

Drifted(a, f) ==
    \/ a.lo = NoFrame
    \/ \E j \in Objectives : \/ 4 * f[j] < 4 * a.lo[j] - a.span[j]
                             \/ 4 * f[j] > 4 * a.lo[j] + 5 * a.span[j]

\* The frame of the points stored.
Bounds(a) ==
    LET lo == [j \in Objectives |-> Min({a.F[s][j] : s \in a.live})]
        wide == [j \in Objectives |-> Max({a.F[s][j] : s \in a.live}) - lo[j]]
    IN [a EXCEPT !.lo = lo, !.span = [j \in Objectives |-> Max({1, wide[j]})]]

\* Slots put back into the grid: s where the extremes, and the slot the caller places
\* itself, stay outside; o where it is no extreme any more.
Put(ext, except, b, s) ==
    IF s \in b.live /\ s # except /\ (\A j \in Objectives : ext[j] # s) THEN Place(b, s) ELSE b
Back(c, o) == IF o \in c.live /\ ~IsExtreme(c, o) THEN Place(c, o) ELSE c

\* A mistake: the cells of the grid of before are kept beside the new ones.
RegridOver(a, except) ==
    Rising(LAMBDA b, s : Put(a.ext, except, b, s), Bounds(a), DOMAIN a.F)

\* The frame taken from the points stored, and every cell anew.
Regrid(a, except) ==
    LET empty == [Bounds(a) EXCEPT !.cell = [c \in {} |-> 0], !.cellOf = [s \in {} |-> 0]]
    IN Rising(LAMBDA b, s : Put(a.ext, except, b, s), empty, DOMAIN a.F)

-----------------------------------------------------------------------------
(* add.                                                                    *)

\* Slot s is the best of the objectives new; those it dethrones rejoin the grid
\* (at two objectives at most one: a point below both would have beaten them).
Crown(a, s, new) ==
    LET b == [a EXCEPT !.ext = [j \in Objectives |-> IF j \in new THEN s ELSE @[j]]]
    IN Rising(Back, b, {a.ext[j] : j \in new} \ {0})

\* The last slot takes its place, under the frame it may have moved.
Reframed(a) == IF a.own /\ Drifted(a, Last(a.F)) THEN Regrid(a, Len(a.F)) ELSE a

Seated(a, s) ==
    LET new == {j \in Objectives : a.ext[j] = 0 \/ a.F[s][j] < a.F[a.ext[j]][j]}
    IN IF new = {} THEN Place(a, s) ELSE Crown(a, s, new)

SeatedLast(a) == Seated(a, Len(a.F))

Add(a, f) ==
    IF Covered(a, f) THEN a ELSE SeatedLast(Reframed(Appended(Without(a, Beaten(a, f)), f)))

-----------------------------------------------------------------------------
(* What an archive promises of the points offered to it.                   *)

Weakly(p, q) == p[1] <= q[1] /\ p[2] <= q[2]

\* No point kept is dominated by another.
Nondominated(a) == \A s, t \in a.live : s # t => ~Weakly(a.F[s], a.F[t])

\* Each point kept is an objective's best or alone in its cell, and the grid
\* lists those and no others.
GridTrue(a) ==
    /\ \A s \in a.live : IsExtreme(a, s) # (s \in DOMAIN a.cellOf)
    /\ \A s \in DOMAIN a.cellOf :
          s \in a.live /\ a.cellOf[s] = Key(a, a.F[s]) /\ a.cell[a.cellOf[s]] = s
    /\ \A c \in DOMAIN a.cell : a.cell[c] \in DOMAIN a.cellOf /\ a.cellOf[a.cell[c]] = c

\* The best value offered of each objective is kept.
HasExtremes(a, offered) ==
    \A j \in Objectives : offered # {} =>
        a.ext[j] \in a.live /\ a.F[a.ext[j]][j] = Min({f[j] : f \in offered})

\* Every point offered has a point kept in its cell or one that dominates it.
Covers(a, offered) ==
    \A f \in offered : \E s \in a.live : Weakly(Key(a, a.F[s]), Key(a, f))
=============================================================================
