-------------------------- MODULE DataVaultProofs --------------------------
(***************************************************************************)
(* That the vault's points are what the problem makes of them, and every   *)
(* slot in one place, for any points, sizes, tolerances and schedules.     *)
(***************************************************************************)
EXTENDS DataVault, FiniteSetTheorems, SequenceTheorems, WellFoundedInduction, TLAPS

-----------------------------------------------------------------------------
(* The inductive invariant.                                                *)

\* The slots of three lists are those of a buffer of n, each counted once.
Placed(a, f, r, n) ==
    Len(a) + Len(f) + Len(r) = n /\ Elements(a) \cup Elements(f) \cup Elements(r) = 1..n

BufTypes ==
    /\ buf \in Seq(Slots) /\ Len(buf) \in (2 * PopSize)..MaxSlots
    /\ \A i \in DOMAIN buf : buf[i].dirty => buf[i].x \in Points

ListsIn ==
    LET n == Len(buf)
    IN  /\ active \in Seq(1..n) /\ free \in Seq(1..n) /\ archive \in Seq(1..n)
        /\ Len(archive) <= MaxArchive /\ Placed(active, free, archive, n)

RestTypes ==
    /\ range \in Ranges /\ (range.seen => range.fLo <= range.fHi)
    /\ eqTol \in Tols /\ level \in Nat /\ cvMax \in Nat
    /\ copies \in [Kept -> Slots] /\ \A c \in Kept : ~copies[c].dirty

\* A step is begun only while there is one left.
DriverIn == DriverTypes /\ (phase \in {"refresh", "step"} => steps < MaxSteps)

PlaceInv == BufTypes /\ ListsIn /\ RestTypes /\ DriverIn

\* A point that is what the problem makes of its variables; of one that failed
\* only that it failed.
Genuine(p) ==
    /\ p.x \in Points /\ ~p.dirty /\ (p.failed <=> Outcome[p.x] = Fails)
    /\ ~p.failed => p.f = Outcome[p.x].f /\ p.g = Outcome[p.x].g /\ p.hAbs = Outcome[p.x].h

\* The range of what was evaluated holds it.  Its equality is compared at the
\* first tolerance: the range was taken at that one or a later one.
Within(p, r) ==
    ~p.failed => /\ r.seen /\ r.fLo <= p.f /\ p.f <= r.fHi
                 /\ p.g <= r.gHi /\ p.hAbs - Tol0 <= r.eqHi

Right(p, r, some) == Genuine(p) /\ Within(p, r) /\ (p.failed => some)

\* Agrees, of any range, tolerance and level.
AgreesAt(p, r, tol, e) ==
    IF Outcome[p.x] = Fails
    THEN /\ p.failed /\ p.f = WorstObjective(r)
         /\ p.g = WorstLimit(r, r.gHi) /\ p.eq = WorstLimit(r, r.eqHi)
         /\ p.cvRaw = p.g + p.eq /\ p.cv = AtLevel(p.cvRaw, e)
    ELSE /\ ~p.failed /\ p.f = Outcome[p.x].f /\ p.g = Outcome[p.x].g
         /\ p.hAbs = Outcome[p.x].h /\ p.eq = p.hAbs - tol
         /\ p.cvRaw = Pos(p.g) + Pos(p.eq) /\ p.cv = AtLevel(p.cvRaw, e)

SlotsInv ==
    /\ \A i \in Live : Readable(i) => /\ Right(buf[i], range, anyFailed)
                                      /\ AgreesAt(buf[i], range, eqTol, level)
    /\ \A i \in Elements(archive) : ~buf[i].dirty

CopiesInv ==
    \A c \in Kept : copies[c].x # NoPoint =>
        /\ Right(copies[c], range, anyFailed)
        /\ seen = present => AgreesAt(copies[c], range, eqTol, level)

\* The violation no point that did not fail goes beyond, under a level.
Bound(r) == IF r.seen THEN Pos(r.gHi) + Pos(r.eqHi) ELSE 0

\* The level stays below what a point that failed is worth, and the largest
\* violation within the range that what a point that failed is worth goes by.
LevelInv ==
    /\ level <= 2 * Bound(range) + 1
    /\ mode = "level" => eqTol = Tol0 /\ cvMax <= Bound(range)
    /\ mode = "linear" \/ phase = "setup" => level = 0

\* Under a level no point of the set-up fails.
SetupInv ==
    mode = "level" /\ phase = "setup" =>
        \A i \in ActiveSlots : buf[i].x \in Points => Outcome[buf[i].x] # Fails

\* A slot nothing was written to stays as it was made.
BlankInv == \A i \in DOMAIN buf : buf[i].x = NoPoint => buf[i] = Blank

VaultInv == BlankInv /\ SlotsInv /\ CopiesInv /\ LevelInv /\ SetupInv

-----------------------------------------------------------------------------
(* Sequences of slots.                                                     *)

LEMMA ElementsOf ==
  ASSUME NEW S, NEW s \in Seq(S), NEW t \in Seq(S)
  PROVE  /\ Elements(s) \subseteq S
         /\ \A y : y \in Elements(s) <=> \E i \in 1..Len(s) : s[i] = y
         /\ Elements(s \o t) = Elements(s) \cup Elements(t) /\ Len(s \o t) = Len(s) + Len(t)
         /\ s \o t \in Seq(S)
         /\ Elements(<<>>) = {} /\ <<>> \in Seq(S) /\ Len(<<>>) = 0
<1>1. DOMAIN s = 1..Len(s) /\ DOMAIN t = 1..Len(t) /\ Len(s) \in Nat /\ Len(t) \in Nat
  OBVIOUS
<1>2. Elements(s) \subseteq S /\ \A y : y \in Elements(s) <=> \E i \in 1..Len(s) : s[i] = y
  BY <1>1 DEF Elements
<1>3. s \o t \in Seq(S) /\ Len(s \o t) = Len(s) + Len(t) /\ DOMAIN (s \o t) = 1..(Len(s) + Len(t))
  BY <1>1
<1>4. /\ \A i \in 1..Len(s) : (s \o t)[i] = s[i]
      /\ \A i \in 1..Len(t) : (s \o t)[Len(s) + i] = t[i]
  BY <1>1
<1>5. Elements(s \o t) = Elements(s) \cup Elements(t)
  <2>1. ASSUME NEW y \in Elements(s) \cup Elements(t) PROVE y \in Elements(s \o t)
    <3>1. CASE y \in Elements(s)
      <4>1. PICK i \in 1..Len(s) : s[i] = y
        BY <1>1, <3>1 DEF Elements
      <4>2. i \in 1..(Len(s) + Len(t)) /\ (s \o t)[i] = y
        BY <1>1, <1>4, <4>1
      <4>3. QED
        BY <1>3, <4>2 DEF Elements
    <3>2. CASE y \in Elements(t)
      <4>1. PICK i \in 1..Len(t) : t[i] = y
        BY <1>1, <3>2 DEF Elements
      <4>2. Len(s) + i \in 1..(Len(s) + Len(t)) /\ (s \o t)[Len(s) + i] = y
        BY <1>1, <1>4, <4>1
      <4>3. QED
        BY <1>3, <4>2 DEF Elements
    <3>3. QED
      BY <2>1, <3>1, <3>2
  <2>2. ASSUME NEW y \in Elements(s \o t) PROVE y \in Elements(s) \cup Elements(t)
    <3>1. PICK k \in 1..(Len(s) + Len(t)) : (s \o t)[k] = y
      BY <1>3, <2>2 DEF Elements
    <3>2. CASE k \in 1..Len(s)
      BY <1>1, <1>4, <3>1, <3>2 DEF Elements
    <3>3. CASE k \notin 1..Len(s)
      <4>1. k - Len(s) \in 1..Len(t) /\ Len(s) + (k - Len(s)) = k
        BY <1>1, <3>1, <3>3
      <4>2. t[k - Len(s)] = y
        BY <1>4, <3>1, <4>1
      <4>3. QED
        BY <1>1, <4>1, <4>2 DEF Elements
    <3>4. QED
      BY <3>2, <3>3
  <2>3. QED
    BY <2>1, <2>2
<1>6. Elements(<<>>) = {} /\ <<>> \in Seq(S) /\ Len(<<>>) = 0
  BY DEF Elements
<1>7. QED
  BY <1>2, <1>3, <1>5, <1>6

LEMMA Joined ==
  ASSUME NEW S, NEW s \in Seq(S), NEW t \in Seq(S)
  PROVE  /\ s \o t \in Seq(S) /\ Len(s \o t) = Len(s) + Len(t)
         /\ DOMAIN (s \o t) = 1..(Len(s) + Len(t))
         /\ \A i \in 1..Len(s) : (s \o t)[i] = s[i]
         /\ \A i \in 1..Len(t) : (s \o t)[Len(s) + i] = t[i]
OBVIOUS

LEMMA Wider == ASSUME NEW S, NEW T, S \subseteq T PROVE Seq(S) \subseteq Seq(T)
<1>1. ASSUME NEW s \in Seq(S) PROVE s \in Seq(T)
  <2>1. Len(s) \in Nat /\ s \in [1..Len(s) -> S]
    OBVIOUS
  <2>2. s \in [1..Len(s) -> T]
    BY <2>1
  <2>3. QED
    BY <2>1, <2>2
<1>2. QED
  BY <1>1

LEMMA OneMore ==
  ASSUME NEW S, NEW s \in Seq(S), NEW x \in S
  PROVE  /\ Append(s, x) \in Seq(S) /\ Len(Append(s, x)) = Len(s) + 1
         /\ Elements(Append(s, x)) = Elements(s) \cup {x}
<1>1. /\ DOMAIN Append(s, x) = 1..(Len(s) + 1) /\ Append(s, x)[Len(s) + 1] = x
      /\ Append(s, x) \in Seq(S) /\ Len(Append(s, x)) = Len(s) + 1
      /\ \A i \in 1..Len(s) : Append(s, x)[i] = s[i]
  OBVIOUS
<1>2. DOMAIN s = 1..Len(s) /\ Len(s) \in Nat
  OBVIOUS
<1>3. Elements(Append(s, x)) = Elements(s) \cup {x}
  BY <1>1, <1>2 DEF Elements
<1>4. QED
  BY <1>1, <1>3

LEMMA FirstPart ==
  ASSUME NEW S, NEW s \in Seq(S), NEW k \in Nat, k <= Len(s), NEW a, a = SubSeq(s, 1, k)
  PROVE  a \in Seq(S) /\ Len(a) = k /\ DOMAIN a = 1..k /\ \A i \in 1..k : a[i] = s[i]
<1>1. Len(s) \in Nat /\ DOMAIN s = 1..Len(s) /\ k \in Nat /\ k <= Len(s)
  OBVIOUS
<1>2. QED
  BY <1>1

\* A sequence in two parts.
LEMMA Parts ==
  ASSUME NEW S, NEW s \in Seq(S), NEW k \in 0..Len(s)
  PROVE  /\ SubSeq(s, 1, k) \in Seq(S) /\ Len(SubSeq(s, 1, k)) = k
         /\ SubSeq(s, k + 1, Len(s)) \in Seq(S) /\ Len(SubSeq(s, k + 1, Len(s))) = Len(s) - k
         /\ Elements(s) = Elements(SubSeq(s, 1, k)) \cup Elements(SubSeq(s, k + 1, Len(s)))
<1> DEFINE a == SubSeq(s, 1, k)
           b == SubSeq(s, k + 1, Len(s))
<1>1. Len(s) \in Nat /\ DOMAIN s = 1..Len(s) /\ k \in Nat /\ k <= Len(s)
  OBVIOUS
<1>2. a \in Seq(S) /\ Len(a) = k /\ DOMAIN a = 1..k /\ \A i \in 1..k : a[i] = s[i]
  BY <1>1
<1>3. /\ b \in Seq(S) /\ Len(b) = Len(s) - k /\ DOMAIN b = 1..(Len(s) - k)
      /\ \A i \in 1..(Len(s) - k) : b[i] = s[k + i]
  <2>1. k + 1 \in 1..(Len(s) + 1) /\ Len(s) \in (k + 1) - 1..Len(s)
    BY <1>1
  <2>2. /\ b \in Seq(S) /\ Len(b) = (IF k + 1 <= Len(s) THEN Len(s) - (k + 1) + 1 ELSE 0)
        /\ \A i \in 1..(Len(s) - (k + 1) + 1) : b[i] = s[(k + 1) + i - 1]
    BY <2>1, SubSeqProperties
  <2> HIDE DEF b
  <2>3. Len(b) = Len(s) - k /\ Len(s) - (k + 1) + 1 = Len(s) - k
    <3>1. \A n, j \in Nat : j <= n => /\ n - (j + 1) + 1 = n - j
                                      /\ (IF j + 1 <= n THEN n - (j + 1) + 1 ELSE 0) = n - j
      OBVIOUS
    <3>2. QED
      BY <1>1, <2>2, <3>1
  <2>4. \A i \in 1..(Len(s) - k) : b[i] = s[k + i]
    <3>1. ASSUME NEW i \in 1..(Len(s) - k) PROVE b[i] = s[k + i]
      <4>1. (k + 1) + i - 1 = k + i
        BY <1>1
      <4>2. QED
        BY <2>2, <2>3, <4>1
    <3>2. QED
      BY <3>1
  <2>5. QED
    BY <2>2, <2>3, <2>4
<1> HIDE DEF a, b
<1>4. ASSUME NEW y \in Elements(s) PROVE y \in Elements(a) \cup Elements(b)
  <2>1. PICK i \in 1..Len(s) : s[i] = y
    BY <1>1, <1>4 DEF Elements
  <2>2. CASE i <= k
    BY <1>1, <1>2, <2>1, <2>2 DEF Elements
  <2>3. CASE i > k
    <3>1. i - k \in 1..(Len(s) - k) /\ k + (i - k) = i
      BY <1>1, <2>1, <2>3
    <3>2. b[i - k] = y
      BY <1>3, <2>1, <3>1
    <3>3. QED
      BY <1>3, <3>1, <3>2 DEF Elements
  <2>4. QED
    BY <1>1, <2>2, <2>3
<1>5. Elements(a) \cup Elements(b) \subseteq Elements(s)
  <2>1. \A i \in 1..(Len(s) - k) : k + i \in 1..Len(s)
    BY <1>1
  <2>2. QED
    <3>1. ASSUME NEW y \in Elements(a) PROVE y \in Elements(s)
      BY <1>1, <1>2, <3>1 DEF Elements
    <3>2. ASSUME NEW y \in Elements(b) PROVE y \in Elements(s)
      <4>1. PICK i \in 1..(Len(s) - k) : b[i] = y
        BY <1>3, <3>2 DEF Elements
      <4>2. k + i \in 1..Len(s) /\ s[k + i] = y
        BY <1>3, <2>1, <4>1
      <4>3. QED
        BY <1>1, <4>2 DEF Elements
    <3>3. QED
      BY <3>1, <3>2
<1>6. QED
  BY <1>2, <1>3, <1>4, <1>5 DEF a, b

\* A sequence of as many elements as it has places has each of them once.
LEMMA EachOnce ==
  ASSUME NEW n \in Nat, NEW s \in Seq(1..n), Len(s) = n, Elements(s) = 1..n
  PROVE  \A i, k \in 1..n : s[i] = s[k] => i = k
<1>1. DOMAIN s = 1..n /\ s \in [1..n -> 1..n]
  OBVIOUS
<1>2. s \in Surjection(1..n, 1..n)
  BY <1>1 DEF Surjection, Elements
<1>3. IsFiniteSet(1..n)
  BY FS_Interval
<1>4. s \in Injection(1..n, 1..n)
  BY <1>2, <1>3, FS_SurjSameCardinalityImpliesInj
<1>5. QED
  BY <1>1, <1>4 DEF Injection, IsInjective

-----------------------------------------------------------------------------
(* What is computed of a point.                                            *)

LEMMA Numbers ==
  /\ \A n \in Int : Pos(n) \in Nat /\ n <= Pos(n) /\ (n > 0 => Pos(n) = n) /\ (n <= 0 => Pos(n) = 0)
  /\ \A a, b \in Int : a <= b => Pos(a) <= Pos(b)
  /\ \A a, b \in Int : Least(a, b) \in {a, b} /\ Least(a, b) <= a /\ Least(a, b) <= b
  /\ \A a, b \in Int : Most(a, b) \in {a, b} /\ Most(a, b) >= a /\ Most(a, b) >= b
  /\ \A v, e \in Nat : AtLevel(v, e) \in Nat /\ (v > e => AtLevel(v, e) = v)
<1>1. \A n \in Int : Pos(n) \in Nat /\ n <= Pos(n) /\ (n > 0 => Pos(n) = n) /\ (n <= 0 => Pos(n) = 0)
  BY DEF Pos
<1>2. \A a, b \in Int : a <= b => Pos(a) <= Pos(b)
  BY DEF Pos
<1>3. \A a, b \in Int : Least(a, b) \in {a, b} /\ Least(a, b) <= a /\ Least(a, b) <= b
  BY DEF Least
<1>4. \A a, b \in Int : Most(a, b) \in {a, b} /\ Most(a, b) >= a /\ Most(a, b) >= b
  BY DEF Most
<1>5. \A v, e \in Nat : AtLevel(v, e) \in Nat /\ (v > e => AtLevel(v, e) = v)
  BY DEF AtLevel
<1>6. QED
  BY <1>1, <1>2, <1>3, <1>4, <1>5

LEMMA BlankIs == Blank \in Slots /\ Blank.x = NoPoint /\ ~Blank.dirty
BY DEF Blank, Slots

\* A point keeps its values when its violations are put together.
LEMMA RatedIs ==
  ASSUME NEW s \in Slots, NEW e \in Nat
  PROVE  LET t == Rated(s, e) IN
         /\ t \in Slots
         /\ t.x = s.x /\ t.dirty = s.dirty /\ t.failed = s.failed
         /\ t.f = s.f /\ t.g = s.g /\ t.eq = s.eq /\ t.hAbs = s.hAbs
         /\ t.cvRaw = Pos(s.g) + Pos(s.eq) /\ t.cv = AtLevel(t.cvRaw, e)
<1>1. s.g \in Int /\ s.eq \in Int
  BY DEF Slots
<1>2. Violation(s) = Pos(s.g) + Pos(s.eq) /\ Violation(s) \in Nat
  <2>1. Pos(s.g) \in Nat /\ Pos(s.eq) \in Nat
    BY <1>1, Numbers
  <2>2. QED
    BY <2>1 DEF Violation
<1>3. AtLevel(Violation(s), e) \in Nat
  BY <1>2, Numbers
<1> HIDE DEF Violation
<1>4. QED
  BY <1>2, <1>3 DEF Rated, Slots

LEMMA WorstIs ==
  ASSUME NEW r \in Ranges, r.seen => r.fLo <= r.fHi
  PROVE  /\ WorstObjective(r) \in Int /\ (r.seen => WorstObjective(r) > r.fHi)
         /\ WorstLimit(r, r.gHi) \in Nat /\ WorstLimit(r, r.eqHi) \in Nat
         /\ r.seen => WorstLimit(r, r.gHi) > Pos(r.gHi) /\ WorstLimit(r, r.eqHi) > Pos(r.eqHi)
         /\ Bound(r) \in Nat
         /\ WorstLimit(r, r.gHi) + WorstLimit(r, r.eqHi) = 2 * Bound(r) + 2
<1>1. r.seen \in BOOLEAN /\ r.fLo \in Int /\ r.fHi \in Int /\ r.gHi \in Int /\ r.eqHi \in Int
  BY DEF Ranges
<1>2. Pos(r.gHi) \in Nat /\ Pos(r.eqHi) \in Nat
  BY <1>1, Numbers
<1>3. WorstObjective(r) \in Int /\ (r.seen => WorstObjective(r) > r.fHi)
  BY <1>1 DEF WorstObjective
<1>4. QED
  BY <1>1, <1>2, <1>3 DEF WorstLimit, Bound

LEMMA PenalizedIs ==
  ASSUME NEW s \in Slots, NEW r \in Ranges, r.seen => r.fLo <= r.fHi
  PROVE  LET t == Penalized(s, r) IN
         /\ t \in Slots
         /\ t.x = s.x /\ t.dirty = s.dirty /\ t.failed = s.failed /\ t.hAbs = s.hAbs
         /\ t.f = WorstObjective(r) /\ t.g = WorstLimit(r, r.gHi) /\ t.eq = WorstLimit(r, r.eqHi)
         /\ t.cvRaw = t.g + t.eq /\ t.cv = t.cvRaw /\ t.cvRaw = 2 * Bound(r) + 2
         /\ Pos(t.g) = t.g /\ Pos(t.eq) = t.eq
<1> DEFINE g == WorstLimit(r, r.gHi)
           q == WorstLimit(r, r.eqHi)
           w == WorstObjective(r)
<1>1. w \in Int /\ g \in Nat /\ q \in Nat /\ g + q = 2 * Bound(r) + 2
  BY WorstIs
<1>2. Penalized(s, r) = [s EXCEPT !.f = w, !.g = g, !.eq = q, !.cvRaw = g + q, !.cv = g + q]
  BY DEF Penalized
<1>3. Pos(g) = g /\ Pos(q) = q
  BY <1>1 DEF Pos
<1> HIDE DEF g, q, w
<1>4. QED
  <2>1. g \in Int /\ q \in Int /\ g + q \in Nat
    BY <1>1
  <2>2. /\ Penalized(s, r) \in Slots
        /\ Penalized(s, r).x = s.x /\ Penalized(s, r).dirty = s.dirty
        /\ Penalized(s, r).failed = s.failed /\ Penalized(s, r).hAbs = s.hAbs
        /\ Penalized(s, r).f = w /\ Penalized(s, r).g = g /\ Penalized(s, r).eq = q
        /\ Penalized(s, r).cvRaw = g + q /\ Penalized(s, r).cv = g + q
    BY <1>1, <1>2, <2>1 DEF Slots
  <2>3. QED
    BY <1>1, <1>3, <2>2 DEF g, q, w

LEMMA FiniteIs ==
  ASSUME NEW x \in Points, Outcome[x] # Fails, NEW tol \in Nat
  PROVE  LET t == Finite(x, tol) IN
         /\ t \in Slots /\ t.x = x /\ ~t.dirty /\ ~t.failed
         /\ t.f = Outcome[x].f /\ t.g = Outcome[x].g /\ t.hAbs = Outcome[x].h
         /\ t.hAbs \in Nat /\ t.eq = t.hAbs - tol
<1>1. Outcome[x].f \in Int /\ Outcome[x].g \in Int /\ Outcome[x].h \in Nat
  BY VaultAssumption
<1>2. Outcome[x].h - tol \in Int
  BY <1>1
<1>3. Finite(x, tol) = [Blank EXCEPT !.x = x, !.f = Outcome[x].f, !.g = Outcome[x].g,
                                     !.hAbs = Outcome[x].h, !.eq = Outcome[x].h - tol]
  BY DEF Finite
<1>4. Blank \in Slots /\ ~Blank.dirty /\ ~Blank.failed
  BY DEF Blank, Slots
<1> DEFINE o == Outcome[x]
           q == o.h - tol
           a == [Blank EXCEPT !.x = x, !.f = o.f]
           b == [a EXCEPT !.g = o.g, !.hAbs = o.h]
           t == [b EXCEPT !.eq = q]
<1>5. Finite(x, tol) = t
  BY <1>3, Zenon
<1>6. a \in Slots /\ a.x = x /\ a.f = o.f /\ ~a.dirty /\ ~a.failed
  BY <1>1, <1>4 DEF Slots
<1> HIDE DEF a
<1>7. b \in Slots /\ b.x = x /\ b.f = o.f /\ b.g = o.g /\ b.hAbs = o.h /\ ~b.dirty /\ ~b.failed
  <2>1. o.g \in Int /\ o.h \in Int
    BY <1>1
  <2> HIDE DEF o
  <2>2. QED
    BY <1>6, <2>1 DEF Slots
<1> HIDE DEF b
<1>8. /\ t \in Slots /\ t.x = x /\ t.f = o.f /\ t.g = o.g /\ t.hAbs = o.h /\ t.eq = q
      /\ ~t.dirty /\ ~t.failed
  BY <1>2, <1>7 DEF Slots
<1> HIDE DEF t
<1>9. QED
  BY <1>1, <1>5, <1>8

\* A range takes in a point and keeps what it held.
LEMMA WidenedIs ==
  ASSUME NEW r \in Ranges, NEW s \in Slots, r.seen => r.fLo <= r.fHi
  PROVE  LET w == Widened(r, s) IN
         /\ w \in Ranges /\ w.seen /\ w.fLo <= w.fHi
         /\ w.fLo <= s.f /\ s.f <= w.fHi /\ s.g <= w.gHi /\ s.eq <= w.eqHi
         /\ r.seen => w.fLo <= r.fLo /\ r.fHi <= w.fHi /\ r.gHi <= w.gHi /\ r.eqHi <= w.eqHi
         /\ Bound(r) <= Bound(w) /\ Pos(s.g) + Pos(s.eq) <= Bound(w)
<1> DEFINE w == Widened(r, s)
<1>1. r.seen \in BOOLEAN /\ r.fLo \in Int /\ r.fHi \in Int /\ r.gHi \in Int /\ r.eqHi \in Int
  BY DEF Ranges
<1>2. s.f \in Int /\ s.g \in Int /\ s.eq \in Int
  BY DEF Slots
<1>3. /\ w \in Ranges /\ w.seen /\ w.fLo <= w.fHi
      /\ w.fLo <= s.f /\ s.f <= w.fHi /\ s.g <= w.gHi /\ s.eq <= w.eqHi
      /\ r.seen => w.fLo <= r.fLo /\ r.fHi <= w.fHi /\ r.gHi <= w.gHi /\ r.eqHi <= w.eqHi
  <2>1. CASE ~r.seen
    BY <1>1, <1>2, <2>1 DEF Widened, Ranges
  <2>2. CASE r.seen
    <3>1. /\ Least(r.fLo, s.f) \in Int /\ Most(r.fHi, s.f) \in Int
          /\ Most(r.gHi, s.g) \in Int /\ Most(r.eqHi, s.eq) \in Int
          /\ Least(r.fLo, s.f) <= s.f /\ Least(r.fLo, s.f) <= r.fLo
          /\ Most(r.fHi, s.f) >= s.f /\ Most(r.fHi, s.f) >= r.fHi
          /\ Most(r.gHi, s.g) >= s.g /\ Most(r.gHi, s.g) >= r.gHi
          /\ Most(r.eqHi, s.eq) >= s.eq /\ Most(r.eqHi, s.eq) >= r.eqHi
      BY <1>1, <1>2 DEF Least, Most
    <3>2. w = [seen |-> TRUE, fLo |-> Least(r.fLo, s.f), fHi |-> Most(r.fHi, s.f),
               gHi |-> Most(r.gHi, s.g), eqHi |-> Most(r.eqHi, s.eq)]
      BY <2>2 DEF Widened
    <3>3. QED
      BY <1>1, <1>2, <3>1, <3>2 DEF Ranges
  <2>3. QED
    BY <1>1, <2>1, <2>2
<1> HIDE DEF w
<1>4. w.gHi \in Int /\ w.eqHi \in Int
  BY <1>3 DEF Ranges
<1>5. Pos(s.g) <= Pos(w.gHi) /\ Pos(s.eq) <= Pos(w.eqHi)
  BY <1>2, <1>3, <1>4, Numbers
<1>6. r.seen => Pos(r.gHi) <= Pos(w.gHi) /\ Pos(r.eqHi) <= Pos(w.eqHi)
  BY <1>1, <1>3, <1>4, Numbers
<1>7. /\ Pos(s.g) \in Nat /\ Pos(s.eq) \in Nat /\ Pos(w.gHi) \in Nat /\ Pos(w.eqHi) \in Nat
      /\ Pos(r.gHi) \in Nat /\ Pos(r.eqHi) \in Nat
  BY <1>1, <1>2, <1>4, Numbers
<1>8. Bound(r) <= Bound(w) /\ Pos(s.g) + Pos(s.eq) <= Bound(w)
  BY <1>1, <1>3, <1>5, <1>6, <1>7 DEF Bound
<1>9. QED
  BY <1>3, <1>8 DEF w

LEMMA BringUpIs ==
  ASSUME NEW p \in Slots, NEW r \in Ranges, r.seen => r.fLo <= r.fHi, NEW tol \in Nat, NEW e \in Nat
  PROVE  LET t == BringUp(p, r, tol, e) IN
         /\ t \in Slots /\ t.x = p.x /\ t.dirty = p.dirty /\ t.failed = p.failed /\ t.hAbs = p.hAbs
         /\ t.cvRaw = Pos(t.g) + Pos(t.eq) /\ t.cv = AtLevel(t.cvRaw, e)
         /\ p.failed => /\ t.f = WorstObjective(r) /\ t.g = WorstLimit(r, r.gHi)
                        /\ t.eq = WorstLimit(r, r.eqHi) /\ t.cvRaw = t.g + t.eq
         /\ ~p.failed => t.f = p.f /\ t.g = p.g /\ (p.hAbs >= 0 => t.eq = p.hAbs - tol)
<1> DEFINE q == IF p.failed THEN Penalized(p, r)
                ELSE IF p.hAbs < 0 THEN p ELSE [p EXCEPT !.eq = p.hAbs - tol]
<1>1. p.hAbs \in Int /\ p.failed \in BOOLEAN
  BY DEF Slots
<1>2. /\ q \in Slots /\ q.x = p.x /\ q.dirty = p.dirty /\ q.failed = p.failed /\ q.hAbs = p.hAbs
      /\ p.failed => /\ q.f = WorstObjective(r) /\ q.g = WorstLimit(r, r.gHi)
                     /\ q.eq = WorstLimit(r, r.eqHi) /\ Pos(q.g) = q.g /\ Pos(q.eq) = q.eq
      /\ ~p.failed => q.f = p.f /\ q.g = p.g /\ (p.hAbs >= 0 => q.eq = p.hAbs - tol)
  <2>1. CASE p.failed
    <3>1. q = Penalized(p, r)
      BY <2>1
    <3>2. QED
      BY <2>1, <3>1, PenalizedIs
  <2>2. CASE ~p.failed /\ p.hAbs < 0
    BY <1>1, <2>2
  <2>3. CASE ~p.failed /\ p.hAbs >= 0
    <3>1. p.hAbs - tol \in Int
      BY <1>1
    <3>2. q = [p EXCEPT !.eq = p.hAbs - tol]
      BY <1>1, <2>3
    <3>3. QED
      BY <2>3, <3>1, <3>2 DEF Slots
  <2>4. QED
    BY <1>1, <2>1, <2>2, <2>3
<1>3. BringUp(p, r, tol, e) = Rated(q, e)
  BY DEF BringUp
<1> HIDE DEF q
<1>4. QED
  BY <1>1, <1>2, <1>3, RatedIs

\* The last places of a sequence, taken from its end.
LEMMA Taken ==
  ASSUME NEW S, NEW s \in Seq(S), NEW k \in 0..Len(s), NEW t \in [1..k -> S],
         \A i \in 1..k : t[i] = s[Len(s) + 1 - i]
  PROVE  /\ t \in Seq(S) /\ Len(t) = k
         /\ SubSeq(s, 1, Len(s) - k) \in Seq(S) /\ Len(SubSeq(s, 1, Len(s) - k)) = Len(s) - k
         /\ Elements(s) = Elements(SubSeq(s, 1, Len(s) - k)) \cup Elements(t)
<1>1. Len(s) \in Nat /\ DOMAIN s = 1..Len(s) /\ k \in Nat /\ k <= Len(s)
  OBVIOUS
<1>2. \A i \in 1..k : Len(s) + 1 - i \in 1..Len(s)
  BY <1>1
<1>3. t \in Seq(S) /\ Len(t) = k /\ DOMAIN t = 1..k /\ \A i \in 1..k : t[i] = s[Len(s) + 1 - i]
  BY <1>1, <1>2
<1> DEFINE m == Len(s) - k
           a == SubSeq(s, 1, m)
<1>4. m \in Nat /\ m <= Len(s)
  BY <1>1
<1>5. /\ a \in Seq(S) /\ Len(a) = m /\ DOMAIN a = 1..m /\ \A i \in 1..m : a[i] = s[i]
  BY <1>4, FirstPart
<1> HIDE DEF a
<1>6. ASSUME NEW y \in Elements(s) PROVE y \in Elements(a) \cup Elements(t)
  <2>1. PICK i \in 1..Len(s) : s[i] = y
    BY <1>1, <1>6 DEF Elements
  <2>2. CASE i <= m
    <3>1. i \in 1..m
      BY <1>1, <2>1, <2>2
    <3>2. QED
      BY <1>5, <2>1, <3>1 DEF Elements
  <2>3. CASE i > m
    <3>1. Len(s) + 1 - i \in 1..k /\ Len(s) + 1 - (Len(s) + 1 - i) = i
      BY <1>1, <2>1, <2>3
    <3>2. t[Len(s) + 1 - i] = y
      BY <1>3, <2>1, <3>1
    <3>3. QED
      BY <1>3, <3>1, <3>2 DEF Elements
  <2>4. QED
    BY <1>1, <2>1, <2>2, <2>3
<1>7. ASSUME NEW y \in Elements(a) \cup Elements(t) PROVE y \in Elements(s)
  <2>1. CASE y \in Elements(a)
    <3>1. PICK i \in 1..m : a[i] = y
      BY <1>5, <2>1 DEF Elements
    <3>2. i \in 1..Len(s) /\ s[i] = y
      BY <1>1, <1>5, <3>1
    <3>3. QED
      BY <1>1, <3>2 DEF Elements
  <2>2. CASE y \in Elements(t)
    <3>1. PICK i \in 1..k : t[i] = y
      BY <1>3, <2>2 DEF Elements
    <3>2. s[Len(s) + 1 - i] = y
      BY <1>3, <3>1
    <3>3. QED
      BY <1>1, <1>2, <3>2 DEF Elements
  <2>3. QED
    BY <1>7, <2>1, <2>2
<1>8. Elements(s) = Elements(a) \cup Elements(t)
  BY <1>6, <1>7
<1>9. QED
  BY <1>3, <1>5, <1>8 DEF a

\* The last place of a sequence, taken off, by itself or put in another place.
LEMMA LastTaken ==
  ASSUME NEW S, NEW s \in Seq(S), Len(s) > 0
  PROVE  /\ Front(s) \in Seq(S) /\ Len(Front(s)) = Len(s) - 1 /\ Back(s) \in S
         /\ Elements(s) = Elements(Front(s)) \cup {Back(s)}
<1>0. PICK m \in Nat : Len(s) = m + 1
  <2>1. Len(s) \in Nat
    OBVIOUS
  <2>2. Len(s) - 1 \in Nat /\ Len(s) = (Len(s) - 1) + 1
    BY <2>1
  <2>3. QED
    BY <2>2
<1>1. DOMAIN s = 1..(m + 1) /\ Len(s) = m + 1 /\ m + 1 \in 1..(m + 1) /\ Len(s) - 1 = m
  BY <1>0
<1> DEFINE a == SubSeq(s, 1, m)
<1>2. a \in Seq(S) /\ Len(a) = m /\ DOMAIN a = 1..m /\ \A i \in 1..m : a[i] = s[i]
  <2>1. m <= Len(s)
    BY <1>1
  <2>2. QED
    BY <2>1, FirstPart
<1> HIDE DEF a
<1>3. s[m + 1] \in S
  BY <1>1
<1>4. ASSUME NEW y \in Elements(s) PROVE y \in Elements(a) \cup {s[m + 1]}
  <2>1. PICK i \in 1..(m + 1) : s[i] = y
    BY <1>1, <1>4 DEF Elements
  <2>2. i = m + 1 \/ i \in 1..m
    OBVIOUS
  <2>3. QED
    BY <1>2, <2>1, <2>2 DEF Elements
<1>5. ASSUME NEW y \in Elements(a) PROVE y \in Elements(s)
  <2>1. PICK i \in 1..m : a[i] = y
    BY <1>2, <1>5 DEF Elements
  <2>2. i \in 1..(m + 1) /\ s[i] = y
    BY <1>1, <1>2, <2>1
  <2>3. QED
    BY <1>1, <2>2 DEF Elements
<1>6. s[m + 1] \in Elements(s)
  BY <1>1 DEF Elements
<1>7. Elements(s) = Elements(a) \cup {s[m + 1]}
  BY <1>4, <1>5, <1>6
<1>8. Front(s) = a /\ Back(s) = s[m + 1]
  BY <1>1 DEF a, Front, Back
<1>9. QED
  BY <1>1, <1>2, <1>3, <1>7, <1>8

LEMMA LastInPlaceOf ==
  ASSUME NEW S, NEW s \in Seq(S), NEW k \in DOMAIN s, NEW t, t = Front([s EXCEPT ![k] = Back(s)])
  PROVE  /\ t \in Seq(S) /\ Len(t) = Len(s) - 1 /\ s[k] \in S
         /\ Elements(s) = Elements(t) \cup {s[k]}
<1>0. PICK m \in Nat : Len(s) = m + 1
  <2>1. Len(s) \in Nat /\ Len(s) > 0
    OBVIOUS
  <2>2. Len(s) - 1 \in Nat /\ Len(s) = (Len(s) - 1) + 1
    BY <2>1
  <2>3. QED
    BY <2>2
<1> DEFINE u == [s EXCEPT ![k] = Back(s)]
<1>1. /\ DOMAIN s = 1..(m + 1) /\ Len(s) = m + 1 /\ m + 1 \in 1..(m + 1) /\ Len(s) - 1 = m
      /\ k \in 1..(m + 1)
  BY <1>0
<1>2. Back(s) = s[m + 1] /\ Back(s) \in S /\ s[k] \in S
  BY <1>1 DEF Back
<1>3. /\ u \in Seq(S) /\ Len(u) = m + 1 /\ DOMAIN u = 1..(m + 1)
      /\ \A i \in 1..(m + 1) : u[i] = IF i = k THEN s[m + 1] ELSE s[i]
  BY <1>1, <1>2
<1> HIDE DEF u
<1>4. t = SubSeq(u, 1, m)
  BY <1>1, <1>3 DEF Front, u
<1>5. t \in Seq(S) /\ Len(t) = m /\ DOMAIN t = 1..m /\ \A i \in 1..m : t[i] = u[i]
  <2>1. m <= Len(u)
    <3>1. Len(u) = m + 1
      BY <1>3
    <3>2. QED
      BY <1>0, <3>1
  <2>2. u \in Seq(S)
    BY <1>3
  <2>3. \A q \in Seq(S) : m <= Len(q) =>
          /\ SubSeq(q, 1, m) \in Seq(S) /\ Len(SubSeq(q, 1, m)) = m /\ DOMAIN SubSeq(q, 1, m) = 1..m
          /\ \A i \in 1..m : SubSeq(q, 1, m)[i] = q[i]
    BY <1>0, FirstPart
  <2>4. QED
    BY <1>4, <2>1, <2>2, <2>3
<1>6. ASSUME NEW y \in Elements(s) PROVE y \in Elements(t) \cup {s[k]}
  <2>1. PICK i \in 1..(m + 1) : s[i] = y
    BY <1>1, <1>6 DEF Elements
  <2>2. CASE i = k
    BY <2>1, <2>2
  <2>3. CASE i # k /\ i = m + 1
    <3>1. k \in 1..m
      BY <1>1, <2>3
    <3>2. t[k] = y
      BY <1>1, <1>3, <1>5, <2>1, <2>3, <3>1
    <3>3. QED
      BY <1>5, <3>1, <3>2 DEF Elements
  <2>4. CASE i # k /\ i # m + 1
    <3>1. i \in 1..m
      BY <1>1, <2>4
    <3>2. t[i] = y
      BY <1>1, <1>3, <1>5, <2>1, <2>4, <3>1
    <3>3. QED
      BY <1>5, <3>1, <3>2 DEF Elements
  <2>5. QED
    BY <2>2, <2>3, <2>4
<1>7. ASSUME NEW y \in Elements(t) PROVE y \in Elements(s)
  <2>1. PICK i \in 1..m : t[i] = y
    BY <1>5, <1>7 DEF Elements
  <2>2. i \in 1..(m + 1) /\ y \in {s[i], s[m + 1]}
    <3>1. i \in 1..(m + 1) /\ u[i] = y
      <4>1. t[i] = u[i]
        BY <1>0, <1>5
      <4>2. QED
        BY <2>1, <4>1
    <3>2. QED
      BY <1>3, <3>1
  <2>3. QED
    BY <1>1, <2>2 DEF Elements
<1>8. s[k] \in Elements(s)
  BY <1>1 DEF Elements
<1>9. Elements(s) = Elements(t) \cup {s[k]}
  BY <1>6, <1>7, <1>8
<1>10. QED
  BY <1>1, <1>2, <1>5, <1>9

LEMMA Swapped ==
  ASSUME NEW S, NEW s \in Seq(S), NEW v \in DOMAIN s, NEW w \in DOMAIN s, v # w,
         NEW t \in [DOMAIN s -> S],
         \A i \in DOMAIN s : t[i] = IF i = w THEN s[v] ELSE IF i = v THEN s[w] ELSE s[i]
  PROVE  t \in Seq(S) /\ Len(t) = Len(s) /\ Elements(t) = Elements(s)
<1>1. Len(s) \in Nat /\ DOMAIN s = 1..Len(s) /\ v \in 1..Len(s) /\ w \in 1..Len(s)
  OBVIOUS
<1>2. s[v] \in S /\ s[w] \in S
  BY <1>1
<1>3. /\ t \in Seq(S) /\ Len(t) = Len(s) /\ DOMAIN t = 1..Len(s)
      /\ \A i \in 1..Len(s) : t[i] = IF i = w THEN s[v] ELSE IF i = v THEN s[w] ELSE s[i]
  BY <1>1, <1>2
<1>4. ASSUME NEW y \in Elements(s) PROVE y \in Elements(t)
  <2>1. PICK i \in 1..Len(s) : s[i] = y
    BY <1>1, <1>4 DEF Elements
  <2>2. \E j \in 1..Len(s) : t[j] = y
    BY <1>1, <1>3, <2>1
  <2>3. QED
    BY <1>3, <2>2 DEF Elements
<1>5. ASSUME NEW y \in Elements(t) PROVE y \in Elements(s)
  <2>1. PICK i \in 1..Len(s) : t[i] = y
    BY <1>3, <1>5 DEF Elements
  <2>2. \E j \in 1..Len(s) : s[j] = y
    BY <1>1, <1>3, <2>1
  <2>3. QED
    BY <1>1, <2>2 DEF Elements
<1>6. QED
  BY <1>3, <1>4, <1>5

LEMMA SomeElement ==
  ASSUME NEW S, NEW s \in Seq(S), NEW i \in DOMAIN s
  PROVE  s[i] \in Elements(s) /\ s[i] \in S
BY DEF Elements

-----------------------------------------------------------------------------
(* Every slot in one place.                                                *)

LEMMA OnePlaceIs ==
  ASSUME NEW n \in Nat, NEW a \in Seq(1..n), NEW f \in Seq(1..n), NEW r \in Seq(1..n)
  PROVE  LET all == a \o f \o r
         IN  /\ all \in Seq(1..n)
             /\ Len(all) = n /\ Elements(all) = 1..n <=> Placed(a, f, r, n)
<1>1. /\ a \o f \in Seq(1..n) /\ Len(a \o f) = Len(a) + Len(f)
      /\ Elements(a \o f) = Elements(a) \cup Elements(f)
  BY ElementsOf
<1>2. PICK b \in Seq(1..n) : b = a \o f
  BY <1>1
<1>3. /\ b \o r \in Seq(1..n) /\ Len(b \o r) = Len(b) + Len(r)
      /\ Elements(b \o r) = Elements(b) \cup Elements(r)
  BY ElementsOf
<1>4. QED
  BY <1>1, <1>2, <1>3 DEF Placed

-----------------------------------------------------------------------------
(* Numbers of a finite set.                                                *)

LEMMA LeastOf == ASSUME NEW T \in SUBSET Nat, T # {} PROVE \E m \in T : \A k \in T : m <= k
<1>1. PICK m \in T : \A k \in T : ~(<<k, m>> \in OpToRel(<, Nat))
  BY NatLessThanWellFounded, WFMin
<1>2. ASSUME NEW k \in T PROVE m <= k
  <2>1. k \in Nat /\ m \in Nat
    OBVIOUS
  <2>2. ~(k < m)
    BY <1>1, <2>1 DEF OpToRel
  <2>3. QED
    BY <2>1, <2>2
<1>3. QED
  BY <1>2

\* The element that the fewest others go beyond is the greatest.
LEMMA GreatestOf ==
  ASSUME NEW T \in SUBSET Nat, IsFiniteSet(T), T # {}
  PROVE  \E m \in T : \A k \in T : k <= m
<1> DEFINE Beyond(m) == {k \in T : k > m}
           D == {Cardinality(Beyond(m)) : m \in T}
<1>1. \A m \in T : IsFiniteSet(Beyond(m)) /\ Cardinality(Beyond(m)) \in Nat
  <2>1. \A m \in T : IsFiniteSet(Beyond(m))
    BY FS_Subset
  <2>2. QED
    BY <2>1, FS_CardinalityType
<1>2. D \in SUBSET Nat /\ D # {}
  BY <1>1
<1>3. PICK d \in D : \A e \in D : d <= e
  BY <1>2, LeastOf
<1>4. PICK m \in T : d = Cardinality(Beyond(m))
  BY <1>3
<1>5. ASSUME NEW k \in T, k > m PROVE FALSE
  <2>1. Beyond(k) \subseteq Beyond(m) /\ k \in Beyond(m) /\ k \notin Beyond(k)
    <3>1. k \in Nat /\ m \in Nat /\ ~(k > k)
      OBVIOUS
    <3>2. \A j \in T : j \in Nat /\ (j > k => j > m)
      BY <1>5, <3>1
    <3>3. QED
      BY <1>5, <3>1, <3>2
  <2>2. Beyond(k) # Beyond(m)
    BY <2>1
  <2>3. Cardinality(Beyond(k)) < Cardinality(Beyond(m))
    BY <1>1, <2>1, <2>2, FS_Subset
  <2>4. Cardinality(Beyond(k)) \in D
    OBVIOUS
  <2>5. d <= Cardinality(Beyond(k)) /\ Cardinality(Beyond(k)) < d
    BY <1>3, <1>4, <2>3, <2>4
  <2>6. d \in Nat /\ Cardinality(Beyond(k)) \in Nat
    BY <1>1, <1>2, <1>3
  <2> HIDE DEF Beyond
  <2>7. QED
    BY <2>5, <2>6
<1>6. \A k \in T : k <= m
  BY <1>5
<1>7. QED
  BY <1>6

LEMMA LargestIs ==
  ASSUME NEW T \in SUBSET Nat, IsFiniteSet(T), T # {}
  PROVE  Largest(T) \in T /\ \A n \in T : n <= Largest(T)
BY GreatestOf DEF Largest

\* Among finitely many there is one of the k-th largest value.
LEMMA RankedExists ==
  ASSUME NEW E, IsFiniteSet(E), E # {}, NEW raw \in [E -> Nat],
         NEW k \in 1..Cardinality(E)
  PROVE  \E v \in E : /\ Cardinality({w \in E : raw[w] > raw[v]}) < k
                      /\ Cardinality({w \in E : raw[w] >= raw[v]}) >= k
<1> DEFINE Up(v) == {w \in E : raw[w] >= raw[v]}
           Above(v) == {w \in E : raw[w] > raw[v]}
           T == {v \in E : Cardinality(Up(v)) >= k}
           D == {Cardinality(Up(v)) : v \in T}
<1>1. \A v \in E : /\ IsFiniteSet(Up(v)) /\ Cardinality(Up(v)) \in Nat
                   /\ IsFiniteSet(Above(v)) /\ Cardinality(Above(v)) \in Nat
  <2>1. \A v \in E : IsFiniteSet(Up(v)) /\ IsFiniteSet(Above(v))
    BY FS_Subset
  <2>2. QED
    BY <2>1, FS_CardinalityType
<1>2. Cardinality(E) \in Nat /\ k \in Nat /\ k >= 1 /\ k <= Cardinality(E)
  BY FS_CardinalityType
<1>3. \A A : A \subseteq E /\ A # {} => \E v \in A : \A w \in A : raw[v] <= raw[w]
  <2>1. SUFFICES ASSUME NEW A, A \subseteq E, A # {} PROVE \E v \in A : \A w \in A : raw[v] <= raw[w]
    OBVIOUS
  <2>2. {raw[w] : w \in A} \in SUBSET Nat /\ {raw[w] : w \in A} # {}
    BY <2>1
  <2>3. PICK m \in {raw[w] : w \in A} : \A n \in {raw[w] : w \in A} : m <= n
    BY <2>2, LeastOf
  <2>4. PICK v \in A : m = raw[v]
    BY <2>3
  <2>5. \A w \in A : raw[v] <= raw[w]
    BY <2>3, <2>4
  <2>6. QED
    BY <2>5
<1>4. T # {}
  <2>1. PICK v \in E : \A w \in E : raw[v] <= raw[w]
    BY <1>3
  <2>2. Up(v) = E
    BY <2>1
  <2>3. v \in T
    BY <1>2, <2>2
  <2>4. QED
    BY <2>3
<1>5. D \in SUBSET Nat /\ D # {}
  BY <1>1, <1>4
<1>6. PICK d \in D : \A e \in D : d <= e
  BY <1>5, LeastOf
<1>7. PICK v \in T : d = Cardinality(Up(v))
  BY <1>6
<1>8. ASSUME Cardinality(Above(v)) >= k PROVE FALSE
  <2>1. v \in E
    BY <1>7
  <2>2. Above(v) # {}
    <3>1. SUFFICES ASSUME Above(v) = {} PROVE FALSE
      OBVIOUS
    <3>2. Cardinality(Above(v)) = 0
      BY <3>1, FS_EmptySet
    <3>3. QED
      BY <1>2, <1>8, <3>2
  <2>3. Above(v) \subseteq E
    OBVIOUS
  <2>4. PICK u \in Above(v) : \A w \in Above(v) : raw[u] <= raw[w]
    BY <1>3, <2>2, <2>3
  <2>5. u \in E /\ raw[u] > raw[v] /\ raw[u] \in Nat /\ raw[v] \in Nat
    BY <2>1, <2>4
  <2>6. Up(u) = Above(v)
    <3>1. ASSUME NEW w \in Up(u) PROVE w \in Above(v)
      <4>1. w \in E /\ raw[w] \in Nat /\ raw[w] >= raw[u]
        BY <3>1
      <4>2. QED
        BY <2>5, <4>1
    <3>2. ASSUME NEW w \in Above(v) PROVE w \in Up(u)
      BY <2>4, <2>5, <3>2
    <3>3. QED
      BY <3>1, <3>2
  <2>7. Above(v) \subseteq Up(v) /\ v \in Up(v) /\ v \notin Above(v)
    BY <2>1
  <2>8. Cardinality(Above(v)) < Cardinality(Up(v))
    <3>1. Above(v) # Up(v)
      BY <2>7
    <3>2. QED
      BY <1>1, <2>1, <2>7, <3>1, FS_Subset
  <2>9. u \in T
    BY <1>8, <2>5, <2>6
  <2>10. Cardinality(Up(u)) \in D
    BY <2>9
  <2>11. d <= Cardinality(Up(u)) /\ Cardinality(Up(u)) < d
    BY <1>6, <1>7, <2>6, <2>8, <2>10
  <2>12. d \in Nat /\ Cardinality(Up(u)) \in Nat
    BY <1>1, <1>5, <1>6, <2>5
  <2> HIDE DEF Up, Above
  <2>13. QED
    BY <2>11, <2>12
<1>9. v \in E /\ Cardinality(Up(v)) >= k /\ Cardinality(Above(v)) < k
  <2>1. v \in E /\ Cardinality(Up(v)) >= k
    BY <1>7
  <2>2. Cardinality(Above(v)) \in Nat
    BY <1>1, <2>1
  <2> HIDE DEF Up, Above
  <2>3. QED
    BY <1>2, <1>8, <2>1, <2>2
<1>10. QED
  BY <1>9

-----------------------------------------------------------------------------
(* What the operations do to the lists and to the buffer.                  *)

LEMMA ExceptIs ==
  ASSUME NEW S, NEW b \in Seq(S), NEW r \in DOMAIN b, NEW s \in S, NEW c, c = [b EXCEPT ![r] = s]
  PROVE  /\ c \in Seq(S) /\ Len(c) = Len(b) /\ DOMAIN c = DOMAIN b
         /\ \A i \in DOMAIN b : c[i] = IF i = r THEN s ELSE b[i]
OBVIOUS

LEMMA MappedIs ==
  ASSUME NEW S, NEW b \in Seq(S), NEW c, c = [i \in DOMAIN b |-> c[i]], \A i \in DOMAIN b : c[i] \in S
  PROVE  c \in Seq(S) /\ Len(c) = Len(b) /\ DOMAIN c = DOMAIN b
<1>1. DOMAIN b = 1..Len(b) /\ Len(b) \in Nat
  OBVIOUS
<1>2. c \in [1..Len(b) -> S]
  BY <1>1
<1>3. QED
  BY <1>1, <1>2

LEMMA PlaceFacts ==
  ASSUME PlaceInv
  PROVE  /\ Len(buf) \in Nat /\ DOMAIN buf = 1..Len(buf) /\ Len(buf) <= MaxSlots
         /\ 2 * PopSize <= Len(buf) /\ MaxSlots \in Nat /\ PopSize \in Nat
         /\ buf \in Seq(Slots) /\ \A i \in DOMAIN buf : buf[i] \in Slots
         /\ active \in Seq(1..Len(buf)) /\ free \in Seq(1..Len(buf)) /\ archive \in Seq(1..Len(buf))
         /\ Placed(active, free, archive, Len(buf))
<1>1. buf \in Seq(Slots) /\ Len(buf) \in (2 * PopSize)..MaxSlots
  BY DEF PlaceInv, BufTypes
<1>2. MaxSlots \in Nat /\ PopSize \in Nat
  BY VaultAssumption
<1>3. 2 * PopSize \in Nat
  BY <1>2
<1>4. Len(buf) \in Nat /\ DOMAIN buf = 1..Len(buf) /\ Len(buf) <= MaxSlots /\ 2 * PopSize <= Len(buf)
  BY <1>1, <1>2, <1>3
<1>5. \A i \in DOMAIN buf : buf[i] \in Slots
  BY <1>1
<1>6. /\ active \in Seq(1..Len(buf)) /\ free \in Seq(1..Len(buf)) /\ archive \in Seq(1..Len(buf))
      /\ Placed(active, free, archive, Len(buf))
  BY DEF PlaceInv, ListsIn
<1>7. QED
  BY <1>1, <1>2, <1>4, <1>5, <1>6

\* A list is one of the buffer's slots, and those of the vault are in use.
LEMMA SlotsOf ==
  ASSUME PlaceInv
  PROVE  /\ \A v \in DOMAIN active : active[v] \in DOMAIN buf /\ active[v] \in ActiveSlots
         /\ \A i \in DOMAIN archive : archive[i] \in Elements(archive)
         /\ ActiveSlots \subseteq DOMAIN buf /\ Elements(archive) \subseteq DOMAIN buf
         /\ Live \subseteq DOMAIN buf /\ ActiveSlots \subseteq Live /\ Elements(archive) \subseteq Live
<1>1. DOMAIN buf = 1..Len(buf) /\ active \in Seq(1..Len(buf)) /\ archive \in Seq(1..Len(buf))
  BY PlaceFacts
<1>2. Elements(active) \subseteq 1..Len(buf) /\ Elements(archive) \subseteq 1..Len(buf)
  BY <1>1, ElementsOf
<1>3. \A v \in DOMAIN active : active[v] \in Elements(active) /\ active[v] \in 1..Len(buf)
  BY <1>1, SomeElement
<1>4. \A i \in DOMAIN archive : archive[i] \in Elements(archive)
  BY <1>1, SomeElement
<1>5. QED
  BY <1>1, <1>2, <1>3, <1>4 DEF ActiveSlots, Live

\* No slot the population holds is the archive's.
LEMMA Apart ==
  ASSUME PlaceInv, NEW v \in DOMAIN active
  PROVE  active[v] \notin Elements(archive)
<1> DEFINE n == Len(buf)
           all == active \o free \o archive
<1>1. n \in Nat /\ active \in Seq(1..n) /\ free \in Seq(1..n) /\ archive \in Seq(1..n)
  BY PlaceFacts
<1>2. Len(all) = n /\ Elements(all) = 1..n /\ all \in Seq(1..n)
  <2>1. Placed(active, free, archive, n)
    BY PlaceFacts
  <2>2. QED
    BY <1>1, <2>1, OnePlaceIs
<1>3. \A i, k \in 1..n : all[i] = all[k] => i = k
  <2> HIDE DEF all, n
  <2>1. QED
    BY <1>1, <1>2, EachOnce
<1>4. Len(active) \in Nat /\ Len(free) \in Nat /\ Len(archive) \in Nat /\ v \in 1..Len(active)
      /\ Len(active) + Len(free) + Len(archive) = n
  <2>1. Placed(active, free, archive, n)
    BY PlaceFacts
  <2>2. QED
    BY <1>1, <2>1 DEF Placed
<1>5. ASSUME active[v] \in Elements(archive) PROVE FALSE
  <2>1. PICK i \in 1..Len(archive) : archive[i] = active[v]
    BY <1>1, <1>5 DEF Elements
  <2>2. PICK b : b = active \o free
    OBVIOUS
  <2>3. /\ b \in Seq(1..n) /\ Len(b) = Len(active) + Len(free) /\ b[v] = active[v]
    BY <1>1, <1>4, <2>2
  <2>4. all = b \o archive
    BY <2>2
  <2>5. v \in 1..Len(b)
    BY <1>4, <2>3
  <2>6. (b \o archive)[v] = b[v] /\ (b \o archive)[Len(b) + i] = archive[i]
    <3>1. b \in Seq(1..n) /\ archive \in Seq(1..n)
      BY <1>1, <2>3
    <3>2. /\ \A k \in 1..Len(b) : (b \o archive)[k] = b[k]
          /\ \A k \in 1..Len(archive) : (b \o archive)[Len(b) + k] = archive[k]
      BY <3>1, Joined
    <3>3. QED
      BY <2>1, <2>5, <3>2
  <2>7. v \in 1..n /\ Len(b) + i \in 1..n /\ v # Len(b) + i
    <3>1. Len(b) \in Nat /\ Len(b) + Len(archive) = n
      BY <1>4, <2>3
    <3>2. \A p, q, m \in Nat : p + q = m =>
             \A j \in 1..q, u \in 1..p : u \in 1..m /\ p + j \in 1..m /\ u # p + j
      OBVIOUS
    <3>3. n \in Nat /\ Len(archive) \in Nat /\ i \in 1..Len(archive)
      BY <1>1, <1>4, <2>1
    <3> HIDE DEF n
    <3>4. QED
      BY <2>5, <3>1, <3>2, <3>3
  <2>8. all[v] = all[Len(b) + i]
    BY <2>1, <2>3, <2>4, <2>6
  <2> HIDE DEF all, n
  <2>9. QED
    BY <1>3, <2>7, <2>8
<1>6. QED
  BY <1>5

\* grow_buf: every slot it had stays what it was and where it was.
LEMMA GrowIs ==
  ASSUME PlaceInv, NEW need \in Nat, Room(need), NEW n, n = Len(buf) + Shortage(need)
  PROVE  /\ n \in Nat /\ Len(buf) <= n /\ n <= MaxSlots
         /\ GrownBuf(need) \in Seq(Slots) /\ Len(GrownBuf(need)) = n /\ DOMAIN GrownBuf(need) = 1..n
         /\ \A i \in DOMAIN buf : GrownBuf(need)[i] = buf[i]
         /\ \A i \in (1..n) \ DOMAIN buf : GrownBuf(need)[i] = Blank
         /\ GrownFree(need) \in Seq(1..n) /\ need <= Len(GrownFree(need))
         /\ active \in Seq(1..n) /\ archive \in Seq(1..n)
         /\ Placed(active, GrownFree(need), archive, n)
<1> DEFINE m == Len(buf)
           s == Shortage(need)
           blanks == [i \in 1..s |-> Blank]
           fresh == [i \in 1..s |-> m + i]
<1>1. /\ m \in Nat /\ DOMAIN buf = 1..m /\ buf \in Seq(Slots) /\ \A i \in 1..m : buf[i] \in Slots
      /\ active \in Seq(1..m) /\ free \in Seq(1..m) /\ archive \in Seq(1..m)
      /\ Placed(active, free, archive, m)
  BY PlaceFacts
<1>2. Len(free) \in Nat
  BY <1>1
<1>3. s \in Nat /\ need <= Len(free) + s
  BY <1>2 DEF Shortage, Pos
<1>4. n = m + s /\ n \in Nat /\ m <= n /\ n <= MaxSlots
  BY <1>1, <1>3 DEF Room
<1> HIDE DEF s
<1>5. blanks \in Seq(Slots) /\ Len(blanks) = s
  BY <1>3, BlankIs
<1>6. GrownBuf(need) = buf \o blanks
  BY DEF GrownBuf, s
<1>7. /\ GrownBuf(need) \in Seq(Slots) /\ Len(GrownBuf(need)) = n /\ DOMAIN GrownBuf(need) = 1..n
      /\ \A i \in 1..m : GrownBuf(need)[i] = buf[i]
  <2>1. /\ buf \o blanks \in Seq(Slots) /\ Len(buf \o blanks) = m + s
        /\ DOMAIN (buf \o blanks) = 1..(m + s)
        /\ \A i \in 1..m : (buf \o blanks)[i] = buf[i]
    <3>1. buf \in Seq(Slots) /\ blanks \in Seq(Slots)
      BY <1>1, <1>5
    <3> HIDE DEF blanks
    <3>2. QED
      BY <1>5, <3>1, Joined
  <2>2. QED
    BY <1>4, <1>6, <2>1
<1>8. \A i \in (1..n) \ (1..m) : GrownBuf(need)[i] = Blank
  <2>1. SUFFICES ASSUME NEW i \in (1..n) \ (1..m) PROVE GrownBuf(need)[i] = Blank
    OBVIOUS
  <2>2. i - m \in 1..s /\ m + (i - m) = i
    BY <1>1, <1>3, <1>4
  <2>3. (buf \o blanks)[m + (i - m)] = blanks[i - m]
    <3>1. buf \in Seq(Slots) /\ blanks \in Seq(Slots) /\ Len(blanks) = s
      BY <1>1, <1>5
    <3>2. i - m \in 1..s
      BY <2>2
    <3> HIDE DEF blanks
    <3>3. \A k \in 1..Len(blanks) : (buf \o blanks)[Len(buf) + k] = blanks[k]
      BY <3>1, Joined
    <3>4. QED
      BY <3>1, <3>2, <3>3
  <2>4. QED
    BY <1>6, <2>2, <2>3
<1>9. fresh \in Seq(1..n) /\ Len(fresh) = s /\ Elements(fresh) = (1..n) \ (1..m)
  <2>1. \A i \in 1..s : m + i \in (1..n) \ (1..m)
    BY <1>1, <1>3, <1>4
  <2>2. fresh \in Seq(1..n) /\ Len(fresh) = s /\ DOMAIN fresh = 1..s
    BY <1>3, <2>1
  <2>3. \A j \in (1..n) \ (1..m) : j - m \in 1..s /\ m + (j - m) = j
    BY <1>1, <1>3, <1>4
  <2>4. \A j \in (1..n) \ (1..m) : fresh[j - m] = j
    BY <2>3
  <2>5. \A i \in 1..s : fresh[i] = m + i
    OBVIOUS
  <2> HIDE DEF fresh, m
  <2>6. QED
    BY <2>1, <2>2, <2>3, <2>4, <2>5 DEF Elements
<1>10. (1..m) \subseteq 1..n
  BY <1>1, <1>4
<1>11. active \in Seq(1..n) /\ free \in Seq(1..n) /\ archive \in Seq(1..n)
  <2>1. Seq(1..m) \subseteq Seq(1..n)
    BY <1>10, Wider
  <2>2. QED
    BY <1>1, <2>1
<1>12. GrownFree(need) = free \o fresh
  BY DEF GrownFree, s
<1> HIDE DEF fresh, blanks
<1>13. /\ free \o fresh \in Seq(1..n) /\ Len(free \o fresh) = Len(free) + s
       /\ Elements(free \o fresh) = Elements(free) \cup Elements(fresh)
  <2>1. free \in Seq(1..n) /\ fresh \in Seq(1..n) /\ Len(fresh) = s
    BY <1>9, <1>11
  <2>2. \A a, b \in Seq(1..n) : /\ a \o b \in Seq(1..n) /\ Len(a \o b) = Len(a) + Len(b)
                                /\ Elements(a \o b) = Elements(a) \cup Elements(b)
    BY ElementsOf
  <2>3. QED
    BY <2>1, <2>2
<1>14. Placed(active, GrownFree(need), archive, n)
  <2>1. Len(active) \in Nat /\ Len(archive) \in Nat
    BY <1>1
  <2>2. Len(active) + Len(free) + Len(archive) = m
    BY <1>1 DEF Placed
  <2>3. Len(active) + (Len(free) + s) + Len(archive) = n
    <3>1. \A a, f, r, d, m0, n0 \in Nat :
             a + f + r = m0 /\ n0 = m0 + d => a + (f + d) + r = n0
      OBVIOUS
    <3>2. n \in Nat /\ n = m + s /\ m \in Nat
      BY <1>1, <1>4
    <3> HIDE DEF m
    <3>3. QED
      BY <1>2, <1>3, <2>1, <2>2, <3>1, <3>2
  <2>4. Elements(active) \cup Elements(free) \cup Elements(archive) = 1..m
    BY <1>1 DEF Placed
  <2>5. Elements(active) \cup (Elements(free) \cup Elements(fresh)) \cup Elements(archive) = 1..n
    BY <1>9, <1>10, <2>4
  <2>6. QED
    BY <1>12, <1>13, <2>3, <2>5 DEF Placed
<1>15. QED
  BY <1>1, <1>3, <1>4, <1>7, <1>8, <1>11, <1>12, <1>13, <1>14

\* alloc_slot for the archive.
LEMMA TakeIs ==
  ASSUME PlaceInv, TakeToArchive, NEW n, n = Len(buf) + Shortage(1)
  PROVE  /\ free' \in Seq(1..n) /\ archive' \in Seq(1..n) /\ Len(archive') <= MaxArchive
         /\ Back(archive') \in 1..n /\ active' = active
         /\ Elements(archive') = Elements(archive) \cup {Back(archive')}
         /\ Placed(active', free', archive', n)
<1>0. Room(1) /\ 1 \in Nat
  BY DEF TakeToArchive
<1>1. /\ n \in Nat /\ GrownFree(1) \in Seq(1..n) /\ 1 <= Len(GrownFree(1))
      /\ active \in Seq(1..n) /\ archive \in Seq(1..n) /\ Placed(active, GrownFree(1), archive, n)
  BY <1>0, GrowIs
<1>2. PICK f \in Seq(1..n) : f = GrownFree(1) /\ Len(f) > 0
  <2>1. Len(GrownFree(1)) \in Nat
    BY <1>1
  <2>2. Len(GrownFree(1)) > 0
    BY <1>1, <2>1
  <2>3. QED
    BY <1>1, <2>2
<1>3. /\ Front(f) \in Seq(1..n) /\ Len(Front(f)) = Len(f) - 1 /\ Back(f) \in 1..n
      /\ Elements(f) = Elements(Front(f)) \cup {Back(f)}
  BY <1>2, LastTaken
<1>4. /\ free' = Front(f) /\ archive' = Append(archive, Back(f)) /\ active' = active
      /\ Len(archive) < MaxArchive
  BY <1>2 DEF TakeToArchive
<1>5. /\ archive' \in Seq(1..n) /\ Len(archive') = Len(archive) + 1
      /\ Elements(archive') = Elements(archive) \cup {Back(f)}
  <2>1. archive \in Seq(1..n) /\ Back(f) \in 1..n /\ archive' = Append(archive, Back(f))
    BY <1>1, <1>3, <1>4
  <2>2. /\ Append(archive, Back(f)) \in Seq(1..n)
        /\ Len(Append(archive, Back(f))) = Len(archive) + 1
        /\ Elements(Append(archive, Back(f))) = Elements(archive) \cup {Back(f)}
    BY <2>1, OneMore
  <2>3. QED
    BY <2>1, <2>2
<1>6. Back(archive') = Back(f)
  <2>1. Len(archive') = Len(archive) + 1 /\ Append(archive, Back(f))[Len(archive) + 1] = Back(f)
    BY <1>1, <1>3, <1>5
  <2>2. QED
    BY <1>4, <2>1 DEF Back
<1>7. Placed(active', free', archive', n)
  <2>1. /\ Len(active) \in Nat /\ Len(f) \in Nat /\ Len(archive) \in Nat
        /\ Len(active) + Len(f) + Len(archive) = n
        /\ Elements(active) \cup Elements(f) \cup Elements(archive) = 1..n
    BY <1>1, <1>2 DEF Placed
  <2>2. Len(active) + (Len(f) - 1) + (Len(archive) + 1) = n
    BY <2>1
  <2>3. Elements(active) \cup Elements(Front(f)) \cup (Elements(archive) \cup {Back(f)}) = 1..n
    BY <1>3, <2>1
  <2>4. QED
    BY <1>3, <1>4, <1>5, <2>2, <2>3 DEF Placed
<1>8. Len(archive') <= MaxArchive
  <2>1. Len(archive) \in Nat /\ MaxArchive \in Nat
    BY <1>1, VaultAssumption
  <2>2. QED
    BY <1>4, <1>5, <2>1
<1>9. QED
  BY <1>3, <1>4, <1>5, <1>6, <1>7, <1>8

-----------------------------------------------------------------------------
(* The types, and every slot in one place.                                 *)

LEMMA PlaceShows == PlaceInv => TypeOK /\ OnePlace
<1> SUFFICES ASSUME PlaceInv PROVE TypeOK /\ OnePlace
  OBVIOUS
<1>1. Len(buf) \in Nat /\ DOMAIN buf = 1..Len(buf)
  BY PlaceFacts
<1>2. OnePlace
  <2>1. /\ active \in Seq(1..Len(buf)) /\ free \in Seq(1..Len(buf)) /\ archive \in Seq(1..Len(buf))
        /\ Placed(active, free, archive, Len(buf))
    BY PlaceFacts
  <2>2. Len(active \o free \o archive) = Len(buf) /\ Elements(active \o free \o archive) = 1..Len(buf)
    <3>1. PICK n \in Nat : n = Len(buf)
      BY <1>1
    <3>2. \A a, f, r \in Seq(1..n) : Placed(a, f, r, n) =>
             Len(a \o f \o r) = n /\ Elements(a \o f \o r) = 1..n
      BY OnePlaceIs
    <3>3. active \in Seq(1..n) /\ free \in Seq(1..n) /\ archive \in Seq(1..n) /\ Placed(active, free, archive, n)
      BY <2>1, <3>1
    <3>4. QED
      BY <3>1, <3>2, <3>3
  <2>3. QED
    BY <1>1, <2>2 DEF OnePlace
<1>3. ValueTypes
  BY <1>1 DEF PlaceInv, BufTypes, ListsIn, RestTypes, ValueTypes
<1>4. QED
  BY <1>2, <1>3 DEF TypeOK, PlaceInv, DriverIn

LEMMA PlaceInit == Init => PlaceInv
<1> SUFFICES ASSUME Init PROVE PlaceInv
  OBVIOUS
<1>1. PopSize \in Nat /\ PopSize > 0 /\ MaxSlots \in Nat /\ MaxSlots >= 2 * PopSize /\ MaxArchive \in Nat
  BY VaultAssumption
<1> DEFINE n == 2 * PopSize
<1>2. n \in Nat /\ n = PopSize + PopSize
  BY <1>1
<1>3. buf \in Seq(Slots) /\ Len(buf) = n /\ DOMAIN buf = 1..n /\ \A i \in 1..n : buf[i] = Blank
  BY <1>2, BlankIs DEF Init
<1> HIDE DEF n
<1>4. BufTypes
  <2>1. n \in n..MaxSlots
    BY <1>1, <1>2 DEF n
  <2>2. \A i \in DOMAIN buf : ~buf[i].dirty
    BY <1>3, BlankIs
  <2>3. QED
    BY <1>3, <2>1, <2>2 DEF BufTypes, n
<1>5. ListsIn
  <2>1. active = [i \in 1..PopSize |-> i] /\ free = [i \in 1..PopSize |-> PopSize + i] /\ archive = <<>>
    BY DEF Init
  <2>2. \A i \in 1..PopSize : i \in 1..n /\ PopSize + i \in 1..n
    BY <1>1, <1>2
  <2>3. /\ active \in Seq(1..n) /\ Len(active) = PopSize /\ DOMAIN active = 1..PopSize
        /\ \A i \in 1..PopSize : active[i] = i
    BY <1>1, <2>1, <2>2
  <2>4. /\ free \in Seq(1..n) /\ Len(free) = PopSize /\ DOMAIN free = 1..PopSize
        /\ \A i \in 1..PopSize : free[i] = PopSize + i
    BY <1>1, <2>1, <2>2
  <2>5. archive \in Seq(1..n) /\ Len(archive) = 0 /\ Elements(archive) = {}
    BY <2>1 DEF Elements
  <2>6. Elements(active) = 1..PopSize
    BY <2>3 DEF Elements
  <2>7. Elements(free) = (PopSize + 1)..n
    <3>1. \A j \in (PopSize + 1)..n : j - PopSize \in 1..PopSize /\ PopSize + (j - PopSize) = j
      BY <1>1, <1>2
    <3>2. \A i \in 1..PopSize : PopSize + i \in (PopSize + 1)..n
      BY <1>1, <1>2
    <3>3. QED
      BY <2>4, <3>1, <3>2 DEF Elements
  <2>8. (1..PopSize) \cup ((PopSize + 1)..n) = 1..n
    BY <1>1, <1>2
  <2>9. Placed(active, free, archive, n)
    <3>1. PopSize + PopSize + 0 = n
      BY <1>1, <1>2
    <3>2. QED
      BY <2>3, <2>4, <2>5, <2>6, <2>7, <2>8, <3>1 DEF Placed
  <2>10. QED
    BY <1>1, <1>3, <2>3, <2>4, <2>5, <2>9 DEF ListsIn
<1>6. RestTypes
  <2>1. range = [seen |-> FALSE, fLo |-> 0, fHi |-> 0, gHi |-> 0, eqHi |-> 0]
    BY DEF Init
  <2>2. range \in Ranges /\ ~range.seen
    BY <2>1 DEF Ranges
  <2>3. copies \in [Kept -> Slots] /\ \A c \in Kept : ~copies[c].dirty
    BY BlankIs DEF Init
  <2>4. Tol0 \in Tols
    BY VaultAssumption
  <2>5. QED
    BY <2>2, <2>3, <2>4 DEF Init, RestTypes
<1>7. DriverIn
  <2>1. MaxSteps \in Nat /\ MaxMoves \in Nat /\ MaxWork \in Nat
    BY VaultAssumption
  <2>2. 0 \in 0..0 /\ 0 \in 0..MaxSteps /\ 0 \in 0..MaxMoves /\ 0 \in 0..MaxWork
    BY <2>1
  <2>3. QED
    BY <2>2 DEF Init, DriverIn, DriverTypes
<1>8. QED
  BY <1>4, <1>5, <1>6, <1>7 DEF PlaceInv

LEMMA ListsSame ==
  ASSUME ListsIn, UNCHANGED places, Len(buf') = Len(buf)
  PROVE  ListsIn'
BY DEF ListsIn, places

LEMMA RestSame ==
  ASSUME RestTypes, UNCHANGED <<range, eqTol, level, cvMax, copies>>
  PROVE  RestTypes'
BY DEF RestTypes

\* The counts of a step, and what the vault's operations leave to the driver.
LEMMA Counted ==
  ASSUME DriverIn, Count, UNCHANGED <<anyFailed, present, seen, driver>>
  PROVE  DriverIn'
BY VaultAssumption DEF DriverIn, DriverTypes, Count, driver

\* A slot of the buffer that is written, or each of them.
LEMMA BufWritten ==
  ASSUME PlaceInv, NEW r \in DOMAIN buf, NEW s \in Slots, s.dirty => s.x \in Points,
         buf' = [buf EXCEPT ![r] = s]
  PROVE  BufTypes' /\ Len(buf') = Len(buf)
<1>1. buf \in Seq(Slots)
  BY PlaceFacts
<1>2. /\ buf' \in Seq(Slots) /\ Len(buf') = Len(buf) /\ DOMAIN buf' = DOMAIN buf
      /\ \A i \in DOMAIN buf : buf'[i] = IF i = r THEN s ELSE buf[i]
  BY <1>1, ExceptIs
<1>3. QED
  BY <1>2 DEF PlaceInv, BufTypes

LEMMA BufMapped ==
  ASSUME PlaceInv, buf' = [i \in DOMAIN buf |-> buf'[i]],
         \A i \in DOMAIN buf : buf'[i] \in Slots /\ (buf'[i].dirty => buf'[i].x \in Points)
  PROVE  BufTypes' /\ Len(buf') = Len(buf) /\ DOMAIN buf' = DOMAIN buf
<1>1. buf \in Seq(Slots)
  BY PlaceFacts
<1>2. PICK c : c = buf'
  OBVIOUS
<1>3. c \in Seq(Slots) /\ Len(c) = Len(buf) /\ DOMAIN c = DOMAIN buf
  BY <1>1, <1>2, MappedIs
<1>4. QED
  BY <1>2, <1>3 DEF PlaceInv, BufTypes

LEMMA BufSame == ASSUME BufTypes, UNCHANGED buf PROVE BufTypes'
BY DEF BufTypes

-----------------------------------------------------------------------------
(* What the operations make of the slots they write.                       *)

LEMMA TolIs == ASSUME RestTypes PROVE eqTol \in Nat /\ eqTol <= Tol0 /\ Tol0 \in Nat
<1>1. Tol0 \in Nat /\ Tols \subseteq 0..Tol0 /\ eqTol \in Tols
  BY VaultAssumption DEF RestTypes
<1>2. eqTol \in 0..Tol0
  BY <1>1
<1>3. QED
  BY <1>1, <1>2

\* A point that was evaluated: it is what the problem makes of it, and when the
\* range or the failures moved, so did the points that failed.
LEMMA FiniteSettled ==
  ASSUME PlaceInv, NEW r \in DOMAIN buf, NEW x \in Points, Settle(r, x), Outcome[x] # Fails
  PROVE  LET new == Finite(x, eqTol)
             moved == Widened(range, new) # range
         IN  /\ BufTypes' /\ Len(buf') = Len(buf) /\ DOMAIN buf' = DOMAIN buf
             /\ range' = Widened(range, new) /\ range' \in Ranges /\ range'.fLo <= range'.fHi
             /\ buf'[r] = Rated(new, level)
             /\ \A j \in DOMAIN buf \ {r} :
                   buf'[j] = IF moved /\ anyFailed /\ buf[j].failed THEN Penalized(buf[j], range')
                             ELSE buf[j]
             /\ present' = IF moved /\ anyFailed THEN present + 1 ELSE present
             /\ cvMax' = Most(cvMax, Violation(new)) /\ cvMax' \in Nat
             /\ UNCHANGED <<anyFailed, phase>>
<1> DEFINE new == Finite(x, eqTol)
           wider == Widened(range, new)
           moved == wider # range
<1>1. range \in Ranges /\ (range.seen => range.fLo <= range.fHi) /\ level \in Nat /\ cvMax \in Nat
  BY DEF PlaceInv, RestTypes
<1>2. eqTol \in Nat
  BY TolIs DEF PlaceInv
<1>3. new \in Slots /\ ~new.dirty
  BY <1>2, FiniteIs
<1>4. wider \in Ranges /\ wider.seen /\ wider.fLo <= wider.fHi
  BY <1>1, <1>3, WidenedIs
<1>5. /\ range' = wider /\ present' = PresentAfter(moved) /\ cvMax' = Most(cvMax, Violation(new))
      /\ buf' = [j \in DOMAIN buf |->
                    IF j = r THEN Rated(new, level)
                    ELSE IF moved /\ anyFailed /\ j \in ToPenalize
                         THEN Penalized(buf[j], wider) ELSE buf[j]]
      /\ UNCHANGED <<anyFailed, phase>>
  BY DEF Settle
<1>6. Rated(new, level) \in Slots /\ ~Rated(new, level).dirty
  BY <1>1, <1>3, RatedIs
<1>7. new.g \in Int /\ new.eq \in Int
  BY <1>3 DEF Slots
<1>8. cvMax' \in Nat
  <2>1. Pos(new.g) \in Nat /\ Pos(new.eq) \in Nat
    BY <1>7, Numbers
  <2>2. Violation(new) \in Nat
    BY <2>1 DEF Violation
  <2> HIDE DEF new
  <2>3. QED
    BY <1>1, <1>5, <2>2 DEF Most
<1> HIDE DEF new, wider
<1>9. buf'[r] = Rated(new, level)
  BY <1>5
<1>10. \A j \in DOMAIN buf \ {r} :
          buf'[j] = IF moved /\ anyFailed /\ buf[j].failed THEN Penalized(buf[j], wider) ELSE buf[j]
  BY <1>5 DEF ToPenalize
<1>11. \A j \in DOMAIN buf : buf[j] \in Slots /\ (buf[j].dirty => buf[j].x \in Points)
  BY PlaceFacts DEF PlaceInv, BufTypes
<1>12. \A j \in DOMAIN buf : buf'[j] \in Slots /\ (buf'[j].dirty => buf'[j].x \in Points)
  <2>1. SUFFICES ASSUME NEW j \in DOMAIN buf
                 PROVE  buf'[j] \in Slots /\ (buf'[j].dirty => buf'[j].x \in Points)
    OBVIOUS
  <2>2. CASE j = r
    BY <1>6, <1>9, <2>2
  <2>3. CASE j # r
    <3>1. buf'[j] = Penalized(buf[j], wider) \/ buf'[j] = buf[j]
      BY <1>10, <2>3
    <3>2. /\ Penalized(buf[j], wider) \in Slots /\ Penalized(buf[j], wider).x = buf[j].x
          /\ Penalized(buf[j], wider).dirty = buf[j].dirty
      BY <1>4, <1>11, PenalizedIs
    <3>3. QED
      BY <1>11, <3>1, <3>2
  <2>4. QED
    BY <2>2, <2>3
<1>13. buf' = [i \in DOMAIN buf |-> buf'[i]]
  BY <1>5
<1>14. BufTypes' /\ Len(buf') = Len(buf) /\ DOMAIN buf' = DOMAIN buf
  BY <1>12, <1>13, BufMapped
<1>15. present' = IF moved /\ anyFailed THEN present + 1 ELSE present
  BY <1>5 DEF PresentAfter
<1>16. QED
  BY <1>4, <1>5, <1>8, <1>9, <1>10, <1>14, <1>15 DEF new, wider

\* A point whose evaluation failed, and a failure that ends the run.
LEMMA FailedSettled ==
  ASSUME PlaceInv, NEW r \in DOMAIN buf, NEW x \in Points, Settle(r, x), Outcome[x] = Fails
  PROVE  /\ BufTypes' /\ Len(buf') = Len(buf) /\ DOMAIN buf' = DOMAIN buf
         /\ \A j \in DOMAIN buf \ {r} : buf'[j] = buf[j]
         /\ UNCHANGED <<range, present, cvMax>>
         /\ \/ UNCHANGED <<buf, anyFailed>> /\ phase' = "over"
            \/ /\ anyFailed' = TRUE /\ UNCHANGED phase
               /\ buf'[r].x = x /\ ~buf'[r].dirty /\ buf'[r].failed
               /\ buf'[r].f = WorstObjective(range) /\ buf'[r].g = WorstLimit(range, range.gHi)
               /\ buf'[r].eq = WorstLimit(range, range.eqHi)
               /\ buf'[r].cvRaw = buf'[r].g + buf'[r].eq /\ buf'[r].cv = AtLevel(buf'[r].cvRaw, level)
<1> DEFINE mark == [buf[r] EXCEPT !.x = x, !.dirty = FALSE, !.failed = TRUE]
           pen == Penalized(mark, range)
           s == Rated(pen, level)
<1>1. range \in Ranges /\ (range.seen => range.fLo <= range.fHi) /\ level \in Nat
  BY DEF PlaceInv, RestTypes
<1>2. buf[r] \in Slots
  BY PlaceFacts
<1>3. mark \in Slots /\ mark.x = x /\ ~mark.dirty /\ mark.failed
  BY <1>2 DEF Slots
<1>4. \/ /\ buf' = [buf EXCEPT ![r] = s] /\ anyFailed' = TRUE /\ UNCHANGED <<range, present, cvMax, phase>>
      \/ phase' = "over" /\ UNCHANGED <<buf, anyFailed, range, present, cvMax>>
  BY DEF Settle
<1> HIDE DEF mark
<1>5. /\ pen \in Slots /\ pen.x = x /\ ~pen.dirty /\ pen.failed
      /\ pen.f = WorstObjective(range) /\ pen.g = WorstLimit(range, range.gHi)
      /\ pen.eq = WorstLimit(range, range.eqHi) /\ Pos(pen.g) = pen.g /\ Pos(pen.eq) = pen.eq
  BY <1>1, <1>3, PenalizedIs
<1> HIDE DEF pen
<1>6. /\ s \in Slots /\ s.x = x /\ ~s.dirty /\ s.failed /\ s.f = pen.f /\ s.g = pen.g /\ s.eq = pen.eq
      /\ s.cvRaw = s.g + s.eq /\ s.cv = AtLevel(s.cvRaw, level)
  BY <1>1, <1>5, RatedIs
<1> HIDE DEF s
<1>7. CASE buf' = [buf EXCEPT ![r] = s] /\ anyFailed' = TRUE /\ UNCHANGED <<range, present, cvMax, phase>>
  <2>1. BufTypes' /\ Len(buf') = Len(buf)
    BY <1>6, <1>7, BufWritten
  <2>2. DOMAIN buf' = DOMAIN buf /\ buf'[r] = s /\ \A j \in DOMAIN buf \ {r} : buf'[j] = buf[j]
    BY <1>2, <1>7
  <2>3. QED
    BY <1>5, <1>6, <1>7, <2>1, <2>2
<1>8. CASE phase' = "over" /\ UNCHANGED <<buf, anyFailed, range, present, cvMax>>
  <2>1. BufTypes'
    BY <1>8, BufSame DEF PlaceInv
  <2>2. QED
    BY <1>8, <2>1
<1>9. QED
  BY <1>4, <1>7, <1>8

\* A tolerance that is set: the points that follow it are at it.
LEMMA TolSet ==
  ASSUME PlaceInv, NEW d \in Tols, SetEqTol(d)
  PROVE  /\ BufTypes' /\ Len(buf') = Len(buf) /\ DOMAIN buf' = DOMAIN buf
         /\ eqTol' = d /\ cvMax' \in Nat /\ UNCHANGED <<range, anyFailed>>
         /\ d = eqTol => UNCHANGED <<buf, cvMax, present>>
         /\ d # eqTol => present' = present + 1
         /\ \A i \in DOMAIN buf : ~FollowsTol(i) => buf'[i] = buf[i]
         /\ d # eqTol => \A i \in DOMAIN buf : FollowsTol(i) =>
               /\ buf'[i].x = buf[i].x /\ ~buf'[i].dirty /\ ~buf'[i].failed
               /\ buf'[i].f = buf[i].f /\ buf'[i].g = buf[i].g /\ buf'[i].hAbs = buf[i].hAbs
               /\ buf'[i].eq = buf[i].hAbs - d
               /\ buf'[i].cvRaw = Pos(buf'[i].g) + Pos(buf'[i].eq)
               /\ buf'[i].cv = AtLevel(buf'[i].cvRaw, level)
<1> DEFINE at(i) == [buf[i] EXCEPT !.eq = buf[i].hAbs - d]
           moved(i) == Rated(at(i), level)
           following == {i \in DOMAIN buf : FollowsTol(i)}
<1>1. /\ DOMAIN buf = 1..Len(buf) /\ Len(buf) \in Nat /\ level \in Nat /\ cvMax \in Nat
      /\ \A i \in DOMAIN buf : buf[i] \in Slots /\ (buf[i].dirty => buf[i].x \in Points)
  BY PlaceFacts DEF PlaceInv, BufTypes, RestTypes
<1>2. d \in Nat
  <2>1. Tols \subseteq 0..Tol0 /\ Tol0 \in Nat
    BY VaultAssumption
  <2>2. d \in 0..Tol0
    BY <2>1
  <2>3. QED
    BY <2>1, <2>2
<1>3. \A i \in DOMAIN buf :
         /\ at(i) \in Slots /\ at(i).x = buf[i].x /\ at(i).dirty = buf[i].dirty
         /\ at(i).failed = buf[i].failed /\ at(i).f = buf[i].f /\ at(i).g = buf[i].g
         /\ at(i).hAbs = buf[i].hAbs /\ at(i).eq = buf[i].hAbs - d
  <2>1. ASSUME NEW s \in Slots, NEW q \in Int
        PROVE  LET t == [s EXCEPT !.eq = q]
               IN  /\ t \in Slots /\ t.x = s.x /\ t.dirty = s.dirty /\ t.failed = s.failed
                   /\ t.f = s.f /\ t.g = s.g /\ t.hAbs = s.hAbs /\ t.eq = q
    BY DEF Slots
  <2>2. \A i \in DOMAIN buf : buf[i].hAbs - d \in Int
    BY <1>1, <1>2 DEF Slots
  <2>3. QED
    BY <1>1, <2>1, <2>2
<1>4. /\ eqTol' = d /\ UNCHANGED <<range, anyFailed>>
      /\ d = eqTol => UNCHANGED <<buf, cvMax, present>>
      /\ d # eqTol => /\ present' = present + 1
                      /\ buf' = [i \in DOMAIN buf |-> IF i \in following THEN moved(i) ELSE buf[i]]
                      /\ cvMax' = Largest({cvMax} \cup {moved(i).cvRaw : i \in following})
  BY DEF SetEqTol
<1> HIDE DEF at
<1>5. \A i \in DOMAIN buf :
         /\ moved(i) \in Slots /\ moved(i).x = buf[i].x /\ moved(i).dirty = buf[i].dirty
         /\ moved(i).failed = buf[i].failed /\ moved(i).f = buf[i].f /\ moved(i).g = buf[i].g
         /\ moved(i).hAbs = buf[i].hAbs /\ moved(i).eq = buf[i].hAbs - d
         /\ moved(i).cvRaw = Pos(moved(i).g) + Pos(moved(i).eq)
         /\ moved(i).cv = AtLevel(moved(i).cvRaw, level)
  <2>1. ASSUME NEW i \in DOMAIN buf
        PROVE  /\ moved(i) \in Slots /\ moved(i).x = at(i).x /\ moved(i).dirty = at(i).dirty
               /\ moved(i).failed = at(i).failed /\ moved(i).f = at(i).f /\ moved(i).g = at(i).g
               /\ moved(i).hAbs = at(i).hAbs /\ moved(i).eq = at(i).eq
               /\ moved(i).cvRaw = Pos(moved(i).g) + Pos(moved(i).eq)
               /\ moved(i).cv = AtLevel(moved(i).cvRaw, level)
    <3>1. PICK s \in Slots : s = at(i)
      BY <1>3
    <3>2. level \in Nat
      BY <1>1
    <3>3. QED
      BY <3>1, <3>2, RatedIs
  <2>2. QED
    BY <1>3, <2>1
<1> HIDE DEF moved
<1>6. CASE d = eqTol
  <2>1. BufTypes'
    BY <1>4, <1>6, BufSame DEF PlaceInv
  <2>2. QED
    BY <1>1, <1>4, <1>6, <2>1
<1>7. CASE d # eqTol
  <2>1. \A i \in DOMAIN buf : buf'[i] = IF FollowsTol(i) THEN moved(i) ELSE buf[i]
    BY <1>4, <1>7
  <2>2. buf' = [i \in DOMAIN buf |-> buf'[i]]
    BY <1>4, <1>7
  <2>3. \A i \in DOMAIN buf : buf'[i] \in Slots /\ (buf'[i].dirty => buf'[i].x \in Points)
    BY <1>1, <1>5, <2>1
  <2>4. BufTypes' /\ Len(buf') = Len(buf) /\ DOMAIN buf' = DOMAIN buf
    BY <2>2, <2>3, BufMapped
  <2>5. cvMax' \in Nat
    <3> DEFINE T == {cvMax} \cup {moved(i).cvRaw : i \in following}
    <3>1. IsFiniteSet(following)
      <4>1. IsFiniteSet(DOMAIN buf)
        BY <1>1, FS_Interval
      <4>2. following \subseteq DOMAIN buf
        OBVIOUS
      <4>3. QED
        BY <4>1, <4>2, FS_Subset
    <3>2. IsFiniteSet({moved(i).cvRaw : i \in following})
      <4>1. PICK h : h = [i \in following |-> moved(i).cvRaw]
        OBVIOUS
      <4>2. {moved(i).cvRaw : i \in following} = {h[i] : i \in following}
        BY <4>1
      <4>3. h \in Surjection(following, {h[i] : i \in following})
        BY <4>1 DEF Surjection
      <4>4. QED
        BY <3>1, <4>2, <4>3, FS_Surjection
    <3>3. IsFiniteSet({cvMax})
      BY FS_Singleton
    <3>4. IsFiniteSet(T)
      BY <3>2, <3>3, FS_Union
    <3>5. \A i \in following : moved(i).cvRaw \in Nat
      BY <1>5 DEF Slots
    <3>6. T \in SUBSET Nat /\ T # {}
      BY <1>1, <3>5
    <3> HIDE DEF T
    <3>7. Largest(T) \in T
      BY <3>4, <3>6, LargestIs
    <3>8. cvMax' = Largest(T)
      BY <1>4, <1>7 DEF T
    <3>9. QED
      BY <3>6, <3>7, <3>8
  <2>6. \A i \in DOMAIN buf : FollowsTol(i) => ~buf[i].dirty /\ ~buf[i].failed
    BY DEF FollowsTol
  <2>7. QED
    BY <1>4, <1>5, <1>7, <2>1, <2>4, <2>5, <2>6
<1>8. QED
  BY <1>6, <1>7

\* A level that is set: every point that does not wait is ranked by it.
LEMMA LevelSet ==
  ASSUME PlaceInv, NEW e \in Nat, SetCvLevel(e)
  PROVE  /\ BufTypes' /\ Len(buf') = Len(buf) /\ DOMAIN buf' = DOMAIN buf
         /\ level' = e /\ UNCHANGED <<range, anyFailed, cvMax>>
         /\ e = level => UNCHANGED <<buf, present>>
         /\ e # level => present' = present + 1
         /\ e # level => \A i \in DOMAIN buf :
               /\ buf[i].dirty => buf'[i] = buf[i]
               /\ ~buf[i].dirty => buf'[i] = [buf[i] EXCEPT !.cv = AtLevel(buf[i].cvRaw, e)]
         /\ \A i \in DOMAIN buf :
               /\ buf'[i].x = buf[i].x /\ buf'[i].dirty = buf[i].dirty /\ buf'[i].failed = buf[i].failed
               /\ buf'[i].f = buf[i].f /\ buf'[i].g = buf[i].g /\ buf'[i].eq = buf[i].eq
               /\ buf'[i].hAbs = buf[i].hAbs /\ buf'[i].cvRaw = buf[i].cvRaw
               /\ e # level /\ ~buf[i].dirty => buf'[i].cv = AtLevel(buf[i].cvRaw, e)
<1> DEFINE at(i) == [buf[i] EXCEPT !.cv = AtLevel(buf[i].cvRaw, e)]
<1>1. \A i \in DOMAIN buf : buf[i] \in Slots /\ (buf[i].dirty => buf[i].x \in Points)
  BY PlaceFacts DEF PlaceInv, BufTypes
<1>2. \A i \in DOMAIN buf :
         /\ at(i) \in Slots /\ at(i).x = buf[i].x /\ at(i).dirty = buf[i].dirty
         /\ at(i).failed = buf[i].failed /\ at(i).f = buf[i].f /\ at(i).g = buf[i].g
         /\ at(i).hAbs = buf[i].hAbs /\ at(i).eq = buf[i].eq /\ at(i).cvRaw = buf[i].cvRaw
         /\ at(i).cv = AtLevel(buf[i].cvRaw, e)
  <2>1. ASSUME NEW s \in Slots, NEW q \in Nat
        PROVE  LET t == [s EXCEPT !.cv = q]
               IN  /\ t \in Slots /\ t.x = s.x /\ t.dirty = s.dirty /\ t.failed = s.failed
                   /\ t.f = s.f /\ t.g = s.g /\ t.hAbs = s.hAbs /\ t.eq = s.eq /\ t.cvRaw = s.cvRaw
                   /\ t.cv = q
    BY DEF Slots
  <2>2. \A i \in DOMAIN buf : buf[i].cvRaw \in Nat
    BY <1>1 DEF Slots
  <2>3. \A i \in DOMAIN buf : AtLevel(buf[i].cvRaw, e) \in Nat
    BY <2>2, Numbers
  <2>4. QED
    BY <1>1, <2>1, <2>3
<1>3. /\ level' = e /\ UNCHANGED <<range, anyFailed, cvMax>>
      /\ e = level => UNCHANGED <<buf, present>>
      /\ e # level => /\ present' = present + 1
                      /\ buf' = [i \in DOMAIN buf |-> IF buf[i].dirty THEN buf[i] ELSE at(i)]
  BY DEF SetCvLevel
<1>4. CASE e = level
  <2>1. BufTypes'
    BY <1>3, <1>4, BufSame DEF PlaceInv
  <2>2. QED
    BY <1>3, <1>4, <2>1
<1>5. CASE e # level
  <2>0. \A i \in DOMAIN buf : buf[i].dirty => buf'[i] = buf[i]
    BY <1>3, <1>5
  <2>1. \A i \in DOMAIN buf : ~buf[i].dirty => buf'[i] = [buf[i] EXCEPT !.cv = AtLevel(buf[i].cvRaw, e)]
    BY <1>3, <1>5
  <2> HIDE DEF at
  <2>2. \A i \in DOMAIN buf : buf'[i] = IF buf[i].dirty THEN buf[i] ELSE at(i)
    BY <1>3, <1>5
  <2>3. buf' = [i \in DOMAIN buf |-> buf'[i]]
    BY <1>3, <1>5
  <2>4. \A i \in DOMAIN buf : buf'[i] \in Slots /\ (buf'[i].dirty => buf'[i].x \in Points)
    BY <1>1, <1>2, <2>2
  <2>5. BufTypes' /\ Len(buf') = Len(buf) /\ DOMAIN buf' = DOMAIN buf
    BY <2>3, <2>4, BufMapped
  <2>6. \A i \in DOMAIN buf :
               /\ buf'[i].x = buf[i].x /\ buf'[i].dirty = buf[i].dirty /\ buf'[i].failed = buf[i].failed
               /\ buf'[i].f = buf[i].f /\ buf'[i].g = buf[i].g /\ buf'[i].eq = buf[i].eq
               /\ buf'[i].hAbs = buf[i].hAbs /\ buf'[i].cvRaw = buf[i].cvRaw
               /\ ~buf[i].dirty => buf'[i].cv = AtLevel(buf[i].cvRaw, e)
    BY <1>2, <2>2
  <2>7. QED
    BY <1>3, <1>5, <2>0, <2>1, <2>5, <2>6
<1>6. QED
  BY <1>4, <1>5

-----------------------------------------------------------------------------
(* The operations on the lists.                                            *)

LEMMA Moved ==
  ASSUME NEW n \in Nat, Len(buf') = n, active' \in Seq(1..n), free' \in Seq(1..n), archive' \in Seq(1..n),
         Len(archive') <= MaxArchive, Placed(active', free', archive', n)
  PROVE  ListsIn'
BY DEF ListsIn

LEMMA ExpandIs ==
  ASSUME PlaceInv, NEW k \in 1..PopSize, Expand(k)
  PROVE  /\ BufTypes' /\ ListsIn' /\ DOMAIN buf \subseteq DOMAIN buf'
         /\ \A i \in DOMAIN buf' : buf'[i] = Blank \/ (i \in DOMAIN buf /\ buf'[i] = buf[i])
         /\ \A i \in ActiveSlots' : i \in ActiveSlots \/ buf'[i] = Blank
         /\ archive' = archive
<1> DEFINE n == Len(buf) + Shortage(k)
           f == GrownFree(k)
           taken == [i \in 1..k |-> f[Len(f) + 1 - i]]
<1>0. k \in Nat /\ Room(k) /\ PopSize \in Nat
  BY VaultAssumption DEF Expand
<1>1. /\ n \in Nat /\ Len(buf) <= n /\ n <= MaxSlots
      /\ GrownBuf(k) \in Seq(Slots) /\ Len(GrownBuf(k)) = n /\ DOMAIN GrownBuf(k) = 1..n
      /\ \A i \in DOMAIN buf : GrownBuf(k)[i] = buf[i]
      /\ \A i \in (1..n) \ DOMAIN buf : GrownBuf(k)[i] = Blank
      /\ f \in Seq(1..n) /\ k <= Len(f)
      /\ active \in Seq(1..n) /\ archive \in Seq(1..n) /\ Placed(active, f, archive, n)
  BY <1>0, GrowIs
<1>2. /\ Len(buf) \in Nat /\ DOMAIN buf = 1..Len(buf) /\ 2 * PopSize <= Len(buf)
      /\ MaxSlots \in Nat /\ buf \in Seq(Slots)
  BY PlaceFacts
<1>3. /\ active' = active \o taken /\ free' = SubSeq(f, 1, Len(f) - k) /\ archive' = archive
      /\ buf' = [i \in DOMAIN GrownBuf(k) |->
                    IF i \in Elements(taken) THEN Blank ELSE GrownBuf(k)[i]]
  BY DEF Expand
<1> HIDE DEF n, f
<1>4. Len(f) \in Nat
  BY <1>1
<1>5. k \in 0..Len(f)
  BY <1>0, <1>1, <1>4
<1>6. /\ taken \in Seq(1..n) /\ Len(taken) = k
      /\ free' \in Seq(1..n) /\ Len(free') = Len(f) - k
      /\ Elements(f) = Elements(free') \cup Elements(taken)
  <2>1. PICK t : t = taken
    OBVIOUS
  <2>2. /\ f \in Seq(1..n) /\ t \in [1..k -> 1..n]
        /\ \A i \in 1..k : t[i] = f[Len(f) + 1 - i]
    <3>1. \A i \in 1..k : Len(f) + 1 - i \in 1..Len(f)
      BY <1>4, <1>5
    <3>2. \A i \in 1..k : f[Len(f) + 1 - i] \in 1..n
      BY <1>1, <3>1
    <3>3. QED
      BY <1>1, <2>1, <3>2
  <2> HIDE DEF taken
  <2>3. /\ t \in Seq(1..n) /\ Len(t) = k
        /\ SubSeq(f, 1, Len(f) - k) \in Seq(1..n) /\ Len(SubSeq(f, 1, Len(f) - k)) = Len(f) - k
        /\ Elements(f) = Elements(SubSeq(f, 1, Len(f) - k)) \cup Elements(t)
    <3>1. \A s \in Seq(1..n) : \A j \in 0..Len(s) : \A u \in [1..j -> 1..n] :
             (\A i \in 1..j : u[i] = s[Len(s) + 1 - i]) =>
               /\ u \in Seq(1..n) /\ Len(u) = j
               /\ SubSeq(s, 1, Len(s) - j) \in Seq(1..n) /\ Len(SubSeq(s, 1, Len(s) - j)) = Len(s) - j
               /\ Elements(s) = Elements(SubSeq(s, 1, Len(s) - j)) \cup Elements(u)
      BY Taken
    <3>2. QED
      BY <1>5, <2>2, <3>1
  <2>4. QED
    BY <1>3, <2>1, <2>3
<1> HIDE DEF taken
<1>7. /\ active' \in Seq(1..n) /\ Len(active') = Len(active) + k
      /\ Elements(active') = Elements(active) \cup Elements(taken)
  <2>1. \A a, b \in Seq(1..n) : /\ a \o b \in Seq(1..n) /\ Len(a \o b) = Len(a) + Len(b)
                                /\ Elements(a \o b) = Elements(a) \cup Elements(b)
    BY ElementsOf
  <2>2. QED
    BY <1>1, <1>3, <1>6, <2>1
<1>8. \A i \in 1..n : buf'[i] = Blank \/ (i \in DOMAIN buf /\ buf'[i] = buf[i])
  BY <1>1, <1>3
<1>9. DOMAIN buf' = 1..n
  BY <1>1, <1>3
<1>10. buf' \in Seq(Slots) /\ Len(buf') = n
  <2>1. buf' = [i \in DOMAIN GrownBuf(k) |-> buf'[i]]
    BY <1>3
  <2>2. \A i \in DOMAIN GrownBuf(k) : buf'[i] \in Slots
    BY <1>1, <1>3, BlankIs
  <2>3. PICK b \in Seq(Slots) : b = GrownBuf(k)
    BY <1>1
  <2>4. PICK c : c = buf'
    OBVIOUS
  <2>5. c \in Seq(Slots) /\ Len(c) = Len(b)
    BY <2>1, <2>2, <2>3, <2>4, MappedIs
  <2>6. QED
    BY <1>1, <2>3, <2>4, <2>5
<1>11. BufTypes'
  <2>1. n \in (2 * PopSize)..MaxSlots
    BY <1>0, <1>1, <1>2
  <2>2. \A i \in DOMAIN buf' : buf'[i].dirty => buf'[i].x \in Points
    BY <1>8, <1>9, BlankIs DEF PlaceInv, BufTypes
  <2>3. QED
    BY <1>10, <2>1, <2>2 DEF BufTypes
<1>12. Placed(active', free', archive', n)
  <2>1. /\ Len(active) + Len(f) + Len(archive) = n
        /\ Elements(active) \cup Elements(f) \cup Elements(archive) = 1..n
    BY <1>1 DEF Placed
  <2>2. Len(active) \in Nat /\ Len(archive) \in Nat
    BY <1>1
  <2>3. (Len(active) + k) + (Len(f) - k) + Len(archive) = n
    <3>1. \A p, q, r, n0, d \in Nat : p + q + r = n0 => (p + d) + (q - d) + r = n0
      OBVIOUS
    <3>2. n \in Nat
      BY <1>1
    <3>3. QED
      BY <1>0, <1>4, <2>1, <2>2, <3>1, <3>2
  <2>4. (Elements(active) \cup Elements(taken)) \cup Elements(free') \cup Elements(archive) = 1..n
    BY <1>6, <2>1
  <2>5. QED
    BY <1>3, <1>6, <1>7, <2>3, <2>4 DEF Placed
<1>13. Len(archive) <= MaxArchive
  BY DEF PlaceInv, ListsIn
<1>14. ListsIn'
  BY <1>1, <1>3, <1>6, <1>7, <1>10, <1>12, <1>13, Moved
<1>15. \A i \in ActiveSlots' : i \in ActiveSlots \/ buf'[i] = Blank
  <2>1. \A i \in Elements(taken) : buf'[i] = Blank
    <3>1. Elements(taken) \subseteq 1..n
      BY <1>6, ElementsOf
    <3>2. QED
      BY <1>1, <1>3, <3>1
  <2>2. QED
    BY <1>7, <2>1 DEF ActiveSlots
<1>16. DOMAIN buf \subseteq DOMAIN buf'
  BY <1>1, <1>2, <1>9
<1>17. QED
  BY <1>3, <1>8, <1>9, <1>11, <1>14, <1>15, <1>16

\* The lists of an operation that leaves the buffer alone.
LEMMA ReduceIs ==
  ASSUME PlaceInv, NEW n \in 1..(Len(active) - 1), Reduce(n)
  PROVE  ListsIn' /\ ActiveSlots' \subseteq ActiveSlots /\ archive' = archive
<1> DEFINE m == Len(buf)
           a == SubSeq(active, 1, n)
           b == SubSeq(active, n + 1, Len(active))
<1>1. /\ m \in Nat /\ active \in Seq(1..m) /\ free \in Seq(1..m) /\ archive \in Seq(1..m)
      /\ Placed(active, free, archive, m)
  BY PlaceFacts
<1>2. /\ active' = a /\ free' = free \o b /\ archive' = archive /\ buf' = buf
  BY DEF Reduce, values
<1>3. Len(active) \in Nat /\ n \in 0..Len(active)
  <2>1. Len(active) \in Nat
    BY <1>1
  <2>2. QED
    BY <2>1
<1>4. /\ a \in Seq(1..m) /\ Len(a) = n /\ b \in Seq(1..m) /\ Len(b) = Len(active) - n
      /\ Elements(active) = Elements(a) \cup Elements(b)
  BY <1>1, <1>3, Parts
<1> HIDE DEF a, b, m
<1>5. /\ free \o b \in Seq(1..m) /\ Len(free \o b) = Len(free) + Len(b)
      /\ Elements(free \o b) = Elements(free) \cup Elements(b)
  <2>1. \A s, t \in Seq(1..m) : /\ s \o t \in Seq(1..m) /\ Len(s \o t) = Len(s) + Len(t)
                                /\ Elements(s \o t) = Elements(s) \cup Elements(t)
    BY ElementsOf
  <2>2. QED
    BY <1>1, <1>4, <2>1
<1>6. Placed(active', free', archive', m)
  <2>1. /\ Len(active) + Len(free) + Len(archive) = m
        /\ Elements(active) \cup Elements(free) \cup Elements(archive) = 1..m
    BY <1>1 DEF Placed
  <2>2. Len(free) \in Nat /\ Len(archive) \in Nat /\ n \in Nat
    BY <1>1
  <2>3. n + (Len(free) + (Len(active) - n)) + Len(archive) = m
    BY <1>1, <1>3, <2>1, <2>2
  <2>4. Elements(a) \cup (Elements(free) \cup Elements(b)) \cup Elements(archive) = 1..m
    BY <1>4, <2>1
  <2>5. QED
    BY <1>2, <1>4, <1>5, <2>3, <2>4 DEF Placed
<1>7. Len(archive) <= MaxArchive
  BY DEF PlaceInv, ListsIn
<1>8. ListsIn'
  <2>1. Len(buf') = m
    BY <1>2 DEF m
  <2>2. QED
    BY <1>1, <1>2, <1>4, <1>5, <1>6, <1>7, <2>1, Moved
<1>9. QED
  BY <1>2, <1>4, <1>8 DEF ActiveSlots

LEMMA SwapIs ==
  ASSUME PlaceInv, NEW v \in DOMAIN active, NEW w \in DOMAIN active, v < w, SwapActive(v, w)
  PROVE  ListsIn' /\ ActiveSlots' = ActiveSlots /\ archive' = archive
<1> DEFINE m == Len(buf)
<1>1. /\ m \in Nat /\ active \in Seq(1..m) /\ free \in Seq(1..m) /\ archive \in Seq(1..m)
      /\ Placed(active, free, archive, m)
  BY PlaceFacts
<1>2. /\ active' = [active EXCEPT ![v] = active[w], ![w] = active[v]]
      /\ free' = free /\ archive' = archive /\ buf' = buf
  BY DEF SwapActive, values
<1>3. v # w
  BY <1>1
<1>4. PICK a : a = active'
  OBVIOUS
<1>5. a \in Seq(1..m) /\ Len(a) = Len(active) /\ Elements(a) = Elements(active)
  <2>1. /\ active \in Seq(1..m) /\ a \in [DOMAIN active -> 1..m]
        /\ \A i \in DOMAIN active :
              a[i] = IF i = w THEN active[v] ELSE IF i = v THEN active[w] ELSE active[i]
    <3>1. a \in [DOMAIN active -> 1..m]
      <4>1. active \in [DOMAIN active -> 1..m] /\ active[v] \in 1..m /\ active[w] \in 1..m
        BY <1>1
      <4> HIDE DEF m
      <4>2. QED
        BY <1>2, <1>4, <4>1
    <3>2. a = [active EXCEPT ![v] = active[w], ![w] = active[v]]
      BY <1>2, <1>4
    <3>3. active \in Seq(1..m)
      BY <1>1
    <3> HIDE DEF m
    <3>4. \A i \in DOMAIN active :
              a[i] = IF i = w THEN active[v] ELSE IF i = v THEN active[w] ELSE active[i]
      BY <1>3, <3>2
    <3>5. QED
      BY <3>1, <3>3, <3>4
  <2> HIDE DEF m
  <2>2. QED
    BY <1>3, <2>1, Swapped
<1>6. Placed(active', free', archive', m)
  BY <1>1, <1>2, <1>4, <1>5 DEF Placed
<1>7. Len(archive) <= MaxArchive
  BY DEF PlaceInv, ListsIn
<1>8. QED
  BY <1>1, <1>2, <1>4, <1>5, <1>6, <1>7, Moved DEF ActiveSlots

LEMMA EraseIs ==
  ASSUME PlaceInv, NEW i \in DOMAIN archive, ArchiveErase(i)
  PROVE  ListsIn' /\ active' = active /\ Elements(archive') \subseteq Elements(archive)
<1> DEFINE m == Len(buf)
<1>1. /\ m \in Nat /\ active \in Seq(1..m) /\ free \in Seq(1..m) /\ archive \in Seq(1..m)
      /\ Placed(active, free, archive, m)
  BY PlaceFacts
<1>2. /\ free' = Append(free, archive[i]) /\ active' = active /\ buf' = buf
      /\ archive' = Front([archive EXCEPT ![i] = Back(archive)])
  BY DEF ArchiveErase, values
<1>3. PICK r : r = archive'
  OBVIOUS
<1>4. /\ r \in Seq(1..m) /\ Len(r) = Len(archive) - 1 /\ archive[i] \in 1..m
      /\ Elements(archive) = Elements(r) \cup {archive[i]}
  BY <1>1, <1>2, <1>3, LastInPlaceOf
<1>5. /\ Append(free, archive[i]) \in Seq(1..m) /\ Len(Append(free, archive[i])) = Len(free) + 1
      /\ Elements(Append(free, archive[i])) = Elements(free) \cup {archive[i]}
  BY <1>1, <1>4, OneMore
<1> HIDE DEF m
<1>6. Placed(active', free', archive', m)
  <2>1. /\ Len(active) + Len(free) + Len(archive) = m
        /\ Elements(active) \cup Elements(free) \cup Elements(archive) = 1..m
    BY <1>1 DEF Placed
  <2>2. Len(free) \in Nat /\ Len(archive) \in Nat /\ Len(active) \in Nat
    BY <1>1
  <2>3. Len(active) + (Len(free) + 1) + (Len(archive) - 1) = m
    <3>1. \A p, q, r0, n0 \in Nat : p + q + r0 = n0 => p + (q + 1) + (r0 - 1) = n0
      OBVIOUS
    <3>2. m \in Nat
      BY <1>1
    <3>3. QED
      BY <2>1, <2>2, <3>1, <3>2
  <2>4. Elements(active) \cup (Elements(free) \cup {archive[i]}) \cup Elements(r) = 1..m
    BY <1>4, <2>1
  <2>5. QED
    BY <1>2, <1>3, <1>4, <1>5, <2>3, <2>4 DEF Placed
<1>7. Len(archive') <= MaxArchive
  <2>1. Len(archive) <= MaxArchive /\ Len(archive) \in Nat /\ MaxArchive \in Nat
    BY <1>1, VaultAssumption DEF PlaceInv, ListsIn
  <2>2. QED
    BY <1>3, <1>4, <2>1
<1>8. ListsIn'
  <2>1. Len(buf') = m
    BY <1>2 DEF m
  <2>2. QED
    BY <1>1, <1>2, <1>3, <1>4, <1>5, <1>6, <1>7, <2>1, Moved
<1>9. QED
  BY <1>2, <1>3, <1>4, <1>8

LEMMA ClearIs ==
  ASSUME PlaceInv, ArchiveClear
  PROVE  ListsIn' /\ active' = active /\ Elements(archive') = {}
<1> DEFINE m == Len(buf)
<1>1. /\ m \in Nat /\ active \in Seq(1..m) /\ free \in Seq(1..m) /\ archive \in Seq(1..m)
      /\ Placed(active, free, archive, m)
  BY PlaceFacts
<1>2. free' = free \o archive /\ active' = active /\ buf' = buf /\ archive' = <<>>
  BY DEF ArchiveClear, values
<1>3. /\ free \o archive \in Seq(1..m) /\ Len(free \o archive) = Len(free) + Len(archive)
      /\ Elements(free \o archive) = Elements(free) \cup Elements(archive)
  BY <1>1, ElementsOf
<1>4. <<>> \in Seq(1..m) /\ Len(<<>>) = 0 /\ Elements(<<>>) = {}
  BY DEF Elements
<1> HIDE DEF m
<1>5. Placed(active', free', archive', m)
  <2>1. /\ Len(active) + Len(free) + Len(archive) = m
        /\ Elements(active) \cup Elements(free) \cup Elements(archive) = 1..m
    BY <1>1 DEF Placed
  <2>2. Len(free) \in Nat /\ Len(archive) \in Nat /\ Len(active) \in Nat
    BY <1>1
  <2>3. Len(active) + (Len(free) + Len(archive)) + 0 = m
    BY <1>1, <2>1, <2>2
  <2>4. Elements(active) \cup (Elements(free) \cup Elements(archive)) \cup {} = 1..m
    BY <2>1
  <2>5. QED
    BY <1>2, <1>3, <1>4, <2>3, <2>4 DEF Placed
<1>6. Len(archive') <= MaxArchive
  BY <1>2, <1>4, VaultAssumption
<1>7. ListsIn'
  <2>1. Len(buf') = m
    BY <1>2 DEF m
  <2>2. QED
    BY <1>1, <1>2, <1>3, <1>4, <1>5, <1>6, <2>1, Moved
<1>8. QED
  BY <1>2, <1>4, <1>7

\* A slot given to the archive, with what is written to it.
LEMMA PushIs ==
  ASSUME PlaceInv, TakeToArchive, NEW s \in Slots, ~s.dirty,
         buf' = [GrownBuf(1) EXCEPT ![Back(archive')] = s]
  PROVE  /\ BufTypes' /\ ListsIn' /\ active' = active /\ DOMAIN buf \subseteq DOMAIN buf'
         /\ Elements(archive') = Elements(archive) \cup {Back(archive')}
         /\ Back(archive') \in DOMAIN buf' /\ buf'[Back(archive')] = s
         /\ \A i \in DOMAIN buf' :
               i # Back(archive') => buf'[i] = Blank \/ (i \in DOMAIN buf /\ buf'[i] = buf[i])
         /\ \A i \in DOMAIN buf : i # Back(archive') => buf'[i] = buf[i]
<1> DEFINE n == Len(buf) + Shortage(1)
           r == Back(archive')
<1>0. 1 \in Nat /\ Room(1)
  BY DEF TakeToArchive
<1>1. /\ n \in Nat /\ Len(buf) <= n /\ n <= MaxSlots
      /\ GrownBuf(1) \in Seq(Slots) /\ Len(GrownBuf(1)) = n /\ DOMAIN GrownBuf(1) = 1..n
      /\ \A i \in DOMAIN buf : GrownBuf(1)[i] = buf[i]
      /\ \A i \in (1..n) \ DOMAIN buf : GrownBuf(1)[i] = Blank
      /\ active \in Seq(1..n)
  BY <1>0, GrowIs
<1>2. /\ free' \in Seq(1..n) /\ archive' \in Seq(1..n) /\ Len(archive') <= MaxArchive
      /\ r \in 1..n /\ active' = active /\ Elements(archive') = Elements(archive) \cup {r}
      /\ Placed(active', free', archive', n)
  BY TakeIs
<1>3. /\ Len(buf) \in Nat /\ DOMAIN buf = 1..Len(buf) /\ 2 * PopSize <= Len(buf)
      /\ MaxSlots \in Nat /\ PopSize \in Nat
  BY PlaceFacts
<1> HIDE DEF n, r
<1>4. buf' = [GrownBuf(1) EXCEPT ![r] = s]
  BY DEF r
<1>5. /\ buf' \in Seq(Slots) /\ Len(buf') = n /\ DOMAIN buf' = 1..n
      /\ \A i \in 1..n : buf'[i] = IF i = r THEN s ELSE GrownBuf(1)[i]
  <2>1. PICK b \in Seq(Slots) : b = GrownBuf(1)
    BY <1>1
  <2>2. PICK c : c = buf'
    OBVIOUS
  <2>3. r \in DOMAIN b /\ c = [b EXCEPT ![r] = s]
    BY <1>1, <1>2, <1>4, <2>1, <2>2
  <2>4. /\ c \in Seq(Slots) /\ Len(c) = Len(b) /\ DOMAIN c = DOMAIN b
        /\ \A i \in DOMAIN b : c[i] = IF i = r THEN s ELSE b[i]
    BY <2>3, ExceptIs
  <2>5. QED
    BY <1>1, <2>1, <2>2, <2>4
<1>6. \A i \in 1..n : i # r => buf'[i] = Blank \/ (i \in DOMAIN buf /\ buf'[i] = buf[i])
  BY <1>1, <1>5
<1>7. BufTypes'
  <2>1. n \in (2 * PopSize)..MaxSlots
    BY <1>1, <1>3
  <2>2. \A i \in DOMAIN buf' : buf'[i].dirty => buf'[i].x \in Points
    BY <1>2, <1>5, <1>6, BlankIs DEF PlaceInv, BufTypes
  <2>3. QED
    BY <1>5, <2>1, <2>2 DEF BufTypes
<1>8. ListsIn'
  BY <1>1, <1>2, <1>5, Moved
<1>9. DOMAIN buf \subseteq 1..n
  BY <1>1, <1>3
<1>10. \A i \in DOMAIN buf : i # r => buf'[i] = buf[i]
  BY <1>1, <1>5, <1>9
<1>11. QED
  BY <1>2, <1>5, <1>6, <1>7, <1>8, <1>9, <1>10 DEF r

-----------------------------------------------------------------------------
(* The numbers of the driver.                                              *)

LEMMA EvaluatedIs ==
  ASSUME PlaceInv
  PROVE  /\ IsFiniteSet(Evaluated)
         /\ \A v \in Evaluated : v \in DOMAIN active /\ active[v] \in DOMAIN buf /\ ~buf[active[v]].dirty
                                 /\ buf[active[v]].cvRaw \in Nat
<1>1. /\ active \in Seq(1..Len(buf)) /\ DOMAIN buf = 1..Len(buf) /\ PopSize \in Nat
      /\ \A i \in DOMAIN buf : buf[i] \in Slots
  BY PlaceFacts
<1>2. Len(active) \in Nat /\ DOMAIN active = 1..Len(active)
  BY <1>1
<1>3. Least(Len(active), PopSize) \in Nat /\ Least(Len(active), PopSize) <= Len(active)
  BY <1>1, <1>2 DEF Least
<1>4. IsFiniteSet(Evaluated)
  <2>1. Evaluated \subseteq 1..Least(Len(active), PopSize)
    BY DEF Evaluated
  <2>2. IsFiniteSet(1..Least(Len(active), PopSize))
    BY <1>3, FS_Interval
  <2>3. QED
    BY <2>1, <2>2, FS_Subset
<1>5. ASSUME NEW v \in Evaluated
      PROVE  v \in DOMAIN active /\ active[v] \in DOMAIN buf /\ ~buf[active[v]].dirty
             /\ buf[active[v]].cvRaw \in Nat
  <2>1. v \in 1..Least(Len(active), PopSize) /\ ~buf[active[v]].dirty
    BY DEF Evaluated
  <2>2. v \in DOMAIN active
    BY <1>2, <1>3, <2>1
  <2>3. active[v] \in DOMAIN buf
    BY <1>1, <2>2
  <2>4. buf[active[v]] \in Slots
    BY <1>1, <2>3
  <2>5. QED
    BY <2>1, <2>2, <2>3, <2>4 DEF Slots
<1>6. QED
  BY <1>4, <1>5

\* The level a run starts with is the violation of one of its points.
LEMMA ThetaIs ==
  ASSUME PlaceInv
  PROVE  /\ ThetaLevel \in Nat
         /\ ThetaLevel = 0 \/ \E v \in Evaluated : ThetaLevel = buf[active[v]].cvRaw
<1> DEFINE raw(v) == buf[active[v]].cvRaw
           k == Least(Theta, Cardinality(Evaluated))
           Fits(v) == /\ Cardinality({w \in Evaluated : raw(w) > raw(v)}) < k
                      /\ Cardinality({w \in Evaluated : raw(w) >= raw(v)}) >= k
<1>1. IsFiniteSet(Evaluated) /\ \A v \in Evaluated : raw(v) \in Nat
  BY EvaluatedIs
<1>2. CASE Evaluated = {}
  BY <1>2 DEF ThetaLevel
<1>3. CASE Evaluated # {}
  <2>1. ThetaLevel = raw(CHOOSE v \in Evaluated : Fits(v))
    BY <1>3 DEF ThetaLevel
  <2>2. k \in 1..Cardinality(Evaluated)
    <3>1. Cardinality(Evaluated) \in Nat /\ Cardinality(Evaluated) # 0
      BY <1>1, <1>3, FS_CardinalityType, FS_EmptySet
    <3>2. Theta \in Nat /\ Theta # 0
      BY VaultAssumption
    <3>3. QED
      BY <3>1, <3>2 DEF Least
  <2>3. PICK h \in [Evaluated -> Nat] : h = [v \in Evaluated |-> raw(v)]
    BY <1>1
  <2>4. \E v \in Evaluated : /\ Cardinality({w \in Evaluated : h[w] > h[v]}) < k
                             /\ Cardinality({w \in Evaluated : h[w] >= h[v]}) >= k
    <3> HIDE DEF k
    <3>1. QED
      BY <1>1, <1>3, <2>2, RankedExists
  <2>5. \A v \in Evaluated :
           /\ {w \in Evaluated : h[w] > h[v]} = {w \in Evaluated : raw(w) > raw(v)}
           /\ {w \in Evaluated : h[w] >= h[v]} = {w \in Evaluated : raw(w) >= raw(v)}
    BY <2>3
  <2>6. \E v \in Evaluated : Fits(v)
    <3>1. PICK v \in Evaluated : /\ Cardinality({w \in Evaluated : h[w] > h[v]}) < k
                                 /\ Cardinality({w \in Evaluated : h[w] >= h[v]}) >= k
      BY <2>4
    <3>2. Fits(v)
      BY <2>5, <3>1
    <3>3. QED
      BY <3>2
  <2> HIDE DEF Fits, k
  <2>7. (CHOOSE v \in Evaluated : Fits(v)) \in Evaluated
    BY <2>6
  <2>8. QED
    BY <1>1, <2>1, <2>7
<1>4. QED
  BY <1>2, <1>3

\* What rules 2 to 4 make of a level: never more than twice the largest violation.
LEMMA NextIs ==
  ASSUME NEW l \in Nat, NEW c \in Nat
  PROVE  /\ ((100 - Tau) * l) \div 100 \in Nat /\ ((100 - Tau) * l) \div 100 <= l
         /\ ((100 + Tau) * c) \div 100 \in Nat /\ ((100 + Tau) * c) \div 100 <= 2 * c
<1>1. Tau \in 0..100
  BY VaultAssumption
<1>2. PICK t \in 0..100 : t = Tau
  BY <1>1
<1>3. \A u \in Nat, b \in Nat : u <= 100 * b => u \div 100 \in Nat /\ u \div 100 <= b
  OBVIOUS
<1>4. (100 - t) * l \in Nat /\ (100 - t) * l <= 100 * l
  <2>1. PICK s \in 0..100 : s = 100 - t
    OBVIOUS
  <2>2. s * l \in Nat /\ s * l <= 100 * l
    OBVIOUS
  <2>3. QED
    BY <2>1, <2>2
<1>5. (100 + t) * c \in Nat /\ (100 + t) * c <= 100 * (2 * c)
  <2>1. PICK s \in 0..200 : s = 100 + t
    OBVIOUS
  <2>2. s * c \in Nat /\ s * c <= 200 * c
    OBVIOUS
  <2>3. 200 * c = 100 * (2 * c)
    OBVIOUS
  <2>4. QED
    BY <2>1, <2>2, <2>3
<1>6. 2 * c \in Nat
  OBVIOUS
<1>7. QED
  BY <1>2, <1>3, <1>4, <1>5, <1>6

-----------------------------------------------------------------------------
(* Each step keeps the types and the places.                               *)

LEMMA SettlePlaces ==
  ASSUME PlaceInv, NEW r \in DOMAIN buf, NEW x \in Points, Settle(r, x), Count,
         UNCHANGED <<places, eqTol, level, core, failRaise, mode, steps, moves>>
  PROVE  PlaceInv'
<1>1. /\ range \in Ranges /\ (range.seen => range.fLo <= range.fHi) /\ eqTol \in Tols /\ level \in Nat
      /\ cvMax \in Nat /\ copies \in [Kept -> Slots] /\ \A c \in Kept : ~copies[c].dirty
  BY DEF PlaceInv, RestTypes
<1>2. /\ anyFailed \in BOOLEAN /\ present \in Nat /\ seen \in 0..present /\ failRaise \in BOOLEAN
      /\ mode \in Modes /\ phase \in {"setup", "level", "refresh", "step", "final", "over"}
      /\ steps \in 0..MaxSteps /\ moves \in 0..MaxMoves /\ work \in 0..MaxWork /\ MaxWork \in Nat
      /\ phase \in {"refresh", "step"} => steps < MaxSteps
  BY VaultAssumption DEF PlaceInv, DriverIn, DriverTypes
<1>3. /\ UNCHANGED <<eqTol, level, copies, seen, failRaise, mode, steps, moves>>
      /\ work < MaxWork /\ work' = work + 1
  BY DEF core, Count
<1>4. work' \in 0..MaxWork
  BY <1>2, <1>3
<1>5. CASE Outcome[x] # Fails
  <2>1. /\ BufTypes' /\ Len(buf') = Len(buf)
        /\ range' \in Ranges /\ range'.fLo <= range'.fHi
        /\ present' \in {present, present + 1} /\ cvMax' \in Nat
        /\ UNCHANGED <<anyFailed, phase>>
    BY <1>5, FiniteSettled
  <2>2. ListsIn'
    BY <2>1, ListsSame DEF PlaceInv
  <2>3. RestTypes'
    BY <1>1, <1>3, <2>1 DEF RestTypes
  <2>4. present' \in Nat /\ seen \in 0..present'
    BY <1>2, <2>1
  <2>5. DriverIn'
    BY <1>2, <1>3, <1>4, <2>1, <2>4 DEF DriverIn, DriverTypes
  <2>6. QED
    BY <2>1, <2>2, <2>3, <2>5 DEF PlaceInv
<1>6. CASE Outcome[x] = Fails
  <2>1. /\ BufTypes' /\ Len(buf') = Len(buf) /\ UNCHANGED <<range, present, cvMax>>
        /\ anyFailed' \in BOOLEAN /\ phase' \in {phase, "over"}
    BY <1>2, <1>6, FailedSettled
  <2>2. ListsIn'
    BY <2>1, ListsSame DEF PlaceInv
  <2>3. RestTypes'
    BY <1>1, <1>3, <2>1 DEF RestTypes
  <2>4. DriverIn'
    BY <1>2, <1>3, <1>4, <2>1 DEF DriverIn, DriverTypes
  <2>5. QED
    BY <2>1, <2>2, <2>3, <2>4 DEF PlaceInv
<1>7. QED
  BY <1>5, <1>6

\* What is written when a point is put in a slot.
LEMMA WriteIs ==
  ASSUME PlaceInv, NEW p \in Slots, ~p.dirty, NEW b, NEW r, WritePoint(b, r, p)
  PROVE  LET s == BringUp(p, range, eqTol, level)
         IN  /\ s \in Slots /\ ~s.dirty /\ buf' = [b EXCEPT ![r] = s] /\ s.failed = p.failed
             /\ cvMax' = (IF p.failed THEN cvMax ELSE Most(cvMax, s.cvRaw)) /\ cvMax' \in Nat
             /\ UNCHANGED <<range, anyFailed, present>>
<1>1. range \in Ranges /\ (range.seen => range.fLo <= range.fHi) /\ level \in Nat /\ cvMax \in Nat
  BY DEF PlaceInv, RestTypes
<1>2. eqTol \in Nat
  BY TolIs DEF PlaceInv
<1>3. PICK s : s = BringUp(p, range, eqTol, level)
  OBVIOUS
<1>4. s \in Slots /\ s.dirty = p.dirty /\ s.failed = p.failed
  BY <1>1, <1>2, <1>3, BringUpIs
<1>5. s.cvRaw \in Nat
  BY <1>4 DEF Slots
<1>6. /\ buf' = [b EXCEPT ![r] = s] /\ cvMax' = (IF s.failed THEN cvMax ELSE Most(cvMax, s.cvRaw))
      /\ UNCHANGED <<range, anyFailed, present>>
  BY <1>3 DEF WritePoint
<1>7. cvMax' \in Nat
  BY <1>1, <1>5, <1>6 DEF Most
<1>8. QED
  BY <1>3, <1>4, <1>6, <1>7

LEMMA PutPlaces ==
  ASSUME PlaceInv, NEW v \in DOMAIN active, NEW p \in Slots, ~p.dirty, PutPoint(v, p)
  PROVE  PlaceInv'
<1>1. active[v] \in DOMAIN buf
  BY SlotsOf
<1>2. /\ Count /\ WritePoint(buf, active[v], p)
      /\ UNCHANGED <<places, eqTol, level, core, driver>>
  BY DEF PutPoint
<1>3. PICK s \in Slots : ~s.dirty /\ buf' = [buf EXCEPT ![active[v]] = s]
  BY <1>2, WriteIs
<1>4. cvMax' \in Nat /\ UNCHANGED <<range, anyFailed, present>>
  BY <1>2, WriteIs
<1>5. BufTypes' /\ Len(buf') = Len(buf)
  BY <1>1, <1>3, BufWritten
<1>6. ListsIn'
  BY <1>2, <1>5, ListsSame DEF PlaceInv
<1>7. RestTypes'
  BY <1>2, <1>4 DEF PlaceInv, RestTypes, core
<1>8. DriverIn'
  BY <1>2, <1>4, Counted DEF PlaceInv, core
<1>9. QED
  BY <1>5, <1>6, <1>7, <1>8 DEF PlaceInv

LEMMA PlaceCore == PlaceInv /\ CoreStep => PlaceInv'
<1> SUFFICES ASSUME PlaceInv, CoreStep PROVE PlaceInv'
  OBVIOUS
<1> USE DEF PlaceInv
<1>1. ASSUME NEW v \in DOMAIN active, NEW x \in Points, SetVariables(v, x) PROVE PlaceInv'
  <2>1. PICK r \in DOMAIN buf : r = active[v]
    BY SlotsOf
  <2>2. buf[r] \in Slots
    BY PlaceFacts
  <2>3. PICK s \in Slots : s = [buf[r] EXCEPT !.x = x, !.dirty = TRUE] /\ s.x = x
    <3> DEFINE s == [buf[r] EXCEPT !.x = x, !.dirty = TRUE]
    <3>1. s \in Slots /\ s.x = x
      BY <2>2 DEF Slots
    <3>2. QED
      BY <3>1, Zenon
  <2>4. /\ buf' = [buf EXCEPT ![r].x = x, ![r].dirty = TRUE] /\ Count
        /\ UNCHANGED <<places, range, anyFailed, cvMax, present, eqTol, level, core, driver>>
    BY <1>1, <2>1 DEF SetVariables, Working
  <2>5. buf' = [buf EXCEPT ![r] = s]
    BY <2>3, <2>4
  <2>6. BufTypes' /\ Len(buf') = Len(buf)
    BY <2>3, <2>5, BufWritten
  <2>7. ListsIn' /\ RestTypes' /\ DriverIn'
    BY <2>4, <2>6, ListsSame, RestSame, Counted DEF core
  <2>8. QED
    BY <2>6, <2>7
<1>2. ASSUME NEW v \in DOMAIN active, NEW x \in Points, Seed(v, x) PROVE PlaceInv'
  <2>1. active[v] \in DOMAIN buf
    BY SlotsOf
  <2>2. /\ Settle(active[v], x) /\ Count
        /\ UNCHANGED <<places, eqTol, level, core, failRaise, mode, steps, moves>>
    BY <1>2 DEF Seed
  <2>3. QED
    BY <2>1, <2>2, SettlePlaces
<1>3. ASSUME NEW v \in DOMAIN active, Evaluate(v) PROVE PlaceInv'
  <2>1. active[v] \in DOMAIN buf
    BY SlotsOf
  <2>2. /\ buf[active[v]].dirty /\ Settle(active[v], buf[active[v]].x) /\ Count
        /\ UNCHANGED <<places, eqTol, level, core, failRaise, mode, steps, moves>>
    BY <1>3 DEF Evaluate, Working
  <2>3. buf[active[v]].x \in Points
    BY <2>1, <2>2 DEF BufTypes
  <2>4. QED
    BY <2>1, <2>2, <2>3, SettlePlaces
<1>4. ASSUME NEW k \in 1..PopSize, Expand(k) PROVE PlaceInv'
  <2>1. BufTypes' /\ ListsIn'
    BY <1>4, ExpandIs
  <2>2. Count /\ UNCHANGED <<archive, range, anyFailed, cvMax, present, eqTol, level, core, driver>>
    BY <1>4 DEF Expand
  <2>3. RestTypes' /\ DriverIn'
    BY <2>2, RestSame, Counted DEF core
  <2>4. QED
    BY <2>1, <2>3
<1>5. ASSUME ListsIn', Count, UNCHANGED <<values, eqTol, level, core, driver>> PROVE PlaceInv'
  <2>1. BufTypes' /\ RestTypes' /\ DriverIn'
    BY <1>5, BufSame, RestSame, Counted DEF values, core
  <2>2. QED
    BY <1>5, <2>1
<1>6. ASSUME NEW n \in 1..(Len(active) - 1), Reduce(n) PROVE PlaceInv'
  BY <1>5, <1>6, ReduceIs DEF Reduce
<1>7. ASSUME NEW v \in DOMAIN active, NEW w \in DOMAIN active, v < w, SwapActive(v, w) PROVE PlaceInv'
  BY <1>5, <1>7, SwapIs DEF SwapActive
<1>8. ASSUME NEW c \in Kept, NEW r \in Live, PointOf(c, r) PROVE PlaceInv'
  <2>1. r \in DOMAIN buf
    BY SlotsOf
  <2>2. buf[r] \in Slots
    BY <2>1, PlaceFacts
  <2>3. /\ Readable(r) /\ Count /\ copies' = [copies EXCEPT ![c] = buf[r]]
        /\ UNCHANGED <<places, values, eqTol, level, seen, driver>>
    BY <1>8 DEF PointOf, Working
  <2>4. copies' \in [Kept -> Slots] /\ \A d \in Kept : ~copies'[d].dirty
    BY <2>2, <2>3 DEF RestTypes, Readable
  <2>5. RestTypes'
    BY <2>3, <2>4 DEF RestTypes, values
  <2>6. BufTypes' /\ ListsIn' /\ DriverIn'
    BY <2>3, BufSame, ListsSame, Counted DEF values
  <2>7. QED
    BY <2>5, <2>6
<1>9. \A c \in Kept : copies[c] \in Slots /\ ~copies[c].dirty
  BY DEF RestTypes
<1>10. ASSUME NEW c \in Kept, NEW v \in DOMAIN active, PutPoint(v, copies[c]) PROVE PlaceInv'
  BY <1>9, <1>10, PutPlaces
<1>11. ASSUME NEW v \in DOMAIN active, NEW w \in DOMAIN active, CopyPoint(v, w) PROVE PlaceInv'
  <2>1. Readable(active[v]) /\ PutPoint(w, buf[active[v]])
    BY <1>11 DEF CopyPoint
  <2>2. buf[active[v]] \in Slots /\ ~buf[active[v]].dirty
    BY <2>1, SlotsOf, PlaceFacts DEF Readable
  <2>3. QED
    BY <2>1, <2>2, PutPlaces
<1>12. ASSUME NEW v \in DOMAIN active, ArchivePush(v) PROVE PlaceInv'
  <2>1. PICK s \in Slots : s = buf[active[v]]
    BY SlotsOf, PlaceFacts
  <2>2. /\ Readable(active[v]) /\ TakeToArchive /\ Count
        /\ buf' = [GrownBuf(1) EXCEPT ![Back(archive')] = s]
        /\ UNCHANGED <<range, anyFailed, cvMax, present, eqTol, level, core, driver>>
    BY <1>12, <2>1 DEF ArchivePush, Working
  <2>3. ~s.dirty
    BY <2>1, <2>2 DEF Readable
  <2>4. BufTypes' /\ ListsIn'
    BY <2>2, <2>3, PushIs
  <2>5. RestTypes' /\ DriverIn'
    BY <2>2, RestSame, Counted DEF core
  <2>6. QED
    BY <2>4, <2>5
<1>13. ASSUME NEW c \in Kept, ArchivePushPoint(copies[c]) PROVE PlaceInv'
  <2>1. PICK p \in Slots : p = copies[c] /\ ~p.dirty
    BY <1>9
  <2>2. /\ TakeToArchive /\ Count /\ WritePoint(GrownBuf(1), Back(archive'), p)
        /\ UNCHANGED <<eqTol, level, core, driver>>
    BY <1>13, <2>1 DEF ArchivePushPoint
  <2>3. PICK s \in Slots : ~s.dirty /\ buf' = [GrownBuf(1) EXCEPT ![Back(archive')] = s]
    BY <2>1, <2>2, WriteIs
  <2>4. BufTypes' /\ ListsIn'
    BY <2>2, <2>3, PushIs
  <2>5. cvMax' \in Nat /\ UNCHANGED <<range, anyFailed, present>>
    BY <2>1, <2>2, WriteIs
  <2>6. RestTypes'
    BY <2>2, <2>5 DEF RestTypes, core
  <2>7. DriverIn'
    BY <2>2, <2>5, Counted DEF core
  <2>8. QED
    BY <2>4, <2>6, <2>7
<1>14. ASSUME NEW i \in DOMAIN archive, ArchiveErase(i) PROVE PlaceInv'
  BY <1>5, <1>14, EraseIs DEF ArchiveErase
<1>15. ASSUME ArchiveClear PROVE PlaceInv'
  BY <1>5, <1>15, ClearIs DEF ArchiveClear
<1>16. QED
  BY <1>1, <1>2, <1>3, <1>4, <1>6, <1>7, <1>8, <1>10, <1>11, <1>12, <1>13, <1>14, <1>15 DEF CoreStep

LEMMA PlaceDriver == PlaceInv /\ DriverStep => PlaceInv'
<1> SUFFICES ASSUME PlaceInv, DriverStep PROVE PlaceInv'
  OBVIOUS
<1> USE DEF PlaceInv
<1>0. /\ anyFailed \in BOOLEAN /\ present \in Nat /\ seen \in 0..present /\ failRaise \in BOOLEAN
      /\ mode \in Modes /\ phase \in {"setup", "level", "refresh", "step", "final", "over"}
      /\ steps \in 0..MaxSteps /\ moves \in 0..MaxMoves /\ work \in 0..MaxWork
      /\ MaxSteps \in Nat /\ MaxMoves \in Nat
  BY VaultAssumption DEF DriverIn, DriverTypes
<1>1. ASSUME NEW e \in Nat, SetCvLevel(e), UNCHANGED <<places, eqTol, core>>
      PROVE  BufTypes' /\ ListsIn' /\ RestTypes' /\ anyFailed' \in BOOLEAN /\ present' \in Nat
             /\ seen' \in 0..present'
  <2>1. /\ BufTypes' /\ Len(buf') = Len(buf) /\ level' = e /\ UNCHANGED <<range, anyFailed, cvMax>>
        /\ present' \in {present, present + 1}
    BY <1>1, LevelSet
  <2>2. ListsIn' /\ RestTypes'
    BY <1>1, <2>1, ListsSame DEF RestTypes, core
  <2>3. present' \in Nat /\ seen' \in 0..present'
    BY <1>0, <1>1, <2>1 DEF core
  <2>4. QED
    BY <1>0, <2>1, <2>2, <2>3
<1>2. ASSUME NEW d \in Tols, SetEqTol(d), UNCHANGED <<places, level, core>>
      PROVE  BufTypes' /\ ListsIn' /\ RestTypes' /\ anyFailed' \in BOOLEAN /\ present' \in Nat
             /\ seen' \in 0..present'
  <2>1. /\ BufTypes' /\ Len(buf') = Len(buf) /\ eqTol' = d /\ UNCHANGED <<range, anyFailed>>
        /\ cvMax' \in Nat /\ present' \in {present, present + 1}
    BY <1>2, TolSet
  <2>2. ListsIn' /\ RestTypes'
    BY <1>2, <2>1, ListsSame DEF RestTypes, core
  <2>3. present' \in Nat /\ seen' \in 0..present'
    BY <1>0, <1>2, <2>1 DEF core
  <2>4. QED
    BY <1>0, <2>1, <2>2, <2>3
<1>3. eqTol \in Tols /\ TolEnd \in Tols /\ level \in Nat /\ cvMax \in Nat
  BY VaultAssumption DEF RestTypes
<1>4. ASSUME StartRun PROVE PlaceInv'
  <2>1. PICK e \in Nat : SetCvLevel(e)
    BY <1>4, ThetaIs DEF StartRun
  <2>2. /\ phase' = "level"
        /\ UNCHANGED <<places, eqTol, core, failRaise, mode, steps, moves, work>>
    BY <1>4 DEF StartRun
  <2>3. DriverIn'
    BY <1>0, <1>1, <2>1, <2>2 DEF DriverIn, DriverTypes
  <2>4. QED
    BY <1>1, <2>1, <2>2, <2>3
<1>5. ASSUME NextLevel PROVE PlaceInv'
  <2>1. PICK e \in Nat : SetCvLevel(e)
    <3>1. ((100 - Tau) * level) \div 100 \in Nat /\ ((100 + Tau) * cvMax) \div 100 \in Nat
      BY <1>3, NextIs
    <3>2. QED
      BY <1>5, <3>1 DEF NextLevel
  <2>2. /\ moves < MaxMoves /\ moves' = moves + 1
        /\ UNCHANGED <<places, eqTol, core, failRaise, mode, phase, steps, work>>
    BY <1>5 DEF NextLevel
  <2>3. moves' \in 0..MaxMoves
    BY <1>0, <2>2
  <2>4. DriverIn'
    BY <1>0, <1>1, <2>1, <2>2, <2>3 DEF DriverIn, DriverTypes
  <2>5. QED
    BY <1>1, <2>1, <2>2, <2>4
<1>6. ASSUME NEW d \in Tols, NextTol(d) PROVE PlaceInv'
  <2>1. /\ SetEqTol(d) /\ phase' = "refresh" /\ steps < MaxSteps
        /\ UNCHANGED <<places, level, core, failRaise, mode, steps, moves, work>>
    BY <1>6 DEF NextTol
  <2>2. DriverIn'
    BY <1>0, <1>2, <2>1 DEF DriverIn, DriverTypes
  <2>3. QED
    BY <1>2, <2>1, <2>2
<1>7. ASSUME Refresh PROVE PlaceInv'
  <2>1. /\ phase = "refresh" /\ phase' = "step" /\ seen' = present
        /\ copies' = IF seen = present THEN copies
                     ELSE [c \in Kept |-> IF copies[c].x = NoPoint THEN Blank
                                          ELSE BringUp(copies[c], range, eqTol, level)]
        /\ UNCHANGED <<places, values, eqTol, level, failRaise, mode, steps, moves, work>>
    BY <1>7 DEF Refresh
  <2>2. \A c \in Kept : copies[c] \in Slots /\ ~copies[c].dirty
    BY DEF RestTypes
  <2>3. /\ range \in Ranges /\ (range.seen => range.fLo <= range.fHi) /\ level \in Nat /\ eqTol \in Nat
    BY TolIs DEF RestTypes
  <2>4. \A c \in Kept : /\ BringUp(copies[c], range, eqTol, level) \in Slots
                        /\ ~BringUp(copies[c], range, eqTol, level).dirty
    BY <2>2, <2>3, BringUpIs
  <2>5. copies' \in [Kept -> Slots] /\ \A c \in Kept : ~copies'[c].dirty
    <3>1. CASE seen = present
      BY <2>1, <3>1 DEF RestTypes
    <3>2. CASE seen # present
      BY <2>1, <2>4, <3>2, BlankIs
    <3>3. QED
      BY <3>1, <3>2
  <2>6. RestTypes'
    BY <2>1, <2>5 DEF RestTypes, values
  <2>7. BufTypes' /\ ListsIn'
    BY <2>1, BufSame, ListsSame DEF values
  <2>8. DriverIn'
    BY <1>0, <2>1 DEF DriverIn, DriverTypes, values
  <2>9. QED
    BY <2>6, <2>7, <2>8
<1>8. ASSUME EndStep PROVE PlaceInv'
  <2>1. /\ phase' = "level" /\ steps' = steps + 1
        /\ UNCHANGED <<places, values, eqTol, level, core, failRaise, mode, moves, work>>
    BY <1>8 DEF EndStep
  <2>2. steps' \in 0..MaxSteps
    <3>1. steps < MaxSteps
      BY <1>8 DEF EndStep, DriverIn
    <3>2. QED
      BY <1>0, <2>1, <3>1
  <2>3. DriverIn'
    BY <1>0, <2>1, <2>2 DEF DriverIn, DriverTypes, values, core
  <2>4. BufTypes' /\ ListsIn' /\ RestTypes'
    BY <2>1, BufSame, ListsSame, RestSame DEF values, core
  <2>5. QED
    BY <2>3, <2>4
<1>9. ASSUME FinalTol PROVE PlaceInv'
  <2>1. PICK d \in Tols : SetEqTol(d)
    BY <1>3, <1>9 DEF FinalTol
  <2>2. /\ phase' = "final"
        /\ UNCHANGED <<places, level, core, failRaise, mode, steps, moves, work>>
    BY <1>9 DEF FinalTol
  <2>3. DriverIn'
    BY <1>0, <1>2, <2>1, <2>2 DEF DriverIn, DriverTypes
  <2>4. QED
    BY <1>2, <2>1, <2>2, <2>3
<1>10. ASSUME FinalLevel PROVE PlaceInv'
  <2>1. /\ SetCvLevel(0) /\ phase' = "over"
        /\ UNCHANGED <<places, eqTol, core, failRaise, mode, steps, moves, work>>
    BY <1>10 DEF FinalLevel
  <2>2. DriverIn'
    BY <1>0, <1>1, <2>1 DEF DriverIn, DriverTypes
  <2>3. QED
    BY <1>1, <2>1, <2>2
<1>11. QED
  BY <1>4, <1>5, <1>6, <1>7, <1>8, <1>9, <1>10 DEF DriverStep

LEMMA PlaceStep == PlaceInv /\ [Next]_vars => PlaceInv'
<1> SUFFICES ASSUME PlaceInv, [Next]_vars PROVE PlaceInv'
  OBVIOUS
<1>1. ASSUME UNCHANGED vars PROVE PlaceInv'
  <2>1. /\ UNCHANGED <<places, values, eqTol, level, core, driver, work>>
    BY <1>1 DEF vars
  <2>2. BufTypes' /\ ListsIn' /\ RestTypes'
    BY <2>1, BufSame, ListsSame, RestSame DEF PlaceInv, values, core
  <2>3. DriverIn'
    BY <2>1 DEF PlaceInv, DriverIn, DriverTypes, values, core, driver
  <2>4. QED
    BY <2>2, <2>3 DEF PlaceInv
<1>2. QED
  BY <1>1, PlaceCore, PlaceDriver DEF Next, Over

LEMMA PlaceAlways == Spec => []PlaceInv
BY PlaceInit, PlaceStep, PTL DEF Spec

\* Every variable of the vault keeps its type.
THEOREM VaultTypes == Spec => []TypeOK
<1>1. PlaceInv => TypeOK
  BY PlaceShows
<1>2. QED
  BY <1>1, PlaceAlways, PTL

\* A slot is active, free or archived, and only one of them, whatever is
\* expanded, dropped, archived and erased (data_vault.hpp, one pool under three
\* lists).
THEOREM SlotsInOnePlace == Spec => []OnePlace
<1>1. PlaceInv => OnePlace
  BY PlaceShows
<1>2. QED
  BY <1>1, PlaceAlways, PTL

-----------------------------------------------------------------------------
(* What a point is worth, and what it stays worth.                         *)

LEMMA AgreesIs == \A p : Agrees(p) <=> AgreesAt(p, range, eqTol, level)
BY DEF Agrees, AgreesAt

\* What is evaluated is right, and widens the range to hold it.
LEMMA RatedTrue ==
  ASSUME NEW x \in Points, Outcome[x] # Fails, NEW tol \in Nat, tol <= Tol0, NEW e \in Nat,
         NEW r \in Ranges, r.seen => r.fLo <= r.fHi, NEW some
  PROVE  LET t == Rated(Finite(x, tol), e)  w == Widened(r, Finite(x, tol))
         IN  /\ Right(t, w, some) /\ AgreesAt(t, w, tol, e) /\ t.x # NoPoint
             /\ tol = Tol0 => Violation(Finite(x, tol)) <= Bound(w)
<1>1. PICK new \in Slots :
         /\ new = Finite(x, tol) /\ new.x = x /\ ~new.dirty /\ ~new.failed
         /\ new.f = Outcome[x].f /\ new.g = Outcome[x].g /\ new.hAbs = Outcome[x].h
         /\ new.hAbs \in Nat /\ new.eq = new.hAbs - tol
  BY FiniteIs
<1>2. PICK t \in Slots :
         /\ t = Rated(new, e) /\ t.x = x /\ ~t.dirty /\ ~t.failed
         /\ t.f = new.f /\ t.g = new.g /\ t.eq = new.eq /\ t.hAbs = new.hAbs
         /\ t.cvRaw = Pos(t.g) + Pos(t.eq) /\ t.cv = AtLevel(t.cvRaw, e)
  <2>1. PICK t : t = Rated(new, e)
    OBVIOUS
  <2>2. /\ t \in Slots /\ t.x = new.x /\ t.dirty = new.dirty /\ t.failed = new.failed
        /\ t.f = new.f /\ t.g = new.g /\ t.eq = new.eq /\ t.hAbs = new.hAbs
        /\ t.cvRaw = Pos(new.g) + Pos(new.eq) /\ t.cv = AtLevel(t.cvRaw, e)
    BY <2>1, RatedIs
  <2>3. QED
    BY <1>1, <2>1, <2>2
<1>3. PICK w \in Ranges :
         /\ w = Widened(r, new) /\ w.seen /\ w.fLo <= new.f /\ new.f <= w.fHi
         /\ new.g <= w.gHi /\ new.eq <= w.eqHi /\ Pos(new.g) + Pos(new.eq) <= Bound(w)
  BY WidenedIs
<1>4. t.hAbs - Tol0 <= w.eqHi
  <2>1. Tol0 \in Nat /\ w.eqHi \in Int
    BY VaultAssumption DEF Ranges
  <2>2. QED
    BY <1>1, <1>2, <1>3, <2>1
<1>5. Right(t, w, some)
  BY <1>1, <1>2, <1>3, <1>4 DEF Right, Genuine, Within
<1>6. AgreesAt(t, w, tol, e)
  BY <1>1, <1>2 DEF AgreesAt
<1>7. x # NoPoint
  BY VaultAssumption
<1>8. Violation(new) <= Bound(w)
  BY <1>3 DEF Violation
<1>9. QED
  BY <1>1, <1>2, <1>3, <1>5, <1>6, <1>7, <1>8

\* A wider range holds what the narrower one held.
LEMMA RightWider ==
  ASSUME NEW p \in Slots, NEW r \in Ranges, NEW s \in Slots, r.seen => r.fLo <= r.fHi,
         NEW some, NEW more, some => more, Right(p, r, some)
  PROVE  Right(p, Widened(r, s), more)
<1>1. PICK w \in Ranges :
         /\ w = Widened(r, s) /\ w.seen
         /\ r.seen => w.fLo <= r.fLo /\ r.fHi <= w.fHi /\ r.gHi <= w.gHi /\ r.eqHi <= w.eqHi
  BY WidenedIs
<1>2. /\ p.f \in Int /\ p.g \in Int /\ p.hAbs \in Int /\ Tol0 \in Nat
      /\ r.fLo \in Int /\ r.fHi \in Int /\ r.gHi \in Int /\ r.eqHi \in Int
      /\ w.fLo \in Int /\ w.fHi \in Int /\ w.gHi \in Int /\ w.eqHi \in Int
  BY VaultAssumption DEF Slots, Ranges
<1>3. PICK h \in Int : h = p.hAbs - Tol0
  BY <1>2
<1>4. Within(p, w)
  BY <1>1, <1>2, <1>3 DEF Right, Within
<1>5. QED
  BY <1>1, <1>4 DEF Right

\* Only a point that failed depends on the range, and on no tolerance.
LEMMA AgreesStays ==
  ASSUME NEW p, NEW r, NEW w, NEW tol, NEW tol2, NEW e, Genuine(p), AgreesAt(p, r, tol, e),
         ~p.failed => tol = tol2, p.failed => r = w
  PROVE  AgreesAt(p, w, tol2, e)
BY DEF Genuine, AgreesAt

\* A point that failed is worth what the range makes of it, above the level.
LEMMA PenalizedTrue ==
  ASSUME NEW p \in Slots, NEW r \in Ranges, r.seen => r.fLo <= r.fHi,
         p.x \in Points, ~p.dirty, p.failed, Outcome[p.x] = Fails,
         NEW tol, NEW e \in Nat, e <= 2 * Bound(r) + 1
  PROVE  Right(Penalized(p, r), r, TRUE) /\ AgreesAt(Penalized(p, r), r, tol, e)
<1>1. PICK t \in Slots :
         /\ t = Penalized(p, r) /\ t.x = p.x /\ ~t.dirty /\ t.failed
         /\ t.f = WorstObjective(r) /\ t.g = WorstLimit(r, r.gHi) /\ t.eq = WorstLimit(r, r.eqHi)
         /\ t.cvRaw = t.g + t.eq /\ t.cv = t.cvRaw /\ t.cvRaw = 2 * Bound(r) + 2
  BY PenalizedIs
<1>2. t.cv = AtLevel(t.cvRaw, e)
  <2>1. Bound(r) \in Nat
    BY WorstIs
  <2>2. t.cvRaw \in Nat /\ t.cvRaw > e
    BY <1>1, <2>1
  <2>3. QED
    BY <1>1, <2>2, Numbers
<1>3. QED
  BY <1>1, <1>2 DEF Right, Genuine, Within, AgreesAt

\* A point written back is brought to what the vault would make of it now.
LEMMA BringUpTrue ==
  ASSUME NEW p \in Slots, NEW r \in Ranges, r.seen => r.fLo <= r.fHi, NEW tol \in Nat, NEW e \in Nat,
         NEW some, Right(p, r, some)
  PROVE  LET t == BringUp(p, r, tol, e)
         IN  /\ Right(t, r, some) /\ AgreesAt(t, r, tol, e) /\ t.x = p.x
             /\ ~p.failed /\ tol = Tol0 => t.cvRaw <= Bound(r)
<1>1. PICK t \in Slots :
         /\ t = BringUp(p, r, tol, e)
         /\ t.x = p.x /\ t.dirty = p.dirty /\ t.failed = p.failed /\ t.hAbs = p.hAbs
         /\ t.cvRaw = Pos(t.g) + Pos(t.eq) /\ t.cv = AtLevel(t.cvRaw, e)
         /\ p.failed => /\ t.f = WorstObjective(r) /\ t.g = WorstLimit(r, r.gHi)
                        /\ t.eq = WorstLimit(r, r.eqHi) /\ t.cvRaw = t.g + t.eq
         /\ ~p.failed => t.f = p.f /\ t.g = p.g /\ (p.hAbs >= 0 => t.eq = p.hAbs - tol)
  BY BringUpIs
<1>2. /\ p.x \in Points /\ ~p.dirty /\ (p.failed <=> Outcome[p.x] = Fails)
      /\ ~p.failed => p.f = Outcome[p.x].f /\ p.g = Outcome[p.x].g /\ p.hAbs = Outcome[p.x].h
  BY DEF Right, Genuine
<1>3. ~p.failed => p.hAbs >= 0
  <2>1. ~p.failed => p.hAbs \in Nat
    BY <1>2, VaultAssumption
  <2>2. QED
    BY <2>1
<1>4. Right(t, r, some)
  BY <1>1, <1>2 DEF Right, Genuine, Within
<1>5. AgreesAt(t, r, tol, e)
  BY <1>1, <1>2, <1>3 DEF AgreesAt
<1>6. ASSUME ~p.failed, tol = Tol0 PROVE t.cvRaw <= Bound(r)
  <2>1. r.seen /\ t.g <= r.gHi /\ t.eq <= r.eqHi
    BY <1>1, <1>3, <1>6 DEF Right, Within
  <2>2. t.g \in Int /\ t.eq \in Int /\ r.gHi \in Int /\ r.eqHi \in Int
    BY DEF Slots, Ranges
  <2>3. Pos(t.g) <= Pos(r.gHi) /\ Pos(t.eq) <= Pos(r.eqHi)
    BY <2>1, <2>2, Numbers
  <2>4. Pos(t.g) \in Nat /\ Pos(t.eq) \in Nat /\ Pos(r.gHi) \in Nat /\ Pos(r.eqHi) \in Nat
    BY <2>2, Numbers
  <2>5. QED
    BY <1>1, <2>1, <2>3, <2>4 DEF Bound
<1>7. QED
  BY <1>1, <1>4, <1>5, <1>6

\* Nothing that did not fail is worth more than the bound, at the first tolerance.
LEMMA RawBound ==
  ASSUME NEW p \in Slots, NEW r \in Ranges, r.seen => r.fLo <= r.fHi, NEW some, NEW e,
         Right(p, r, some), AgreesAt(p, r, Tol0, e), ~p.failed
  PROVE  p.cvRaw <= Bound(r)
<1>1. r.seen /\ p.g <= r.gHi /\ p.eq <= r.eqHi /\ p.cvRaw = Pos(p.g) + Pos(p.eq)
  BY DEF Right, Genuine, Within, AgreesAt
<1>2. p.g \in Int /\ p.eq \in Int /\ r.gHi \in Int /\ r.eqHi \in Int
  BY DEF Slots, Ranges
<1>3. Pos(p.g) <= Pos(r.gHi) /\ Pos(p.eq) <= Pos(r.eqHi)
  BY <1>1, <1>2, Numbers
<1>4. Pos(p.g) \in Nat /\ Pos(p.eq) \in Nat /\ Pos(r.gHi) \in Nat /\ Pos(r.eqHi) \in Nat
  BY <1>2, Numbers
<1>5. QED
  BY <1>1, <1>3, <1>4 DEF Bound

-----------------------------------------------------------------------------
(* Each step keeps the values true.                                        *)

LEMMA Known ==
  ASSUME PlaceInv
  PROVE  /\ range \in Ranges /\ (range.seen => range.fLo <= range.fHi)
         /\ eqTol \in Nat /\ eqTol <= Tol0 /\ Tol0 \in Nat /\ level \in Nat /\ cvMax \in Nat
         /\ Bound(range) \in Nat /\ present \in Nat /\ seen \in 0..present /\ anyFailed \in BOOLEAN
         /\ \A c \in Kept : copies[c] \in Slots /\ ~copies[c].dirty
         /\ \A i \in DOMAIN buf : buf[i] \in Slots /\ (buf[i].dirty => buf[i].x \in Points)
<1>1. /\ range \in Ranges /\ (range.seen => range.fLo <= range.fHi) /\ level \in Nat /\ cvMax \in Nat
      /\ copies \in [Kept -> Slots] /\ \A c \in Kept : ~copies[c].dirty
  BY DEF PlaceInv, RestTypes
<1>2. eqTol \in Nat /\ eqTol <= Tol0 /\ Tol0 \in Nat
  BY TolIs DEF PlaceInv
<1>3. Bound(range) \in Nat
  BY <1>1, WorstIs
<1>4. present \in Nat /\ seen \in 0..present /\ anyFailed \in BOOLEAN
  BY DEF PlaceInv, DriverIn, DriverTypes
<1>5. \A i \in DOMAIN buf : buf[i] \in Slots /\ (buf[i].dirty => buf[i].x \in Points)
  BY PlaceFacts DEF PlaceInv, BufTypes
<1>6. QED
  BY <1>1, <1>2, <1>3, <1>4, <1>5

LEMMA VaultInit == Init => VaultInv
<1> SUFFICES ASSUME Init PROVE VaultInv
  OBVIOUS
<1>1. PlaceInv
  BY PlaceInit
<1>2. /\ buf = [i \in 1..(2 * PopSize) |-> Blank] /\ archive = <<>>
      /\ range = [seen |-> FALSE, fLo |-> 0, fHi |-> 0, gHi |-> 0, eqHi |-> 0]
      /\ eqTol = Tol0 /\ level = 0 /\ cvMax = 0 /\ copies = [c \in Kept |-> Blank]
  BY DEF Init
<1>3. \A i \in DOMAIN buf : buf[i] = Blank
  BY <1>2
<1>4. Blank.x = NoPoint /\ ~Blank.dirty /\ NoPoint \notin Points
  BY BlankIs, VaultAssumption
<1>5. Live \subseteq DOMAIN buf /\ ActiveSlots \subseteq DOMAIN buf
  BY <1>1, SlotsOf
<1>6. SlotsInv
  <2>1. \A i \in Live : ~Readable(i)
    BY <1>3, <1>4, <1>5 DEF Readable
  <2>2. Elements(archive) = {}
    BY <1>2 DEF Elements
  <2>3. QED
    BY <2>1, <2>2 DEF SlotsInv
<1>7. CopiesInv
  BY <1>2, <1>4 DEF CopiesInv
<1>8. LevelInv
  <2>1. Bound(range) = 0
    BY <1>2 DEF Bound
  <2>2. QED
    BY <1>2, <2>1 DEF LevelInv
<1>9. SetupInv /\ BlankInv
  BY <1>3, <1>4, <1>5 DEF SetupInv, BlankInv
<1>10. QED
  BY <1>6, <1>7, <1>8, <1>9 DEF VaultInv

\* What is true of a slot in use.
TrueSlot(s, r, some, tol, e) == Right(s, r, some) /\ AgreesAt(s, r, tol, e)

LEMMA SlotsAre ==
  ASSUME PlaceInv, VaultInv, NEW i \in Live, Readable(i)
  PROVE  TrueSlot(buf[i], range, anyFailed, eqTol, level)
BY DEF VaultInv, SlotsInv, TrueSlot

LEMMA SlotsThen ==
  ASSUME \A i \in Live' : Readable(i)' => TrueSlot(buf'[i], range', anyFailed', eqTol', level'),
         \A i \in Elements(archive') : ~buf'[i].dirty
  PROVE  SlotsInv'
BY DEF SlotsInv, TrueSlot, Live, ActiveSlots

\* A step that moves neither the range, the failures, the tolerance nor the
\* level, and leaves the slots it does not write as they were.
LEMMA FrameKept ==
  ASSUME PlaceInv, VaultInv,
         UNCHANGED <<range, anyFailed, eqTol, level, mode, phase, copies, seen, present>>,
         mode = "level" => cvMax' <= Bound(range),
         \A i \in Live' : \/ ~Readable(i)'
                          \/ i \in Live /\ buf'[i] = buf[i]
                          \/ TrueSlot(buf'[i], range, anyFailed, eqTol, level),
         \A i \in Elements(archive') : ~buf'[i].dirty,
         BlankInv', SetupInv'
  PROVE  VaultInv'
<1>1. SlotsInv'
  <2>1. ASSUME NEW i \in Live', Readable(i)'
        PROVE  TrueSlot(buf'[i], range', anyFailed', eqTol', level')
    <3>1. CASE i \in Live /\ buf'[i] = buf[i]
      <4>1. Readable(i)
        BY <2>1, <3>1 DEF Readable
      <4>2. TrueSlot(buf[i], range, anyFailed, eqTol, level)
        BY <3>1, <4>1, SlotsAre
      <4>3. QED
        BY <3>1, <4>2
    <3>2. CASE TrueSlot(buf'[i], range, anyFailed, eqTol, level)
      BY <3>2
    <3>3. QED
      BY <2>1, <3>1, <3>2
  <2>2. QED
    BY <2>1, SlotsThen
<1>2. CopiesInv' /\ LevelInv'
  BY DEF VaultInv, CopiesInv, LevelInv
<1>3. QED
  BY <1>1, <1>2 DEF VaultInv

\* A list that changes while the buffer stands.
LEMMA ListsKept ==
  ASSUME PlaceInv, VaultInv, phase = "step",
         UNCHANGED <<values, eqTol, level, core, driver>>,
         ActiveSlots' \subseteq ActiveSlots, Elements(archive') \subseteq Elements(archive)
  PROVE  VaultInv'
<1>1. /\ UNCHANGED <<buf, range, anyFailed, eqTol, level, mode, phase, copies, seen, present, cvMax>>
  BY DEF values, core, driver
<1>2. \A i \in Live' : i \in Live /\ buf'[i] = buf[i]
  BY <1>1 DEF Live, ActiveSlots
<1>3. \A i \in Elements(archive') : ~buf'[i].dirty
  BY <1>1 DEF VaultInv, SlotsInv
<1>4. BlankInv' /\ SetupInv' /\ (mode = "level" => cvMax' <= Bound(range))
  BY <1>1 DEF VaultInv, BlankInv, SetupInv, LevelInv
<1>5. QED
  BY <1>1, <1>2, <1>3, <1>4, FrameKept

\* A slot nothing was written to, and the points of a set-up.
LEMMA SetTrue ==
  ASSUME PlaceInv, VaultInv, NEW v \in DOMAIN active, NEW x \in Points, SetVariables(v, x),
         SetupFails = FALSE \/ "level" \notin Modes
  PROVE  VaultInv'
<1>1. PICK r \in DOMAIN buf : r = active[v] /\ r \in ActiveSlots
  BY SlotsOf
<1>2. /\ buf' = [buf EXCEPT ![r].x = x, ![r].dirty = TRUE] /\ MayFail(x)
      /\ UNCHANGED <<places, range, anyFailed, cvMax, present, eqTol, level, core, driver>>
  BY <1>1 DEF SetVariables
<1>3. buf[r] \in Slots /\ NoPoint \notin Points
  BY Known, VaultAssumption
<1>4. /\ DOMAIN buf' = DOMAIN buf /\ buf'[r].x = x /\ buf'[r].dirty
      /\ \A i \in DOMAIN buf \ {r} : buf'[i] = buf[i]
  <2>1. \A i \in DOMAIN buf \ {r} : buf'[i] = buf[i]
    BY <1>2
  <2>2. DOMAIN buf' = DOMAIN buf
    BY <1>2
  <2>3. buf'[r] = [buf[r] EXCEPT !.x = x, !.dirty = TRUE]
    BY <1>2
  <2>4. buf'[r].x = x /\ buf'[r].dirty
    BY <1>3, <2>3 DEF Slots
  <2>5. QED
    BY <2>1, <2>2, <2>4
<1>5. /\ UNCHANGED <<active, free, archive, range, anyFailed, eqTol, level, mode, phase, copies, seen,
                     present, cvMax>>
  BY <1>2 DEF places, core, driver
<1>6. Live' = Live /\ ActiveSlots' = ActiveSlots /\ Live \subseteq DOMAIN buf
      /\ ActiveSlots \subseteq DOMAIN buf /\ Elements(archive) \subseteq DOMAIN buf
  BY <1>5, SlotsOf DEF Live, ActiveSlots
<1>7. \A i \in Live' : ~Readable(i)' \/ (i \in Live /\ buf'[i] = buf[i])
  BY <1>4, <1>6 DEF Readable
<1>8. \A i \in Elements(archive') : ~buf'[i].dirty
  <2>1. r \notin Elements(archive)
    BY <1>1, Apart
  <2>2. QED
    BY <1>4, <1>5, <1>6, <2>1 DEF VaultInv, SlotsInv
<1>9. BlankInv'
  BY <1>3, <1>4 DEF VaultInv, BlankInv
<1>10. SetupInv'
  <2>1. mode \in Modes
    BY DEF PlaceInv, DriverIn, DriverTypes
  <2>2. mode = "level" /\ phase = "setup" => Outcome[x] # Fails
    BY <1>2, <2>1 DEF MayFail
  <2>3. QED
    BY <1>4, <1>5, <1>6, <2>2 DEF VaultInv, SetupInv
<1>11. mode = "level" => cvMax' <= Bound(range)
  BY <1>5 DEF VaultInv, LevelInv
<1>12. QED
  BY <1>5, <1>7, <1>8, <1>9, <1>10, <1>11, FrameKept

LEMMA SettleTrue ==
  ASSUME PlaceInv, VaultInv, NEW r \in DOMAIN buf, r \in ActiveSlots, NEW x \in Points, Settle(r, x),
         mode = "level" /\ phase = "setup" => Outcome[x] # Fails,
         UNCHANGED <<places, eqTol, level, core, failRaise, mode, steps, moves>>
  PROVE  VaultInv'
<1>0. UNCHANGED <<active, free, archive, eqTol, level, copies, seen, mode>>
  BY DEF places, core
<1>1. /\ range \in Ranges /\ (range.seen => range.fLo <= range.fHi)
      /\ eqTol \in Nat /\ eqTol <= Tol0 /\ Tol0 \in Nat /\ level \in Nat /\ cvMax \in Nat
      /\ Bound(range) \in Nat /\ present \in Nat /\ seen \in 0..present /\ anyFailed \in BOOLEAN
      /\ \A c \in Kept : copies[c] \in Slots
      /\ \A i \in DOMAIN buf : buf[i] \in Slots
  BY Known
<1>2. /\ Live' = Live /\ ActiveSlots' = ActiveSlots /\ Live \subseteq DOMAIN buf
      /\ ActiveSlots \subseteq DOMAIN buf /\ Elements(archive) \subseteq DOMAIN buf
  BY <1>0, SlotsOf DEF Live, ActiveSlots
<1>3. NoPoint \notin Points /\ Blank.x = NoPoint /\ ~Blank.failed
  BY VaultAssumption DEF Blank
<1>4. /\ level <= 2 * Bound(range) + 1 /\ (mode = "level" => eqTol = Tol0 /\ cvMax <= Bound(range))
      /\ (mode = "linear" \/ phase = "setup" => level = 0)
  BY DEF VaultInv, LevelInv
<1>5. CASE Outcome[x] # Fails
  <2> DEFINE new == Finite(x, eqTol)
             wider == Widened(range, new)
             moved == wider # range
  <2>1. /\ DOMAIN buf' = DOMAIN buf /\ range' = wider /\ range' \in Ranges /\ range'.fLo <= range'.fHi
        /\ buf'[r] = Rated(new, level)
        /\ \A j \in DOMAIN buf \ {r} :
              buf'[j] = IF moved /\ anyFailed /\ buf[j].failed THEN Penalized(buf[j], wider) ELSE buf[j]
        /\ present' = IF moved /\ anyFailed THEN present + 1 ELSE present
        /\ cvMax' = Most(cvMax, Violation(new)) /\ UNCHANGED <<anyFailed, phase>>
    BY <1>5, FiniteSettled
  <2>2. new \in Slots /\ ~new.dirty /\ new.x = x
    BY <1>1, <1>5, FiniteIs
  <2>3. Bound(range) <= Bound(wider) /\ Bound(wider) \in Nat
    <3>1. wider \in Ranges /\ wider.fLo <= wider.fHi /\ Bound(range) <= Bound(wider)
      BY <1>1, <2>2, WidenedIs
    <3>2. QED
      BY <3>1, WorstIs
  <2>4. /\ Right(Rated(new, level), wider, anyFailed) /\ AgreesAt(Rated(new, level), wider, eqTol, level)
        /\ eqTol = Tol0 => Violation(new) <= Bound(wider)
    BY <1>1, <1>5, RatedTrue
  <2>5. Rated(new, level).x = x /\ ~Rated(new, level).dirty
    <3>1. PICK t : t = Rated(new, level)
      OBVIOUS
    <3>2. t.x = new.x /\ t.dirty = new.dirty
      BY <1>1, <2>2, <3>1, RatedIs
    <3>3. QED
      BY <2>2, <3>1, <3>2
  <2>6. \A s \in Slots, f \in BOOLEAN : Right(s, range, f) => Right(s, wider, f)
    BY <1>1, <2>2, RightWider
  <2>7. Violation(new) \in Nat
    <3>1. new.g \in Int /\ new.eq \in Int
      BY <2>2 DEF Slots
    <3>2. Pos(new.g) \in Nat /\ Pos(new.eq) \in Nat
      BY <3>1, Numbers
    <3>3. QED
      BY <3>2 DEF Violation
  <2> HIDE DEF new, wider
  <2>8. level <= 2 * Bound(wider) + 1
    BY <1>1, <1>4, <2>3
  <2>9. \A j \in DOMAIN buf \ {r} :
           /\ buf'[j].x = buf[j].x /\ buf'[j].dirty = buf[j].dirty
           /\ (buf'[j] = buf[j]
               \/ (buf'[j] = Penalized(buf[j], wider) /\ moved /\ anyFailed /\ buf[j].failed))
    <3>1. SUFFICES ASSUME NEW j \in DOMAIN buf \ {r}
          PROVE  /\ buf'[j].x = buf[j].x /\ buf'[j].dirty = buf[j].dirty
                 /\ (buf'[j] = buf[j]
                     \/ (buf'[j] = Penalized(buf[j], wider) /\ moved /\ anyFailed /\ buf[j].failed))
      OBVIOUS
    <3>2. (buf'[j] = buf[j]
           \/ (buf'[j] = Penalized(buf[j], wider) /\ moved /\ anyFailed /\ buf[j].failed))
      BY <2>1
    <3>3. Penalized(buf[j], wider).x = buf[j].x /\ Penalized(buf[j], wider).dirty = buf[j].dirty
      BY <1>1, <2>1, PenalizedIs
    <3>4. QED
      BY <3>2, <3>3
  <2>10. SlotsInv'
    <3>1. ASSUME NEW i \in Live', Readable(i)'
          PROVE  TrueSlot(buf'[i], range', anyFailed', eqTol', level')
      <4>1. CASE i = r
        BY <1>0, <2>1, <2>4, <4>1 DEF TrueSlot
      <4>2. CASE i # r
        <5>1. i \in DOMAIN buf \ {r} /\ i \in Live
          BY <1>2, <3>1, <4>2
        <5>2. Readable(i)
          BY <2>9, <3>1, <5>1 DEF Readable
        <5>3. Right(buf[i], range, anyFailed) /\ AgreesAt(buf[i], range, eqTol, level)
          BY <5>1, <5>2, SlotsAre DEF TrueSlot
        <5>4. CASE buf'[i] = Penalized(buf[i], wider) /\ moved /\ anyFailed /\ buf[i].failed
          <6>1. buf[i].x \in Points /\ ~buf[i].dirty /\ Outcome[buf[i].x] = Fails /\ buf[i] \in Slots
            BY <1>1, <5>1, <5>3, <5>4 DEF Right, Genuine
          <6>2. Right(Penalized(buf[i], wider), wider, TRUE)
                /\ AgreesAt(Penalized(buf[i], wider), wider, eqTol, level)
            BY <1>1, <2>1, <2>8, <5>4, <6>1, PenalizedTrue
          <6>3. QED
            BY <1>0, <2>1, <5>4, <6>2 DEF TrueSlot, Right
        <5>5. CASE buf'[i] = buf[i] /\ ~(moved /\ anyFailed /\ buf[i].failed)
          <6>1. Right(buf[i], wider, anyFailed)
            BY <1>1, <2>6, <5>1, <5>3
          <6>2. Genuine(buf[i]) /\ (buf[i].failed => range = wider)
            BY <5>3, <5>5 DEF Right
          <6>3. AgreesAt(buf[i], wider, eqTol, level)
            BY <5>3, <6>2, AgreesStays
          <6>4. QED
            BY <1>0, <2>1, <5>5, <6>1, <6>3 DEF TrueSlot
        <5>6. QED
          BY <2>1, <5>1, <5>4, <5>5
      <4>3. QED
        BY <4>1, <4>2
    <3>2. ASSUME NEW i \in Elements(archive') PROVE ~buf'[i].dirty
      <4>1. i \in Elements(archive) /\ i \in DOMAIN buf /\ ~buf[i].dirty
        BY <1>0, <1>2, <3>2 DEF VaultInv, SlotsInv
      <4>2. QED
        BY <2>1, <2>5, <2>9, <4>1
    <3>3. QED
      BY <3>1, <3>2, SlotsThen
  <2>11. CopiesInv'
    <3>1. SUFFICES ASSUME NEW c \in Kept, copies[c].x # NoPoint
          PROVE  /\ Right(copies[c], wider, anyFailed)
                 /\ seen = present' => AgreesAt(copies[c], wider, eqTol, level)
      BY <1>0, <2>1 DEF CopiesInv
    <3>2. /\ Right(copies[c], range, anyFailed)
          /\ seen = present => AgreesAt(copies[c], range, eqTol, level)
      BY <3>1 DEF VaultInv, CopiesInv
    <3>3. Right(copies[c], wider, anyFailed)
      BY <1>1, <2>6, <3>2
    <3>4. ASSUME seen = present' PROVE AgreesAt(copies[c], wider, eqTol, level)
      <4>1. seen = present /\ ~(moved /\ anyFailed)
        BY <1>1, <2>1, <3>4
      <4>2. Genuine(copies[c]) /\ (copies[c].failed => range = wider)
        BY <3>2, <4>1 DEF Right
      <4>3. QED
        BY <3>2, <4>1, <4>2, AgreesStays
    <3>5. QED
      BY <3>3, <3>4
  <2>12. LevelInv'
    <3>1. mode = "level" => cvMax' <= Bound(wider)
      BY <1>1, <1>4, <2>1, <2>3, <2>4, <2>7 DEF Most
    <3>2. QED
      BY <1>0, <1>4, <2>1, <2>8, <3>1 DEF LevelInv
  <2>13. SetupInv'
    <3>1. \A i \in ActiveSlots : i # r => buf'[i].x = buf[i].x
      BY <1>2, <2>9
    <3>2. buf'[r].x = x
      BY <2>1, <2>5
    <3>3. QED
      BY <1>0, <1>2, <1>5, <2>1, <3>1, <3>2 DEF VaultInv, SetupInv
  <2>14. BlankInv'
    <3>1. \A j \in DOMAIN buf : buf[j].x = NoPoint => buf[j] = Blank
      BY DEF VaultInv, BlankInv
    <3>2. SUFFICES ASSUME NEW i \in DOMAIN buf, buf'[i].x = NoPoint PROVE buf'[i] = Blank
      BY <2>1 DEF BlankInv
    <3>3. i # r
      BY <1>3, <2>1, <2>5, <3>2
    <3>4. buf[i] = Blank
      BY <2>9, <3>1, <3>2, <3>3
    <3>5. buf'[i] = buf[i]
      BY <1>3, <2>9, <3>3, <3>4
    <3>6. QED
      BY <3>4, <3>5
  <2>15. QED
    BY <2>10, <2>11, <2>12, <2>13, <2>14 DEF VaultInv
<1>6. CASE Outcome[x] = Fails
  <2>1. /\ DOMAIN buf' = DOMAIN buf /\ \A j \in DOMAIN buf \ {r} : buf'[j] = buf[j]
        /\ UNCHANGED <<range, present, cvMax>>
        /\ \/ UNCHANGED <<buf, anyFailed>> /\ phase' = "over"
           \/ /\ anyFailed' = TRUE /\ UNCHANGED phase
              /\ buf'[r].x = x /\ ~buf'[r].dirty /\ buf'[r].failed
              /\ buf'[r].f = WorstObjective(range) /\ buf'[r].g = WorstLimit(range, range.gHi)
              /\ buf'[r].eq = WorstLimit(range, range.eqHi)
              /\ buf'[r].cvRaw = buf'[r].g + buf'[r].eq /\ buf'[r].cv = AtLevel(buf'[r].cvRaw, level)
    BY <1>6, FailedSettled
  <2>2. CASE UNCHANGED <<buf, anyFailed>> /\ phase' = "over"
    <3>1. SlotsInv'
      <4>1. ASSUME NEW i \in Live', Readable(i)'
            PROVE  TrueSlot(buf'[i], range', anyFailed', eqTol', level')
        <5>1. i \in Live /\ Readable(i)
          BY <1>2, <2>2, <4>1 DEF Readable
        <5>2. TrueSlot(buf[i], range, anyFailed, eqTol, level)
          BY <5>1, SlotsAre
        <5>3. QED
          BY <1>0, <2>1, <2>2, <5>2
      <4>2. \A i \in Elements(archive') : ~buf'[i].dirty
        BY <1>0, <2>2 DEF VaultInv, SlotsInv
      <4>3. QED
        BY <4>1, <4>2, SlotsThen
    <3>2. CopiesInv'
      BY <1>0, <2>1, <2>2 DEF VaultInv, CopiesInv
    <3>3. LevelInv'
      BY <1>0, <1>4, <2>1, <2>2 DEF LevelInv
    <3>4. SetupInv' /\ BlankInv'
      BY <2>2 DEF VaultInv, SetupInv, BlankInv
    <3>5. QED
      BY <3>1, <3>2, <3>3, <3>4 DEF VaultInv
  <2>3. CASE ~(UNCHANGED <<buf, anyFailed>> /\ phase' = "over")
    <3>0. /\ anyFailed' = TRUE /\ UNCHANGED phase
          /\ buf'[r].x = x /\ ~buf'[r].dirty /\ buf'[r].failed
          /\ buf'[r].f = WorstObjective(range) /\ buf'[r].g = WorstLimit(range, range.gHi)
          /\ buf'[r].eq = WorstLimit(range, range.eqHi)
          /\ buf'[r].cvRaw = buf'[r].g + buf'[r].eq /\ buf'[r].cv = AtLevel(buf'[r].cvRaw, level)
      BY <2>1, <2>3
    <3>1. SlotsInv'
      <4>1. ASSUME NEW i \in Live', Readable(i)'
            PROVE  TrueSlot(buf'[i], range', anyFailed', eqTol', level')
        <5>1. CASE i = r
          <6>1. Right(buf'[r], range, TRUE)
            BY <1>6, <3>0 DEF Right, Genuine, Within
          <6>2. AgreesAt(buf'[r], range, eqTol, level)
            BY <1>6, <3>0 DEF AgreesAt
          <6>3. QED
            BY <1>0, <2>1, <3>0, <5>1, <6>1, <6>2 DEF TrueSlot
        <5>2. CASE i # r
          <6>1. i \in Live /\ buf'[i] = buf[i]
            BY <1>2, <2>1, <4>1, <5>2
          <6>2. Readable(i)
            BY <4>1, <6>1 DEF Readable
          <6>3. TrueSlot(buf[i], range, anyFailed, eqTol, level)
            BY <6>1, <6>2, SlotsAre
          <6>4. TrueSlot(buf[i], range, TRUE, eqTol, level)
            BY <6>3 DEF TrueSlot, Right
          <6>5. QED
            BY <1>0, <2>1, <3>0, <6>1, <6>4
        <5>3. QED
          BY <5>1, <5>2
      <4>2. \A i \in Elements(archive') : ~buf'[i].dirty
        BY <1>0, <1>2, <2>1, <3>0 DEF VaultInv, SlotsInv
      <4>3. QED
        BY <4>1, <4>2, SlotsThen
    <3>2. CopiesInv'
      BY <1>0, <2>1, <3>0 DEF VaultInv, CopiesInv, Right
    <3>3. LevelInv'
      BY <1>0, <1>4, <2>1, <3>0 DEF LevelInv
    <3>4. SetupInv'
      BY <1>0, <1>6, <3>0 DEF SetupInv
    <3>5. BlankInv'
      BY <1>3, <2>1, <3>0 DEF VaultInv, BlankInv
    <3>6. QED
      BY <3>1, <3>2, <3>3, <3>4, <3>5 DEF VaultInv
  <2>4. QED
    BY <2>2, <2>3
<1>7. QED
  BY <1>5, <1>6

\* What is written into the slot of an active point.
LEMMA PutTrue ==
  ASSUME PlaceInv, VaultInv, NEW v \in DOMAIN active, NEW p \in Slots, ~p.dirty, p.x # NoPoint,
         Right(p, range, anyFailed), PutPoint(v, p)
  PROVE  VaultInv'
<1>1. PICK r \in DOMAIN buf : r = active[v] /\ r \in ActiveSlots /\ r \in Live
  BY SlotsOf
<1>2. PICK t : t = BringUp(p, range, eqTol, level)
  OBVIOUS
<1>3. /\ phase = "step" /\ UNCHANGED <<places, eqTol, level, core, driver>>
      /\ WritePoint(buf, r, p)
  BY <1>1 DEF PutPoint
<1>4. /\ t \in Slots /\ ~t.dirty /\ buf' = [buf EXCEPT ![r] = t] /\ t.failed = p.failed
      /\ cvMax' = (IF p.failed THEN cvMax ELSE Most(cvMax, t.cvRaw))
      /\ UNCHANGED <<range, anyFailed, present>>
  BY <1>2, <1>3, WriteIs
<1>5. /\ Right(t, range, anyFailed) /\ AgreesAt(t, range, eqTol, level) /\ t.x = p.x
      /\ ~p.failed /\ eqTol = Tol0 => t.cvRaw <= Bound(range)
  <2>1. /\ range \in Ranges /\ (range.seen => range.fLo <= range.fHi) /\ eqTol \in Nat /\ level \in Nat
    BY Known
  <2>2. QED
    BY <1>2, <2>1, BringUpTrue
<1>6. DOMAIN buf' = DOMAIN buf /\ buf'[r] = t /\ \A i \in DOMAIN buf \ {r} : buf'[i] = buf[i]
  BY <1>1, <1>4
<1>7. UNCHANGED <<active, free, archive, range, anyFailed, eqTol, level, mode, phase, copies, seen, present>>
  BY <1>3, <1>4 DEF places, core, driver
<1>8. mode = "level" => cvMax' <= Bound(range)
  <2>1. /\ mode = "level" => eqTol = Tol0 /\ cvMax <= Bound(range)
        /\ cvMax \in Nat /\ Bound(range) \in Nat /\ t.cvRaw \in Nat
    BY <1>4, Known DEF VaultInv, LevelInv, Slots
  <2>2. Most(cvMax, t.cvRaw) \in {cvMax, t.cvRaw}
    BY <2>1 DEF Most
  <2>3. QED
    BY <1>4, <1>5, <2>1, <2>2
<1>9. Live' = Live /\ Live \subseteq DOMAIN buf /\ ActiveSlots \subseteq DOMAIN buf
  BY <1>7, SlotsOf DEF Live, ActiveSlots
<1>10. \A i \in Live' : \/ ~Readable(i)'
                        \/ i \in Live /\ buf'[i] = buf[i]
                        \/ TrueSlot(buf'[i], range, anyFailed, eqTol, level)
  BY <1>5, <1>6, <1>9 DEF TrueSlot
<1>11. \A i \in Elements(archive') : ~buf'[i].dirty
  <2>1. \A i \in Elements(archive) : i \in DOMAIN buf /\ ~buf[i].dirty
    BY SlotsOf DEF VaultInv, SlotsInv
  <2>2. QED
    BY <1>4, <1>6, <1>7, <2>1
<1>12. BlankInv'
  BY <1>5, <1>6 DEF VaultInv, BlankInv
<1>13. SetupInv'
  BY <1>3, <1>7 DEF SetupInv
<1>14. QED
  BY <1>7, <1>8, <1>10, <1>11, <1>12, <1>13, FrameKept

\* A slot taken for the archive, and written.
LEMMA PushTrue ==
  ASSUME PlaceInv, VaultInv, TakeToArchive, NEW s \in Slots, ~s.dirty, s.x # NoPoint,
         TrueSlot(s, range, anyFailed, eqTol, level),
         buf' = [GrownBuf(1) EXCEPT ![Back(archive')] = s],
         UNCHANGED <<range, anyFailed, eqTol, level, mode, phase, copies, seen, present>>,
         mode = "level" => cvMax' <= Bound(range),
         mode = "level" /\ phase = "setup" => Outcome[s.x] # Fails
  PROVE  VaultInv'
<1> DEFINE r == Back(archive')
<1>1. /\ BufTypes' /\ ListsIn' /\ active' = active /\ DOMAIN buf \subseteq DOMAIN buf'
      /\ Elements(archive') = Elements(archive) \cup {r}
      /\ r \in DOMAIN buf' /\ buf'[r] = s
      /\ \A i \in DOMAIN buf' : i # r => (buf'[i] = Blank \/ (i \in DOMAIN buf /\ buf'[i] = buf[i]))
      /\ \A i \in DOMAIN buf : i # r => buf'[i] = buf[i]
  BY PushIs
<1> HIDE DEF r
<1>2. /\ Live' = Live \cup {r} /\ ActiveSlots' = ActiveSlots
      /\ Live \subseteq DOMAIN buf /\ ActiveSlots \subseteq DOMAIN buf /\ Elements(archive) \subseteq DOMAIN buf
      /\ ActiveSlots \subseteq Live
  BY <1>1, SlotsOf DEF Live, ActiveSlots
<1>3. \A i \in Live' : \/ ~Readable(i)'
                       \/ i \in Live /\ buf'[i] = buf[i]
                       \/ TrueSlot(buf'[i], range, anyFailed, eqTol, level)
  BY <1>1, <1>2
<1>4. \A i \in Elements(archive') : ~buf'[i].dirty
  <2>1. \A i \in Elements(archive) : i \in DOMAIN buf /\ ~buf[i].dirty
    BY <1>2 DEF VaultInv, SlotsInv
  <2>2. QED
    BY <1>1, <2>1
<1>5. BlankInv'
  <2>1. Blank.x = NoPoint
    BY BlankIs
  <2>2. \A i \in DOMAIN buf : buf[i].x = NoPoint => buf[i] = Blank
    BY DEF VaultInv, BlankInv
  <2>3. QED
    BY <1>1, <2>1, <2>2 DEF BlankInv
<1>6. SetupInv'
  <2>1. ASSUME mode = "level" /\ phase = "setup", NEW i \in ActiveSlots, buf'[i].x \in Points
        PROVE  Outcome[buf'[i].x] # Fails
    <3>1. CASE i # r
      <4>1. buf'[i] = buf[i]
        BY <1>1, <1>2, <2>1, <3>1
      <4>2. QED
        BY <2>1, <4>1 DEF VaultInv, SetupInv
    <3>2. CASE i = r
      BY <1>1, <2>1, <3>2
    <3>3. QED
      BY <3>1, <3>2
  <2>2. QED
    BY <1>2, <2>1 DEF SetupInv
<1>7. QED
  BY <1>1, <1>3, <1>4, <1>5, <1>6, FrameKept

LEMMA ExpandTrue ==
  ASSUME PlaceInv, VaultInv, NEW k \in 1..PopSize, Expand(k)
  PROVE  VaultInv'
<1>1. /\ DOMAIN buf \subseteq DOMAIN buf'
      /\ \A i \in DOMAIN buf' : buf'[i] = Blank \/ (i \in DOMAIN buf /\ buf'[i] = buf[i])
      /\ \A i \in ActiveSlots' : i \in ActiveSlots \/ buf'[i] = Blank
      /\ archive' = archive
  BY ExpandIs
<1>2. /\ phase = "step" /\ UNCHANGED <<range, anyFailed, eqTol, level, mode, phase, copies, seen, present>>
      /\ cvMax' = cvMax
  BY DEF Expand, core, driver
<1>3. PlaceInv'
  BY PlaceCore DEF CoreStep
<1>4. Live' \subseteq DOMAIN buf' /\ Elements(archive) \subseteq DOMAIN buf
  <2>1. ActiveSlots' \subseteq DOMAIN buf' /\ Elements(archive') \subseteq DOMAIN buf'
    BY <1>3, PlaceFacts, ElementsOf DEF PlaceInv, ListsIn, ActiveSlots
  <2>2. QED
    BY <2>1, SlotsOf DEF Live
<1>5. Blank.x = NoPoint /\ ~Blank.dirty
  BY BlankIs
<1>6. \A i \in Live' : ~Readable(i)' \/ (i \in Live /\ buf'[i] = buf[i])
  <2>1. ASSUME NEW i \in Live' PROVE ~Readable(i)' \/ (i \in Live /\ buf'[i] = buf[i])
    <3>1. buf'[i] = Blank => ~Readable(i)'
      BY <1>5 DEF Readable
    <3>2. buf'[i] # Blank => buf'[i] = buf[i]
      BY <1>1, <1>4
    <3>3. i \in ActiveSlots' \/ i \in Elements(archive)
      BY <1>1 DEF Live
    <3>4. buf'[i] # Blank => i \in Live
      BY <1>1, <3>3 DEF Live
    <3>5. QED
      BY <3>1, <3>2, <3>4
  <2>2. QED
    BY <2>1
<1>7. \A i \in Elements(archive') : ~buf'[i].dirty
  <2>1. \A i \in Elements(archive) : i \in DOMAIN buf' /\ ~buf[i].dirty
    BY <1>1, <1>4 DEF VaultInv, SlotsInv
  <2>2. QED
    BY <1>1, <1>5, <2>1
<1>8. BlankInv'
  BY <1>1 DEF VaultInv, BlankInv
<1>9. SetupInv' /\ (mode = "level" => cvMax' <= Bound(range))
  BY <1>2 DEF VaultInv, SetupInv, LevelInv
<1>10. QED
  BY <1>2, <1>6, <1>7, <1>8, <1>9, FrameKept

LEMMA PointTrue ==
  ASSUME PlaceInv, VaultInv, NEW c \in Kept, NEW r \in Live, PointOf(c, r)
  PROVE  VaultInv'
<1>1. Readable(r) /\ copies' = [copies EXCEPT ![c] = buf[r]]
      /\ UNCHANGED <<places, values, eqTol, level, seen, driver>>
  BY DEF PointOf
<1>2. UNCHANGED <<active, free, archive, buf, range, anyFailed, cvMax, present, eqTol, level, seen, mode, phase>>
  BY <1>1 DEF places, values, driver
<1>3. Right(buf[r], range, anyFailed) /\ AgreesAt(buf[r], range, eqTol, level)
  BY <1>1, SlotsAre DEF TrueSlot
<1>4. CopiesInv'
  <2>1. \A k \in Kept : copies'[k] = IF k = c THEN buf[r] ELSE copies[k]
    BY <1>1 DEF PlaceInv, RestTypes
  <2>2. \A k \in Kept : copies[k].x # NoPoint =>
           /\ Right(copies[k], range, anyFailed)
           /\ seen = present => AgreesAt(copies[k], range, eqTol, level)
    BY DEF VaultInv, CopiesInv
  <2>3. SUFFICES ASSUME NEW k \in Kept, copies'[k].x # NoPoint
        PROVE  /\ Right(copies'[k], range, anyFailed)
               /\ seen = present => AgreesAt(copies'[k], range, eqTol, level)
    BY <1>2 DEF CopiesInv
  <2>4. CASE k = c
    BY <1>3, <2>1, <2>4
  <2>5. CASE k # c
    BY <2>1, <2>2, <2>3, <2>5
  <2>6. QED
    BY <2>4, <2>5
<1>5. SlotsInv'
  BY <1>2 DEF VaultInv, SlotsInv, Live, ActiveSlots, Readable
<1>6. LevelInv' /\ SetupInv' /\ BlankInv'
  BY <1>2 DEF VaultInv, LevelInv, SetupInv, BlankInv, ActiveSlots
<1>7. QED
  BY <1>4, <1>5, <1>6 DEF VaultInv

LEMMA ArchivePushTrue ==
  ASSUME PlaceInv, VaultInv, NEW v \in DOMAIN active, ArchivePush(v)
  PROVE  VaultInv'
<1>1. PICK r \in DOMAIN buf : r = active[v] /\ r \in ActiveSlots /\ r \in Live
  BY SlotsOf
<1>2. /\ Readable(r) /\ TakeToArchive /\ buf' = [GrownBuf(1) EXCEPT ![Back(archive')] = buf[r]]
      /\ UNCHANGED <<range, anyFailed, cvMax, present, eqTol, level, core, driver>>
  BY <1>1 DEF ArchivePush
<1>3. buf[r] \in Slots /\ ~buf[r].dirty /\ buf[r].x # NoPoint
  BY <1>2, Known DEF Readable
<1>4. TrueSlot(buf[r], range, anyFailed, eqTol, level)
  BY <1>1, <1>2, SlotsAre
<1>5. mode = "level" /\ phase = "setup" => Outcome[buf[r].x] # Fails
  BY <1>1, <1>4 DEF VaultInv, SetupInv, TrueSlot, Right, Genuine
<1>6. /\ UNCHANGED <<range, anyFailed, eqTol, level, mode, phase, copies, seen, present>>
      /\ mode = "level" => cvMax' <= Bound(range)
  BY <1>2 DEF core, driver, VaultInv, LevelInv
<1>7. QED
  BY <1>2, <1>3, <1>4, <1>5, <1>6, PushTrue

LEMMA ArchivePushPointTrue ==
  ASSUME PlaceInv, VaultInv, NEW p \in Slots, ~p.dirty, Right(p, range, anyFailed), ArchivePushPoint(p)
  PROVE  VaultInv'
<1>1. /\ phase = "step" /\ p.x # NoPoint /\ TakeToArchive
      /\ WritePoint(GrownBuf(1), Back(archive'), p)
      /\ UNCHANGED <<eqTol, level, core, driver>>
  BY DEF ArchivePushPoint
<1>2. PICK t : t = BringUp(p, range, eqTol, level)
  OBVIOUS
<1>3. /\ t \in Slots /\ ~t.dirty /\ buf' = [GrownBuf(1) EXCEPT ![Back(archive')] = t] /\ t.failed = p.failed
      /\ cvMax' = (IF p.failed THEN cvMax ELSE Most(cvMax, t.cvRaw))
      /\ UNCHANGED <<range, anyFailed, present>>
  BY <1>1, <1>2, WriteIs
<1>4. /\ Right(t, range, anyFailed) /\ AgreesAt(t, range, eqTol, level) /\ t.x = p.x
      /\ ~p.failed /\ eqTol = Tol0 => t.cvRaw <= Bound(range)
  <2>1. /\ range \in Ranges /\ (range.seen => range.fLo <= range.fHi) /\ eqTol \in Nat /\ level \in Nat
    BY Known
  <2>2. QED
    BY <1>2, <2>1, BringUpTrue
<1>5. UNCHANGED <<range, anyFailed, eqTol, level, mode, phase, copies, seen, present>>
  BY <1>1, <1>3 DEF core, driver
<1>6. mode = "level" => cvMax' <= Bound(range)
  <2>1. /\ mode = "level" => eqTol = Tol0 /\ cvMax <= Bound(range)
        /\ cvMax \in Nat /\ Bound(range) \in Nat /\ t.cvRaw \in Nat
    BY <1>3, Known DEF VaultInv, LevelInv, Slots
  <2>2. Most(cvMax, t.cvRaw) \in {cvMax, t.cvRaw}
    BY <2>1 DEF Most
  <2>3. QED
    BY <1>3, <1>4, <2>1, <2>2
<1>7. TrueSlot(t, range, anyFailed, eqTol, level) /\ t.x # NoPoint /\ phase # "setup"
  BY <1>1, <1>4 DEF TrueSlot
<1>8. QED
  BY <1>1, <1>3, <1>5, <1>6, <1>7, PushTrue

LEMMA CoreTrue ==
  ASSUME PlaceInv, VaultInv, CoreStep, SetupFails = FALSE \/ "level" \notin Modes
  PROVE  VaultInv'
<1>1. /\ \A v \in DOMAIN active : active[v] \in DOMAIN buf /\ active[v] \in ActiveSlots /\ active[v] \in Live
      /\ mode \in Modes
  BY SlotsOf DEF PlaceInv, DriverIn, DriverTypes
<1>2. \A c \in Kept : copies[c] \in Slots /\ ~copies[c].dirty
                      /\ (copies[c].x # NoPoint => Right(copies[c], range, anyFailed))
  BY Known DEF VaultInv, CopiesInv
<1>3. CASE \E v \in DOMAIN active, x \in Points : SetVariables(v, x)
  BY <1>3, SetTrue
<1>4. CASE \E v \in DOMAIN active, x \in Points : Seed(v, x)
  <2>1. PICK v \in DOMAIN active, x \in Points : Seed(v, x)
    BY <1>4
  <2>2. /\ Settle(active[v], x) /\ MayFail(x)
        /\ UNCHANGED <<places, eqTol, level, core, failRaise, mode, steps, moves>>
    BY <2>1 DEF Seed
  <2>3. mode = "level" /\ phase = "setup" => Outcome[x] # Fails
    BY <1>1, <2>2 DEF MayFail
  <2>4. QED
    BY <1>1, <2>2, <2>3, SettleTrue
<1>5. CASE \E v \in DOMAIN active : Evaluate(v)
  <2>1. PICK v \in DOMAIN active : Evaluate(v)
    BY <1>5
  <2>2. /\ buf[active[v]].dirty /\ Settle(active[v], buf[active[v]].x)
        /\ UNCHANGED <<places, eqTol, level, core, failRaise, mode, steps, moves>>
    BY <2>1 DEF Evaluate
  <2>3. buf[active[v]].x \in Points
    BY <1>1, <2>2, Known
  <2>4. mode = "level" /\ phase = "setup" => Outcome[buf[active[v]].x] # Fails
    BY <1>1, <2>3 DEF VaultInv, SetupInv
  <2>5. QED
    BY <1>1, <2>2, <2>3, <2>4, SettleTrue
<1>6. CASE \E k \in 1..PopSize : Expand(k)
  BY <1>6, ExpandTrue
<1>7. CASE \E n \in 1..(Len(active) - 1) : Reduce(n)
  <2>1. PICK n \in 1..(Len(active) - 1) : Reduce(n)
    BY <1>7
  <2>2. phase = "step" /\ UNCHANGED <<values, eqTol, level, core, driver>>
    BY <2>1 DEF Reduce
  <2>3. ActiveSlots' \subseteq ActiveSlots /\ archive' = archive
    BY <2>1, ReduceIs
  <2>4. QED
    BY <2>2, <2>3, ListsKept
<1>8. CASE \E v \in DOMAIN active, w \in DOMAIN active : v < w /\ SwapActive(v, w)
  <2>1. PICK v \in DOMAIN active, w \in DOMAIN active : v < w /\ SwapActive(v, w)
    BY <1>8
  <2>2. phase = "step" /\ UNCHANGED <<values, eqTol, level, core, driver>>
    BY <2>1 DEF SwapActive
  <2>3. ActiveSlots' = ActiveSlots /\ archive' = archive
    BY <2>1, SwapIs
  <2>4. QED
    BY <2>2, <2>3, ListsKept
<1>9. CASE \E c \in Kept, r \in Live : PointOf(c, r)
  BY <1>9, PointTrue
<1>10. CASE \E c \in Kept, v \in DOMAIN active : PutPoint(v, copies[c])
  <2>1. PICK c \in Kept, v \in DOMAIN active : PutPoint(v, copies[c])
    BY <1>10
  <2>2. copies[c].x # NoPoint
    BY <2>1 DEF PutPoint
  <2>3. QED
    BY <1>2, <2>1, <2>2, PutTrue
<1>11. CASE \E v \in DOMAIN active, w \in DOMAIN active : v # w /\ CopyPoint(v, w)
  <2>1. PICK v \in DOMAIN active, w \in DOMAIN active : CopyPoint(v, w)
    BY <1>11
  <2>2. PutPoint(w, buf[active[v]]) /\ Readable(active[v])
    BY <2>1 DEF CopyPoint
  <2>3. /\ buf[active[v]] \in Slots /\ ~buf[active[v]].dirty /\ buf[active[v]].x # NoPoint
        /\ Right(buf[active[v]], range, anyFailed)
    BY <1>1, <2>2, Known, SlotsAre DEF Readable, TrueSlot
  <2>4. QED
    BY <2>2, <2>3, PutTrue
<1>12. CASE \E v \in DOMAIN active : ArchivePush(v)
  BY <1>12, ArchivePushTrue
<1>13. CASE \E c \in Kept : ArchivePushPoint(copies[c])
  <2>1. PICK c \in Kept : ArchivePushPoint(copies[c])
    BY <1>13
  <2>2. copies[c].x # NoPoint
    BY <2>1 DEF ArchivePushPoint
  <2>3. QED
    BY <1>2, <2>1, <2>2, ArchivePushPointTrue
<1>14. CASE \E i \in DOMAIN archive : ArchiveErase(i)
  <2>1. PICK i \in DOMAIN archive : ArchiveErase(i)
    BY <1>14
  <2>2. phase = "step" /\ UNCHANGED <<values, eqTol, level, core, driver>>
    BY <2>1 DEF ArchiveErase
  <2>3. ActiveSlots' = ActiveSlots /\ Elements(archive') \subseteq Elements(archive)
    BY <2>1, EraseIs DEF ActiveSlots
  <2>4. QED
    BY <2>2, <2>3, ListsKept
<1>15. CASE ArchiveClear
  <2>2. phase = "step" /\ UNCHANGED <<values, eqTol, level, core, driver>>
    BY <1>15 DEF ArchiveClear
  <2>3. ActiveSlots' = ActiveSlots /\ Elements(archive') = {}
    BY <1>15, ClearIs DEF ActiveSlots
  <2>4. QED
    BY <2>2, <2>3, ListsKept
<1>16. QED
  BY <1>3, <1>4, <1>5, <1>6, <1>7, <1>8, <1>9, <1>10, <1>11, <1>12, <1>13, <1>14, <1>15 DEF CoreStep

\* A move of the level.
LEMMA LevelTrue ==
  ASSUME PlaceInv, VaultInv, NEW e \in Nat, SetCvLevel(e), e <= 2 * Bound(range) + 1,
         mode = "linear" => e = 0, phase' # "setup", UNCHANGED <<places, eqTol, core, mode>>
  PROVE  VaultInv'
<1>1. /\ DOMAIN buf' = DOMAIN buf /\ level' = e /\ UNCHANGED <<range, anyFailed, cvMax>>
      /\ e = level => UNCHANGED <<buf, present>>
      /\ e # level => present' = present + 1
      /\ e # level => \A i \in DOMAIN buf :
            /\ buf[i].dirty => buf'[i] = buf[i]
            /\ ~buf[i].dirty => buf'[i] = [buf[i] EXCEPT !.cv = AtLevel(buf[i].cvRaw, e)]
  BY LevelSet
<1>2. \A i \in DOMAIN buf :
            /\ buf'[i].x = buf[i].x /\ buf'[i].dirty = buf[i].dirty /\ buf'[i].failed = buf[i].failed
            /\ buf'[i].f = buf[i].f /\ buf'[i].g = buf[i].g /\ buf'[i].eq = buf[i].eq
            /\ buf'[i].hAbs = buf[i].hAbs /\ buf'[i].cvRaw = buf[i].cvRaw
            /\ e # level /\ ~buf[i].dirty => buf'[i].cv = AtLevel(buf[i].cvRaw, e)
  BY LevelSet
<1>3. UNCHANGED <<active, free, archive, eqTol, copies, seen, mode>>
  BY DEF places, core
<1>4. Live' = Live /\ ActiveSlots' = ActiveSlots
      /\ Live \subseteq DOMAIN buf /\ ActiveSlots \subseteq DOMAIN buf /\ Elements(archive) \subseteq DOMAIN buf
  BY <1>3, SlotsOf DEF Live, ActiveSlots
<1>5. SlotsInv'
  <2>1. ASSUME NEW i \in Live', Readable(i)'
        PROVE  TrueSlot(buf'[i], range', anyFailed', eqTol', level')
    <3>1. i \in Live /\ i \in DOMAIN buf
      BY <1>4, <2>1
    <3>2. Readable(i)
      BY <1>2, <2>1, <3>1 DEF Readable
    <3>3. Right(buf[i], range, anyFailed) /\ AgreesAt(buf[i], range, eqTol, level)
      BY <3>1, <3>2, SlotsAre DEF TrueSlot
    <3>4. Right(buf'[i], range, anyFailed)
      BY <1>2, <3>1, <3>3 DEF Right, Genuine, Within
    <3>5. AgreesAt(buf'[i], range, eqTol, e)
      <4>1. CASE e = level
        BY <1>1, <3>3, <4>1
      <4>2. CASE e # level
        <5>1. buf'[i].cv = AtLevel(buf[i].cvRaw, e)
          BY <1>2, <3>1, <3>2, <4>2 DEF Readable
        <5>2. QED
          BY <1>2, <3>1, <3>3, <5>1 DEF AgreesAt
      <4>3. QED
        BY <4>1, <4>2
    <3>6. QED
      BY <1>1, <1>3, <3>4, <3>5 DEF TrueSlot
  <2>2. \A i \in Elements(archive') : ~buf'[i].dirty
    BY <1>2, <1>3, <1>4 DEF VaultInv, SlotsInv
  <2>3. QED
    BY <2>1, <2>2, SlotsThen
<1>6. CopiesInv'
  <2>1. seen = present' => e = level
    <3>1. present \in Nat /\ seen \in 0..present
      BY Known
    <3>2. QED
      BY <1>1, <3>1
  <2>2. QED
    BY <1>1, <1>3, <2>1 DEF VaultInv, CopiesInv
<1>7. LevelInv'
  BY <1>1, <1>3 DEF VaultInv, LevelInv
<1>8. SetupInv'
  BY DEF SetupInv
<1>9. BlankInv'
  <2>1. Blank.x = NoPoint /\ ~Blank.dirty
    BY BlankIs
  <2>2. SUFFICES ASSUME NEW i \in DOMAIN buf, buf'[i].x = NoPoint PROVE buf'[i] = Blank
    BY <1>1 DEF BlankInv
  <2>3. buf[i] = Blank
    BY <1>2, <2>2 DEF VaultInv, BlankInv
  <2>4. CASE e = level
    BY <1>1, <2>3, <2>4
  <2>5. CASE e # level
    <3>1. buf'[i] = [Blank EXCEPT !.cv = AtLevel(Blank.cvRaw, e)]
      BY <1>1, <2>1, <2>2, <2>3, <2>5
    <3>2. Blank.cvRaw = 0
      BY DEF Blank
    <3>3. AtLevel(Blank.cvRaw, e) = 0
      BY <3>2 DEF AtLevel
    <3>4. [Blank EXCEPT !.cv = 0] = Blank
      <4>1. \A s \in Slots : s.cv = 0 => [s EXCEPT !.cv = 0] = s
        BY DEF Slots
      <4>2. Blank \in Slots /\ Blank.cv = 0
        BY BlankIs DEF Blank
      <4>3. QED
        BY <4>1, <4>2
    <3>5. QED
      BY <3>1, <3>3, <3>4
  <2>6. QED
    BY <2>4, <2>5
<1>10. QED
  BY <1>5, <1>6, <1>7, <1>8, <1>9 DEF VaultInv

\* A move of the tolerance.
LEMMA TolTrue ==
  ASSUME PlaceInv, VaultInv, NEW d \in Tols, SetEqTol(d), mode = "level" => d = eqTol,
         phase' # "setup", UNCHANGED <<places, level, core, mode>>, mode = "linear" => level = 0
  PROVE  VaultInv'
<1>1. /\ DOMAIN buf' = DOMAIN buf /\ eqTol' = d /\ UNCHANGED <<range, anyFailed>>
      /\ d = eqTol => UNCHANGED <<buf, cvMax, present>>
      /\ d # eqTol => present' = present + 1
      /\ \A i \in DOMAIN buf : ~FollowsTol(i) => buf'[i] = buf[i]
      /\ d # eqTol => \A i \in DOMAIN buf : FollowsTol(i) =>
            /\ buf'[i].x = buf[i].x /\ ~buf'[i].dirty /\ ~buf'[i].failed
            /\ buf'[i].f = buf[i].f /\ buf'[i].g = buf[i].g /\ buf'[i].hAbs = buf[i].hAbs
            /\ buf'[i].eq = buf[i].hAbs - d
            /\ buf'[i].cvRaw = Pos(buf'[i].g) + Pos(buf'[i].eq)
            /\ buf'[i].cv = AtLevel(buf'[i].cvRaw, level)
  BY TolSet
<1>2. UNCHANGED <<active, free, archive, level, copies, seen, mode>>
  BY DEF places, core
<1>3. Live' = Live /\ ActiveSlots' = ActiveSlots
      /\ Live \subseteq DOMAIN buf /\ ActiveSlots \subseteq DOMAIN buf /\ Elements(archive) \subseteq DOMAIN buf
  BY <1>2, SlotsOf DEF Live, ActiveSlots
<1>4. \A i \in DOMAIN buf : buf'[i].x = buf[i].x /\ (buf'[i].dirty <=> buf[i].dirty)
  BY <1>1 DEF FollowsTol
<1>5. SlotsInv'
  <2>1. ASSUME NEW i \in Live', Readable(i)'
        PROVE  TrueSlot(buf'[i], range', anyFailed', eqTol', level')
    <3>1. i \in Live /\ i \in DOMAIN buf
      BY <1>3, <2>1
    <3>2. Readable(i)
      BY <1>4, <2>1, <3>1 DEF Readable
    <3>3. Right(buf[i], range, anyFailed) /\ AgreesAt(buf[i], range, eqTol, level)
      BY <3>1, <3>2, SlotsAre DEF TrueSlot
    <3>4. CASE d = eqTol
      BY <1>1, <1>2, <3>3, <3>4 DEF TrueSlot
    <3>5. CASE d # eqTol /\ buf[i].failed
      <4>1. buf'[i] = buf[i]
        BY <1>1, <3>1, <3>5 DEF FollowsTol
      <4>2. AgreesAt(buf[i], range, d, level)
        BY <3>3, <3>5, AgreesStays DEF Right
      <4>3. QED
        BY <1>1, <1>2, <3>3, <4>1, <4>2 DEF TrueSlot
    <3>6. CASE d # eqTol /\ ~buf[i].failed
      <4>1. /\ buf[i].x \in Points /\ ~buf[i].dirty /\ Outcome[buf[i].x] # Fails
            /\ buf[i].f = Outcome[buf[i].x].f /\ buf[i].g = Outcome[buf[i].x].g
            /\ buf[i].hAbs = Outcome[buf[i].x].h
        BY <3>3, <3>6 DEF Right, Genuine
      <4>2. FollowsTol(i)
        <5>1. Outcome[buf[i].x].h \in Nat
          BY <4>1, VaultAssumption
        <5>2. QED
          BY <3>6, <4>1, <5>1 DEF FollowsTol
      <4>3. /\ buf'[i].x = buf[i].x /\ ~buf'[i].dirty /\ ~buf'[i].failed
            /\ buf'[i].f = buf[i].f /\ buf'[i].g = buf[i].g /\ buf'[i].hAbs = buf[i].hAbs
            /\ buf'[i].eq = buf[i].hAbs - d
            /\ buf'[i].cvRaw = Pos(buf'[i].g) + Pos(buf'[i].eq)
            /\ buf'[i].cv = AtLevel(buf'[i].cvRaw, level)
        BY <1>1, <3>1, <3>6, <4>2
      <4>4. Right(buf'[i], range, anyFailed)
        BY <3>3, <3>6, <4>1, <4>3 DEF Right, Genuine, Within
      <4>5. AgreesAt(buf'[i], range, d, level)
        BY <4>1, <4>3 DEF AgreesAt
      <4>6. QED
        BY <1>1, <1>2, <4>4, <4>5 DEF TrueSlot
    <3>7. QED
      BY <3>4, <3>5, <3>6
  <2>2. \A i \in Elements(archive') : ~buf'[i].dirty
    BY <1>2, <1>3, <1>4 DEF VaultInv, SlotsInv
  <2>3. QED
    BY <2>1, <2>2, SlotsThen
<1>6. CopiesInv'
  <2>1. seen = present' => d = eqTol
    <3>1. present \in Nat /\ seen \in 0..present
      BY Known
    <3>2. QED
      BY <1>1, <3>1
  <2>2. QED
    BY <1>1, <1>2, <2>1 DEF VaultInv, CopiesInv
<1>7. LevelInv'
  BY <1>1, <1>2 DEF VaultInv, LevelInv
<1>8. SetupInv'
  BY DEF SetupInv
<1>9. BlankInv'
  <2>1. SUFFICES ASSUME NEW i \in DOMAIN buf, buf'[i].x = NoPoint PROVE buf'[i] = Blank
    BY <1>1 DEF BlankInv
  <2>2. buf[i] = Blank
    BY <1>4, <2>1 DEF VaultInv, BlankInv
  <2>3. ~FollowsTol(i)
    BY <2>2 DEF FollowsTol, Blank
  <2>4. QED
    BY <1>1, <2>1, <2>2, <2>3
<1>10. QED
  BY <1>5, <1>6, <1>7, <1>8, <1>9 DEF VaultInv

\* The level a run starts at is the violation of a member that did not fail.
LEMMA ThetaBound ==
  ASSUME PlaceInv, VaultInv, mode = "level", phase = "setup"
  PROVE  ThetaLevel \in Nat /\ ThetaLevel <= Bound(range)
<1>1. /\ ThetaLevel \in Nat
      /\ ThetaLevel = 0 \/ \E v \in Evaluated : ThetaLevel = buf[active[v]].cvRaw
  BY ThetaIs
<1>2. /\ Bound(range) \in Nat /\ range \in Ranges /\ (range.seen => range.fLo <= range.fHi)
      /\ eqTol = Tol0 /\ Blank.cvRaw = 0
  BY Known DEF VaultInv, LevelInv, Blank
<1>3. CASE ThetaLevel = 0
  BY <1>2, <1>3
<1>4. CASE \E v \in Evaluated : ThetaLevel = buf[active[v]].cvRaw
  <2>1. PICK v \in Evaluated : ThetaLevel = buf[active[v]].cvRaw
    BY <1>4
  <2>2. v \in DOMAIN active /\ ~buf[active[v]].dirty
    BY <2>1, EvaluatedIs
  <2>3. PICK r \in DOMAIN buf : r = active[v] /\ r \in ActiveSlots /\ r \in Live
    BY <2>2, SlotsOf
  <2>4. CASE buf[r].x = NoPoint
    <3>1. buf[r] = Blank
      BY <2>4 DEF VaultInv, BlankInv
    <3>2. QED
      BY <1>2, <2>1, <2>3, <3>1
  <2>5. CASE buf[r].x # NoPoint
    <3>1. Readable(r)
      BY <2>2, <2>3, <2>5 DEF Readable
    <3>2. Right(buf[r], range, anyFailed) /\ AgreesAt(buf[r], range, eqTol, level)
      BY <2>3, <3>1, SlotsAre DEF TrueSlot
    <3>3. ~buf[r].failed
      BY <2>3, <3>2 DEF VaultInv, SetupInv, Right, Genuine
    <3>4. buf[r] \in Slots
      BY Known
    <3>5. buf[r].cvRaw <= Bound(range)
      BY <1>2, <3>2, <3>3, <3>4, RawBound
    <3>6. QED
      BY <1>1, <2>1, <2>3, <3>5
  <2>6. QED
    BY <2>4, <2>5
<1>5. QED
  BY <1>1, <1>3, <1>4

\* The copies, brought to what the vault makes of them now.
LEMMA RefreshTrue ==
  ASSUME PlaceInv, VaultInv, Refresh
  PROVE  VaultInv'
<1>1. /\ phase' = "step" /\ seen' = present
      /\ copies' = IF seen = present THEN copies
                   ELSE [c \in Kept |-> IF copies[c].x = NoPoint THEN Blank
                                        ELSE BringUp(copies[c], range, eqTol, level)]
      /\ UNCHANGED <<places, values, eqTol, level, failRaise, mode, steps, moves, work>>
      /\ phase = "refresh"
  BY DEF Refresh
<1>2. UNCHANGED <<active, free, archive, buf, range, anyFailed, cvMax, present, eqTol, level, mode>>
  BY <1>1 DEF places, values
<1>3. /\ range \in Ranges /\ (range.seen => range.fLo <= range.fHi) /\ eqTol \in Nat /\ level \in Nat
      /\ \A c \in Kept : copies[c] \in Slots
  BY Known
<1>4. CopiesInv'
  <2>1. \A c \in Kept : copies[c].x # NoPoint =>
           /\ Right(copies[c], range, anyFailed)
           /\ seen = present => AgreesAt(copies[c], range, eqTol, level)
    BY DEF VaultInv, CopiesInv
  <2>2. SUFFICES ASSUME NEW c \in Kept, copies'[c].x # NoPoint
        PROVE  Right(copies'[c], range, anyFailed) /\ AgreesAt(copies'[c], range, eqTol, level)
    BY <1>2 DEF CopiesInv
  <2>3. CASE seen = present
    BY <1>1, <2>1, <2>2, <2>3
  <2>4. CASE seen # present
    <3>1. copies[c].x # NoPoint /\ copies'[c] = BringUp(copies[c], range, eqTol, level)
      <4>1. copies'[c] = IF copies[c].x = NoPoint THEN Blank ELSE BringUp(copies[c], range, eqTol, level)
        BY <1>1, <2>4
      <4>2. Blank.x = NoPoint
        BY BlankIs
      <4>3. QED
        BY <2>2, <4>1, <4>2
    <3>2. Right(copies[c], range, anyFailed)
      BY <2>1, <3>1
    <3>3. QED
      BY <1>3, <3>1, <3>2, BringUpTrue
  <2>5. QED
    BY <2>3, <2>4
<1>5. SlotsInv'
  BY <1>2 DEF VaultInv, SlotsInv, Live, ActiveSlots, Readable
<1>6. LevelInv' /\ SetupInv' /\ BlankInv'
  BY <1>1, <1>2 DEF VaultInv, LevelInv, SetupInv, BlankInv, ActiveSlots
<1>7. QED
  BY <1>4, <1>5, <1>6 DEF VaultInv

LEMMA DriverTrue ==
  ASSUME PlaceInv, VaultInv, DriverStep
  PROVE  VaultInv'
<1>1. /\ level \in Nat /\ cvMax \in Nat /\ Bound(range) \in Nat /\ level <= 2 * Bound(range) + 1
      /\ (mode = "level" => eqTol = Tol0 /\ cvMax <= Bound(range))
      /\ (mode = "linear" \/ phase = "setup" => level = 0)
      /\ mode = "level" \/ mode = "linear"
  <2>1. mode = "level" \/ mode = "linear"
    BY VaultAssumption DEF PlaceInv, DriverIn, DriverTypes
  <2>2. QED
    BY <2>1, Known DEF VaultInv, LevelInv
<1>2. CASE StartRun
  <2>1. PICK e : e = IF mode = "level" THEN ThetaLevel ELSE 0
    OBVIOUS
  <2>2. /\ phase = "setup" /\ phase' = "level" /\ SetCvLevel(e)
        /\ UNCHANGED <<places, eqTol, core, mode>>
    BY <1>2, <2>1 DEF StartRun
  <2>3. e \in Nat /\ e <= 2 * Bound(range) + 1 /\ (mode = "linear" => e = 0)
    <3>1. CASE mode = "level"
      <4>1. e \in Nat /\ e <= Bound(range)
        BY <2>1, <2>2, <3>1, ThetaBound
      <4>2. QED
        BY <1>1, <3>1, <4>1
    <3>2. CASE mode # "level"
      BY <1>1, <2>1, <3>2
    <3>3. QED
      BY <3>1, <3>2
  <2>4. QED
    BY <2>2, <2>3, LevelTrue
<1>3. CASE NextLevel
  <2>1. PICK few \in BOOLEAN : \E e \in {0, IF few THEN ((100 - Tau) * level) \div 100
                                            ELSE ((100 + Tau) * cvMax) \div 100} : SetCvLevel(e)
    BY <1>3 DEF NextLevel
  <2>2. PICK e \in {0, IF few THEN ((100 - Tau) * level) \div 100
                              ELSE ((100 + Tau) * cvMax) \div 100} : SetCvLevel(e)
    BY <2>1
  <2>3. phase' = "level" /\ mode = "level" /\ UNCHANGED <<places, eqTol, core, mode>>
    BY <1>3 DEF NextLevel
  <2>4. /\ ((100 - Tau) * level) \div 100 \in Nat /\ ((100 - Tau) * level) \div 100 <= level
        /\ ((100 + Tau) * cvMax) \div 100 \in Nat /\ ((100 + Tau) * cvMax) \div 100 <= 2 * cvMax
    BY <1>1, NextIs
  <2>5. PICK a \in Nat : a = ((100 - Tau) * level) \div 100 /\ a <= level
    BY <2>4
  <2>6. PICK b \in Nat : b = ((100 + Tau) * cvMax) \div 100 /\ b <= 2 * cvMax
    BY <2>4
  <2>7. e \in {0, a, b}
    BY <2>1, <2>2, <2>5, <2>6
  <2>8. e \in Nat /\ e <= 2 * Bound(range) + 1
    BY <1>1, <2>3, <2>5, <2>6, <2>7
  <2>9. QED
    BY <2>2, <2>3, <2>8, LevelTrue
<1>4. CASE \E d \in Tols : NextTol(d)
  <2>1. PICK d \in Tols : NextTol(d)
    BY <1>4
  <2>2. /\ phase' = "refresh" /\ SetEqTol(d) /\ (mode = "level" => d = eqTol)
        /\ UNCHANGED <<places, level, core, mode>>
    BY <2>1 DEF NextTol
  <2>3. QED
    BY <1>1, <2>2, TolTrue
<1>5. CASE Refresh
  BY <1>5, RefreshTrue
<1>6. CASE EndStep
  <2>1. /\ phase' = "level"
        /\ UNCHANGED <<active, free, archive, buf, range, anyFailed, cvMax, present, eqTol, level, copies, seen, mode>>
    BY <1>6 DEF EndStep, places, values, core
  <2>2. SlotsInv' /\ BlankInv'
    BY <2>1 DEF VaultInv, SlotsInv, BlankInv, Live, ActiveSlots, Readable
  <2>3. CopiesInv'
    BY <2>1 DEF VaultInv, CopiesInv
  <2>4. LevelInv' /\ SetupInv'
    BY <1>1, <2>1 DEF LevelInv, SetupInv
  <2>5. QED
    BY <2>2, <2>3, <2>4 DEF VaultInv
<1>7. CASE FinalTol
  <2>1. PICK d : d = IF mode = "linear" THEN TolEnd ELSE eqTol
    OBVIOUS
  <2>2. phase' = "final" /\ SetEqTol(d) /\ UNCHANGED <<places, level, core, mode>>
    BY <1>7, <2>1 DEF FinalTol
  <2>3. d \in Tols /\ (mode = "level" => d = eqTol)
    BY <2>1, VaultAssumption DEF PlaceInv, RestTypes
  <2>4. QED
    BY <1>1, <2>2, <2>3, TolTrue
<1>8. CASE FinalLevel
  <2>1. phase' = "over" /\ SetCvLevel(0) /\ UNCHANGED <<places, eqTol, core, mode>>
    BY <1>8 DEF FinalLevel
  <2>2. QED
    BY <1>1, <2>1, LevelTrue
<1>9. QED
  BY <1>2, <1>3, <1>4, <1>5, <1>6, <1>7, <1>8 DEF DriverStep

LEMMA VaultStep ==
  ASSUME SetupFails = FALSE \/ "level" \notin Modes
  PROVE  PlaceInv /\ VaultInv /\ [Next]_vars => VaultInv'
<1>1. ASSUME PlaceInv, VaultInv, [Next]_vars PROVE VaultInv'
  <2>1. CASE CoreStep
    BY <1>1, <2>1, CoreTrue
  <2>2. CASE DriverStep
    BY <1>1, <2>2, DriverTrue
  <2>3. CASE UNCHANGED vars
    <3>1. UNCHANGED <<active, archive, buf, range, anyFailed, eqTol, level, cvMax, present, copies,
                      seen, mode, phase>>
      BY <2>3 DEF vars, places, values, core, driver
    <3>2. SlotsInv' /\ BlankInv'
      BY <1>1, <3>1 DEF VaultInv, SlotsInv, BlankInv, Live, ActiveSlots, Readable
    <3>3. CopiesInv'
      BY <1>1, <3>1 DEF VaultInv, CopiesInv
    <3>4. LevelInv' /\ SetupInv'
      BY <1>1, <3>1 DEF VaultInv, LevelInv, SetupInv, ActiveSlots
    <3>5. QED
      BY <3>2, <3>3, <3>4 DEF VaultInv
  <2>4. QED
    BY <1>1, <2>1, <2>2, <2>3 DEF Next, Over
<1>2. QED
  BY <1>1

\* The values stay what VaultInv says of them, under a level whenever no
\* evaluation of the set-up fails.
LEMMA VaultAlways ==
  ASSUME SetupFails = FALSE \/ "level" \notin Modes
  PROVE  Spec => [](PlaceInv /\ VaultInv)
<1>1. Init => PlaceInv /\ VaultInv
  BY PlaceInit, VaultInit
<1>2. PlaceInv /\ VaultInv /\ [Next]_vars => (PlaceInv /\ VaultInv)'
  BY PlaceStep, VaultStep
<1>3. QED
  BY <1>1, <1>2, PTL DEF Spec

\* Every slot in use that waits for no evaluation holds what the problem makes
\* of its own variables at the tolerance, the level and the penalty of now
\* (settle, set_eq_tol, set_cv_level and write_point of data_vault.hpp).
THEOREM PointsTruthful ==
  ASSUME SetupFails = FALSE \/ "level" \notin Modes
  PROVE  Spec => []Truthful
<1>1. PlaceInv /\ VaultInv => Truthful
  BY AgreesIs DEF VaultInv, SlotsInv, Truthful, Readable
<1>2. QED
  BY <1>1, VaultAlways, PTL

\* While present() stands where the algorithm saw it, the copies it keeps are
\* what the vault would make of them (mosa.hpp, inner_archive.hpp).
THEOREM CopiesStayCurrent ==
  ASSUME SetupFails = FALSE \/ "level" \notin Modes
  PROVE  Spec => []CopiesCurrent
<1>1. PlaceInv /\ VaultInv => CopiesCurrent
  BY AgreesIs DEF VaultInv, CopiesInv, CopiesCurrent
<1>2. QED
  BY <1>1, VaultAlways, PTL

\* Two points that failed cannot be told apart (FAILED EVALUATIONS).
THEOREM FailuresAlike ==
  ASSUME SetupFails = FALSE \/ "level" \notin Modes
  PROVE  Spec => []FailuresEqual
<1>1. PlaceInv /\ VaultInv => FailuresEqual
  <2>1. SUFFICES ASSUME PlaceInv, VaultInv, NEW i \in Live, NEW j \in Live,
                        Readable(i), Readable(j), buf[i].failed, buf[j].failed
        PROVE  /\ buf[i].f = buf[j].f /\ buf[i].g = buf[j].g /\ buf[i].eq = buf[j].eq
               /\ buf[i].cvRaw = buf[j].cvRaw /\ buf[i].cv = buf[j].cv
    BY DEF FailuresEqual
  <2>2. \A k \in {i, j} : /\ buf[k].f = WorstObjective(range) /\ buf[k].g = WorstLimit(range, range.gHi)
                          /\ buf[k].eq = WorstLimit(range, range.eqHi)
                          /\ buf[k].cvRaw = buf[k].g + buf[k].eq
                          /\ buf[k].cv = AtLevel(buf[k].cvRaw, level)
    BY <2>1, SlotsAre DEF TrueSlot, Right, Genuine, AgreesAt
  <2>3. QED
    BY <2>2
<1>2. QED
  BY <1>1, VaultAlways, PTL

\* At the first tolerance a point that failed is worse than every one that did
\* not: in the objective, in each constraint, and in the violation the
\* algorithm ranks by, whatever the level (FAILED EVALUATIONS).
THEOREM FailedWorst ==
  ASSUME SetupFails = FALSE \/ "level" \notin Modes
  PROVE  Spec => []FailedIsWorst
<1>1. PlaceInv /\ VaultInv => FailedIsWorst
  <2>1. SUFFICES ASSUME PlaceInv, VaultInv, eqTol = Tol0, NEW i \in Live, NEW j \in Live,
                        Readable(i), Readable(j), buf[i].failed, ~buf[j].failed
        PROVE  /\ buf[j].f < buf[i].f /\ buf[j].g < buf[i].g /\ buf[j].eq < buf[i].eq
               /\ buf[j].cv < buf[i].cv
    BY DEF FailedIsWorst
  <2>2. /\ Right(buf[i], range, anyFailed) /\ AgreesAt(buf[i], range, Tol0, level)
        /\ Right(buf[j], range, anyFailed) /\ AgreesAt(buf[j], range, Tol0, level)
    BY <2>1, SlotsAre DEF TrueSlot
  <2>3. /\ buf[i] \in Slots /\ buf[j] \in Slots /\ range \in Ranges
        /\ (range.seen => range.fLo <= range.fHi) /\ level \in Nat /\ Bound(range) \in Nat
        /\ level <= 2 * Bound(range) + 1
    BY <2>1, Known, SlotsOf DEF VaultInv, LevelInv
  <2>4. /\ range.seen /\ buf[j].f <= range.fHi /\ buf[j].g <= range.gHi /\ buf[j].eq <= range.eqHi
        /\ buf[j].cv = AtLevel(buf[j].cvRaw, level)
    BY <2>1, <2>2 DEF Right, Genuine, Within, AgreesAt
  <2>5. /\ buf[i].f = WorstObjective(range) /\ buf[i].g = WorstLimit(range, range.gHi)
        /\ buf[i].eq = WorstLimit(range, range.eqHi)
        /\ buf[i].cvRaw = buf[i].g + buf[i].eq /\ buf[i].cv = AtLevel(buf[i].cvRaw, level)
    BY <2>1, <2>2 DEF Right, Genuine, AgreesAt
  <2>6. /\ WorstObjective(range) \in Int /\ WorstObjective(range) > range.fHi
        /\ WorstLimit(range, range.gHi) \in Nat /\ WorstLimit(range, range.eqHi) \in Nat
        /\ WorstLimit(range, range.gHi) > Pos(range.gHi) /\ WorstLimit(range, range.eqHi) > Pos(range.eqHi)
        /\ WorstLimit(range, range.gHi) + WorstLimit(range, range.eqHi) = 2 * Bound(range) + 2
    BY <2>3, <2>4, WorstIs
  <2>7. /\ range.fHi \in Int /\ range.gHi \in Int /\ range.eqHi \in Int
        /\ buf[j].f \in Int /\ buf[j].g \in Int /\ buf[j].eq \in Int /\ buf[j].cvRaw \in Nat
        /\ buf[i].cvRaw \in Nat
    BY <2>3 DEF Slots, Ranges
  <2>8. range.gHi <= Pos(range.gHi) /\ range.eqHi <= Pos(range.eqHi)
        /\ Pos(range.gHi) \in Nat /\ Pos(range.eqHi) \in Nat
    BY <2>7, Numbers
  <2>9. buf[j].f < buf[i].f /\ buf[j].g < buf[i].g /\ buf[j].eq < buf[i].eq
    BY <2>4, <2>5, <2>6, <2>7, <2>8
  <2>10. buf[j].cv \in Nat /\ buf[j].cv <= buf[j].cvRaw
    BY <2>3, <2>4, <2>7 DEF AtLevel
  <2>11. buf[j].cvRaw <= Bound(range)
    BY <2>1, <2>2, <2>3, RawBound
  <2>12. buf[i].cv = 2 * Bound(range) + 2
    <3>1. buf[i].cvRaw = 2 * Bound(range) + 2
      BY <2>5, <2>6
    <3>2. buf[i].cvRaw > level
      BY <2>3, <3>1
    <3>3. QED
      BY <2>3, <2>5, <2>7, <3>1, <3>2, Numbers
  <2>13. QED
    BY <2>3, <2>7, <2>9, <2>10, <2>11, <2>12
<1>2. QED
  BY <1>1, VaultAlways, PTL
=============================================================================
