-------------------------- MODULE RunDriverProofs --------------------------
(***************************************************************************)
(* That what a run reads at a count is the archive of exactly that many    *)
(* evaluations, whatever the batches and the cap that cut them; that the   *)
(* records of a run are of the populations it had at the counts of its     *)
(* grid; and that the archive keeps its promises over every pruning,       *)
(* compaction and regrid. The ledger offers rows in turn and reads and     *)
(* records in rising order of the counts, and a regrid puts the slots back *)
(* in turn: all are followed one step at a time.                           *)
(***************************************************************************)
EXTENDS RunDriver, FiniteSetTheorems, SequenceTheorems, WellFoundedInduction, TLAPS

\* A set of natural numbers has a least element.
LEMMA LeastIs ==
  ASSUME NEW T \in SUBSET Nat, T # {}
  PROVE  \E x \in T : \A y \in T : x <= y
<1>1. \E x \in T : \A y \in T : ~(<<y, x>> \in OpToRel(<, Nat))
  BY NatLessThanWellFounded, WFMin
<1>2. PICK x \in T : \A y \in T : ~(<<y, x>> \in OpToRel(<, Nat))
  BY <1>1
<1>3. \A y \in T : ~(y < x)
  BY <1>2 DEF OpToRel
<1>4. QED
  BY <1>3

\* A set of numbers up to n that has some has a greatest.
LEMMA MaxIs ==
  ASSUME NEW n \in Nat, NEW s \in SUBSET (1..n), s # {}
  PROVE  Max(s) \in s /\ \A y \in s : y <= Max(s)
<1> DEFINE T == {n - i : i \in s}
<1>1. T \in SUBSET Nat /\ T # {}
  <2>1. \A i \in s : n - i \in Nat
    OBVIOUS
  <2>2. QED
    BY <2>1
<1>2. PICK z \in T : \A y \in T : z <= y
  <2> HIDE DEF T
  <2>1. QED
    BY <1>1, LeastIs
<1>3. PICK m \in s : z = n - m
  BY <1>2
<1>4. \A y \in s : m >= y
  <2>1. SUFFICES ASSUME NEW y \in s PROVE m >= y
    OBVIOUS
  <2>2. n - m <= n - y
    BY <1>2, <1>3, <2>1
  <2>3. QED
    BY <1>3, <2>1, <2>2
<1>5. \E x \in s : \A y \in s : x >= y
  BY <1>4
<1>6. Max(s) \in s /\ \A y \in s : Max(s) >= y
  BY <1>5 DEF Max
<1>7. QED
  BY <1>6

\* A set up to n + 1 that has it has it as its greatest.
LEMMA MaxOfUpTo ==
  ASSUME NEW n \in Nat, NEW s \in SUBSET (1..(n + 1)), n + 1 \in s
  PROVE  Max(s) = n + 1
<1>1. n + 1 \in Nat /\ s # {} /\ s \in SUBSET (1..(n + 1))
  OBVIOUS
<1>2. Max(s) \in s /\ \A y \in s : y <= Max(s)
  BY <1>1, MaxIs
<1>3. Max(s) \in 1..(n + 1) /\ n + 1 <= Max(s)
  BY <1>2
<1>4. QED
  BY <1>3

\* The greatest of 1..k is k.
LEMMA MaxOfAll ==
  ASSUME NEW k \in Nat, k # 0
  PROVE  Max(1..k) = k
<1>1. 1..k \in SUBSET (1..k) /\ 1..k # {} /\ k \in 1..k
  OBVIOUS
<1>2. Max(1..k) \in 1..k /\ \A y \in 1..k : y <= Max(1..k)
  BY <1>1, MaxIs
<1>3. QED
  BY <1>1, <1>2

\* What holds at first and from number to number holds of all up to n.
LEMMA Upwards ==
  ASSUME NEW n \in Nat, NEW T, 0 \in T, \A k \in 1..n : k - 1 \in T => k \in T
  PROVE  \A k \in 0..n : k \in T
<1> DEFINE None == {k \in 0..n : k \notin T}
<1>1. None \in SUBSET Nat
  OBVIOUS
<1>2. SUFFICES ASSUME None # {} PROVE FALSE
  OBVIOUS
<1>3. PICK m \in None : \A k \in None : m <= k
  <2> HIDE DEF None
  <2>1. QED
    BY <1>1, <1>2, LeastIs
<1>4. m \in 1..n /\ m - 1 \in 0..n /\ ~(m <= m - 1)
  BY <1>3
<1>5. m - 1 \in T
  BY <1>3, <1>4
<1>6. QED
  BY <1>3, <1>4, <1>5

\* Up to k of 1..n: the last is k, and before it are those up to k - 1.
LEMMA UpTo ==
  ASSUME NEW n \in Nat, NEW k \in 1..n
  PROVE  /\ 1..k \in SUBSET (1..n) /\ 1..k # {}
         /\ Max(1..k) = k /\ (1..k) \ {Max(1..k)} = 1..(k - 1)
<1>1. k \in Nat /\ k # 0 /\ k \in 1..k
  OBVIOUS
<1>2. Max(1..k) = k
  BY <1>1, MaxOfAll
<1>3. 1..k \in SUBSET (1..n) /\ (1..k) \ {k} = 1..(k - 1)
  OBVIOUS
<1>4. QED
  BY <1>1, <1>2, <1>3

-----------------------------------------------------------------------------
(* Rows offered in turn.                                                   *)

\* What an archive becomes of a row, and the archives it becomes one row after the other.
Take(a, r) == IF r.ok THEN Add(a, r.f) ELSE a

Through(t, a, q, n) == t[0] = a /\ \A k \in 1..n : t[k] = Take(t[k - 1], q[k])

\* The steps of the folds: a row offered, a count read, a count recorded, a slot put into a
\* new grid, a slot put back.
Step(which, data, a, i) ==
  CASE which = "row" -> Take(a, data[i])
    [] which = "part" -> Part(a, data.batch, data.start, i)
    [] which = "record" -> AtCount(a, data.gen, data.fe, i)
    [] which = "put" -> Put(data.ext, data.except, a, i)
    [] which = "back" -> Back(a, i)

\* What each subset of D's numbers makes of a in turn.
Iterates(g, D, a, which, data) ==
  g = [s \in SUBSET D |-> IF s = {} THEN a ELSE Step(which, data, g[s \ {Max(s)}], Max(s))]

\* There is such a function, for each of the folds.
LEMMA Iterated ==
  ASSUME NEW n \in Nat, NEW D \in SUBSET (1..n), NEW a, NEW which, NEW data
  PROVE  \E g : Iterates(g, D, a, which, data)
<1> DEFINE Iter(m, g) == g = [s \in SUBSET (1..m) |-> IF s = {} THEN a ELSE Step(which, data, g[s \ {Max(s)}], Max(s))]
           T == {m \in 0..n : \E g : Iter(m, g)}
<1>1. 0 \in T
  <2>1. PICK g : g = [s \in SUBSET (1..0) |-> a]
    OBVIOUS
  <2>2. \A s \in SUBSET (1..0) : s = {}
    OBVIOUS
  <2>3. Iter(0, g)
    BY <2>1, <2>2
  <2>4. 0 \in 0..n
    OBVIOUS
  <2>5. QED
    BY <2>3, <2>4
<1>2. ASSUME NEW k \in 1..n, k - 1 \in T PROVE k \in T
  <2>1. PICK j \in Nat : j = k - 1 /\ k = j + 1
    OBVIOUS
  <2>2. PICK g : Iter(j, g)
    BY <1>2, <2>1
  <2>3. PICK b : b = [s \in SUBSET (1..(j + 1)) |->
                        IF j + 1 \in s THEN Step(which, data, g[s \ {j + 1}], j + 1) ELSE g[s]]
    OBVIOUS
  <2>4. /\ \A s \in SUBSET (1..(j + 1)) : s \ {j + 1} \in SUBSET (1..j)
        /\ \A s \in SUBSET (1..(j + 1)) : j + 1 \notin s => s \in SUBSET (1..j)
        /\ \A s \in SUBSET (1..j) : j + 1 \notin s /\ s \in SUBSET (1..(j + 1))
    BY <2>1
  <2>5. \A s \in SUBSET (1..j) : b[s] = g[s]
    BY <2>3, <2>4
  <2>6. b[{}] = a
    <3>1. g[{}] = a
      BY <2>2
    <3>2. {} \in SUBSET (1..j)
      OBVIOUS
    <3>3. QED
      BY <2>5, <3>1, <3>2
  <2>7. ASSUME NEW s \in SUBSET (1..(j + 1)), s # {}
        PROVE  b[s] = Step(which, data, b[s \ {Max(s)}], Max(s))
    <3>1. CASE j + 1 \in s
      <4>1. Max(s) = j + 1
        BY <2>1, <3>1, MaxOfUpTo
      <4>2. b[s] = Step(which, data, g[s \ {j + 1}], j + 1)
        BY <2>3, <3>1
      <4>3. b[s \ {j + 1}] = g[s \ {j + 1}]
        BY <2>4, <2>5
      <4>4. QED
        BY <4>1, <4>2, <4>3
    <3>2. CASE j + 1 \notin s
      <4>1. s \in SUBSET (1..j) /\ s \ {Max(s)} \in SUBSET (1..j)
        BY <2>4, <3>2
      <4>2. g[s] = Step(which, data, g[s \ {Max(s)}], Max(s))
        BY <2>2, <2>7, <4>1
      <4>3. QED
        BY <2>5, <4>1, <4>2
    <3>3. QED
      BY <3>1, <3>2
  <2>8. Iter(j + 1, b)
    <3>1. DOMAIN b = SUBSET (1..(j + 1)) /\ b = [s \in SUBSET (1..(j + 1)) |-> b[s]]
      BY <2>3
    <3>2. \A s \in SUBSET (1..(j + 1)) : b[s] = IF s = {} THEN a ELSE Step(which, data, b[s \ {Max(s)}], Max(s))
      BY <2>6, <2>7
    <3>3. QED
      BY <3>1, <3>2
  <2>9. j + 1 \in 0..n
    BY <2>1
  <2>10. QED
    BY <2>1, <2>8, <2>9
<1>3. n \in T
  <2>1. n \in 0..n
    OBVIOUS
  <2> HIDE DEF T
  <2>2. QED
    BY <1>1, <1>2, <2>1, Upwards
<1>4. PICK g : Iter(n, g)
  BY <1>3
<1>5. PICK f : f = [s \in SUBSET D |-> g[s]]
  OBVIOUS
<1>6. \A s \in SUBSET D : s \in SUBSET (1..n) /\ s \ {Max(s)} \in SUBSET D
  OBVIOUS
<1>7. ASSUME NEW s \in SUBSET D
      PROVE  f[s] = IF s = {} THEN a ELSE Step(which, data, f[s \ {Max(s)}], Max(s))
  <2>1. g[s] = IF s = {} THEN a ELSE Step(which, data, g[s \ {Max(s)}], Max(s))
    BY <1>4, <1>6
  <2>2. f[s] = g[s] /\ f[s \ {Max(s)}] = g[s \ {Max(s)}]
    BY <1>5, <1>6
  <2>3. QED
    BY <2>1, <2>2
<1>8. f = [s \in SUBSET D |-> f[s]]
  BY <1>5
<1>9. QED
  BY <1>7, <1>8 DEF Iterates

\* Rows are offered one after the other.
LEMMA OfferFold ==
  ASSUME NEW n \in Nat, NEW q, DOMAIN q = 1..n, NEW a
  PROVE  \E t : Through(t, a, q, n) /\ t[n] = Offer(a, q)
<1>1. PICK g : g = [s \in SUBSET (1..n) |-> IF s = {} THEN a ELSE Take(g[s \ {Max(s)}], q[Max(s)])]
  <2>0. 1..n \in SUBSET (1..n)
    OBVIOUS
  <2>1. PICK g : g = [s \in SUBSET (1..n) |-> IF s = {} THEN a ELSE Step("row", q, g[s \ {Max(s)}], Max(s))]
    <3>1. \E g : Iterates(g, 1..n, a, "row", q)
      BY <2>0, Iterated
    <3>2. QED
      BY <3>1 DEF Iterates
  <2>2. \A e, i : Step("row", q, e, i) = Take(e, q[i])
    BY DEF Step
  <2>3. \A s \in SUBSET (1..n) : g[s] = IF s = {} THEN a ELSE Take(g[s \ {Max(s)}], q[Max(s)])
    BY <2>1, <2>2
  <2>4. g = [s \in SUBSET (1..n) |-> g[s]]
    BY <2>1
  <2>5. QED
    BY <2>3, <2>4
<1>2. PICK it : it = CHOOSE f : f = [s \in SUBSET (1..n) |->
                         IF s = {} THEN a ELSE Take(f[s \ {Max(s)}], q[Max(s)])]
  OBVIOUS
<1>3. it = [s \in SUBSET (1..n) |-> IF s = {} THEN a ELSE Take(it[s \ {Max(s)}], q[Max(s)])]
  BY <1>1, <1>2
<1>4. Offer(a, q) = it[1..n]
  BY <1>2 DEF Offer, FoldLeft, MapThenFoldSet, Take
<1>5. it[{}] = a
  BY <1>3
<1>6. ASSUME NEW k \in 1..n PROVE it[1..k] = Take(it[1..(k - 1)], q[k])
  <2>1. 1..k \in SUBSET (1..n) /\ 1..k # {} /\ Max(1..k) = k /\ (1..k) \ {Max(1..k)} = 1..(k - 1)
    BY UpTo
  <2>2. it[1..k] = Take(it[(1..k) \ {Max(1..k)}], q[Max(1..k)])
    BY <1>3, <2>1
  <2>3. QED
    BY <2>1, <2>2
<1>7. PICK t : t = [k \in 0..n |-> it[1..k]]
  OBVIOUS
<1>8. 0 \in 0..n /\ n \in 0..n /\ 1..0 = {} /\ \A k \in 1..n : k \in 0..n /\ k - 1 \in 0..n
  OBVIOUS
<1>9. t[0] = a /\ t[n] = it[1..n]
  BY <1>5, <1>7, <1>8
<1>10. \A k \in 1..n : t[k] = Take(t[k - 1], q[k])
  BY <1>6, <1>7, <1>8
<1>11. QED
  BY <1>4, <1>9, <1>10 DEF Through

\* There is one way through.
LEMMA OneWay ==
  ASSUME NEW n \in Nat, NEW a, NEW q, NEW p, NEW t, NEW u, Through(t, a, q, n), Through(u, a, p, n),
         \A k \in 1..n : q[k] = p[k]
  PROVE  \A k \in 0..n : t[k] = u[k]
<1>1. PICK T : T = {k \in 0..n : t[k] = u[k]}
  OBVIOUS
<1>2. 0 \in T /\ \A k \in 1..n : k - 1 \in T => k \in T
  BY <1>1 DEF Through
<1>3. QED
  BY <1>1, <1>2, Upwards

\* The way through is what is offered.
LEMMA OfferIs ==
  ASSUME NEW n \in Nat, NEW q, DOMAIN q = 1..n, NEW a, NEW t, Through(t, a, q, n)
  PROVE  t[n] = Offer(a, q)
<1>1. PICK u : Through(u, a, q, n) /\ u[n] = Offer(a, q)
  BY OfferFold
<1>2. \A k \in 0..n : t[k] = u[k]
  BY <1>1, OneWay
<1>3. QED
  BY <1>1, <1>2

\* Some rows and then the rest.
LEMMA OfferApart ==
  ASSUME NEW S, NEW q \in Seq(S), NEW a, NEW m \in 0..Len(q), NEW l \in m..Len(q)
  PROVE  Offer(Offer(a, SubSeq(q, 1, m)), SubSeq(q, m + 1, l)) = Offer(a, SubSeq(q, 1, l))
<1>1. PICK n \in Nat : n = Len(q) /\ DOMAIN q = 1..n /\ m \in 0..n /\ l \in m..n
  OBVIOUS
<1>2. PICK first : first = SubSeq(q, 1, m)
  OBVIOUS
<1>3. DOMAIN first = 1..m /\ \A k \in 1..m : first[k] = q[k]
  BY <1>1, <1>2
<1>4. PICK rest : rest = SubSeq(q, m + 1, l)
  OBVIOUS
<1>5. PICK d \in Nat : d = l - m
  BY <1>1
<1>6. DOMAIN rest = 1..d /\ \A k \in 1..d : rest[k] = q[m + k]
  BY <1>1, <1>4, <1>5
<1>7. PICK both : both = SubSeq(q, 1, l)
  OBVIOUS
<1>8. DOMAIN both = 1..l /\ \A k \in 1..l : both[k] = q[k]
  BY <1>1, <1>7
<1>9. m \in Nat /\ l \in Nat /\ l = m + d
  BY <1>1, <1>5
<1>10. PICK t : Through(t, a, first, m) /\ t[m] = Offer(a, first)
  BY <1>3, <1>9, OfferFold
<1>11. PICK u : Through(u, t[m], rest, d) /\ u[d] = Offer(t[m], rest)
  BY <1>6, OfferFold
<1>12. PICK w : w = [k \in 0..l |-> IF k <= m THEN t[k] ELSE u[k - m]]
  OBVIOUS
<1>13. w[0] = a
  BY <1>9, <1>10, <1>12 DEF Through
<1>14. ASSUME NEW k \in 1..l PROVE w[k] = Take(w[k - 1], both[k])
  <2>1. both[k] = q[k]
    BY <1>8
  <2>2. CASE k <= m
    <3>1. k \in 1..m /\ k \in 0..l /\ k - 1 \in 0..l /\ k - 1 <= m
      BY <1>9, <2>2
    <3>2. w[k] = t[k] /\ w[k - 1] = t[k - 1] /\ first[k] = q[k]
      BY <1>3, <1>12, <3>1
    <3>3. t[k] = Take(t[k - 1], first[k])
      BY <1>10, <3>1 DEF Through
    <3>4. QED
      BY <2>1, <3>2, <3>3
  <2>3. CASE ~(k <= m)
    <3>1. PICK i \in 1..d : i = k - m
      BY <1>9, <2>3
    <3>2. k \in 0..l /\ k - 1 \in 0..l /\ k = m + i /\ i - 1 = (k - 1) - m
      BY <1>9, <3>1
    <3>3. w[k] = u[i]
      BY <1>12, <2>3, <3>1, <3>2
    <3>4. rest[i] = q[k]
      BY <1>6, <3>2
    <3>5. u[i] = Take(u[i - 1], rest[i])
      BY <1>11 DEF Through
    <3>6. w[k - 1] = u[i - 1]
      <4>1. CASE i = 1
        <5>1. k - 1 = m /\ i - 1 = 0 /\ m <= m
          BY <1>9, <3>2, <4>1
        <5>2. u[0] = t[m]
          BY <1>11 DEF Through
        <5>3. w[m] = t[m]
          BY <1>12, <3>2, <5>1
        <5>4. QED
          BY <5>1, <5>2, <5>3
      <4>2. CASE i # 1
        <5>1. ~(k - 1 <= m)
          BY <1>9, <3>2, <4>2
        <5>2. QED
          BY <1>12, <3>2, <5>1
      <4>3. QED
        BY <4>1, <4>2
    <3>7. QED
      BY <2>1, <3>3, <3>4, <3>5, <3>6
  <2>4. QED
    BY <2>2, <2>3
<1>15. w[l] = Offer(a, both)
  BY <1>8, <1>9, <1>13, <1>14, OfferIs DEF Through
<1>16. w[l] = Offer(t[m], rest)
  <2>1. l \in 0..l
    BY <1>9
  <2>2. CASE d = 0
    <3>1. l = m /\ m <= m
      BY <1>9, <2>2
    <3>2. w[l] = t[m]
      BY <1>12, <2>1, <3>1
    <3>3. u[0] = t[m]
      BY <1>11 DEF Through
    <3>4. QED
      BY <1>11, <2>2, <3>2, <3>3
  <2>3. CASE d # 0
    <3>1. ~(l <= m) /\ l - m = d
      BY <1>9, <2>3
    <3>2. w[l] = u[d]
      BY <1>12, <2>1, <3>1
    <3>3. QED
      BY <1>11, <3>2
  <2>4. QED
    BY <2>2, <2>3
<1>17. QED
  BY <1>2, <1>4, <1>7, <1>10, <1>15, <1>16

\* No rows, and a row more.
LEMMA OfferNone ==
  ASSUME NEW a
  PROVE  Offer(a, <<>>) = a
<1>1. PICK n \in Nat : n = 0
  OBVIOUS
<1>2. PICK q : q = <<>>
  OBVIOUS
<1>3. DOMAIN q = 1..n
  BY <1>1, <1>2
<1>4. PICK t : Through(t, a, q, n) /\ t[n] = Offer(a, q)
  BY <1>3, OfferFold
<1>5. QED
  BY <1>1, <1>2, <1>4 DEF Through

\* One row more.
LEMMA OfferMore ==
  ASSUME NEW S, NEW q \in Seq(S), NEW r \in S, NEW a
  PROVE  Offer(a, Append(q, r)) = Offer(Offer(a, q), <<r>>)
<1>1. PICK m \in Nat : m = Len(q)
  OBVIOUS
<1>2. PICK p : p = Append(q, r)
  OBVIOUS
<1>3. p \in Seq(S) /\ Len(p) = m + 1 /\ p[m + 1] = r /\ \A i \in 1..m : p[i] = q[i]
  BY <1>1, <1>2
<1>4. m \in 0..Len(p) /\ m + 1 \in m..Len(p)
  BY <1>1, <1>3
<1>5. Offer(Offer(a, SubSeq(p, 1, m)), SubSeq(p, m + 1, m + 1)) = Offer(a, SubSeq(p, 1, m + 1))
  BY <1>3, <1>4, OfferApart
<1>6. SubSeq(p, 1, m) = q
  BY <1>1, <1>3
<1>7. SubSeq(p, 1, m + 1) = p
  BY <1>1, <1>3
<1>8. SubSeq(p, m + 1, m + 1) = <<r>>
  <2>1. PICK x : x = SubSeq(p, m + 1, m + 1)
    OBVIOUS
  <2>2. x \in Seq(S) /\ Len(x) = 1 /\ x[1] = p[m + 1]
    BY <1>1, <1>3, <2>1
  <2>3. x = <<r>>
    BY <1>3, <2>2
  <2>4. QED
    BY <2>1, <2>3
<1>9. QED
  BY <1>2, <1>5, <1>6, <1>7, <1>8

-----------------------------------------------------------------------------
(* The counts read.                                                        *)

\* What is read in turn at the counts of D.
Parts(it, D, l, batch, start) ==
  /\ it[{}] = l
  /\ \A s \in SUBSET D : s # {} => it[s] = Part(it[s \ {Max(s)}], batch, start, Max(s))
  /\ it[D] = Rising(LAMBDA k, b : Part(k, batch, start, b), l, D)

\* There is one for the parts of a batch.
LEMMA PartsFold ==
  ASSUME NEW n \in Nat, NEW D \in SUBSET (1..n), NEW l, NEW batch, NEW start
  PROVE  \E it : Parts(it, D, l, batch, start)
<1>1. PICK g : g = [s \in SUBSET D |-> IF s = {} THEN l ELSE Part(g[s \ {Max(s)}], batch, start, Max(s))]
  <2>1. PICK data : data = [batch |-> batch, start |-> start]
    OBVIOUS
  <2>2. PICK g : g = [s \in SUBSET D |-> IF s = {} THEN l ELSE Step("part", data, g[s \ {Max(s)}], Max(s))]
    <3>1. \E g : Iterates(g, D, l, "part", data)
      BY Iterated
    <3>2. QED
      BY <3>1 DEF Iterates
  <2>3. \A e, i : Step("part", data, e, i) = Part(e, batch, start, i)
    BY <2>1 DEF Step
  <2>4. \A s \in SUBSET D : g[s] = IF s = {} THEN l ELSE Part(g[s \ {Max(s)}], batch, start, Max(s))
    BY <2>2, <2>3
  <2>5. g = [s \in SUBSET D |-> g[s]]
    BY <2>2
  <2>6. QED
    BY <2>4, <2>5
<1>2. PICK it : it = CHOOSE f : f = [s \in SUBSET D |->
                         IF s = {} THEN l ELSE Part(f[s \ {Max(s)}], batch, start, Max(s))]
  OBVIOUS
<1>3. it = [s \in SUBSET D |-> IF s = {} THEN l ELSE Part(it[s \ {Max(s)}], batch, start, Max(s))]
  BY <1>1, <1>2
<1>4. Rising(LAMBDA k, b : Part(k, batch, start, b), l, D) = it[D]
  BY <1>2 DEF Rising, MapThenFoldSet
<1>5. it[{}] = l
  BY <1>3
<1>6. \A s \in SUBSET D : s # {} => it[s] = Part(it[s \ {Max(s)}], batch, start, Max(s))
  BY <1>3
<1>7. QED
  BY <1>4, <1>5, <1>6 DEF Parts

\* A batch, after it: its rows are offered, and each count that was due has the archive of the
\* rows up to it.
Ledgered(z, l, batch, D) ==
  /\ z = [fe |-> z.fe, arc |-> z.arc, readAt |-> z.readAt]
  /\ z.fe = l.fe + Len(batch) /\ z.arc = Offer(l.arc, batch)
  /\ DOMAIN z.readAt = DOMAIN l.readAt \cup D
  /\ \A b \in D : z.readAt[b] = Offer(l.arc, SubSeq(batch, 1, b - l.fe))
  /\ \A b \in DOMAIN l.readAt : z.readAt[b] = l.readAt[b]

\* A batch in parts: what is read at each count, and the rest.
LEMMA AccountIs ==
  ASSUME NEW S, NEW batch \in Seq(S), NEW l, l = [fe |-> l.fe, arc |-> l.arc, readAt |-> l.readAt],
         l.fe \in Nat, setting.reads \in SUBSET (Nat \ {0}), \A b \in DOMAIN l.readAt : b <= l.fe,
         NEW z, z = Account(l, batch),
         NEW D, D = {b \in setting.reads : l.fe < b /\ b <= l.fe + Len(batch)}
  PROVE  Ledgered(z, l, batch, D)
<1>1. PICK m \in Nat : m = Len(batch) /\ DOMAIN batch = 1..m
  OBVIOUS
<1> DEFINE start == l.fe
<1>2. start \in Nat
  OBVIOUS
<1>3. PICK n \in Nat : n = start + m
  BY <1>1
<1>4. /\ D \in SUBSET (1..n) /\ \A b \in D : start < b /\ b <= n /\ b \in Nat
      /\ \A b \in D : b \notin DOMAIN l.readAt
  BY <1>1, <1>2, <1>3
<1>5. PICK it : /\ it[{}] = l
                /\ \A s \in SUBSET D : s # {} => it[s] = Part(it[s \ {Max(s)}], batch, start, Max(s))
                /\ it[D] = Rising(LAMBDA k, b : Part(k, batch, start, b), l, D)
  <2>1. PICK it : Parts(it, D, l, batch, start)
    BY <1>4, PartsFold
  <2>2. QED
    BY <2>1 DEF Parts
<1> DEFINE U(k) == {b \in D : b <= k}
           Good(k) == LET e == it[U(k)] IN
             /\ e = [fe |-> e.fe, arc |-> e.arc, readAt |-> e.readAt]
             /\ e.fe \in start..n /\ (e.fe = start \/ e.fe <= k)
             /\ e.arc = Offer(l.arc, SubSeq(batch, 1, e.fe - start))
             /\ DOMAIN e.readAt = DOMAIN l.readAt \cup U(k)
             /\ \A b \in U(k) : e.readAt[b] = Offer(l.arc, SubSeq(batch, 1, b - start))
             /\ \A b \in DOMAIN l.readAt : e.readAt[b] = l.readAt[b]
           T == {k \in 0..n : Good(k)}
<1>6. 0 \in T
  <2>1. U(0) = {}
    BY <1>4
  <2>2. it[U(0)] = l
    BY <1>5, <2>1
  <2>3. l.fe \in start..n /\ l.fe - start = 0
    BY <1>2, <1>3
  <2>4. SubSeq(batch, 1, 0) = <<>>
    OBVIOUS
  <2>5. Offer(l.arc, <<>>) = l.arc
    BY OfferNone
  <2>6. Good(0)
    BY <1>2, <2>1, <2>2, <2>3, <2>4, <2>5
  <2>7. 0 \in 0..n
    BY <1>3
  <2>8. QED
    BY <2>6, <2>7
<1>7. ASSUME NEW k \in 1..n, k - 1 \in T PROVE k \in T
  <2>0. PICK j \in 0..n : j = k - 1 /\ k = j + 1
    OBVIOUS
  <2>1. Good(j)
    BY <1>7, <2>0
  <2>2. CASE k \notin D
    <3>1. U(k) = U(j)
      BY <1>4, <2>0, <2>2
    <3>2. PICK e : e = it[U(j)]
      OBVIOUS
    <3>3. /\ e = [fe |-> e.fe, arc |-> e.arc, readAt |-> e.readAt]
          /\ e.fe \in start..n /\ (e.fe = start \/ e.fe <= j)
          /\ e.arc = Offer(l.arc, SubSeq(batch, 1, e.fe - start))
          /\ DOMAIN e.readAt = DOMAIN l.readAt \cup U(j)
          /\ \A b \in U(j) : e.readAt[b] = Offer(l.arc, SubSeq(batch, 1, b - start))
          /\ \A b \in DOMAIN l.readAt : e.readAt[b] = l.readAt[b]
      BY <2>1, <3>2
    <3>4. e.fe = start \/ e.fe <= k
      BY <1>2, <1>3, <2>0, <3>3
    <3>5. e = it[U(k)]
      BY <3>1, <3>2
    <3>6. Good(k)
      <4> HIDE DEF U
      <4>1. QED
        BY <3>1, <3>3, <3>4, <3>5
    <3>7. k \in 0..n
      OBVIOUS
    <3>8. QED
      BY <3>6, <3>7
  <2>3. CASE k \in D
    <3>1. U(k) = U(j) \cup {k} /\ k \notin U(j) /\ k \in U(k) /\ U(k) \in SUBSET D /\ U(k) # {}
          /\ U(k) \in SUBSET (1..k)
      BY <1>4, <2>0, <2>3
    <3>2. Max(U(k)) = k
      <4>1. U(k) \in SUBSET (1..(j + 1)) /\ j + 1 \in U(k) /\ j \in Nat
        BY <2>0, <3>1
      <4> HIDE DEF U
      <4>2. Max(U(k)) = j + 1
        BY <4>1, MaxOfUpTo
      <4>3. QED
        BY <2>0, <4>2
    <3>3. U(k) \ {k} = U(j)
      BY <3>1
    <3>4. PICK e : e = it[U(j)]
      OBVIOUS
    <3>5. PICK w : w = it[U(k)]
      OBVIOUS
    <3>6. w = Part(e, batch, start, k)
      <4> HIDE DEF U
      <4>1. QED
        BY <1>5, <3>1, <3>2, <3>3, <3>4, <3>5
    <3>7. /\ e = [fe |-> e.fe, arc |-> e.arc, readAt |-> e.readAt]
          /\ e.fe \in start..n /\ (e.fe = start \/ e.fe <= j)
          /\ e.arc = Offer(l.arc, SubSeq(batch, 1, e.fe - start))
          /\ DOMAIN e.readAt = DOMAIN l.readAt \cup U(j)
          /\ \A b \in U(j) : e.readAt[b] = Offer(l.arc, SubSeq(batch, 1, b - start))
          /\ \A b \in DOMAIN l.readAt : e.readAt[b] = l.readAt[b]
      BY <2>1, <3>4
    <3>8. PICK arc : arc = Offer(e.arc, SubSeq(batch, e.fe - start + 1, k - start))
      OBVIOUS
    <3>9. w = [fe |-> k, arc |-> arc, readAt |-> With(e.readAt, k, arc)]
      BY <3>6, <3>8 DEF Part
    <3>10. arc = Offer(l.arc, SubSeq(batch, 1, k - start))
      <4>1. PICK p \in 0..m : p = e.fe - start
        BY <1>3, <3>7
      <4>2. PICK q \in p..m : q = k - start
        BY <1>3, <1>4, <2>0, <2>3, <3>7, <4>1
      <4>3. arc = Offer(Offer(l.arc, SubSeq(batch, 1, p)), SubSeq(batch, p + 1, q))
        BY <3>7, <3>8, <4>1, <4>2
      <4>4. QED
        BY <1>1, <4>2, <4>3, OfferApart
    <3>11. w.fe = k /\ w.arc = arc /\ w.readAt = With(e.readAt, k, arc)
           /\ w = [fe |-> w.fe, arc |-> w.arc, readAt |-> w.readAt]
      BY <3>9
    <3>12. /\ DOMAIN w.readAt = DOMAIN e.readAt \cup {k} /\ w.readAt[k] = arc
           /\ \A b \in DOMAIN e.readAt : b # k => w.readAt[b] = e.readAt[b]
      BY <3>11 DEF With
    <3>13. DOMAIN w.readAt = DOMAIN l.readAt \cup U(k)
      BY <3>1, <3>7, <3>12
    <3>14. \A b \in U(k) : w.readAt[b] = Offer(l.arc, SubSeq(batch, 1, b - start))
      <4>1. SUFFICES ASSUME NEW b \in U(k) PROVE w.readAt[b] = Offer(l.arc, SubSeq(batch, 1, b - start))
        OBVIOUS
      <4>2. CASE b = k
        BY <3>10, <3>12, <4>2
      <4>3. CASE b # k
        <5>1. b \in U(j) /\ b \in DOMAIN e.readAt
          BY <3>1, <3>7, <4>1, <4>3
        <5>2. QED
          BY <3>7, <3>12, <4>3, <5>1
      <4>4. QED
        BY <4>2, <4>3
    <3>15. \A b \in DOMAIN l.readAt : w.readAt[b] = l.readAt[b]
      <4>1. \A b \in DOMAIN l.readAt : b # k
        BY <1>4, <2>3
      <4>2. QED
        BY <3>7, <3>12, <4>1
    <3>16. w.fe \in start..n /\ w.fe <= k
      BY <1>3, <1>4, <2>3, <3>11
    <3>17. w.arc = Offer(l.arc, SubSeq(batch, 1, w.fe - start))
      BY <3>10, <3>11
    <3>18. Good(k)
      <4> HIDE DEF U
      <4>1. QED
        BY <3>5, <3>11, <3>13, <3>14, <3>15, <3>16, <3>17
    <3>19. k \in 0..n
      OBVIOUS
    <3>20. QED
      BY <3>18, <3>19
  <2>4. QED
    BY <2>2, <2>3
<1>8. Good(n)
  <2>1. n \in 0..n
    BY <1>3
  <2>2. n \in T
    <3> HIDE DEF T
    <3>1. QED
      BY <1>3, <1>6, <1>7, <2>1, Upwards
  <2>3. QED
    BY <2>2
<1>9. U(n) = D
  BY <1>4
<1>10. PICK e : e = it[D]
  OBVIOUS
<1>11. /\ e = [fe |-> e.fe, arc |-> e.arc, readAt |-> e.readAt]
       /\ e.fe \in start..n
       /\ e.arc = Offer(l.arc, SubSeq(batch, 1, e.fe - start))
       /\ DOMAIN e.readAt = DOMAIN l.readAt \cup D
       /\ \A b \in D : e.readAt[b] = Offer(l.arc, SubSeq(batch, 1, b - start))
       /\ \A b \in DOMAIN l.readAt : e.readAt[b] = l.readAt[b]
  BY <1>8, <1>9, <1>10
<1>12. z = [e EXCEPT !.fe = n, !.arc = Offer(e.arc, SubSeq(batch, e.fe - start + 1, m))]
  <2>1. n = l.fe + Len(batch)
    BY <1>1, <1>2, <1>3
  <2>2. D = {b \in setting.reads : l.fe < b /\ b <= l.fe + Len(batch)}
    OBVIOUS
  <2>3. e = Rising(LAMBDA k, b : Part(k, batch, l.fe, b), l, D)
    BY <1>2, <1>5, <1>10
  <2>4. z = [e EXCEPT !.fe = l.fe + Len(batch), !.arc = Offer(@, SubSeq(batch, e.fe - l.fe + 1, Len(batch)))]
    BY <2>2, <2>3 DEF Account
  <2>5. QED
    BY <1>1, <1>2, <2>1, <2>4
<1>13. Offer(e.arc, SubSeq(batch, e.fe - start + 1, m)) = Offer(l.arc, batch)
  <2>1. PICK p \in 0..m : p = e.fe - start
    BY <1>3, <1>11
  <2>2. m \in p..Len(batch) /\ p \in 0..Len(batch)
    BY <1>1, <2>1
  <2>3. Offer(Offer(l.arc, SubSeq(batch, 1, p)), SubSeq(batch, p + 1, m)) = Offer(l.arc, SubSeq(batch, 1, m))
    BY <2>2, OfferApart
  <2>4. SubSeq(batch, 1, m) = batch
    BY <1>1
  <2>5. QED
    BY <1>11, <2>1, <2>3, <2>4
<1>14. z = [fe |-> n, arc |-> Offer(l.arc, batch), readAt |-> e.readAt]
  BY <1>11, <1>12, <1>13
<1>15. z.fe = n /\ z.arc = Offer(l.arc, batch) /\ z.readAt = e.readAt
  BY <1>14
<1>16. QED
  BY <1>1, <1>2, <1>3, <1>11, <1>14, <1>15 DEF Ledgered

-----------------------------------------------------------------------------
(* The ledger behind the evaluations.                                      *)

RowType == [f : Nat \X Nat, ok : BOOLEAN]

\* The rows not handed over make up what the ledger lacks, and what a read due among them would
\* have found is what it will find.
LedgerInv ==
  /\ setting \in Settings
  /\ led = [fe |-> led.fe, arc |-> led.arc, readAt |-> led.readAt] /\ led.fe \in Nat
  /\ buf \in Seq(RowType) /\ evals = led.fe + Len(buf)
  /\ online = Offer(led.arc, buf)
  /\ DOMAIN led.readAt = {b \in setting.reads : b <= led.fe}
  /\ DOMAIN taken = {b \in setting.reads : b <= evals}
  /\ \A b \in DOMAIN led.readAt : led.readAt[b] = taken[b]
  /\ \A b \in setting.reads :
        led.fe < b /\ b <= evals => taken[b] = Offer(led.arc, SubSeq(buf, 1, b - led.fe))

ReportedInv ==
  /\ reported \in Seq([gen : Nat, fe : Nat, evals : Nat]) /\ steps \in Nat
  /\ \A i \in DOMAIN reported : reported[i].fe = reported[i].evals
  /\ pc = "ended" => led.fe = evals

\* What the settings are.
LEMMA SettingIs ==
  ASSUME setting \in Settings
  PROVE  /\ setting.reads \in SUBSET (Nat \ {0}) /\ setting.points \in SUBSET (Nat \X Nat)
         /\ setting.counts \in SUBSET (Nat \ {0}) /\ IsFiniteSet(setting.counts)
         /\ setting.limit \in Nat /\ setting.every \in Nat /\ setting.fails \in BOOLEAN
BY DriverAssumption DEF SettingType

\* A row is one of two things of a point.
LEMMA RowIs ==
  ASSUME setting \in Settings, NEW r \in Rows
  PROVE  r \in RowType /\ r = [f |-> r.f, ok |-> r.ok]
<1>1. PICK f \in setting.points, ok \in {TRUE, ~setting.fails} : r = [f |-> f, ok |-> ok]
  BY DEF Rows
<1>2. f \in Nat \X Nat /\ ok \in BOOLEAN
  BY <1>1, SettingIs
<1>3. QED
  BY <1>1, <1>2 DEF RowType

\* The rows handed over, those kept with or without the one just evaluated.
LEMMA AccountKeeps ==
  ASSUME LedgerInv, NEW batch \in Seq(RowType), NEW z, z = Account(led, batch),
         NEW total, total = led.fe + Len(batch), NEW read,
         DOMAIN read = {b \in setting.reads : b <= total},
         \A b \in DOMAIN led.readAt : led.readAt[b] = read[b],
         \A b \in setting.reads :
            led.fe < b /\ b <= total => read[b] = Offer(led.arc, SubSeq(batch, 1, b - led.fe))
  PROVE  /\ z = [fe |-> z.fe, arc |-> z.arc, readAt |-> z.readAt] /\ z.fe = total
         /\ z.arc = Offer(led.arc, batch)
         /\ DOMAIN z.readAt = {b \in setting.reads : b <= z.fe}
         /\ \A b \in DOMAIN z.readAt : z.readAt[b] = read[b]
<1>1. PICK D : D = {b \in setting.reads : led.fe < b /\ b <= led.fe + Len(batch)}
  OBVIOUS
<1>2. setting.reads \in SUBSET (Nat \ {0})
  BY SettingIs DEF LedgerInv
<1>3. /\ led = [fe |-> led.fe, arc |-> led.arc, readAt |-> led.readAt] /\ led.fe \in Nat
      /\ DOMAIN led.readAt = {b \in setting.reads : b <= led.fe}
      /\ \A b \in DOMAIN led.readAt : b <= led.fe
  BY DEF LedgerInv
<1>4. /\ z = [fe |-> z.fe, arc |-> z.arc, readAt |-> z.readAt]
      /\ z.fe = led.fe + Len(batch) /\ z.arc = Offer(led.arc, batch)
      /\ DOMAIN z.readAt = DOMAIN led.readAt \cup D
      /\ \A b \in D : z.readAt[b] = Offer(led.arc, SubSeq(batch, 1, b - led.fe))
      /\ \A b \in DOMAIN led.readAt : z.readAt[b] = led.readAt[b]
  <2>1. Ledgered(z, led, batch, D)
    BY <1>1, <1>2, <1>3, AccountIs
  <2>2. QED
    BY <2>1 DEF Ledgered
<1>5. Len(batch) \in Nat
  OBVIOUS
<1>6. DOMAIN z.readAt = {b \in setting.reads : b <= z.fe}
  BY <1>1, <1>2, <1>3, <1>4, <1>5
<1>7. \A b \in DOMAIN z.readAt : z.readAt[b] = read[b]
  <2>1. \A b \in D : b \in setting.reads /\ led.fe < b /\ b <= total
    BY <1>1
  <2>2. QED
    BY <1>3, <1>4, <2>1
<1>8. QED
  BY <1>4, <1>6, <1>7

\* The rows kept are handed over.
LEMMA FlushKeeps ==
  ASSUME LedgerInv, led' = Flush(led), buf' = <<>>, UNCHANGED <<setting, evals, online, taken>>
  PROVE  LedgerInv' /\ led'.fe = evals
<1>1. PICK z : z = Account(led, buf)
  OBVIOUS
<1>2. led' = z
  BY <1>1 DEF Flush
<1>3. /\ z = [fe |-> z.fe, arc |-> z.arc, readAt |-> z.readAt] /\ z.fe = evals
      /\ z.arc = Offer(led.arc, buf)
      /\ DOMAIN z.readAt = {b \in setting.reads : b <= z.fe}
      /\ \A b \in DOMAIN z.readAt : z.readAt[b] = taken[b]
  BY <1>1, AccountKeeps DEF LedgerInv
<1>4. evals \in Nat /\ setting \in Settings /\ online = Offer(led.arc, buf)
      /\ DOMAIN taken = {b \in setting.reads : b <= evals}
  BY DEF LedgerInv
<1>5. online' = Offer(led'.arc, buf')
  BY <1>2, <1>3, <1>4, OfferNone
<1>6. buf' \in Seq(RowType) /\ evals' = led'.fe + Len(buf')
  BY <1>2, <1>3, <1>4
<1>7. \A b \in setting'.reads : ~(led'.fe < b /\ b <= evals')
  <2>1. setting.reads \in SUBSET (Nat \ {0})
    BY <1>4, SettingIs
  <2>2. QED
    BY <1>2, <1>3, <1>4, <2>1
<1>8. QED
  BY <1>2, <1>3, <1>4, <1>5, <1>6, <1>7 DEF LedgerInv

\* An evaluation, kept or handed over with those before it.
LEMMA EvaluateKeeps ==
  ASSUME LedgerInv, NEW r \in Rows, Evaluate(r), setting' = setting
  PROVE  LedgerInv'
<1>1. /\ setting \in Settings /\ buf \in Seq(RowType) /\ evals = led.fe + Len(buf) /\ led.fe \in Nat
      /\ online = Offer(led.arc, buf) /\ DOMAIN taken = {b \in setting.reads : b <= evals}
      /\ DOMAIN led.readAt = {b \in setting.reads : b <= led.fe}
      /\ \A b \in DOMAIN led.readAt : led.readAt[b] = taken[b]
      /\ \A b \in setting.reads :
            led.fe < b /\ b <= evals => taken[b] = Offer(led.arc, SubSeq(buf, 1, b - led.fe))
  BY DEF LedgerInv
<1>2. setting.reads \in SUBSET (Nat \ {0}) /\ r \in RowType
  BY <1>1, RowIs, SettingIs
<1>3. PICK m \in Nat : m = Len(buf)
  BY <1>1
<1>4. PICK batch : batch = Append(buf, r)
  OBVIOUS
<1>5. batch \in Seq(RowType) /\ Len(batch) = m + 1 /\ \A i \in 1..m : batch[i] = buf[i]
  BY <1>1, <1>2, <1>3, <1>4
<1>6. PICK total \in Nat : total = led.fe + (m + 1)
  BY <1>1
<1>7. evals' = total /\ evals \in Nat /\ total = evals + 1
  BY <1>1, <1>3, <1>6 DEF Evaluate
<1>8. PICK now : now = Offer(online, <<r>>)
  OBVIOUS
<1>9. online' = now /\ now = Offer(led.arc, batch)
  BY <1>1, <1>2, <1>4, <1>8, OfferMore DEF Evaluate
<1>10. PICK read : read = taken'
  OBVIOUS
<1>11. /\ DOMAIN read = {b \in setting.reads : b <= total}
       /\ \A b \in DOMAIN taken : read[b] = taken[b]
       /\ total \in setting.reads => read[total] = now
  <2>1. taken' = IF total \in setting.reads THEN With(taken, total, now) ELSE taken
    BY <1>7, <1>9 DEF Evaluate
  <2>2. \A b \in setting.reads : b <= total <=> (b <= evals \/ b = total)
    BY <1>2, <1>7
  <2>3. total \notin DOMAIN taken
    BY <1>1, <1>7
  <2>4. CASE total \in setting.reads
    <3>1. read = [y \in DOMAIN taken \cup {total} |-> IF y = total THEN now ELSE taken[y]]
      BY <1>10, <2>1, <2>4 DEF With
    <3>2. QED
      BY <1>1, <2>2, <2>3, <2>4, <3>1
  <2>5. CASE total \notin setting.reads
    BY <1>1, <1>10, <2>1, <2>2, <2>5
  <2>6. QED
    BY <2>4, <2>5
<1>12. ASSUME NEW b \in setting.reads, led.fe < b, b <= total
       PROVE  read[b] = Offer(led.arc, SubSeq(batch, 1, b - led.fe))
  <2>1. b \in Nat
    BY <1>2
  <2>2. CASE b = total
    <3>1. b - led.fe = m + 1
      BY <1>1, <1>6, <2>2
    <3>2. SubSeq(batch, 1, m + 1) = batch
      BY <1>3, <1>5
    <3>3. QED
      BY <1>9, <1>11, <1>12, <2>2, <3>1, <3>2
  <2>3. CASE b # total
    <3>1. b <= evals /\ b \in DOMAIN taken
      BY <1>1, <1>7, <1>12, <2>1, <2>3
    <3>2. PICK k \in 1..m : k = b - led.fe
      BY <1>1, <1>3, <1>12, <2>1, <3>1
    <3>3. SubSeq(batch, 1, k) = SubSeq(buf, 1, k)
      BY <1>1, <1>3, <1>5
    <3>4. QED
      BY <1>1, <1>11, <1>12, <3>1, <3>2, <3>3
  <2>4. QED
    BY <2>2, <2>3
<1>13. \A b \in DOMAIN led.readAt : led.readAt[b] = read[b]
  <2>1. \A b \in DOMAIN led.readAt : b \in DOMAIN taken
    BY <1>1, <1>2, <1>3
  <2>2. QED
    BY <1>1, <1>11, <2>1
<1>14. CASE Len(buf) + 1 < setting.cap
  <2>1. buf' = batch /\ led' = led
    BY <1>4, <1>14 DEF Evaluate
  <2>2. led = [fe |-> led.fe, arc |-> led.arc, readAt |-> led.readAt]
    BY DEF LedgerInv
  <2>3. evals' = led'.fe + Len(buf') /\ led'.fe \in Nat
    BY <1>1, <1>5, <1>6, <1>7, <2>1
  <2>4. online' = Offer(led'.arc, buf')
    BY <1>9, <2>1
  <2>5. DOMAIN taken' = {b \in setting'.reads : b <= evals'}
    BY <1>7, <1>10, <1>11
  <2>6. \A b \in DOMAIN led'.readAt : led'.readAt[b] = taken'[b]
    BY <1>10, <1>13, <2>1
  <2>7. \A b \in setting'.reads :
          led'.fe < b /\ b <= evals' => taken'[b] = Offer(led'.arc, SubSeq(buf', 1, b - led'.fe))
    BY <1>7, <1>10, <1>12, <2>1
  <2>8. led' = [fe |-> led'.fe, arc |-> led'.arc, readAt |-> led'.readAt]
    BY <2>1, <2>2
  <2>9. DOMAIN led'.readAt = {b \in setting'.reads : b <= led'.fe}
    BY <1>1, <2>1
  <2>10. setting' \in Settings /\ buf' \in Seq(RowType)
    BY <1>1, <1>5, <2>1
  <2>11. QED
    BY <2>3, <2>4, <2>5, <2>6, <2>7, <2>8, <2>9, <2>10 DEF LedgerInv
<1>15. CASE ~(Len(buf) + 1 < setting.cap)
  <2>1. PICK z : z = Account(led, batch)
    OBVIOUS
  <2>2. buf' = <<>> /\ led' = z
    BY <1>4, <1>15, <2>1 DEF Evaluate
  <2>3. total = led.fe + Len(batch)
    BY <1>5, <1>6
  <2>4. /\ z = [fe |-> z.fe, arc |-> z.arc, readAt |-> z.readAt] /\ z.fe = total
        /\ z.arc = Offer(led.arc, batch)
        /\ DOMAIN z.readAt = {b \in setting.reads : b <= z.fe}
        /\ \A b \in DOMAIN z.readAt : z.readAt[b] = read[b]
    BY <1>5, <1>11, <1>12, <1>13, <2>1, <2>3, AccountKeeps
  <2>5. online' = Offer(led'.arc, buf')
    BY <1>9, <2>2, <2>4, OfferNone
  <2>6. buf' \in Seq(RowType) /\ evals' = led'.fe + Len(buf') /\ led'.fe \in Nat
    BY <1>7, <2>2, <2>4
  <2>7. \A b \in setting'.reads : ~(led'.fe < b /\ b <= evals')
    BY <1>2, <1>7, <2>2, <2>4
  <2>8. DOMAIN taken' = {b \in setting'.reads : b <= evals'}
    BY <1>7, <1>10, <1>11
  <2>9. \A b \in DOMAIN led'.readAt : led'.readAt[b] = taken'[b]
    BY <1>10, <2>2, <2>4
  <2>10. led' = [fe |-> led'.fe, arc |-> led'.arc, readAt |-> led'.readAt]
         /\ DOMAIN led'.readAt = {b \in setting'.reads : b <= led'.fe}
    BY <2>2, <2>4
  <2>11. setting' \in Settings
    BY <1>1
  <2>12. QED
    BY <2>5, <2>6, <2>7, <2>8, <2>9, <2>10, <2>11 DEF LedgerInv
<1>16. QED
  BY <1>14, <1>15

\* A report counts every row behind it.
LEMMA EmitKeeps ==
  ASSUME LedgerInv, ReportedInv, NEW gen \in Nat, NEW at \in {"loop", "over"}, Emit(gen, at),
         UNCHANGED <<setting, evals, online, taken>>, steps' \in Nat
  PROVE  LedgerInv' /\ ReportedInv'
<1>1. LedgerInv' /\ led'.fe = evals
  BY FlushKeeps DEF Emit
<1>2. evals \in Nat
  BY DEF LedgerInv
<1>3. CASE UNCHANGED <<job, reported>> /\ pc' = "timeout"
  BY <1>1, <1>3 DEF ReportedInv
<1>4. CASE pc' = at /\ reported' = Append(reported, [gen |-> gen, fe |-> led'.fe, evals |-> evals])
  <2>1. PICK e \in [gen : Nat, fe : Nat, evals : Nat] : e = [gen |-> gen, fe |-> evals, evals |-> evals]
    BY <1>2
  <2>2. e.fe = e.evals /\ reported' = Append(reported, e)
    BY <1>1, <1>4, <2>1
  <2>3. PICK n \in Nat : n = Len(reported) /\ DOMAIN reported = 1..n
    BY DEF ReportedInv
  <2>4. /\ reported' \in Seq([gen : Nat, fe : Nat, evals : Nat]) /\ DOMAIN reported' = 1..(n + 1)
        /\ reported'[n + 1] = e /\ \A i \in 1..n : reported'[i] = reported[i]
    BY <2>1, <2>2, <2>3 DEF ReportedInv
  <2>5. \A i \in 1..(n + 1) : i \in 1..n \/ i = n + 1
    BY <2>3
  <2>6. \A i \in DOMAIN reported' : reported'[i].fe = reported'[i].evals
    BY <2>2, <2>3, <2>4, <2>5 DEF ReportedInv
  <2>7. QED
    BY <1>1, <1>4, <2>4, <2>6 DEF ReportedInv
<1>5. QED
  BY <1>3, <1>4 DEF Emit

\* Every step keeps the ledger behind the evaluations.
LEMMA LedgerStep ==
  ASSUME LedgerInv, ReportedInv, [Next]_<<setting, vars>>
  PROVE  LedgerInv' /\ ReportedInv'
<1> USE DEF history
<1>1. ASSUME NEW r \in Rows, Evaluate(r), setting' = setting PROVE LedgerInv' /\ ReportedInv'
  <2>1. LedgerInv'
    BY <1>1, EvaluateKeeps
  <2>2. pc' = pc /\ reported' = reported /\ steps' = steps /\ pc \in {"setup", "step"}
    BY <1>1 DEF Evaluate
  <2>3. QED
    BY <2>1, <2>2 DEF ReportedInv
<1>2. ASSUME EndSetup, setting' = setting PROVE LedgerInv' /\ ReportedInv'
  <2>1. UNCHANGED <<setting, evals, online, taken, steps>> /\ steps \in Nat /\ 0 \in Nat
    BY <1>2 DEF EndSetup, ReportedInv
  <2>2. CASE Emit(0, "loop")
    BY <2>1, <2>2, EmitKeeps
  <2>3. CASE Silently("loop")
    BY <2>1, <2>3 DEF Silently, LedgerInv, ReportedInv
  <2>4. QED
    BY <1>2, <2>2, <2>3 DEF EndSetup
<1>3. ASSUME BeginStep, setting' = setting PROVE LedgerInv' /\ ReportedInv'
  <2>1. UNCHANGED <<setting, evals, online, taken, steps, led, buf, reported>> /\ pc' = "step"
    BY <1>3 DEF BeginStep
  <2>2. QED
    BY <2>1 DEF LedgerInv, ReportedInv
<1>4. ASSUME EndStep, setting' = setting PROVE LedgerInv' /\ ReportedInv'
  <2>1. UNCHANGED <<setting, evals, online, taken>> /\ steps' = steps + 1 /\ steps' \in Nat
    BY <1>4 DEF EndStep, ReportedInv
  <2>2. PICK done \in BOOLEAN : EndStepCounted(done) \/ EndStepSpent(done)
    BY <1>4 DEF EndStep
  <2>3. CASE Emit(steps', "over") \/ Emit(steps', "loop")
    BY <2>1, <2>3, EmitKeeps
  <2>4. CASE Silently("over") \/ Silently("loop") \/ Silently("threw")
    BY <2>1, <2>4 DEF Silently, LedgerInv, ReportedInv
  <2>5. QED
    BY <2>2, <2>3, <2>4 DEF EndStepCounted, EndStepSpent
<1>5. ASSUME EndRun, setting' = setting PROVE LedgerInv' /\ ReportedInv'
  <2>1. UNCHANGED <<setting, evals, online, taken, steps, reported>> /\ led' = Flush(led) /\ buf' = <<>>
    BY <1>5 DEF EndRun
  <2>2. LedgerInv' /\ led'.fe = evals
    BY <2>1, FlushKeeps
  <2>3. QED
    BY <2>1, <2>2 DEF ReportedInv
<1>6. ASSUME UNCHANGED <<setting, vars>> PROVE LedgerInv' /\ ReportedInv'
  BY <1>6 DEF vars, driver, LedgerInv, ReportedInv
<1>7. QED
  BY <1>1, <1>2, <1>3, <1>4, <1>5, <1>6 DEF Next

\* A run begins with nothing evaluated.
LEMMA LedgerBegins == Init => LedgerInv /\ ReportedInv
<1> SUFFICES ASSUME Init PROVE LedgerInv /\ ReportedInv
  OBVIOUS
<1>1. PICK a : a = NewArchive(setting.frame[1], setting.frame[2])
  OBVIOUS
<1>2. PICK none : none = [b \in {} |-> 0]
  OBVIOUS
<1>3. DOMAIN none = {}
  BY <1>2
<1>4. led = [fe |-> 0, arc |-> a, readAt |-> none] /\ taken = none
  BY <1>1, <1>2 DEF Init
<1>5. led.fe = 0 /\ led.arc = a /\ led.readAt = none
  BY <1>4
<1>6. setting \in Settings /\ buf = <<>> /\ evals = 0 /\ online = a /\ reported = <<>> /\ steps = 0 /\ pc = "setup"
  BY <1>5 DEF Init
<1>7. \A b \in setting.reads : ~(b <= 0)
  BY <1>6, SettingIs
<1>8. buf \in Seq(RowType) /\ Len(buf) = 0 /\ online = Offer(led.arc, buf)
  BY <1>5, <1>6, OfferNone
<1>9. LedgerInv
  BY <1>3, <1>4, <1>5, <1>6, <1>7, <1>8 DEF LedgerInv
<1>10. ReportedInv
  BY <1>6 DEF ReportedInv
<1>11. QED
  BY <1>9, <1>10

\* What a run reads at a count is the archive of exactly its first so many evaluations, and every
\* population reported, as the run's end, has all its rows counted - for any archive, reads,
\* batches, caps and budgets (RunLedger::next, flush_native_rows, emit).
THEOREM ReadsAreExact == Spec => []ReadsExact
<1>1. Init => LedgerInv /\ ReportedInv
  BY LedgerBegins
<1>2. LedgerInv /\ ReportedInv /\ [Next]_<<setting, vars>> => (LedgerInv /\ ReportedInv)'
  BY LedgerStep
<1>3. LedgerInv /\ ReportedInv => ReadsExact
  <2>1. SUFFICES ASSUME LedgerInv, ReportedInv PROVE ReadsExact
    OBVIOUS
  <2>2. buf = <<>> => led.arc = online
    BY <2>1, OfferNone DEF LedgerInv
  <2>3. QED
    BY <2>1, <2>2 DEF LedgerInv, ReportedInv, ReadsExact
<1>4. QED
  BY <1>1, <1>2, <1>3, PTL DEF Spec

-----------------------------------------------------------------------------
(* The records.                                                            *)

LineType == [gen : Nat, fe : Nat]

\* What is recorded in turn at the counts of D.
Recorded(j, D, gen, fe) == Rising(LAMBDA k, b : AtCount(k, gen, fe, b), j, D)

Records(it, D, j, gen, fe) ==
  /\ it[{}] = j
  /\ \A s \in SUBSET D : s # {} => it[s] = AtCount(it[s \ {Max(s)}], gen, fe, Max(s))
  /\ it[D] = Recorded(j, D, gen, fe)

\* There is one for the records of the counts passed.
LEMMA RecordsFold ==
  ASSUME NEW n \in Nat, NEW D \in SUBSET (1..n), NEW j, NEW gen, NEW fe
  PROVE  \E it : Records(it, D, j, gen, fe)
<1>1. PICK g : g = [s \in SUBSET D |-> IF s = {} THEN j ELSE AtCount(g[s \ {Max(s)}], gen, fe, Max(s))]
  <2>1. PICK data : data = [gen |-> gen, fe |-> fe]
    OBVIOUS
  <2>2. PICK g : g = [s \in SUBSET D |-> IF s = {} THEN j ELSE Step("record", data, g[s \ {Max(s)}], Max(s))]
    <3>1. \E g : Iterates(g, D, j, "record", data)
      BY Iterated
    <3>2. QED
      BY <3>1 DEF Iterates
  <2>3. \A e, i : Step("record", data, e, i) = AtCount(e, gen, fe, i)
    BY <2>1 DEF Step
  <2>4. \A s \in SUBSET D : g[s] = IF s = {} THEN j ELSE AtCount(g[s \ {Max(s)}], gen, fe, Max(s))
    BY <2>2, <2>3
  <2>5. g = [s \in SUBSET D |-> g[s]]
    BY <2>2
  <2>6. QED
    BY <2>4, <2>5
<1>2. PICK it : it = CHOOSE f : f = [s \in SUBSET D |->
                         IF s = {} THEN j ELSE AtCount(f[s \ {Max(s)}], gen, fe, Max(s))]
  OBVIOUS
<1>3. it = [s \in SUBSET D |-> IF s = {} THEN j ELSE AtCount(it[s \ {Max(s)}], gen, fe, Max(s))]
  BY <1>1, <1>2
<1>4. Recorded(j, D, gen, fe) = it[D]
  BY <1>2 DEF Recorded, Rising, MapThenFoldSet
<1>5. it[{}] = j
  BY <1>3
<1>6. \A s \in SUBSET D : s # {} => it[s] = AtCount(it[s \ {Max(s)}], gen, fe, Max(s))
  BY <1>3
<1>7. QED
  BY <1>4, <1>5, <1>6 DEF Records

\* Records, in their order.
InOrder(j) ==
  /\ j = [nextI |-> j.nextI, held |-> j.held, lines |-> j.lines, lastFe |-> j.lastFe]
  /\ j.lines \in Seq(LineType) /\ j.lastFe = IF j.lines = <<>> THEN 0 ELSE Last(j.lines).fe
  /\ \A h, i \in 1..Len(j.lines) : h < i => j.lines[h].fe < j.lines[i].fe

\* What z has that j had not: at the counts of D the population that comes there at fe, the one
\* held from before it at the others.
Made(z, j, D, gen, fe) ==
  /\ InOrder(z) /\ z.nextI = j.nextI /\ z.held = j.held
  /\ Len(j.lines) <= Len(z.lines) /\ \A i \in 1..Len(j.lines) : z.lines[i] = j.lines[i]
  /\ \A i \in 1..Len(z.lines) : Len(j.lines) < i =>
        /\ z.lines[i].fe \in D
        /\ IF z.lines[i].fe = fe THEN z.lines[i].gen = gen
           ELSE j.held # NotHeld /\ z.lines[i].gen = j.held.gen
  /\ \A b \in D : b = fe \/ j.held # NotHeld => \E i \in 1..Len(z.lines) : z.lines[i].fe = b

\* A record more, past those before it.
LEMMA RecordIs ==
  ASSUME NEW j, InOrder(j), NEW gen \in Nat, NEW b \in Nat,
         \A i \in 1..Len(j.lines) : j.lines[i].fe < b, NEW z, z = Record(j, gen, b)
  PROVE  /\ InOrder(z) /\ z.nextI = j.nextI /\ z.held = j.held /\ z.lastFe = b
         /\ Len(j.lines) \in Nat /\ Len(z.lines) = Len(j.lines) + 1
         /\ \A i \in 1..Len(j.lines) : z.lines[i] = j.lines[i]
         /\ z.lines[Len(j.lines) + 1] = [gen |-> gen, fe |-> b]
<1>1. j = [nextI |-> j.nextI, held |-> j.held, lines |-> j.lines, lastFe |-> j.lastFe]
      /\ j.lines \in Seq(LineType)
  BY DEF InOrder
<1>2. PICK line : line = [gen |-> gen, fe |-> b]
  OBVIOUS
<1>3. line \in LineType /\ line.fe = b
  BY <1>2 DEF LineType
<1>4. PICK lines : lines = Append(j.lines, line)
  OBVIOUS
<1>5. PICK n \in Nat : n = Len(j.lines)
  BY <1>1
<1>6. lines \in Seq(LineType) /\ Len(lines) = n + 1 /\ lines[n + 1] = line
      /\ \A i \in 1..n : lines[i] = j.lines[i]
  BY <1>1, <1>3, <1>4, <1>5
<1>7. z = [j EXCEPT !.lines = lines, !.lastFe = b]
  BY <1>2, <1>4 DEF Record
<1>8. z = [nextI |-> j.nextI, held |-> j.held, lines |-> lines, lastFe |-> b]
  BY <1>1, <1>7
<1>9. z.nextI = j.nextI /\ z.held = j.held /\ z.lines = lines /\ z.lastFe = b
  BY <1>8
<1>10. \A h, i \in 1..Len(lines) : h < i => lines[h].fe < lines[i].fe
  <2>1. SUFFICES ASSUME NEW h \in 1..(n + 1), NEW i \in 1..(n + 1), h < i PROVE lines[h].fe < lines[i].fe
    BY <1>6
  <2>2. h \in 1..n
    BY <1>5, <2>1
  <2>3. CASE i = n + 1
    BY <1>3, <1>5, <1>6, <2>2, <2>3
  <2>4. CASE i # n + 1
    <3>1. i \in 1..n
      BY <1>5, <2>1, <2>4
    <3>2. j.lines[h].fe < j.lines[i].fe
      BY <1>5, <2>1, <2>2, <3>1 DEF InOrder
    <3>3. QED
      BY <1>6, <2>2, <3>1, <3>2
  <2>5. QED
    BY <2>3, <2>4
<1>11. lines # <<>> /\ Last(lines).fe = b
  BY <1>3, <1>5, <1>6 DEF Last
<1>12. InOrder(z)
  BY <1>6, <1>8, <1>9, <1>10, <1>11 DEF InOrder
<1>13. QED
  BY <1>2, <1>5, <1>6, <1>9, <1>12

\* A count more.
LEMMA MadeNext ==
  ASSUME NEW e, NEW j, NEW U \in SUBSET Nat, NEW gen \in Nat, NEW fe \in Nat, Made(e, j, U, gen, fe),
         NEW b \in Nat, \A c \in U : c < b, j.lines \in Seq(LineType),
         \A i \in 1..Len(j.lines) : j.lines[i].fe < b,
         j.held # NotHeld => j.held.gen \in Nat, NEW w, w = AtCount(e, gen, fe, b)
  PROVE  Made(w, j, U \cup {b}, gen, fe)
<1>1. /\ InOrder(e) /\ e.nextI = j.nextI /\ e.held = j.held
      /\ Len(j.lines) <= Len(e.lines) /\ \A i \in 1..Len(j.lines) : e.lines[i] = j.lines[i]
      /\ \A i \in 1..Len(e.lines) : Len(j.lines) < i =>
            /\ e.lines[i].fe \in U
            /\ IF e.lines[i].fe = fe THEN e.lines[i].gen = gen
               ELSE j.held # NotHeld /\ e.lines[i].gen = j.held.gen
      /\ \A c \in U : c = fe \/ j.held # NotHeld => \E i \in 1..Len(e.lines) : e.lines[i].fe = c
  BY DEF Made
<1>2. PICK m \in Nat : m = Len(j.lines)
  OBVIOUS
<1>3. PICK n \in Nat : n = Len(e.lines)
  BY <1>1 DEF InOrder
<1>4. \A i \in 1..n : e.lines[i].fe < b
  <2>1. SUFFICES ASSUME NEW i \in 1..n PROVE e.lines[i].fe < b
    OBVIOUS
  <2>2. m \in Nat
    BY <1>2
  <2>3. CASE m < i
    BY <1>1, <1>2, <1>3, <2>1, <2>3
  <2>4. CASE ~(m < i)
    <3>1. i \in 1..m
      BY <2>1, <2>2, <2>4
    <3>2. e.lines[i] = j.lines[i]
      BY <1>1, <1>2, <3>1
    <3>3. j.lines[i].fe < b
      BY <1>2, <3>1
    <3>4. QED
      BY <3>2, <3>3
  <2>5. QED
    BY <2>3, <2>4
<1>5. ASSUME NEW g \in Nat, w = Record(e, g, b),
             IF b = fe THEN g = gen ELSE j.held # NotHeld /\ g = j.held.gen
      PROVE  Made(w, j, U \cup {b}, gen, fe)
  <2>1. /\ InOrder(w) /\ w.nextI = e.nextI /\ w.held = e.held
        /\ Len(w.lines) = n + 1
        /\ \A i \in 1..n : w.lines[i] = e.lines[i]
        /\ w.lines[n + 1] = [gen |-> g, fe |-> b]
    BY <1>1, <1>3, <1>4, <1>5, RecordIs
  <2>2. w.lines[n + 1].gen = g /\ w.lines[n + 1].fe = b
    BY <2>1
  <2>3. \A i \in 1..(n + 1) : i \in 1..n \/ i = n + 1
    OBVIOUS
  <2>4. \A i \in 1..m : w.lines[i] = j.lines[i]
    BY <1>1, <1>2, <1>3, <2>1
  <2>5. ASSUME NEW i \in 1..(n + 1), m < i
        PROVE  /\ w.lines[i].fe \in U \cup {b}
               /\ IF w.lines[i].fe = fe THEN w.lines[i].gen = gen
                  ELSE j.held # NotHeld /\ w.lines[i].gen = j.held.gen
    <3>1. CASE i \in 1..n
      <4>1. w.lines[i] = e.lines[i]
        BY <2>1, <3>1
      <4>2. QED
        BY <1>1, <1>2, <1>3, <2>5, <3>1, <4>1
    <3>2. CASE i = n + 1
      BY <1>5, <2>2, <3>2
    <3>3. QED
      BY <2>3, <3>1, <3>2
  <2>6. ASSUME NEW c \in U \cup {b}, c = fe \/ j.held # NotHeld
        PROVE  \E i \in 1..(n + 1) : w.lines[i].fe = c
    <3>1. CASE c = b
      <4>1. n + 1 \in 1..(n + 1)
        OBVIOUS
      <4>2. QED
        BY <2>2, <3>1, <4>1
    <3>2. CASE c # b
      <4>1. PICK i \in 1..n : e.lines[i].fe = c
        BY <1>1, <1>3, <2>6, <3>2
      <4>2. i \in 1..(n + 1) /\ w.lines[i].fe = c
        BY <2>1, <4>1
      <4>3. QED
        BY <4>2
    <3>3. QED
      BY <3>1, <3>2
  <2>7. QED
    BY <1>1, <1>2, <1>3, <2>1, <2>4, <2>5, <2>6 DEF Made
<1>6. CASE b = fe
  <2>1. w = Record(e, gen, b)
    BY <1>6 DEF AtCount
  <2>2. QED
    BY <1>5, <1>6, <2>1
<1>7. CASE b # fe /\ j.held # NotHeld
  <2>1. PICK g \in Nat : g = j.held.gen
    BY <1>7
  <2>2. w = Record(e, g, b)
    BY <1>1, <1>7, <2>1 DEF AtCount
  <2>3. QED
    BY <1>5, <1>7, <2>1, <2>2
<1>8. CASE b # fe /\ j.held = NotHeld
  <2>1. w = e
    BY <1>1, <1>8 DEF AtCount
  <2>2. QED
    BY <1>1, <1>8, <2>1 DEF Made
<1>9. QED
  BY <1>6, <1>7, <1>8

\* The counts of D recorded in turn.
LEMMA RecordsMade ==
  ASSUME NEW j, InOrder(j), NEW gen \in Nat, NEW fe \in Nat, NEW D \in SUBSET (1..fe),
         \A i \in 1..Len(j.lines) : \A b \in D : j.lines[i].fe < b,
         j.held # NotHeld => j.held.gen \in Nat,
         NEW z, z = Recorded(j, D, gen, fe)
  PROVE  Made(z, j, D, gen, fe)
<1>1. PICK it : Records(it, D, j, gen, fe)
  BY RecordsFold
<1> DEFINE U(k) == {b \in D : b <= k}
           T == {k \in 0..fe : Made(it[U(k)], j, U(k), gen, fe)}
<1>0. \A b \in D : b \in Nat /\ 1 <= b /\ b <= fe
  OBVIOUS
<1>2. 0 \in T
  <2>1. U(0) = {}
    <3>1. \A b \in D : ~(b <= 0)
      BY <1>0
    <3>2. QED
      BY <3>1
  <2>2. it[U(0)] = j
    BY <1>1, <2>1 DEF Records
  <2>3. Made(j, j, {}, gen, fe)
    <3>1. Len(j.lines) \in Nat
      BY DEF InOrder
    <3>2. QED
      BY <3>1 DEF Made
  <2>4. 0 \in 0..fe
    OBVIOUS
  <2>5. QED
    BY <2>1, <2>2, <2>3, <2>4
<1>3. ASSUME NEW k \in 1..fe, k - 1 \in T PROVE k \in T
  <2>1. PICK i \in Nat : i = k - 1 /\ k = i + 1
    OBVIOUS
  <2>2. Made(it[U(i)], j, U(i), gen, fe)
    BY <1>3, <2>1
  <2>3. k \in 0..fe
    OBVIOUS
  <2>4. CASE k \notin D
    <3>1. U(k) = U(i)
      <4>1. \A c \in D : c <= k <=> c <= i
        <5>1. SUFFICES ASSUME NEW c \in D PROVE c <= k <=> c <= i
          OBVIOUS
        <5>2. c \in Nat /\ c # k
          BY <1>0, <2>4, <5>1
        <5>3. QED
          BY <2>1, <5>2
      <4>2. QED
        BY <4>1
    <3>2. Made(it[U(k)], j, U(k), gen, fe)
      BY <2>2, <3>1
    <3>3. QED
      BY <2>3, <3>2
  <2>5. CASE k \in D
    <3>1. U(k) = U(i) \cup {k} /\ U(k) \ {k} = U(i) /\ k \in U(k) /\ U(k) \in SUBSET D /\ U(k) # {}
          /\ U(k) \in SUBSET (1..(i + 1)) /\ U(i) \in SUBSET Nat /\ \A c \in U(i) : c < k
      <4>1. \A c \in D : c \in Nat /\ 1 <= c /\ c # k => (c <= k <=> c <= i)
        BY <1>0, <2>1
      <4>2. \A c \in D : c <= k => c \in 1..(i + 1)
        BY <1>0, <2>1
      <4>3. \A c \in U(i) : c < k /\ c # k
        BY <1>0, <2>1
      <4>4. k <= k
        OBVIOUS
      <4>5. U(k) = U(i) \cup {k}
        BY <1>0, <2>5, <4>1, <4>3, <4>4
      <4>6. U(k) \in SUBSET (1..(i + 1)) /\ U(i) \in SUBSET Nat
        BY <1>0, <4>2
      <4>7. U(k) \in SUBSET D
        OBVIOUS
      <4> HIDE DEF U
      <4>8. QED
        BY <4>3, <4>5, <4>6, <4>7
    <3>2. Max(U(k)) = k
      <4>1. U(k) \in SUBSET (1..(i + 1)) /\ i + 1 \in U(k)
        BY <2>1, <3>1
      <4> HIDE DEF U
      <4>2. Max(U(k)) = i + 1
        BY <4>1, MaxOfUpTo
      <4>3. QED
        BY <2>1, <4>2
    <3>3. PICK e : e = it[U(i)]
      OBVIOUS
    <3>4. PICK w : w = it[U(k)]
      OBVIOUS
    <3>5. w = AtCount(e, gen, fe, k)
      <4> HIDE DEF U
      <4>1. QED
        BY <1>1, <3>1, <3>2, <3>3, <3>4 DEF Records
    <3>6. PICK V \in SUBSET Nat : V = U(i)
      BY <3>1
    <3>7. Made(e, j, V, gen, fe) /\ \A c \in V : c < k
      BY <2>2, <3>1, <3>3, <3>6
    <3>8. \A h \in 1..Len(j.lines) : j.lines[h].fe < k
      BY <2>5
    <3>9. j.lines \in Seq(LineType)
      BY DEF InOrder
    <3>10. Made(w, j, V \cup {k}, gen, fe)
      BY <3>5, <3>7, <3>8, <3>9, MadeNext
    <3>11. Made(it[U(k)], j, U(k), gen, fe)
      BY <3>1, <3>4, <3>6, <3>10
    <3>12. QED
      BY <2>3, <3>11
  <2>6. QED
    BY <2>4, <2>5
<1>4. fe \in T
  <2>1. fe \in 0..fe
    OBVIOUS
  <2> HIDE DEF T
  <2>2. QED
    BY <1>2, <1>3, <2>1, Upwards
<1>5. U(fe) = D
  BY <1>0
<1>6. Made(it[D], j, D, gen, fe)
  BY <1>4, <1>5
<1>7. z = it[D]
  BY <1>1 DEF Records
<1>8. QED
  BY <1>6, <1>7

-----------------------------------------------------------------------------
(* The records behind the reports.                                         *)

ReportType == [gen : Nat, fe : Nat, evals : Nat]

\* Where the reports have come to.
Reach(rep) == IF rep = <<>> THEN 0 ELSE Last(rep).fe

Rises(rep) == \A h, i \in 1..Len(rep) : h <= i => rep[h].fe <= rep[i].fe

\* The k-th report is of the population at count b: the first at exactly b, or the last before b
\* where the next one is past it.
PopAt(rep, b, k) ==
  \/ rep[k].fe = b /\ \A h \in 1..(k - 1) : rep[h].fe < b
  \/ rep[k].fe < b /\ k + 1 \in 1..Len(rep) /\ rep[k + 1].fe > b

\* The records on the grid of counts, and the one of the end.
BudgetTrue(rep, j, counts, ended) ==
  /\ InOrder(j)
  /\ j.held = IF rep = <<>> THEN NotHeld ELSE [gen |-> Last(rep).gen, fe |-> Last(rep).fe]
  /\ rep # <<>> => \A b \in counts : rep[1].fe <= b /\ b <= Reach(rep) =>
                      \E i \in 1..Len(j.lines) : j.lines[i].fe = b
  /\ \A i \in 1..Len(j.lines) :
        /\ j.lines[i].fe <= Reach(rep)
        /\ \/ /\ j.lines[i].fe \in counts
              /\ \E k \in 1..Len(rep) : PopAt(rep, j.lines[i].fe, k) /\ j.lines[i].gen = rep[k].gen
           \/ ended /\ j.lines[i].fe \notin counts /\ j.lines[i].gen = Last(rep).gen
  /\ ended /\ Reach(rep) > 0 => j.lines # <<>> /\ Last(j.lines).fe = Reach(rep)

\* On the log grid.
LogTrue(rep, j, counts) ==
  \A b \in counts : \A i \in 1..Len(rep) :
     rep[i].fe >= b /\ (\A h \in 1..(i - 1) : rep[h].fe < b) =>
        \E k \in 1..Len(j.lines) : j.lines[k] = [gen |-> rep[i].gen, fe |-> rep[i].fe]

\* A report more: what more has that rep had not.
Further(rep, more, n, gen, fe) ==
  /\ more \in Seq(ReportType) /\ n \in Nat /\ Len(rep) = n /\ Len(more) = n + 1
  /\ \A i \in 1..n : more[i] = rep[i]
  /\ more[n + 1].gen = gen /\ more[n + 1].fe = fe
  /\ more # <<>> /\ Last(more).gen = gen /\ Last(more).fe = fe /\ Reach(more) = fe
  /\ Rises(more) /\ Reach(rep) \in Nat /\ Reach(rep) <= fe
  /\ \A i \in 1..n : rep[i].fe \in Nat /\ rep[i].gen \in Nat /\ rep[i].fe <= Reach(rep)

\* A report at fe, where no report is beyond it.
LEMMA ReportMore ==
  ASSUME NEW rep \in Seq(ReportType), NEW gen \in Nat, NEW fe \in Nat,
         \A i \in 1..Len(rep) : rep[i].fe <= fe, Rises(rep),
         NEW more, more = Append(rep, [gen |-> gen, fe |-> fe, evals |-> fe])
  PROVE  Further(rep, more, Len(rep), gen, fe)
<1>1. PICK n \in Nat : n = Len(rep)
  OBVIOUS
<1>2. PICK e : e = [gen |-> gen, fe |-> fe, evals |-> fe]
  OBVIOUS
<1>3. e \in ReportType /\ e.gen = gen /\ e.fe = fe
  BY <1>2 DEF ReportType
<1>4. more \in Seq(ReportType) /\ Len(more) = n + 1 /\ more[n + 1] = e /\ \A i \in 1..n : more[i] = rep[i]
  BY <1>1, <1>2, <1>3
<1>5. more # <<>> /\ Last(more) = e
  BY <1>1, <1>4 DEF Last
<1>6. Reach(more) = fe
  BY <1>3, <1>5 DEF Reach
<1>7. \A i \in 1..n : rep[i].fe \in Nat /\ rep[i].gen \in Nat
  <2>1. SUFFICES ASSUME NEW i \in 1..n PROVE rep[i].fe \in Nat /\ rep[i].gen \in Nat
    OBVIOUS
  <2>2. rep[i] \in ReportType
    BY <1>1, <2>1
  <2>3. QED
    BY <2>2 DEF ReportType
<1>8. Reach(rep) \in Nat /\ Reach(rep) <= fe /\ \A i \in 1..n : rep[i].fe <= Reach(rep)
  <2>1. CASE rep = <<>>
    BY <1>1, <2>1 DEF Reach
  <2>2. CASE rep # <<>>
    <3>1. n \in 1..n /\ Reach(rep) = rep[n].fe
      BY <1>1, <2>2 DEF Reach, Last
    <3>2. \A i \in 1..n : i <= n
      OBVIOUS
    <3>3. QED
      BY <1>1, <1>7, <3>1, <3>2 DEF Rises
  <2>3. QED
    BY <2>1, <2>2
<1>9. Rises(more)
  <2>1. SUFFICES ASSUME NEW h \in 1..(n + 1), NEW i \in 1..(n + 1), h <= i PROVE more[h].fe <= more[i].fe
    BY <1>4 DEF Rises
  <2>2. h \in 1..n \/ h = n + 1
    BY <1>1
  <2>3. i \in 1..n \/ i = n + 1
    BY <1>1
  <2>4. CASE i = n + 1
    BY <1>1, <1>3, <1>4, <2>2, <2>4
  <2>5. CASE i # n + 1
    <3>1. i \in 1..n /\ h \in 1..n
      BY <1>1, <2>1, <2>5
    <3>2. rep[h].fe <= rep[i].fe
      BY <1>1, <2>1, <3>1 DEF Rises
    <3>3. QED
      BY <1>4, <3>1, <3>2
  <2>6. QED
    BY <2>4, <2>5
<1>10. QED
  BY <1>1, <1>3, <1>4, <1>5, <1>6, <1>7, <1>8, <1>9 DEF Further

\* What stands at a count stands there after a report more.
LEMMA PopStays ==
  ASSUME NEW rep, NEW more, NEW n \in Nat, n = Len(rep), Len(more) = n + 1,
         \A i \in 1..n : more[i] = rep[i], NEW b, NEW k \in 1..n, PopAt(rep, b, k)
  PROVE  PopAt(more, b, k)
<1>1. more[k] = rep[k] /\ \A h \in 1..(k - 1) : more[h] = rep[h]
  OBVIOUS
<1>2. k + 1 \in 1..n => more[k + 1] = rep[k + 1] /\ k + 1 \in 1..(n + 1)
  OBVIOUS
<1>3. QED
  BY <1>1, <1>2 DEF PopAt

\* What becomes of the records j at a report more, with the next count's place known.
Reporting(rep, j, counts, gen, fe, on, D, z, new, nextI) ==
  /\ BudgetTrue(rep, j, counts, FALSE)
  /\ on = [nextI |-> nextI, held |-> j.held, lines |-> j.lines, lastFe |-> j.lastFe]
  /\ D = {b \in counts : Reach(rep) < b /\ b <= fe}
  /\ z = Recorded(on, D, gen, fe)
  /\ new = [z EXCEPT !.held = [gen |-> gen, fe |-> fe]]

Reports(more, new, counts, nextI) == BudgetTrue(more, new, counts, FALSE) /\ new.nextI = nextI

\* The counts a report passes are recorded with the populations that stand there.
LEMMA BudgetReport ==
  ASSUME NEW rep, NEW counts \in SUBSET (Nat \ {0}), NEW j, NEW gen \in Nat, NEW fe \in Nat, NEW nextI,
         NEW on, NEW D, NEW z, NEW new, Reporting(rep, j, counts, gen, fe, on, D, z, new, nextI),
         NEW more, NEW n, Further(rep, more, n, gen, fe), rep = <<>> => n = 0, rep # <<>> => n # 0
  PROVE  Reports(more, new, counts, nextI)
<1>0. /\ BudgetTrue(rep, j, counts, FALSE)
      /\ on = [nextI |-> nextI, held |-> j.held, lines |-> j.lines, lastFe |-> j.lastFe]
      /\ D = {b \in counts : Reach(rep) < b /\ b <= fe}
      /\ z = Recorded(on, D, gen, fe)
      /\ new = [z EXCEPT !.held = [gen |-> gen, fe |-> fe]]
  BY DEF Reporting
<1>2. /\ more \in Seq(ReportType) /\ n \in Nat /\ Len(rep) = n /\ Len(more) = n + 1
      /\ \A i \in 1..n : more[i] = rep[i]
      /\ more[n + 1].gen = gen /\ more[n + 1].fe = fe
      /\ more # <<>> /\ Last(more).gen = gen /\ Last(more).fe = fe /\ Reach(more) = fe
      /\ Reach(rep) \in Nat /\ Reach(rep) <= fe
      /\ \A i \in 1..n : rep[i].fe \in Nat /\ rep[i].gen \in Nat /\ rep[i].fe <= Reach(rep)
  BY DEF Further
<1>1. n \in Nat /\ n = Len(rep)
  BY <1>2
<1>3. /\ InOrder(j)
      /\ j.held = IF rep = <<>> THEN NotHeld ELSE [gen |-> Last(rep).gen, fe |-> Last(rep).fe]
      /\ rep # <<>> => \A b \in counts : rep[1].fe <= b /\ b <= Reach(rep) =>
                          \E i \in 1..Len(j.lines) : j.lines[i].fe = b
      /\ \A i \in 1..Len(j.lines) :
            /\ j.lines[i].fe <= Reach(rep) /\ j.lines[i].fe \in counts
            /\ \E k \in 1..n : PopAt(rep, j.lines[i].fe, k) /\ j.lines[i].gen = rep[k].gen
  BY <1>0, <1>1 DEF BudgetTrue
<1>4. on.nextI = nextI /\ on.held = j.held /\ on.lines = j.lines /\ on.lastFe = j.lastFe
  BY <1>0
<1>5. InOrder(on)
  BY <1>0, <1>3, <1>4 DEF InOrder
<1>6. PICK m \in Nat : m = Len(j.lines)
  BY <1>3 DEF InOrder
<1>7. rep # <<>> => /\ n \in 1..n /\ Last(rep) = rep[n] /\ j.held # NotHeld
                    /\ j.held.gen = rep[n].gen /\ j.held.gen \in Nat /\ Reach(rep) = rep[n].fe
  <2>1. SUFFICES ASSUME rep # <<>> PROVE /\ n \in 1..n /\ Last(rep) = rep[n] /\ j.held # NotHeld
                                         /\ j.held.gen = rep[n].gen /\ j.held.gen \in Nat
                                         /\ Reach(rep) = rep[n].fe
    OBVIOUS
  <2>2. n \in 1..n /\ Last(rep) = rep[n]
    BY <1>1, <2>1 DEF Last
  <2>3. j.held = [gen |-> rep[n].gen, fe |-> rep[n].fe]
    BY <1>3, <2>1, <2>2
  <2>4. j.held.gen = rep[n].gen /\ j.held.fe = rep[n].fe
    BY <2>3
  <2>5. NotHeld.fe = -1 /\ rep[n].fe \in Nat /\ rep[n].gen \in Nat
    BY <1>2, <2>2 DEF NotHeld
  <2>6. j.held # NotHeld
    BY <2>4, <2>5
  <2>7. QED
    BY <2>1, <2>2, <2>4, <2>5, <2>6 DEF Reach
<1>8. rep = <<>> => j.held = NotHeld /\ Reach(rep) = 0 /\ n = 0
  BY <1>1, <1>3 DEF Reach
<1>9. D \in SUBSET (1..fe) /\ \A b \in D : b \in counts /\ b \in Nat /\ Reach(rep) < b /\ b <= fe
  <2>1. \A b \in counts : b \in Nat /\ b # 0
    OBVIOUS
  <2>2. QED
    BY <1>0, <2>1
<1>10. Made(z, on, D, gen, fe)
  <2>1. on.held # NotHeld => on.held.gen \in Nat
    BY <1>4, <1>7, <1>8
  <2>2. \A i \in 1..Len(on.lines) : \A b \in D : on.lines[i].fe < b
    <3>1. SUFFICES ASSUME NEW i \in 1..m, NEW b \in D PROVE j.lines[i].fe < b
      BY <1>4, <1>6
    <3>2. j.lines[i] \in LineType
      BY <1>3, <1>6 DEF InOrder
    <3>3. j.lines[i].fe \in Nat
      BY <3>2 DEF LineType
    <3>4. j.lines[i].fe <= Reach(rep)
      BY <1>3, <1>6
    <3>5. QED
      BY <1>2, <1>9, <3>3, <3>4
  <2>3. QED
    BY <1>0, <1>5, <1>9, <2>1, <2>2, RecordsMade
<1>11. /\ InOrder(z) /\ z.nextI = nextI
       /\ m <= Len(z.lines) /\ \A i \in 1..m : z.lines[i] = j.lines[i]
       /\ \A i \in 1..Len(z.lines) : m < i =>
             /\ z.lines[i].fe \in D
             /\ IF z.lines[i].fe = fe THEN z.lines[i].gen = gen
                ELSE j.held # NotHeld /\ z.lines[i].gen = j.held.gen
       /\ \A b \in D : b = fe \/ j.held # NotHeld => \E i \in 1..Len(z.lines) : z.lines[i].fe = b
  BY <1>4, <1>6, <1>10 DEF Made
<1>12. new = [nextI |-> z.nextI, held |-> [gen |-> gen, fe |-> fe], lines |-> z.lines, lastFe |-> z.lastFe]
  <2>1. z = [nextI |-> z.nextI, held |-> z.held, lines |-> z.lines, lastFe |-> z.lastFe]
    BY <1>11 DEF InOrder
  <2>2. QED
    BY <1>0, <2>1
<1>13. /\ new.nextI = nextI /\ new.held = [gen |-> gen, fe |-> fe] /\ new.lines = z.lines
       /\ new.lastFe = z.lastFe
  BY <1>11, <1>12
<1>14. InOrder(new) /\ Len(z.lines) \in Nat
  <2>1. new = [nextI |-> new.nextI, held |-> new.held, lines |-> new.lines, lastFe |-> new.lastFe]
    BY <1>12, <1>13
  <2>2. PICK lines : lines = z.lines
    OBVIOUS
  <2>3. /\ lines \in Seq(LineType) /\ z.lastFe = IF lines = <<>> THEN 0 ELSE Last(lines).fe
        /\ \A h, i \in 1..Len(lines) : h < i => lines[h].fe < lines[i].fe
    BY <1>11, <2>2 DEF InOrder
  <2>4. InOrder(new)
    BY <1>13, <2>1, <2>2, <2>3 DEF InOrder
  <2>5. QED
    BY <2>2, <2>3, <2>4
<1>15. PICK l \in Nat : l = Len(z.lines)
  BY <1>14
<1>16. ASSUME NEW b \in counts, more[1].fe <= b, b <= fe
       PROVE  \E i \in 1..l : z.lines[i].fe = b
  <2>1. b \in Nat /\ b # 0
    OBVIOUS
  <2>2. CASE rep = <<>>
    <3>1. more[1].fe = fe
      BY <1>2, <1>8, <2>2
    <3>2. b = fe /\ b \in D
      BY <1>0, <1>2, <1>8, <1>16, <2>1, <2>2, <3>1
    <3>3. QED
      BY <1>11, <1>15, <3>2
  <2>3. CASE rep # <<>> /\ b <= Reach(rep)
    <3>1. 1 \in 1..n
      BY <1>1, <1>7, <2>3
    <3>2. rep[1].fe <= b
      BY <1>2, <1>16, <3>1
    <3>3. PICK i \in 1..m : j.lines[i].fe = b
      BY <1>3, <1>6, <2>3, <3>2
    <3>4. i \in 1..l /\ z.lines[i].fe = b
      BY <1>11, <1>15, <3>3
    <3>5. QED
      BY <3>4
  <2>4. CASE rep # <<>> /\ ~(b <= Reach(rep))
    <3>1. b \in D
      BY <1>0, <1>2, <1>16, <2>1, <2>4
    <3>2. QED
      BY <1>7, <1>11, <1>15, <2>4, <3>1
  <2>5. QED
    BY <2>2, <2>3, <2>4
<1>17. ASSUME NEW i \in 1..l
       PROVE  /\ z.lines[i].fe <= fe /\ z.lines[i].fe \in counts
              /\ \E k \in 1..(n + 1) : PopAt(more, z.lines[i].fe, k) /\ z.lines[i].gen = more[k].gen
  <2>1. CASE i <= m
    <3>1. i \in 1..m /\ z.lines[i] = j.lines[i]
      BY <1>6, <1>11, <1>17, <2>1
    <3>2. j.lines[i].fe <= Reach(rep) /\ j.lines[i].fe \in counts
      BY <1>3, <1>6, <3>1
    <3>3. PICK k \in 1..n : PopAt(rep, j.lines[i].fe, k) /\ j.lines[i].gen = rep[k].gen
      BY <1>3, <1>6, <3>1
    <3>4. PopAt(more, j.lines[i].fe, k)
      <4>1. PICK b : b = j.lines[i].fe
        OBVIOUS
      <4>2. PopAt(rep, b, k) /\ k \in 1..n
        BY <3>3, <4>1
      <4>3. n \in Nat /\ n = Len(rep) /\ Len(more) = n + 1 /\ \A h \in 1..n : more[h] = rep[h]
        BY <1>2
      <4>4. PopAt(more, b, k)
        BY <4>2, <4>3, PopStays
      <4>5. QED
        BY <4>1, <4>4
    <3>5. more[k].gen = rep[k].gen /\ k \in 1..(n + 1)
      BY <1>2, <3>3
    <3>6. j.lines[i].fe \in Nat
      BY <3>2
    <3>7. QED
      BY <1>2, <3>1, <3>2, <3>3, <3>4, <3>5, <3>6
  <2>2. CASE ~(i <= m)
    <3>1. PICK b : b = z.lines[i].fe
      OBVIOUS
    <3>2. /\ b \in D
          /\ IF b = fe THEN z.lines[i].gen = gen ELSE j.held # NotHeld /\ z.lines[i].gen = j.held.gen
      BY <1>6, <1>11, <1>15, <1>17, <2>2, <3>1
    <3>3. b \in counts /\ b \in Nat /\ Reach(rep) < b /\ b <= fe
      BY <1>9, <3>2
    <3>4. CASE b = fe
      <4>1. \A h \in 1..n : more[h].fe < b
        BY <1>2, <3>3
      <4>2. PopAt(more, b, n + 1)
        <5>1. (n + 1) - 1 = n
          BY <1>1
        <5>2. QED
          BY <1>2, <3>4, <4>1, <5>1 DEF PopAt
      <4>3. n + 1 \in 1..(n + 1) /\ z.lines[i].gen = more[n + 1].gen
        BY <1>2, <3>2, <3>4
      <4>4. QED
        BY <3>1, <3>3, <4>2, <4>3
    <3>5. CASE b # fe
      <4>1. j.held # NotHeld /\ z.lines[i].gen = j.held.gen /\ rep # <<>>
        BY <1>8, <3>2, <3>5
      <4>2. n \in 1..n /\ Reach(rep) = rep[n].fe /\ j.held.gen = rep[n].gen /\ more[n] = rep[n]
        BY <1>2, <1>7, <4>1
      <4>3. more[n].fe < b /\ more[n + 1].fe > b /\ n + 1 \in 1..(n + 1)
        BY <1>2, <3>3, <3>5, <4>2
      <4>4. PopAt(more, b, n)
        BY <1>2, <4>3 DEF PopAt
      <4>5. n \in 1..(n + 1) /\ z.lines[i].gen = more[n].gen
        BY <4>1, <4>2
      <4>6. QED
        BY <3>1, <3>3, <4>4, <4>5
    <3>6. QED
      BY <3>4, <3>5
  <2>3. QED
    BY <2>1, <2>2
<1>18. new.held = [gen |-> Last(more).gen, fe |-> Last(more).fe]
  BY <1>2, <1>13
<1>19. QED
  BY <1>2, <1>13, <1>14, <1>15, <1>16, <1>17, <1>18 DEF BudgetTrue, Reports

Below(counts, r) == Cardinality({c \in counts : c <= r})

\* The counts whose place is beyond those up to r, and what is to be known of them.
PassedFrom(counts, r, fe) == {b \in counts : 1 + Below(counts, r) <= Below(counts, b) /\ b <= fe}

Passes(P, counts, r, fe) ==
  /\ P = {b \in counts : r < b /\ b <= fe} /\ Cardinality(P) \in Nat /\ Below(counts, r) \in Nat
  /\ Below(counts, r) + Cardinality(P) = Below(counts, fe)

\* The counts a report passes are the ones beyond where the reports had come to.
LEMMA CountsPassed ==
  ASSUME NEW counts \in SUBSET (Nat \ {0}), IsFiniteSet(counts), NEW r \in Nat, NEW fe \in Nat, r <= fe,
         NEW P, P = PassedFrom(counts, r, fe)
  PROVE  Passes(P, counts, r, fe)
<1> DEFINE U(k) == {c \in counts : c <= k}
<1>1. PICK D : D = {b \in counts : r < b /\ b <= fe}
  OBVIOUS
<1>2. \A k : U(k) \in SUBSET counts /\ IsFiniteSet(U(k)) /\ Cardinality(U(k)) \in Nat
  <2>1. SUFFICES ASSUME NEW k PROVE IsFiniteSet(U(k)) /\ Cardinality(U(k)) \in Nat
    OBVIOUS
  <2>2. PICK s : s = U(k)
    OBVIOUS
  <2>3. s \in SUBSET counts
    BY <2>2
  <2>4. IsFiniteSet(s)
    BY <2>3, FS_Subset
  <2>5. QED
    BY <2>2, <2>4, FS_CardinalityType
<1>3. D \in SUBSET counts /\ IsFiniteSet(D) /\ Cardinality(D) \in Nat
  <2>1. D \in SUBSET counts
    BY <1>1
  <2>2. IsFiniteSet(D)
    BY <2>1, FS_Subset
  <2>3. QED
    BY <2>1, <2>2, FS_CardinalityType
<1>4. ASSUME NEW b \in counts PROVE 1 + Cardinality(U(r)) <= Cardinality(U(b)) <=> r < b
  <2>1. b \in Nat /\ \A c \in counts : c \in Nat
    OBVIOUS
  <2>2. CASE r < b
    <3>1. b \notin U(r) /\ U(r) \cup {b} \in SUBSET U(b)
      <4>1. ~(b <= r) /\ b <= b /\ \A c \in counts : c <= r => c <= b
        BY <2>1, <2>2
      <4>2. QED
        BY <4>1
    <3>2. PICK S : S = U(r)
      OBVIOUS
    <3>3. PICK T : T = U(b)
      OBVIOUS
    <3>4. IsFiniteSet(S) /\ IsFiniteSet(T) /\ b \notin S /\ S \cup {b} \in SUBSET T /\ Cardinality(S) \in Nat
          /\ Cardinality(T) \in Nat
      BY <1>2, <3>1, <3>2, <3>3
    <3>5. Cardinality(S \cup {b}) = Cardinality(S) + 1
      BY <3>4, FS_AddElement
    <3>6. Cardinality(S \cup {b}) <= Cardinality(T)
      BY <3>4, FS_Subset
    <3>7. QED
      BY <2>2, <3>2, <3>3, <3>4, <3>5, <3>6
  <2>3. CASE ~(r < b)
    <3>1. U(b) \in SUBSET U(r)
      <4>1. \A c \in counts : c <= b => c <= r
        BY <2>1, <2>3
      <4>2. QED
        BY <4>1
    <3>2. PICK S : S = U(r)
      OBVIOUS
    <3>3. PICK T : T = U(b)
      OBVIOUS
    <3>4. IsFiniteSet(S) /\ T \in SUBSET S /\ Cardinality(S) \in Nat /\ Cardinality(T) \in Nat
      BY <1>2, <3>1, <3>2, <3>3
    <3>5. Cardinality(T) <= Cardinality(S)
      BY <3>4, FS_Subset
    <3>6. QED
      BY <2>3, <3>2, <3>3, <3>4, <3>5
  <2>4. QED
    BY <2>2, <2>3
<1>0. \A k : Below(counts, k) = Cardinality(U(k))
  BY DEF Below
<1>5. P = D
  <2> HIDE DEF U
  <2>1. QED
    BY <1>0, <1>1, <1>4 DEF PassedFrom
<1>6. Cardinality(U(r)) + Cardinality(D) = Cardinality(U(fe))
  <2>1. PICK S : S = U(r)
    OBVIOUS
  <2>2. IsFiniteSet(S) /\ Cardinality(S) \in Nat
    BY <1>2, <2>1
  <2>3. \A c \in counts : c \in Nat
    OBVIOUS
  <2>4. S \cup D = U(fe) /\ S \cap D = {}
    <3>1. \A c \in counts : c <= fe <=> (c <= r \/ (r < c /\ c <= fe))
      BY <2>3
    <3>2. \A c \in counts : ~(c <= r /\ r < c)
      BY <2>3
    <3>3. QED
      BY <1>1, <2>1, <3>1, <3>2
  <2>5. Cardinality(S \cup D) = Cardinality(S) + Cardinality(D) - Cardinality(S \cap D)
    BY <1>3, <2>2, FS_Union
  <2>6. Cardinality(S \cap D) = 0
    BY <2>4, FS_EmptySet
  <2>7. PICK x \in Nat : x = Cardinality(S)
    BY <2>2
  <2>8. PICK y \in Nat : y = Cardinality(D)
    BY <1>3
  <2>9. Cardinality(S \cup D) = x + y
    BY <2>5, <2>6, <2>7, <2>8
  <2> HIDE DEF U
  <2>10. QED
    BY <2>1, <2>4, <2>7, <2>8, <2>9
<1>7. QED
  BY <1>0, <1>1, <1>2, <1>3, <1>5, <1>6 DEF Passes

\* Past the run the end is recorded, where no record is as far.
LEMMA EndReport ==
  ASSUME NEW rep \in Seq(ReportType), Rises(rep), NEW counts \in SUBSET (Nat \ {0}), NEW j,
         BudgetTrue(rep, j, counts, FALSE),
         NEW z, z = IF j.held.fe > j.lastFe THEN Record(j, j.held.gen, j.held.fe) ELSE j
  PROVE  BudgetTrue(rep, z, counts, TRUE)
<1>1. PICK n \in Nat : n = Len(rep)
  OBVIOUS
<1>2. /\ InOrder(j)
      /\ j.held = IF rep = <<>> THEN NotHeld ELSE [gen |-> Last(rep).gen, fe |-> Last(rep).fe]
      /\ rep # <<>> => \A b \in counts : rep[1].fe <= b /\ b <= Reach(rep) =>
                          \E i \in 1..Len(j.lines) : j.lines[i].fe = b
      /\ \A i \in 1..Len(j.lines) :
            /\ j.lines[i].fe <= Reach(rep) /\ j.lines[i].fe \in counts
            /\ \E k \in 1..n : PopAt(rep, j.lines[i].fe, k) /\ j.lines[i].gen = rep[k].gen
  BY <1>1 DEF BudgetTrue
<1>3. PICK m \in Nat : m = Len(j.lines)
  BY <1>2 DEF InOrder
<1>4. j.lastFe = (IF m = 0 THEN 0 ELSE j.lines[m].fe) /\ (m # 0 => j.lines[m].fe \in Nat /\ m \in 1..m)
      /\ (m # 0 <=> j.lines # <<>>) /\ (m # 0 => Last(j.lines) = j.lines[m])
  <2>1. j.lines \in Seq(LineType) /\ j.lastFe = IF j.lines = <<>> THEN 0 ELSE Last(j.lines).fe
    BY <1>2 DEF InOrder
  <2>2. m # 0 <=> j.lines # <<>>
    BY <1>3, <2>1
  <2>3. m # 0 => Last(j.lines) = j.lines[m] /\ j.lines[m] \in LineType /\ m \in 1..m
    BY <1>3, <2>1, <2>2 DEF Last
  <2>4. QED
    BY <2>1, <2>2, <2>3 DEF LineType
<1>5. CASE rep = <<>>
  <2>1. j.held.fe = -1 /\ Reach(rep) = 0
    BY <1>2, <1>5 DEF NotHeld, Reach
  <2>2. z = j
    BY <1>4, <2>1
  <2>3. QED
    BY <1>1, <1>2, <1>5, <2>1, <2>2 DEF BudgetTrue
<1>6. CASE rep # <<>>
  <2>1. /\ n \in 1..n /\ 1 \in 1..n /\ Last(rep) = rep[n] /\ Reach(rep) = rep[n].fe
        /\ rep[n] \in ReportType
    BY <1>1, <1>6 DEF Reach, Last
  <2>2. PICK r \in Nat : r = rep[n].fe
    BY <2>1 DEF ReportType
  <2>3. PICK g \in Nat : g = rep[n].gen
    BY <2>1 DEF ReportType
  <2>4. j.held.gen = g /\ j.held.fe = r /\ Reach(rep) = r
    <3>1. j.held = [gen |-> g, fe |-> r]
      BY <1>2, <1>6, <2>1, <2>2, <2>3
    <3>2. QED
      BY <2>1, <2>2, <3>1
  <2>5. \A i \in 1..m : j.lines[i].fe \in Nat /\ j.lines[i].fe <= j.lastFe
    <3>1. SUFFICES ASSUME NEW i \in 1..m PROVE j.lines[i].fe \in Nat /\ j.lines[i].fe <= j.lastFe
      OBVIOUS
    <3>2. m # 0 /\ j.lastFe = j.lines[m].fe /\ m \in 1..m /\ j.lines[m].fe \in Nat
      BY <1>3, <1>4, <3>1
    <3>3. j.lines[i].fe \in Nat
      BY <1>2, <1>3, <3>1
    <3>4. CASE i = m
      BY <3>2, <3>4
    <3>5. CASE i < m
      <4>1. j.lines[i].fe < j.lines[m].fe
        BY <1>2, <1>3, <3>1, <3>2, <3>5 DEF InOrder
      <4>2. QED
        BY <3>2, <3>3, <4>1
    <3>6. QED
      BY <1>3, <3>1, <3>4, <3>5
  <2>6. CASE j.held.fe > j.lastFe
    <3>1. z = Record(j, g, r) /\ j.lastFe \in Nat /\ r > j.lastFe
      BY <1>4, <2>4, <2>6
    <3>2. \A i \in 1..m : j.lines[i].fe < r
      BY <2>5, <3>1
    <3>3. /\ InOrder(z) /\ z.held = j.held /\ Len(z.lines) = m + 1
          /\ \A i \in 1..m : z.lines[i] = j.lines[i]
          /\ z.lines[m + 1] = [gen |-> g, fe |-> r]
      BY <1>2, <1>3, <3>1, <3>2, RecordIs
    <3>4. z.lines[m + 1].gen = g /\ z.lines[m + 1].fe = r
      BY <3>3
    <3>5. r \notin counts
      <4>1. SUFFICES ASSUME r \in counts PROVE FALSE
        OBVIOUS
      <4>2. r \in Nat /\ r # 0
        BY <4>1
      <4>3. ASSUME NEW b \in counts, rep[1].fe <= b, b <= r PROVE \E i \in 1..m : j.lines[i].fe = b
        BY <1>2, <1>3, <1>6, <2>4, <4>3
      <4>4. rep[1].fe <= r
        BY <1>1, <2>1, <2>2 DEF Rises
      <4>5. QED
        BY <3>2, <4>1, <4>2, <4>3, <4>4
    <3>6. z.lines # <<>> /\ Last(z.lines) = z.lines[m + 1]
      BY <1>3, <3>3 DEF Last
    <3>7. ASSUME NEW i \in 1..(m + 1)
          PROVE  /\ z.lines[i].fe <= r
                 /\ \/ /\ z.lines[i].fe \in counts
                       /\ \E k \in 1..n : PopAt(rep, z.lines[i].fe, k) /\ z.lines[i].gen = rep[k].gen
                    \/ z.lines[i].fe \notin counts /\ z.lines[i].gen = Last(rep).gen
      <4>1. CASE i = m + 1
        BY <2>1, <2>3, <3>4, <3>5, <4>1
      <4>2. CASE i # m + 1
        <5>1. i \in 1..m
          BY <1>3, <3>7, <4>2
        <5>2. z.lines[i] = j.lines[i]
          BY <3>3, <5>1
        <5>3. QED
          BY <1>2, <1>3, <2>4, <5>1, <5>2
      <4>3. QED
        BY <4>1, <4>2
    <3>8. ASSUME NEW b \in counts, rep[1].fe <= b, b <= r PROVE \E i \in 1..(m + 1) : z.lines[i].fe = b
      <4>1. PICK i \in 1..m : j.lines[i].fe = b
        BY <1>2, <1>3, <1>6, <2>4, <3>8
      <4>2. i \in 1..(m + 1) /\ z.lines[i].fe = b
        BY <1>3, <3>3, <4>1
      <4>3. QED
        BY <4>2
    <3>9. z.held = IF rep = <<>> THEN NotHeld ELSE [gen |-> Last(rep).gen, fe |-> Last(rep).fe]
      BY <1>2, <3>3
    <3>10. InOrder(z) /\ Len(z.lines) = m + 1 /\ Last(z.lines).fe = r
      BY <3>3, <3>4, <3>6
    <3>11. rep # <<>> => \A b \in counts : rep[1].fe <= b /\ b <= Reach(rep) =>
                            \E i \in 1..Len(z.lines) : z.lines[i].fe = b
      BY <2>4, <3>8, <3>10
    <3>12. \A i \in 1..Len(z.lines) :
              /\ z.lines[i].fe <= Reach(rep)
              /\ \/ /\ z.lines[i].fe \in counts
                    /\ \E k \in 1..Len(rep) : PopAt(rep, z.lines[i].fe, k) /\ z.lines[i].gen = rep[k].gen
                 \/ z.lines[i].fe \notin counts /\ z.lines[i].gen = Last(rep).gen
      BY <1>1, <2>4, <3>7, <3>10
    <3>13. z.lines # <<>> /\ Last(z.lines).fe = Reach(rep)
      BY <2>4, <3>6, <3>10
    <3>14. QED
      BY <3>9, <3>10, <3>11, <3>12, <3>13 DEF BudgetTrue
  <2>7. CASE ~(j.held.fe > j.lastFe)
    <3>1. z = j
      BY <2>7
    <3>2. r > 0 => m # 0 /\ j.lines[m].fe = r
      <4>1. SUFFICES ASSUME r > 0 PROVE m # 0 /\ j.lines[m].fe = r
        OBVIOUS
      <4>2. m # 0
        BY <1>4, <2>4, <2>7, <4>1
      <4>3. j.lines[m].fe <= r /\ r <= j.lines[m].fe /\ j.lines[m].fe \in Nat
        BY <1>2, <1>3, <1>4, <2>4, <2>7, <4>2
      <4>4. QED
        BY <4>2, <4>3
    <3>3. QED
      BY <1>1, <1>2, <1>4, <2>4, <3>1, <3>2 DEF BudgetTrue
  <2>8. QED
    BY <2>6, <2>7
<1>7. QED
  BY <1>5, <1>6

\* On the log grid a report that is the first at a count or past it is recorded.
LEMMA LogReport ==
  ASSUME NEW rep, NEW counts \in SUBSET (Nat \ {0}), NEW lines \in Seq(LineType), NEW j, j.lines = lines,
         LogTrue(rep, j, counts), NEW gen \in Nat, NEW fe \in Nat, NEW more, NEW n,
         Further(rep, more, n, gen, fe), rep = <<>> => n = 0, rep # <<>> => n # 0, NEW z,
         \/ z.lines = Append(lines, [gen |-> gen, fe |-> fe])
         \/ z.lines = lines /\ \A b \in counts : ~(Reach(rep) < b /\ b <= fe)
  PROVE  LogTrue(more, z, counts)
<1>1. /\ n \in Nat /\ Len(rep) = n /\ Len(more) = n + 1 /\ \A i \in 1..n : more[i] = rep[i]
      /\ more[n + 1].gen = gen /\ more[n + 1].fe = fe
  BY DEF Further
<1>2. PICK m \in Nat : m = Len(lines)
  OBVIOUS
<1>3. PICK line : line = [gen |-> gen, fe |-> fe]
  OBVIOUS
<1>4. line \in LineType
  BY <1>3 DEF LineType
<1>5. PICK l \in Nat : l = Len(z.lines) /\ m <= l /\ \A k \in 1..m : z.lines[k] = lines[k]
  BY <1>2, <1>3, <1>4
<1>6. z.lines = Append(lines, line) => l = m + 1 /\ z.lines[m + 1] = line
  BY <1>2, <1>4, <1>5
<1>7. SUFFICES ASSUME NEW b \in counts, NEW i \in 1..(n + 1), more[i].fe >= b,
                      \A h \in 1..(i - 1) : more[h].fe < b
               PROVE  \E k \in 1..l : z.lines[k] = [gen |-> more[i].gen, fe |-> more[i].fe]
  BY <1>1, <1>5 DEF LogTrue
<1>8. CASE i \in 1..n
  <2>1. more[i] = rep[i] /\ \A h \in 1..(i - 1) : more[h] = rep[h]
    BY <1>1, <1>8
  <2>2. PICK k \in 1..m : lines[k] = [gen |-> rep[i].gen, fe |-> rep[i].fe]
    BY <1>1, <1>2, <1>7, <1>8, <2>1 DEF LogTrue
  <2>3. k \in 1..l /\ z.lines[k] = lines[k]
    BY <1>2, <1>5, <2>2
  <2>4. QED
    BY <2>1, <2>2, <2>3
<1>9. CASE i \notin 1..n
  <2>0. i = n + 1
    BY <1>1, <1>7, <1>9
  <2>1. i = n + 1 /\ more[i].gen = gen /\ more[i].fe = fe /\ b <= fe /\ b \in Nat /\ b # 0
    BY <1>1, <1>7, <2>0
  <2>2. Reach(rep) < b
    <3>1. CASE n = 0
      BY <2>1, <3>1 DEF Reach
    <3>2. CASE n # 0
      <4>1. n \in 1..(i - 1) /\ n \in 1..n
        BY <1>1, <2>1, <3>2
      <4>2. rep[n].fe < b
        BY <1>1, <1>7, <4>1
      <4>3. Reach(rep) = rep[n].fe
        BY <1>1, <3>2 DEF Reach, Last
      <4>4. QED
        BY <4>2, <4>3
    <3>3. QED
      BY <3>1, <3>2
  <2>3. z.lines = Append(lines, line)
    BY <1>3, <1>7, <2>1, <2>2
  <2>4. m + 1 \in 1..l /\ z.lines[m + 1] = line
    BY <1>2, <1>6, <2>3
  <2>5. QED
    BY <1>3, <2>1, <2>4
<1>10. QED
  BY <1>8, <1>9

-----------------------------------------------------------------------------
(* The records behind the run.                                             *)

\* A job's records: a record of four fields, with lines of two.
JobShape(j) ==
  /\ j = [nextI |-> j.nextI, held |-> j.held, lines |-> j.lines, lastFe |-> j.lastFe]
  /\ j.lines \in Seq(LineType)

\* The records while the run goes on, and when it is over.
Kept(s, rep, j) ==
  /\ JobShape(j)
  /\ s.grid # "generations" => j.nextI = 1 + Below(s.counts, Reach(rep))
  /\ s.grid = "budgets" => BudgetTrue(rep, j, s.counts, FALSE)
  /\ s.grid = "log" => LogTrue(rep, j, s.counts)

Closed(s, rep, j) ==
  /\ JobShape(j)
  /\ s.grid = "budgets" => BudgetTrue(rep, j, s.counts, TRUE)
  /\ s.grid = "log" => LogTrue(rep, j, s.counts)

\* What a report at fe makes of the records.
LEMMA OnGenIs ==
  ASSUME NEW rep, setting \in Settings, NEW j, JobShape(j), NEW gen \in Nat, NEW fe \in Nat, NEW more, NEW n,
         Further(rep, more, n, gen, fe), rep = <<>> => n = 0, rep # <<>> => n # 0,
         setting.grid # "generations" => j.nextI = 1 + Below(setting.counts, Reach(rep)),
         setting.grid = "budgets" => BudgetTrue(rep, j, setting.counts, FALSE),
         setting.grid = "log" => LogTrue(rep, j, setting.counts),
         NEW z, z = OnGen(j, gen, fe)
  PROVE  Kept(setting, more, z)
<1>0. Reach(more) = fe
  BY DEF Further
<1>1. PICK counts : counts = setting.counts
  OBVIOUS
<1>2. counts \in SUBSET (Nat \ {0}) /\ IsFiniteSet(counts)
  BY <1>1, SettingIs
<1>3. PICK D : D = Passed(j, fe)
  OBVIOUS
<1>4. PICK r \in Nat : r = Reach(rep) /\ r <= fe
  BY DEF Further
<1>5. ASSUME setting.grid # "generations"
      PROVE  /\ D = {b \in counts : Reach(rep) < b /\ b <= fe} /\ Cardinality(D) \in Nat
             /\ j.nextI + Cardinality(D) = 1 + Below(counts, fe)
  <2>1. j.nextI = 1 + Below(counts, r)
    BY <1>1, <1>4, <1>5
  <2>2. D = PassedFrom(counts, r, fe)
    BY <1>1, <1>3, <2>1 DEF Passed, PassedFrom, GridPlace, Below
  <2>3. /\ D = {b \in counts : r < b /\ b <= fe} /\ Cardinality(D) \in Nat /\ Below(counts, r) \in Nat
        /\ Below(counts, r) + Cardinality(D) = Below(counts, fe)
    <3>1. Passes(D, counts, r, fe)
      BY <1>2, <1>4, <2>2, CountsPassed
    <3>2. QED
      BY <3>1 DEF Passes
  <2>4. PICK x \in Nat : x = Below(counts, r)
    BY <2>3
  <2>5. PICK y \in Nat : y = Cardinality(D)
    BY <2>3
  <2>6. Below(counts, fe) = x + y /\ j.nextI = 1 + x
    BY <2>1, <2>3, <2>4, <2>5
  <2>7. D = {b \in counts : Reach(rep) < b /\ b <= fe}
    BY <1>4, <2>3
  <2>8. QED
    BY <2>5, <2>6, <2>7
<1>6. PICK next1 : next1 = j.nextI + Cardinality(D)
  OBVIOUS
<1>7. PICK on : on = [nextI |-> next1, held |-> j.held, lines |-> j.lines, lastFe |-> j.lastFe]
  OBVIOUS
<1>8. [j EXCEPT !.nextI = @ + Cardinality(D)] = on
  <2>1. j = [nextI |-> j.nextI, held |-> j.held, lines |-> j.lines, lastFe |-> j.lastFe]
    BY DEF JobShape
  <2>2. QED
    BY <1>6, <1>7, <2>1
<1>9. /\ JobShape(on) /\ on.lines = j.lines /\ on.nextI = next1 /\ j.lines \in Seq(LineType)
  <2>1. on.nextI = next1 /\ on.held = j.held /\ on.lines = j.lines /\ on.lastFe = j.lastFe
    BY <1>7
  <2>2. QED
    BY <1>7, <2>1 DEF JobShape
<1>10. ASSUME NEW k, JobShape(k) PROVE /\ JobShape(Record(k, gen, fe)) /\ Record(k, gen, fe).nextI = k.nextI
                                      /\ Record(k, gen, fe).lines = Append(k.lines, [gen |-> gen, fe |-> fe])
  <2>1. k = [nextI |-> k.nextI, held |-> k.held, lines |-> k.lines, lastFe |-> k.lastFe]
        /\ k.lines \in Seq(LineType)
    BY <1>10 DEF JobShape
  <2>2. PICK line : line = [gen |-> gen, fe |-> fe]
    OBVIOUS
  <2>3. line \in LineType
    BY <2>2 DEF LineType
  <2>4. PICK old : old = k.lines
    OBVIOUS
  <2>4a. PICK lines : lines = Append(old, line)
    OBVIOUS
  <2>4b. lines \in Seq(LineType)
    BY <2>1, <2>3, <2>4, <2>4a
  <2>5. PICK w : w = [nextI |-> k.nextI, held |-> k.held, lines |-> lines, lastFe |-> fe]
    OBVIOUS
  <2>5a. Record(k, gen, fe) = [k EXCEPT !.lines = lines, !.lastFe = fe]
    BY <2>2, <2>4, <2>4a DEF Record
  <2>6. Record(k, gen, fe) = w
    BY <2>1, <2>5, <2>5a
  <2>7. w.nextI = k.nextI /\ w.held = k.held /\ w.lines = lines /\ w.lastFe = fe
    BY <2>5
  <2>8. JobShape(w)
    BY <2>4b, <2>5, <2>7 DEF JobShape
  <2>9. QED
    BY <2>2, <2>4, <2>4a, <2>6, <2>7, <2>8
<1>11. CASE setting.grid = "budgets"
  <2>1. PICK y : y = Recorded(on, D, gen, fe)
    OBVIOUS
  <2>2. z = [y EXCEPT !.held = [gen |-> gen, fe |-> fe]]
    BY <1>3, <1>8, <1>11, <2>1 DEF OnGen, Recorded
  <2>3. Reporting(rep, j, counts, gen, fe, on, D, y, z, next1)
    BY <1>1, <1>5, <1>7, <1>11, <2>1, <2>2 DEF Reporting
  <2>4. BudgetTrue(more, z, counts, FALSE) /\ z.nextI = next1
    <3>1. Reports(more, z, counts, next1)
      BY <1>2, <2>3, BudgetReport
    <3>2. QED
      BY <3>1 DEF Reports
  <2>5. JobShape(z)
    BY <2>4 DEF BudgetTrue, InOrder, JobShape
  <2>6. QED
    BY <1>0, <1>1, <1>5, <1>6, <1>11, <2>4, <2>5 DEF Kept
<1>12. CASE setting.grid = "log"
  <2>1. z = IF gen > 0 /\ fe < setting.limit /\ D = {} THEN j ELSE Record(on, gen, fe)
    BY <1>3, <1>8, <1>12 DEF OnGen
  <2>2. LogTrue(rep, j, counts) /\ D = {b \in counts : Reach(rep) < b /\ b <= fe}
        /\ next1 = 1 + Below(counts, fe)
    BY <1>1, <1>5, <1>6, <1>12
  <2>3. CASE z = j /\ D = {}
    <3>1. j.nextI = next1
      <4>1. Cardinality(D) = 0
        BY <2>3, FS_EmptySet
      <4>2. Below(counts, r) \in Nat
        BY <1>2, FS_Subset, FS_CardinalityType DEF Below
      <4>3. j.nextI = 1 + Below(counts, r)
        BY <1>1, <1>4, <1>12
      <4>4. QED
        BY <1>6, <4>1, <4>2, <4>3
    <3>2. \A b \in counts : ~(Reach(rep) < b /\ b <= fe)
      BY <2>2, <2>3
    <3>3. PICK lines \in Seq(LineType) : lines = j.lines /\ z.lines = lines
      BY <1>9, <2>3
    <3>4. LogTrue(more, z, counts)
      BY <1>2, <2>2, <3>2, <3>3, LogReport
    <3>5. QED
      BY <1>0, <1>1, <1>12, <2>2, <2>3, <3>1, <3>4 DEF Kept
  <2>4. CASE z = Record(on, gen, fe)
    <3>1. JobShape(z) /\ z.nextI = next1 /\ z.lines = Append(on.lines, [gen |-> gen, fe |-> fe])
      BY <1>9, <1>10, <2>4
    <3>2. PICK lines \in Seq(LineType) : lines = j.lines /\ z.lines = Append(lines, [gen |-> gen, fe |-> fe])
      BY <1>9, <3>1
    <3>3. LogTrue(more, z, counts)
      BY <1>2, <2>2, <3>2, LogReport
    <3>4. QED
      BY <1>0, <1>1, <1>12, <2>2, <3>1, <3>3 DEF Kept
  <2>5. QED
    BY <2>1, <2>3, <2>4
<1>13. CASE setting.grid = "generations"
  <2>1. z = Record(j, gen, fe)
    BY <1>13 DEF OnGen
  <2>2. JobShape(z)
    BY <1>10, <2>1
  <2>3. QED
    BY <1>13, <2>2 DEF Kept
<1>14. setting.grid \in {"budgets", "log", "generations"}
  BY DriverAssumption DEF SettingType
<1>15. QED
  BY <1>11, <1>12, <1>13, <1>14

\* A report keeps the records what they are.
LEMMA OnGenKeeps ==
  ASSUME NEW rep, setting \in Settings, NEW j, Kept(setting, rep, j), NEW gen \in Nat, NEW fe \in Nat,
         NEW more, NEW n, Further(rep, more, n, gen, fe), rep = <<>> => n = 0, rep # <<>> => n # 0,
         NEW z, z = OnGen(j, gen, fe)
  PROVE  Kept(setting, more, z)
<1>1. /\ JobShape(j)
      /\ setting.grid # "generations" => j.nextI = 1 + Below(setting.counts, Reach(rep))
      /\ setting.grid = "budgets" => BudgetTrue(rep, j, setting.counts, FALSE)
      /\ setting.grid = "log" => LogTrue(rep, j, setting.counts)
  BY DEF Kept
<1>2. QED
  BY <1>1, OnGenIs

\* After the run.
LEMMA EndCloses ==
  ASSUME NEW rep \in Seq(ReportType), Rises(rep), setting \in Settings, NEW j, Kept(setting, rep, j),
         NEW z, z = RecordEnd(j)
  PROVE  Closed(setting, rep, z)
<1>1. CASE setting.grid = "budgets"
  <2>1. PICK counts \in SUBSET (Nat \ {0}) : counts = setting.counts
    BY SettingIs
  <2>2. BudgetTrue(rep, j, counts, FALSE)
    BY <1>1, <2>1 DEF Kept
  <2>3. z = IF j.held.fe > j.lastFe THEN Record(j, j.held.gen, j.held.fe) ELSE j
    BY <1>1 DEF RecordEnd
  <2>4. BudgetTrue(rep, z, counts, TRUE)
    BY <2>1, <2>2, <2>3, EndReport
  <2>5. JobShape(z)
    BY <2>4 DEF BudgetTrue, InOrder, JobShape
  <2>6. QED
    BY <1>1, <2>1, <2>4, <2>5 DEF Closed
<1>2. CASE setting.grid # "budgets"
  <2>1. z = j
    BY <1>2 DEF RecordEnd
  <2>2. QED
    BY <1>2, <2>1 DEF Closed, Kept
<1>3. QED
  BY <1>1, <1>2

\* Reports rise with the evaluations, and the records follow them, open until the run is over.
JobInv ==
  /\ reported \in Seq(ReportType) /\ Rises(reported)
  /\ \A i \in 1..Len(reported) : reported[i].fe <= evals
  /\ pc # "ended" => Kept(setting, reported, job)
  /\ pc = "ended" => Closed(setting, reported, job)

\* A report, or the end of the run's time.
LEMMA EmitRecords ==
  ASSUME LedgerInv, JobInv, pc # "ended", NEW gen \in Nat, NEW at \in {"loop", "over"}, Emit(gen, at),
         UNCHANGED <<setting, evals, online, taken>>
  PROVE  JobInv'
<1>1. led'.fe = evals /\ evals \in Nat /\ setting \in Settings
  BY FlushKeeps DEF Emit, LedgerInv
<1>2. CASE UNCHANGED <<job, reported>> /\ pc' = "timeout"
  BY <1>2 DEF JobInv
<1>3. CASE /\ pc' = at /\ job' = OnGen(job, gen, led'.fe)
           /\ reported' = Append(reported, [gen |-> gen, fe |-> led'.fe, evals |-> evals])
  <2>1. PICK rep \in Seq(ReportType) : rep = reported
    BY DEF JobInv
  <2>2. PICK fe \in Nat : fe = evals
    BY <1>1
  <2>3. PICK more : more = Append(rep, [gen |-> gen, fe |-> fe, evals |-> fe])
    OBVIOUS
  <2>4. PICK n \in Nat : n = Len(rep)
    BY <2>1
  <2>5. Rises(rep) /\ \A i \in 1..Len(rep) : rep[i].fe <= fe
    BY <2>1, <2>2 DEF JobInv
  <2>6. Further(rep, more, n, gen, fe)
    BY <2>1, <2>2, <2>3, <2>4, <2>5, ReportMore
  <2>7. PICK j : j = job
    OBVIOUS
  <2>8. PICK z : z = OnGen(j, gen, fe)
    OBVIOUS
  <2>9. (rep = <<>> => n = 0) /\ (rep # <<>> => n # 0)
    BY <2>1, <2>4
  <2>10. Kept(setting, rep, j)
    BY <2>1, <2>7 DEF JobInv
  <2>11. Kept(setting, more, z)
    BY <1>1, <2>2, <2>6, <2>8, <2>9, <2>10, OnGenKeeps
  <2>12. job' = z /\ reported' = more /\ pc' # "ended"
    BY <1>1, <1>3, <2>1, <2>2, <2>3, <2>7, <2>8
  <2>13. /\ more \in Seq(ReportType) /\ Rises(more) /\ Len(more) = n + 1 /\ Len(rep) = n
         /\ \A i \in 1..n : more[i] = rep[i]
         /\ more[n + 1].fe = fe
    BY <2>6 DEF Further
  <2>14. \A i \in 1..(n + 1) : more[i].fe <= fe
    <3>1. \A i \in 1..(n + 1) : i \in 1..n \/ i = n + 1
      BY <2>4
    <3>2. QED
      BY <2>2, <2>5, <2>13, <3>1
  <2>15. /\ more \in Seq(ReportType) /\ Rises(more) /\ Kept(setting, more, z)
         /\ \A i \in 1..Len(more) : more[i].fe <= evals
    BY <2>2, <2>11, <2>13, <2>14
  <2>16. QED
    BY <2>12, <2>15 DEF JobInv
<1>4. QED
  BY <1>2, <1>3 DEF Emit

\* Every step keeps the records.
LEMMA JobStep ==
  ASSUME LedgerInv, ReportedInv, JobInv, [Next]_<<setting, vars>>
  PROVE  JobInv'
<1> USE DEF history
<1>1. ASSUME NEW r \in Rows, Evaluate(r), setting' = setting PROVE JobInv'
  <2>1. UNCHANGED <<setting, pc, job, reported>> /\ evals' = evals + 1 /\ evals \in Nat
    BY <1>1 DEF Evaluate, LedgerInv
  <2>2. \A i \in 1..Len(reported) : reported[i].fe \in Nat /\ reported[i].fe <= evals + 1
    <3>1. SUFFICES ASSUME NEW i \in 1..Len(reported) PROVE reported[i].fe \in Nat /\ reported[i].fe <= evals + 1
      OBVIOUS
    <3>2. reported[i] \in ReportType /\ reported[i].fe <= evals
      BY <3>1 DEF JobInv
    <3>3. reported[i].fe \in Nat
      BY <3>2 DEF ReportType
    <3>4. QED
      BY <2>1, <3>2, <3>3
  <2>3. QED
    BY <2>1, <2>2 DEF JobInv
<1>2. ASSUME EndSetup, setting' = setting PROVE JobInv'
  <2>1. UNCHANGED <<setting, evals, online, taken>> /\ pc # "ended" /\ 0 \in Nat
    BY <1>2 DEF EndSetup
  <2>2. CASE Emit(0, "loop")
    BY <2>1, <2>2, EmitRecords
  <2>3. CASE Silently("loop")
    BY <2>1, <2>3 DEF Silently, JobInv
  <2>4. QED
    BY <1>2, <2>2, <2>3 DEF EndSetup
<1>3. ASSUME BeginStep, setting' = setting PROVE JobInv'
  <2>1. UNCHANGED <<setting, evals, job, reported>> /\ pc' = "step" /\ pc = "loop"
    BY <1>3 DEF BeginStep
  <2>2. QED
    BY <2>1 DEF JobInv
<1>4. ASSUME EndStep, setting' = setting PROVE JobInv'
  <2>1. UNCHANGED <<setting, evals, online, taken>> /\ pc # "ended" /\ steps' \in Nat
    BY <1>4 DEF EndStep, ReportedInv
  <2>2. PICK done \in BOOLEAN : EndStepCounted(done) \/ EndStepSpent(done)
    BY <1>4 DEF EndStep
  <2>3. CASE Emit(steps', "over") \/ Emit(steps', "loop")
    BY <2>1, <2>3, EmitRecords
  <2>4. CASE Silently("over") \/ Silently("loop") \/ Silently("threw")
    BY <2>1, <2>4 DEF Silently, JobInv
  <2>5. QED
    BY <2>2, <2>3, <2>4 DEF EndStepCounted, EndStepSpent
<1>5. ASSUME EndRun, setting' = setting PROVE JobInv'
  <2>1. UNCHANGED <<setting, evals, reported>> /\ pc # "ended" /\ pc' = "ended" /\ job' = RecordEnd(job)
    BY <1>5 DEF EndRun
  <2>2. PICK rep \in Seq(ReportType) : rep = reported
    BY DEF JobInv
  <2>3. PICK j : j = job
    OBVIOUS
  <2>4. PICK z : z = RecordEnd(j)
    OBVIOUS
  <2>5. Rises(rep) /\ Kept(setting, rep, j) /\ setting \in Settings
    BY <2>1, <2>2, <2>3 DEF JobInv, LedgerInv
  <2>6. Closed(setting, rep, z)
    BY <2>2, <2>4, <2>5, EndCloses
  <2>7. job' = z
    BY <2>1, <2>3, <2>4
  <2>8. QED
    BY <2>1, <2>2, <2>6, <2>7 DEF JobInv
<1>6. ASSUME UNCHANGED <<setting, vars>> PROVE JobInv'
  BY <1>6 DEF vars, driver, JobInv
<1>7. QED
  BY <1>1, <1>2, <1>3, <1>4, <1>5, <1>6 DEF Next

\* A run begins with none.
LEMMA JobBegins == Init => JobInv
<1> SUFFICES ASSUME Init PROVE JobInv
  OBVIOUS
<1>1. PICK rep : rep = <<>>
  OBVIOUS
<1>2. PICK j : j = [nextI |-> 1, held |-> NotHeld, lines |-> <<>>, lastFe |-> 0]
  OBVIOUS
<1>3. j.nextI = 1 /\ j.held = NotHeld /\ j.lines = <<>> /\ j.lastFe = 0
  BY <1>2
<1>4. setting \in Settings /\ reported = rep /\ job = j /\ pc = "setup"
  BY <1>1, <1>2 DEF Init
<1>5. PICK counts \in SUBSET (Nat \ {0}) : counts = setting.counts
  BY <1>4, SettingIs
<1>6. rep \in Seq(ReportType) /\ Len(rep) = 0 /\ Rises(rep) /\ Reach(rep) = 0
  BY <1>1 DEF Rises, Reach
<1>7. Len(j.lines) = 0 /\ j.lines \in Seq(LineType)
  BY <1>3
<1>8. JobShape(j) /\ InOrder(j)
  BY <1>2, <1>3, <1>7 DEF JobShape, InOrder
<1>9. Below(counts, 0) = 0
  <2>1. \A c \in counts : ~(c <= 0)
    OBVIOUS
  <2>2. {c \in counts : c <= 0} = {}
    BY <2>1
  <2>3. QED
    BY <2>2, FS_EmptySet DEF Below
<1>10. BudgetTrue(rep, j, counts, FALSE)
  BY <1>1, <1>3, <1>6, <1>7, <1>8 DEF BudgetTrue
<1>11. LogTrue(rep, j, counts)
  BY <1>6 DEF LogTrue
<1>12. Kept(setting, rep, j)
  <2>1. j.nextI = 1 + Below(counts, Reach(rep))
    BY <1>3, <1>6, <1>9
  <2>2. QED
    BY <1>5, <1>8, <1>10, <1>11, <2>1 DEF Kept
<1>13. QED
  BY <1>4, <1>6, <1>12 DEF JobInv

-----------------------------------------------------------------------------
(* What the records say.                                                   *)

\* The greatest of a set of numbers.
LEMMA MaxAmong ==
  ASSUME NEW S \in SUBSET Nat, NEW x \in S, \A y \in S : y <= x
  PROVE  Max(S) = x
<1>1. \E y \in S : \A w \in S : y >= w
  OBVIOUS
<1>2. Max(S) \in S /\ \A w \in S : Max(S) >= w
  BY <1>1 DEF Max
<1>3. PICK m : m = Max(S)
  OBVIOUS
<1>4. m \in S /\ m >= x
  BY <1>2, <1>3
<1>5. m \in Nat /\ x \in Nat /\ m <= x
  BY <1>4
<1>6. QED
  BY <1>3, <1>4, <1>5

\* The least of a set of numbers.
LEMMA MinAmong ==
  ASSUME NEW S \in SUBSET Nat, NEW x \in S, \A y \in S : x <= y
  PROVE  Min(S) = x
<1>1. \E y \in S : \A w \in S : y <= w
  OBVIOUS
<1>2. Min(S) \in S /\ \A w \in S : Min(S) <= w
  BY <1>1 DEF Min
<1>3. PICK m : m = Min(S)
  OBVIOUS
<1>4. m \in S /\ m <= x
  BY <1>2, <1>3
<1>5. m \in Nat /\ x \in Nat /\ x <= m
  BY <1>4
<1>6. QED
  BY <1>3, <1>4, <1>5

\* Reports have numbers.
LEMMA ReportIs ==
  ASSUME NEW rep \in Seq(ReportType)
  PROVE  Len(rep) \in Nat /\ DOMAIN rep = 1..Len(rep)
         /\ \A i \in 1..Len(rep) : rep[i].fe \in Nat /\ rep[i].gen \in Nat
<1>1. SUFFICES ASSUME NEW i \in 1..Len(rep) PROVE rep[i].fe \in Nat /\ rep[i].gen \in Nat
  OBVIOUS
<1>2. rep[i] \in ReportType
  OBVIOUS
<1>3. QED
  BY <1>2 DEF ReportType

\* The population that stands at a count is the one PopulationAt names.
LEMMA StandsAt ==
  ASSUME reported \in Seq(ReportType), Rises(reported), NEW b \in Nat, NEW k \in 1..Len(reported),
         PopAt(reported, b, k)
  PROVE  PopulationAt(b) = reported[k].gen
<1>1. PICK rep \in Seq(ReportType) : rep = reported
  OBVIOUS
<1>2. PICK n \in Nat : n = Len(rep) /\ DOMAIN rep = 1..n /\ \A i \in 1..n : rep[i].fe \in Nat
  BY ReportIs
<1>3. PICK at : at = {i \in DOMAIN rep : rep[i].fe = b}
  OBVIOUS
<1>4. PICK within : within = {i \in DOMAIN rep : rep[i].fe < b}
  OBVIOUS
<1>5. PopulationAt(b) = rep[IF at # {} THEN Min(at) ELSE Max(within)].gen
  BY <1>1, <1>3, <1>4 DEF PopulationAt
<1>6. k \in 1..n /\ at \in SUBSET Nat /\ within \in SUBSET Nat
  BY <1>1, <1>2, <1>3, <1>4
<1>7. CASE rep[k].fe = b /\ \A h \in 1..(k - 1) : rep[h].fe < b
  <2>1. k \in at
    BY <1>2, <1>3, <1>6, <1>7
  <2>2. \A i \in at : k <= i
    <3>1. SUFFICES ASSUME NEW i \in at, i < k PROVE FALSE
      BY <1>6
    <3>2. i \in 1..n /\ rep[i].fe = b
      BY <1>2, <1>3, <3>1
    <3>3. i \in 1..(k - 1)
      BY <1>6, <3>1, <3>2
    <3>4. QED
      BY <1>7, <3>2, <3>3
  <2>3. Min(at) = k
    BY <1>6, <2>1, <2>2, MinAmong
  <2>4. QED
    BY <1>1, <1>5, <2>1, <2>3
<1>8. CASE rep[k].fe < b /\ k + 1 \in 1..n /\ rep[k + 1].fe > b
  <2>1. \A i \in 1..n : IF i <= k THEN rep[i].fe < b ELSE rep[i].fe > b
    <3>1. SUFFICES ASSUME NEW i \in 1..n PROVE IF i <= k THEN rep[i].fe < b ELSE rep[i].fe > b
      OBVIOUS
    <3>2. CASE i <= k
      <4>1. rep[i].fe <= rep[k].fe
        BY <1>1, <1>2, <1>6, <3>1, <3>2 DEF Rises
      <4>2. rep[i].fe \in Nat /\ rep[k].fe \in Nat
        BY <1>2, <1>6, <3>1
      <4>3. QED
        BY <1>8, <3>2, <4>1, <4>2
    <3>3. CASE ~(i <= k)
      <4>1. k + 1 <= i
        BY <1>6, <3>1, <3>3
      <4>2. rep[k + 1].fe <= rep[i].fe
        BY <1>1, <1>2, <1>8, <3>1, <4>1 DEF Rises
      <4>3. rep[i].fe \in Nat /\ rep[k + 1].fe \in Nat
        BY <1>2, <1>8, <3>1
      <4>4. QED
        BY <1>8, <3>3, <4>2, <4>3
    <3>4. QED
      BY <3>2, <3>3
  <2>2. at = {}
    <3>1. SUFFICES ASSUME NEW i \in at PROVE FALSE
      OBVIOUS
    <3>2. i \in 1..n /\ rep[i].fe = b
      BY <1>2, <1>3, <3>1
    <3>3. QED
      BY <2>1, <3>2
  <2>3. k \in within /\ \A i \in within : i <= k
    <3>1. k \in within
      BY <1>2, <1>4, <1>6, <1>8
    <3>2. SUFFICES ASSUME NEW i \in within PROVE i <= k
      BY <3>1
    <3>3. i \in 1..n /\ rep[i].fe < b /\ rep[i].fe \in Nat
      BY <1>2, <1>4, <3>2
    <3>4. QED
      BY <2>1, <3>3
  <2>4. Max(within) = k
    BY <1>6, <2>3, MaxAmong
  <2>5. QED
    BY <1>1, <1>5, <2>2, <2>4
<1>9. QED
  BY <1>1, <1>2, <1>7, <1>8 DEF PopAt

\* The records on the grid of counts.
LEMMA BudgetRecords ==
  ASSUME reported \in Seq(ReportType), Rises(reported), reported # <<>>,
         NEW counts \in SUBSET (Nat \ {0}), NEW ended \in BOOLEAN, BudgetTrue(reported, job, counts, ended)
  PROVE  LET fes == {reported[i].fe : i \in DOMAIN reported}
             of(b) == {i \in DOMAIN job.lines : job.lines[i].fe = b}
         IN  /\ \A b \in counts : b \in Min(fes)..Max(fes) => Cardinality(of(b)) = 1
             /\ \A i \in DOMAIN job.lines :
                   job.lines[i].gen = IF job.lines[i].fe \in counts
                                      THEN PopulationAt(job.lines[i].fe) ELSE Last(reported).gen
             /\ ended /\ Max(fes) > 0 => Last(job.lines).fe = Max(fes)
<1>1. PICK rep \in Seq(ReportType) : rep = reported
  OBVIOUS
<1>2. PICK n \in Nat : n = Len(rep) /\ DOMAIN rep = 1..n /\ \A i \in 1..n : rep[i].fe \in Nat
  BY ReportIs
<1>3. PICK fes : fes = {reported[i].fe : i \in DOMAIN reported}
  OBVIOUS
<1>4. n \in 1..n /\ 1 \in 1..n /\ Reach(rep) = rep[n].fe
  BY <1>1, <1>2 DEF Reach, Last
<1>5. fes \in SUBSET Nat /\ rep[1].fe \in fes /\ rep[n].fe \in fes
      /\ \A y \in fes : rep[1].fe <= y /\ y <= rep[n].fe
  <2>1. \A i \in 1..n : rep[1].fe <= rep[i].fe /\ rep[i].fe <= rep[n].fe
    BY <1>1, <1>2, <1>4 DEF Rises
  <2>2. fes = {rep[i].fe : i \in 1..n}
    BY <1>1, <1>2, <1>3
  <2>3. QED
    BY <1>2, <1>4, <2>1, <2>2
<1>6. Min(fes) = rep[1].fe
  BY <1>5, MinAmong
<1>7. Max(fes) = Reach(rep) /\ Reach(rep) \in Nat
  BY <1>4, <1>5, MaxAmong
<1>8. PICK lines : lines = job.lines
  OBVIOUS
<1>9. /\ lines \in Seq(LineType)
      /\ \A h, i \in 1..Len(lines) : h < i => lines[h].fe < lines[i].fe
      /\ \A b \in counts : rep[1].fe <= b /\ b <= Reach(rep) => \E i \in 1..Len(lines) : lines[i].fe = b
      /\ \A i \in 1..Len(lines) :
            \/ /\ lines[i].fe \in counts
               /\ \E k \in 1..n : PopAt(rep, lines[i].fe, k) /\ lines[i].gen = rep[k].gen
            \/ lines[i].fe \notin counts /\ lines[i].gen = Last(rep).gen
      /\ ended /\ Reach(rep) > 0 => Last(lines).fe = Reach(rep)
  BY <1>1, <1>2, <1>8 DEF BudgetTrue, InOrder
<1>10. PICK m \in Nat : m = Len(lines) /\ DOMAIN lines = 1..m
  BY <1>9
<1>11. \A i \in 1..m : lines[i].fe \in Nat
  <2>1. SUFFICES ASSUME NEW i \in 1..m PROVE lines[i].fe \in Nat
    OBVIOUS
  <2>2. lines[i] \in LineType
    BY <1>9, <1>10, <2>1
  <2>3. QED
    BY <2>2 DEF LineType
<1>12. ASSUME NEW b \in counts, b \in Min(fes)..Max(fes)
       PROVE  Cardinality({i \in DOMAIN job.lines : job.lines[i].fe = b}) = 1
  <2>1. rep[1].fe <= b /\ b <= Reach(rep)
    BY <1>5, <1>6, <1>7, <1>12
  <2>2. PICK i \in 1..m : lines[i].fe = b
    BY <1>9, <1>10, <2>1
  <2>3. \A h \in 1..m : lines[h].fe = b => h = i
    <3>1. SUFFICES ASSUME NEW h \in 1..m, lines[h].fe = b, h # i PROVE FALSE
      OBVIOUS
    <3>2. h < i \/ i < h
      BY <2>2, <3>1
    <3>3. lines[h].fe < lines[i].fe \/ lines[i].fe < lines[h].fe
      BY <1>9, <1>10, <2>2, <3>1, <3>2
    <3>4. QED
      BY <1>11, <2>2, <3>1, <3>3
  <2>4. {h \in DOMAIN job.lines : job.lines[h].fe = b} = {i}
    BY <1>8, <1>10, <2>2, <2>3
  <2>5. QED
    BY <2>4, FS_Singleton
<1>13. ASSUME NEW i \in DOMAIN job.lines
       PROVE  job.lines[i].gen = IF job.lines[i].fe \in counts
                                 THEN PopulationAt(job.lines[i].fe) ELSE Last(reported).gen
  <2>1. PICK b \in Nat : b = lines[i].fe
    BY <1>8, <1>10, <1>11, <1>13
  <2>2. i \in 1..m /\ job.lines[i] = lines[i]
    BY <1>8, <1>10, <1>13
  <2>3. CASE b \in counts
    <3>1. PICK k \in 1..n : PopAt(rep, b, k) /\ lines[i].gen = rep[k].gen
      BY <1>9, <1>10, <2>1, <2>2, <2>3
    <3>2. PopulationAt(b) = reported[k].gen
      BY <1>1, <1>2, <3>1, StandsAt
    <3>3. QED
      BY <1>1, <2>1, <2>2, <2>3, <3>1, <3>2
  <2>4. CASE b \notin counts
    BY <1>1, <1>9, <1>10, <2>1, <2>2, <2>4
  <2>5. QED
    BY <2>3, <2>4
<1>14. ended /\ Max(fes) > 0 => Last(job.lines).fe = Max(fes)
  BY <1>7, <1>8, <1>9
<1>15. QED
  BY <1>3, <1>12, <1>13, <1>14

\* What the records are makes them true.
LEMMA RecordsHold == LedgerInv /\ JobInv => RecordsTrue
<1> SUFFICES ASSUME LedgerInv, JobInv PROVE RecordsTrue
  OBVIOUS
<1>1. PICK counts \in SUBSET (Nat \ {0}) : counts = setting.counts
  BY SettingIs DEF LedgerInv
<1>2. reported \in Seq(ReportType) /\ Rises(reported)
  BY DEF JobInv
<1> DEFINE fes == {reported[i].fe : i \in DOMAIN reported}
           of(b) == {i \in DOMAIN job.lines : job.lines[i].fe = b}
<1>3. setting.grid = "budgets" /\ reported # <<>> =>
        /\ \A b \in setting.counts : b \in Min(fes)..Max(fes) => Cardinality(of(b)) = 1
        /\ \A i \in DOMAIN job.lines :
              job.lines[i].gen = IF job.lines[i].fe \in setting.counts
                                 THEN PopulationAt(job.lines[i].fe) ELSE Last(reported).gen
        /\ pc = "ended" /\ Max(fes) > 0 => Last(job.lines).fe = Max(fes)
  <2>1. SUFFICES ASSUME setting.grid = "budgets", reported # <<>>
                 PROVE  /\ \A b \in counts : b \in Min(fes)..Max(fes) => Cardinality(of(b)) = 1
                        /\ \A i \in DOMAIN job.lines :
                              job.lines[i].gen = IF job.lines[i].fe \in counts
                                                 THEN PopulationAt(job.lines[i].fe) ELSE Last(reported).gen
                        /\ pc = "ended" /\ Max(fes) > 0 => Last(job.lines).fe = Max(fes)
    BY <1>1
  <2>2. CASE pc = "ended"
    <3>1. BudgetTrue(reported, job, counts, TRUE)
      BY <1>1, <2>1, <2>2 DEF JobInv, Closed
    <3>2. QED
      BY <1>2, <2>1, <3>1, BudgetRecords
  <2>3. CASE pc # "ended"
    <3>1. BudgetTrue(reported, job, counts, FALSE)
      BY <1>1, <2>1, <2>3 DEF JobInv, Kept
    <3>2. QED
      BY <1>2, <2>1, <2>3, <3>1, BudgetRecords
  <2>4. QED
    BY <2>2, <2>3
<1>4. setting.grid = "log" =>
        \A b \in setting.counts : \A i \in DOMAIN reported :
           reported[i].fe >= b /\ (\A h \in 1..(i - 1) : reported[h].fe < b) =>
              [gen |-> reported[i].gen, fe |-> reported[i].fe] \in Range(job.lines)
  <2>1. SUFFICES ASSUME setting.grid = "log", NEW b \in counts, NEW i \in DOMAIN reported,
                        reported[i].fe >= b, \A h \in 1..(i - 1) : reported[h].fe < b
                 PROVE  [gen |-> reported[i].gen, fe |-> reported[i].fe] \in Range(job.lines)
    BY <1>1
  <2>2. LogTrue(reported, job, counts) /\ job.lines \in Seq(LineType)
    BY <1>1, <2>1 DEF JobInv, Kept, Closed, JobShape
  <2>3. i \in 1..Len(reported)
    BY <1>2, <2>1
  <2>4. PICK k \in 1..Len(job.lines) : job.lines[k] = [gen |-> reported[i].gen, fe |-> reported[i].fe]
    BY <2>1, <2>2, <2>3 DEF LogTrue
  <2>5. k \in DOMAIN job.lines
    BY <2>2, <2>4
  <2>6. QED
    BY <2>4, <2>5 DEF Range
<1>5. QED
  BY <1>3, <1>4 DEF RecordsTrue

\* On the grid of counts every count passed has one record, of the population the run had there,
\* and the run's last population has the last; on the log grid every count has the first population
\* at or past it - for any grid, budget, stride and core (JobRun::on_gen, record, run).
THEOREM RecordsAreTrue == Spec => []RecordsTrue
<1>1. Init => LedgerInv /\ ReportedInv /\ JobInv
  BY LedgerBegins, JobBegins
<1>2. LedgerInv /\ ReportedInv /\ JobInv /\ [Next]_<<setting, vars>> => (LedgerInv /\ ReportedInv /\ JobInv)'
  BY LedgerStep, JobStep
<1>3. LedgerInv /\ ReportedInv /\ JobInv => RecordsTrue
  BY RecordsHold
<1>4. QED
  BY <1>1, <1>2, <1>3, PTL DEF Spec

-----------------------------------------------------------------------------
(* The archive's operations.                                               *)

ArcShape(a) ==
  /\ a = [F |-> a.F, live |-> a.live, cellOf |-> a.cellOf, cell |-> a.cell, ext |-> a.ext,
          lo |-> a.lo, span |-> a.span, own |-> a.own, cap |-> a.cap]
  /\ a.F \in Seq(Nat \X Nat) /\ a.live \in SUBSET (1..Len(a.F))

\* The grid, with the slots of S loose: live, no objective's best and in no cell.
Grid(a, S) ==
  /\ \A j \in Objectives : a.ext[j] \in a.live \cup {0}
  /\ S \in SUBSET a.live
  /\ \A s \in a.live : s \in S <=> ~IsExtreme(a, s) /\ s \notin DOMAIN a.cellOf
  /\ \A s \in a.live : ~(IsExtreme(a, s) /\ s \in DOMAIN a.cellOf)
  /\ \A s \in DOMAIN a.cellOf :
        /\ s \in a.live /\ a.cellOf[s] = Key(a, a.F[s])
        /\ a.cellOf[s] \in DOMAIN a.cell /\ a.cell[a.cellOf[s]] = s
  /\ \A c \in DOMAIN a.cell : a.cell[c] \in DOMAIN a.cellOf /\ a.cellOf[a.cell[c]] = c

SameFrame(a, b) == b.lo = a.lo /\ b.span = a.span /\ b.own = a.own

\* b is a with fewer points, one left in the cell of each.
Fewer(a, b) ==
  /\ b.F = a.F /\ SameFrame(a, b) /\ b.live \in SUBSET a.live
  /\ \A j \in Objectives : b.ext[j] = a.ext[j]
  /\ \A s \in a.live : \E t \in b.live : Key(b, b.F[t]) = Key(a, a.F[s])

LEMMA KeySame ==
  ASSUME NEW a, NEW b, SameFrame(a, b), NEW f
  PROVE  Key(b, f) = Key(a, f)
BY DEF SameFrame, Key

\* What Without and InCell do, field by field.
Removed(a, b, T) ==
  /\ ArcShape(b) /\ b.F = a.F /\ b.live = a.live \ T /\ SameFrame(a, b) /\ b.cap = a.cap
  /\ DOMAIN b.cellOf = DOMAIN a.cellOf \ T /\ \A s \in DOMAIN b.cellOf : b.cellOf[s] = a.cellOf[s]
  /\ DOMAIN b.cell = {c \in DOMAIN a.cell : a.cell[c] \notin T}
  /\ \A c \in DOMAIN b.cell : b.cell[c] = a.cell[c]
  /\ \A j \in Objectives : b.ext[j] = IF a.ext[j] \in T THEN 0 ELSE a.ext[j]

LEMMA WithoutIs ==
  ASSUME NEW a, ArcShape(a), NEW T, NEW b, b = Without(a, T)
  PROVE  Removed(a, b, T)
<1>1. a = [F |-> a.F, live |-> a.live, cellOf |-> a.cellOf, cell |-> a.cell, ext |-> a.ext,
           lo |-> a.lo, span |-> a.span, own |-> a.own, cap |-> a.cap]
  BY DEF ArcShape
<1>2. PICK live : live = a.live \ T
  OBVIOUS
<1>3. PICK cellOf : cellOf = [s \in DOMAIN a.cellOf \ T |-> a.cellOf[s]]
  OBVIOUS
<1>4. PICK cell : cell = [c \in {d \in DOMAIN a.cell : a.cell[d] \notin T} |-> a.cell[c]]
  OBVIOUS
<1>5. PICK ext : ext = [j \in Objectives |-> IF a.ext[j] \in T THEN 0 ELSE a.ext[j]]
  OBVIOUS
<1>6. b = [a EXCEPT !.live = live, !.cellOf = cellOf, !.cell = cell, !.ext = ext]
  BY <1>2, <1>3, <1>4, <1>5 DEF Without
<1>7. b = [F |-> a.F, live |-> live, cellOf |-> cellOf, cell |-> cell, ext |-> ext,
           lo |-> a.lo, span |-> a.span, own |-> a.own, cap |-> a.cap]
  BY <1>1, <1>6
<1>8. /\ b.F = a.F /\ b.live = live /\ b.cellOf = cellOf /\ b.cell = cell /\ b.ext = ext
      /\ b.lo = a.lo /\ b.span = a.span /\ b.own = a.own /\ b.cap = a.cap
  BY <1>7
<1>9. ArcShape(b)
  <2>1. a.F \in Seq(Nat \X Nat) /\ live \in SUBSET (1..Len(a.F))
    BY <1>2 DEF ArcShape
  <2>2. QED
    BY <1>7, <1>8, <2>1 DEF ArcShape
<1>10. DOMAIN cellOf = DOMAIN a.cellOf \ T /\ \A s \in DOMAIN cellOf : cellOf[s] = a.cellOf[s]
  BY <1>3
<1>11. DOMAIN cell = {c \in DOMAIN a.cell : a.cell[c] \notin T} /\ \A c \in DOMAIN cell : cell[c] = a.cell[c]
  BY <1>4
<1>12. \A j \in Objectives : ext[j] = IF a.ext[j] \in T THEN 0 ELSE a.ext[j]
  BY <1>5
<1>13. QED
  BY <1>2, <1>8, <1>9, <1>10, <1>11, <1>12 DEF Removed, SameFrame

Housed(a, b, s, c) ==
  /\ ArcShape(b) /\ b.F = a.F /\ b.live = a.live /\ SameFrame(a, b) /\ b.cap = a.cap
  /\ DOMAIN b.cellOf = DOMAIN a.cellOf \cup {s} /\ b.cellOf[s] = c
  /\ \A t \in DOMAIN a.cellOf : t # s => b.cellOf[t] = a.cellOf[t]
  /\ DOMAIN b.cell = DOMAIN a.cell \cup {c} /\ b.cell[c] = s
  /\ \A d \in DOMAIN a.cell : d # c => b.cell[d] = a.cell[d]
  /\ \A j \in Objectives : b.ext[j] = a.ext[j]

LEMMA InCellIs ==
  ASSUME NEW a, ArcShape(a), NEW s, NEW b, b = InCell(a, s), NEW c, c = Key(a, a.F[s])
  PROVE  Housed(a, b, s, c)
<1>1. a = [F |-> a.F, live |-> a.live, cellOf |-> a.cellOf, cell |-> a.cell, ext |-> a.ext,
           lo |-> a.lo, span |-> a.span, own |-> a.own, cap |-> a.cap]
  BY DEF ArcShape
<1>2. PICK cellOf : cellOf = [y \in DOMAIN a.cellOf \cup {s} |-> IF y = s THEN c ELSE a.cellOf[y]]
  OBVIOUS
<1>3. PICK cell : cell = [y \in DOMAIN a.cell \cup {c} |-> IF y = c THEN s ELSE a.cell[y]]
  OBVIOUS
<1>4. b = [a EXCEPT !.cellOf = cellOf, !.cell = cell]
  BY <1>2, <1>3 DEF InCell, With
<1>5. b = [F |-> a.F, live |-> a.live, cellOf |-> cellOf, cell |-> cell, ext |-> a.ext,
           lo |-> a.lo, span |-> a.span, own |-> a.own, cap |-> a.cap]
  BY <1>1, <1>4
<1>6. /\ b.F = a.F /\ b.live = a.live /\ b.cellOf = cellOf /\ b.cell = cell /\ b.ext = a.ext
      /\ b.lo = a.lo /\ b.span = a.span /\ b.own = a.own /\ b.cap = a.cap
  BY <1>5
<1>7. ArcShape(b)
  <2>1. a.F \in Seq(Nat \X Nat) /\ a.live \in SUBSET (1..Len(a.F))
    BY DEF ArcShape
  <2>2. QED
    BY <1>5, <1>6, <2>1 DEF ArcShape
<1>8. DOMAIN cellOf = DOMAIN a.cellOf \cup {s} /\ cellOf[s] = c
      /\ \A t \in DOMAIN a.cellOf : t # s => cellOf[t] = a.cellOf[t]
  BY <1>2
<1>9. DOMAIN cell = DOMAIN a.cell \cup {c} /\ cell[c] = s
      /\ \A d \in DOMAIN a.cell : d # c => cell[d] = a.cell[d]
  BY <1>3
<1>10. QED
  BY <1>6, <1>7, <1>8, <1>9 DEF Housed, SameFrame

\* Slots removed, loose or not.
LEMMA WithoutKeeps ==
  ASSUME NEW a, ArcShape(a), NEW S, Grid(a, S), NEW T, 0 \notin T, NEW b, Removed(a, b, T)
  PROVE  Grid(b, S \ T)
<1>1. /\ \A j \in Objectives : a.ext[j] \in a.live \cup {0}
      /\ S \in SUBSET a.live
      /\ \A s \in a.live : s \in S <=> ~IsExtreme(a, s) /\ s \notin DOMAIN a.cellOf
      /\ \A s \in a.live : ~(IsExtreme(a, s) /\ s \in DOMAIN a.cellOf)
      /\ \A s \in DOMAIN a.cellOf :
            /\ s \in a.live /\ a.cellOf[s] = Key(a, a.F[s])
            /\ a.cellOf[s] \in DOMAIN a.cell /\ a.cell[a.cellOf[s]] = s
      /\ \A c \in DOMAIN a.cell : a.cell[c] \in DOMAIN a.cellOf /\ a.cellOf[a.cell[c]] = c
  BY DEF Grid
<1>2. /\ b.F = a.F /\ b.live = a.live \ T /\ SameFrame(a, b)
      /\ DOMAIN b.cellOf = DOMAIN a.cellOf \ T /\ \A s \in DOMAIN b.cellOf : b.cellOf[s] = a.cellOf[s]
      /\ DOMAIN b.cell = {c \in DOMAIN a.cell : a.cell[c] \notin T}
      /\ \A c \in DOMAIN b.cell : b.cell[c] = a.cell[c]
      /\ \A j \in Objectives : b.ext[j] = IF a.ext[j] \in T THEN 0 ELSE a.ext[j]
  BY DEF Removed
<1>3. \A f : Key(b, f) = Key(a, f)
  BY <1>2, KeySame
<1>4. \A s \in b.live : s # 0 /\ s \in a.live /\ s \notin T
  <2>1. 0 \notin a.live
    BY DEF ArcShape
  <2>2. QED
    BY <1>2, <2>1
<1>5. \A s \in b.live : IsExtreme(b, s) <=> IsExtreme(a, s)
  BY <1>2, <1>4 DEF IsExtreme
<1>6. \A j \in Objectives : b.ext[j] \in b.live \cup {0}
  BY <1>1, <1>2
<1>7. \A s \in b.live : s \in S \ T <=> ~IsExtreme(b, s) /\ s \notin DOMAIN b.cellOf
  BY <1>1, <1>2, <1>4, <1>5
<1>8. \A s \in b.live : ~(IsExtreme(b, s) /\ s \in DOMAIN b.cellOf)
  BY <1>1, <1>2, <1>4, <1>5
<1>9. \A s \in DOMAIN b.cellOf :
         /\ s \in b.live /\ b.cellOf[s] = Key(b, b.F[s])
         /\ b.cellOf[s] \in DOMAIN b.cell /\ b.cell[b.cellOf[s]] = s
  BY <1>1, <1>2, <1>3
<1>10. \A c \in DOMAIN b.cell : b.cell[c] \in DOMAIN b.cellOf /\ b.cellOf[b.cell[c]] = c
  BY <1>1, <1>2
<1>11. S \ T \in SUBSET b.live
  BY <1>1, <1>2
<1>12. QED
  BY <1>6, <1>7, <1>8, <1>9, <1>10, <1>11 DEF Grid

\* A loose slot into a cell that is free.
LEMMA InCellKeeps ==
  ASSUME NEW a, NEW S, Grid(a, S), NEW s \in S, NEW c, c = Key(a, a.F[s]), c \notin DOMAIN a.cell,
         NEW b, Housed(a, b, s, c)
  PROVE  Grid(b, S \ {s})
<1>1. /\ \A j \in Objectives : a.ext[j] \in a.live \cup {0}
      /\ S \in SUBSET a.live
      /\ \A t \in a.live : t \in S <=> ~IsExtreme(a, t) /\ t \notin DOMAIN a.cellOf
      /\ \A t \in a.live : ~(IsExtreme(a, t) /\ t \in DOMAIN a.cellOf)
      /\ \A t \in DOMAIN a.cellOf :
            /\ t \in a.live /\ a.cellOf[t] = Key(a, a.F[t])
            /\ a.cellOf[t] \in DOMAIN a.cell /\ a.cell[a.cellOf[t]] = t
      /\ \A d \in DOMAIN a.cell : a.cell[d] \in DOMAIN a.cellOf /\ a.cellOf[a.cell[d]] = d
  BY DEF Grid
<1>2. /\ b.F = a.F /\ b.live = a.live /\ SameFrame(a, b)
      /\ DOMAIN b.cellOf = DOMAIN a.cellOf \cup {s} /\ b.cellOf[s] = c
      /\ \A t \in DOMAIN a.cellOf : t # s => b.cellOf[t] = a.cellOf[t]
      /\ DOMAIN b.cell = DOMAIN a.cell \cup {c} /\ b.cell[c] = s
      /\ \A d \in DOMAIN a.cell : d # c => b.cell[d] = a.cell[d]
      /\ \A j \in Objectives : b.ext[j] = a.ext[j]
  BY DEF Housed
<1>3. \A f : Key(b, f) = Key(a, f)
  BY <1>2, KeySame
<1>4. s \in a.live /\ ~IsExtreme(a, s) /\ s \notin DOMAIN a.cellOf
  BY <1>1
<1>5. \A t : IsExtreme(b, t) <=> IsExtreme(a, t)
  BY <1>2 DEF IsExtreme
<1>6. \A t \in b.live : t \in S \ {s} <=> ~IsExtreme(b, t) /\ t \notin DOMAIN b.cellOf
  BY <1>1, <1>2, <1>4, <1>5
<1>7. \A t \in b.live : ~(IsExtreme(b, t) /\ t \in DOMAIN b.cellOf)
  BY <1>1, <1>2, <1>4, <1>5
<1>8. \A t \in DOMAIN b.cellOf :
         /\ t \in b.live /\ b.cellOf[t] = Key(b, b.F[t])
         /\ b.cellOf[t] \in DOMAIN b.cell /\ b.cell[b.cellOf[t]] = t
  BY <1>1, <1>2, <1>3, <1>4
<1>9. \A d \in DOMAIN b.cell : b.cell[d] \in DOMAIN b.cellOf /\ b.cellOf[b.cell[d]] = d
  BY <1>1, <1>2, <1>4
<1>10. (\A j \in Objectives : b.ext[j] \in b.live \cup {0}) /\ S \ {s} \in SUBSET b.live
  BY <1>1, <1>2
<1>11. QED
  BY <1>6, <1>7, <1>8, <1>9, <1>10 DEF Grid

Settled(a, b, S) == ArcShape(b) /\ Grid(b, S) /\ Fewer(a, b)

\* A loose slot placed.
LEMMA PlaceKeeps ==
  ASSUME NEW a, ArcShape(a), NEW S, Grid(a, S), NEW s \in S, NEW b, b = Place(a, s)
  PROVE  Settled(a, b, S \ {s})
<1>1. PICK c : c = Key(a, a.F[s])
  OBVIOUS
<1>2. s \in a.live /\ ~IsExtreme(a, s) /\ s \notin DOMAIN a.cellOf /\ 0 \notin a.live
  BY DEF Grid, ArcShape
<1>3. CASE c \notin DOMAIN a.cell
  <2>1. b = InCell(a, s)
    BY <1>1, <1>3 DEF Place
  <2>2. Housed(a, b, s, c)
    BY <1>1, <2>1, InCellIs
  <2>3. Grid(b, S \ {s})
    BY <1>1, <1>3, <2>2, InCellKeeps
  <2>4. b.F = a.F /\ b.live = a.live /\ SameFrame(a, b) /\ ArcShape(b) /\ \A j \in Objectives : b.ext[j] = a.ext[j]
    BY <2>2 DEF Housed
  <2>5. \A f : Key(b, f) = Key(a, f)
    BY <2>4, KeySame
  <2>6. QED
    BY <2>3, <2>4, <2>5 DEF Settled, Fewer
<1>4. CASE c \in DOMAIN a.cell
  <2>1. PICK q : q = a.cell[c]
    OBVIOUS
  <2>2. q \in DOMAIN a.cellOf /\ a.cellOf[q] = c /\ q \in a.live /\ c = Key(a, a.F[q]) /\ q # s /\ q # 0
        /\ ~IsExtreme(a, q)
    BY <1>2, <1>4, <2>1 DEF Grid
  <2>3. CASE Corner(a, a.F[s]) < Corner(a, a.F[q])
    <3>1. PICK w : w = Without(a, {q})
      OBVIOUS
    <3>2. b = InCell(w, s)
      BY <1>1, <1>4, <2>1, <2>3, <3>1 DEF Place
    <3>3. Removed(a, w, {q})
      BY <3>1, WithoutIs
    <3>4. Grid(w, S \ {q})
      BY <2>2, <3>3, WithoutKeeps
    <3>5. ArcShape(w) /\ w.F = a.F /\ w.live = a.live \ {q} /\ SameFrame(a, w)
          /\ DOMAIN w.cell = {d \in DOMAIN a.cell : a.cell[d] # q}
          /\ \A j \in Objectives : w.ext[j] = IF a.ext[j] = q THEN 0 ELSE a.ext[j]
      BY <3>3 DEF Removed
    <3>6. c = Key(w, w.F[s]) /\ c \notin DOMAIN w.cell /\ s \in S \ {q} /\ S \ {q} = S
      <4>1. Key(w, a.F[s]) = Key(a, a.F[s])
        BY <3>5, KeySame
      <4>2. q \notin S
        BY <2>2 DEF Grid
      <4>3. QED
        BY <1>1, <2>1, <2>2, <3>5, <4>1, <4>2
    <3>7. Housed(w, b, s, c)
      BY <3>2, <3>5, <3>6, InCellIs
    <3>8. Grid(b, S \ {s})
      BY <3>4, <3>6, <3>7, InCellKeeps
    <3>9. /\ b.F = a.F /\ b.live = a.live \ {q} /\ SameFrame(a, b) /\ ArcShape(b)
          /\ \A j \in Objectives : b.ext[j] = a.ext[j]
      <4>1. \A j \in Objectives : a.ext[j] # q
        BY <2>2 DEF IsExtreme
      <4>2. QED
        BY <3>5, <3>7, <4>1 DEF Housed, SameFrame
    <3>10. \A f : Key(b, f) = Key(a, f)
      BY <3>9, KeySame
    <3>11. \A t \in a.live : \E u \in b.live : Key(b, b.F[u]) = Key(a, a.F[t])
      <4>1. s \in b.live /\ Key(b, b.F[s]) = Key(a, a.F[q])
        BY <1>1, <1>2, <2>2, <3>9, <3>10
      <4>2. \A t \in a.live : t # q => t \in b.live /\ Key(b, b.F[t]) = Key(a, a.F[t])
        BY <3>9, <3>10
      <4>3. QED
        BY <4>1, <4>2
    <3>12. QED
      BY <3>8, <3>9, <3>11 DEF Settled, Fewer
  <2>4. CASE ~(Corner(a, a.F[s]) < Corner(a, a.F[q]))
    <3>1. b = Without(a, {s})
      BY <1>1, <1>4, <2>1, <2>4 DEF Place
    <3>2. Removed(a, b, {s})
      BY <3>1, WithoutIs
    <3>3. 0 \notin {s}
      BY <1>2
    <3>4. Grid(b, S \ {s})
      BY <3>2, <3>3, WithoutKeeps
    <3>5. /\ b.F = a.F /\ b.live = a.live \ {s} /\ SameFrame(a, b) /\ ArcShape(b)
          /\ \A j \in Objectives : b.ext[j] = a.ext[j]
      <4>1. \A j \in Objectives : a.ext[j] # s
        BY <1>2 DEF IsExtreme
      <4>2. QED
        BY <3>2, <4>1 DEF Removed
    <3>6. \A f : Key(b, f) = Key(a, f)
      BY <3>5, KeySame
    <3>7. \A t \in a.live : \E u \in b.live : Key(b, b.F[u]) = Key(a, a.F[t])
      <4>1. q \in b.live /\ Key(b, b.F[q]) = Key(a, a.F[s])
        BY <1>1, <2>2, <3>5, <3>6
      <4>2. \A t \in a.live : t # s => t \in b.live /\ Key(b, b.F[t]) = Key(a, a.F[t])
        BY <3>5, <3>6
      <4>3. QED
        BY <4>1, <4>2
    <3>8. QED
      BY <3>4, <3>5, <3>7 DEF Settled, Fewer
  <2>5. QED
    BY <2>3, <2>4
<1>5. QED
  BY <1>3, <1>4

-----------------------------------------------------------------------------
(* Slots placed one after the other.                                       *)

\* What a becomes of D's numbers, one after the other up to n.
Stages(t, n, D, a, which, data) ==
  t[0] = a /\ \A k \in 1..n : t[k] = IF k \in D THEN Step(which, data, t[k - 1], k) ELSE t[k - 1]

LEMMA StagesIs ==
  ASSUME NEW n \in Nat, NEW D \in SUBSET (1..n), NEW a, NEW which, NEW data, NEW g,
         Iterates(g, D, a, which, data)
  PROVE  \E t : Stages(t, n, D, a, which, data) /\ t[n] = g[D]
<1> DEFINE U(k) == {b \in D : b <= k}
<1>1. PICK t : t = [k \in 0..n |-> g[U(k)]]
  OBVIOUS
<1>2. \A b \in D : b \in Nat /\ 1 <= b /\ b <= n
  OBVIOUS
<1>3. /\ \A k \in 0..n : U(k) \in SUBSET D
      /\ U(0) = {} /\ U(n) = D /\ 0 \in 0..n /\ n \in 0..n
      /\ \A k \in 1..n : k \in 0..n /\ k - 1 \in 0..n
  <2>1. U(0) = {} /\ U(n) = D
    <3>1. \A b \in D : ~(b <= 0) /\ b <= n
      BY <1>2
    <3>2. U(0) = {}
      BY <3>1
    <3>3. U(n) = D
      BY <3>1
    <3>4. QED
      BY <3>2, <3>3
  <2>2. QED
    BY <2>1
<1>4. g[{}] = a
  BY DEF Iterates
<1>5. t[0] = a /\ t[n] = g[D]
  BY <1>1, <1>3, <1>4
<1>6. ASSUME NEW k \in 1..n PROVE t[k] = IF k \in D THEN Step(which, data, t[k - 1], k) ELSE t[k - 1]
  <2>1. t[k] = g[U(k)] /\ t[k - 1] = g[U(k - 1)] /\ U(k) \in SUBSET D
    BY <1>1, <1>3
  <2>2. CASE k \notin D
    <3>1. U(k) = U(k - 1)
      <4>1. \A b \in D : b <= k <=> b <= k - 1
        BY <1>2, <2>2
      <4>2. QED
        BY <4>1
    <3>2. QED
      BY <2>1, <2>2, <3>1
  <2>3. CASE k \in D
    <3>1. PICK j \in Nat : j = k - 1 /\ k = j + 1
      OBVIOUS
    <3>2. U(k) \in SUBSET (1..(j + 1)) /\ j + 1 \in U(k) /\ U(k) # {} /\ U(k) \ {k} = U(k - 1)
      <4>1. k \in U(k) /\ \A b \in U(k) : b \in 1..(j + 1)
        BY <1>2, <2>3, <3>1
      <4>2. \A b \in D : b <= k /\ b # k <=> b <= k - 1
        BY <1>2
      <4>3. U(k) \ {k} = U(k - 1)
        BY <4>2
      <4>4. QED
        BY <3>1, <4>1, <4>3
    <3> HIDE DEF U
    <3>3. Max(U(k)) = k
      BY <3>1, <3>2, MaxOfUpTo
    <3>4. g[U(k)] = Step(which, data, g[U(k) \ {Max(U(k))}], Max(U(k)))
      BY <2>1, <3>2 DEF Iterates
    <3>5. QED
      BY <2>1, <2>3, <3>2, <3>3, <3>4
  <2>4. QED
    BY <2>2, <2>3
<1>7. QED
  BY <1>5, <1>6 DEF Stages

PutStages(t, n, D, a, ext, except) ==
  /\ t[0] = a /\ \A k \in 1..n : t[k] = IF k \in D THEN Put(ext, except, t[k - 1], k) ELSE t[k - 1]
  /\ t[n] = Rising(LAMBDA b, s : Put(ext, except, b, s), a, D)

LEMMA PutFold ==
  ASSUME NEW n \in Nat, NEW D \in SUBSET (1..n), NEW a, NEW ext, NEW except
  PROVE  \E t : PutStages(t, n, D, a, ext, except)
<1>1. PICK data : data = [ext |-> ext, except |-> except]
  OBVIOUS
<1>2. \A e, i : Step("put", data, e, i) = Put(ext, except, e, i)
  BY <1>1 DEF Step
<1>3. PICK g : g = [s \in SUBSET D |-> IF s = {} THEN a ELSE Put(ext, except, g[s \ {Max(s)}], Max(s))]
  <2>1. PICK g : Iterates(g, D, a, "put", data)
    BY Iterated
  <2>2. g = [s \in SUBSET D |-> IF s = {} THEN a ELSE Step("put", data, g[s \ {Max(s)}], Max(s))]
    BY <2>1 DEF Iterates
  <2>3. \A s \in SUBSET D : g[s] = IF s = {} THEN a ELSE Put(ext, except, g[s \ {Max(s)}], Max(s))
    BY <1>2, <2>2
  <2>4. g = [s \in SUBSET D |-> g[s]]
    BY <2>2
  <2>5. QED
    BY <2>3, <2>4
<1>4. PICK it : it = CHOOSE f : f = [s \in SUBSET D |->
                         IF s = {} THEN a ELSE Put(ext, except, f[s \ {Max(s)}], Max(s))]
  OBVIOUS
<1>5. it = [s \in SUBSET D |-> IF s = {} THEN a ELSE Put(ext, except, it[s \ {Max(s)}], Max(s))]
  BY <1>3, <1>4
<1>6. Rising(LAMBDA b, s : Put(ext, except, b, s), a, D) = it[D]
  BY <1>4 DEF Rising, MapThenFoldSet
<1>7. Iterates(it, D, a, "put", data)
  <2>1. \A s \in SUBSET D : it[s] = IF s = {} THEN a ELSE Step("put", data, it[s \ {Max(s)}], Max(s))
    BY <1>2, <1>5
  <2>2. it = [s \in SUBSET D |-> it[s]]
    BY <1>5
  <2>3. QED
    BY <2>1, <2>2 DEF Iterates
<1>8. PICK t : Stages(t, n, D, a, "put", data) /\ t[n] = it[D]
  BY <1>7, StagesIs
<1>9. t[0] = a /\ \A k \in 1..n : t[k] = IF k \in D THEN Put(ext, except, t[k - 1], k) ELSE t[k - 1]
  BY <1>2, <1>8 DEF Stages
<1>10. PutStages(t, n, D, a, ext, except)
  BY <1>6, <1>8, <1>9 DEF PutStages
<1>11. QED
  BY <1>10

BackStages(t, n, D, a) ==
  /\ t[0] = a /\ \A k \in 1..n : t[k] = IF k \in D THEN Back(t[k - 1], k) ELSE t[k - 1]
  /\ t[n] = Rising(Back, a, D)

LEMMA BackFold ==
  ASSUME NEW n \in Nat, NEW D \in SUBSET (1..n), NEW a
  PROVE  \E t : BackStages(t, n, D, a)
<1>1. \A e, i : Step("back", 0, e, i) = Back(e, i)
  BY DEF Step
<1>2. PICK g : g = [s \in SUBSET D |-> IF s = {} THEN a ELSE Back(g[s \ {Max(s)}], Max(s))]
  <2>1. PICK g : Iterates(g, D, a, "back", 0)
    BY Iterated
  <2>2. g = [s \in SUBSET D |-> IF s = {} THEN a ELSE Step("back", 0, g[s \ {Max(s)}], Max(s))]
    BY <2>1 DEF Iterates
  <2>3. \A s \in SUBSET D : g[s] = IF s = {} THEN a ELSE Back(g[s \ {Max(s)}], Max(s))
    BY <1>1, <2>2
  <2>4. g = [s \in SUBSET D |-> g[s]]
    BY <2>2
  <2>5. QED
    BY <2>3, <2>4
<1>3. PICK it : it = CHOOSE f : f = [s \in SUBSET D |->
                         IF s = {} THEN a ELSE Back(f[s \ {Max(s)}], Max(s))]
  OBVIOUS
<1>4. it = [s \in SUBSET D |-> IF s = {} THEN a ELSE Back(it[s \ {Max(s)}], Max(s))]
  BY <1>2, <1>3
<1>5. Rising(Back, a, D) = it[D]
  BY <1>3 DEF Rising, MapThenFoldSet
<1>6. Iterates(it, D, a, "back", 0)
  <2>1. \A s \in SUBSET D : it[s] = IF s = {} THEN a ELSE Step("back", 0, it[s \ {Max(s)}], Max(s))
    BY <1>1, <1>4
  <2>2. it = [s \in SUBSET D |-> it[s]]
    BY <1>4
  <2>3. QED
    BY <2>1, <2>2 DEF Iterates
<1>7. PICK t : Stages(t, n, D, a, "back", 0) /\ t[n] = it[D]
  BY <1>6, StagesIs
<1>8. t[0] = a /\ \A k \in 1..n : t[k] = IF k \in D THEN Back(t[k - 1], k) ELSE t[k - 1]
  BY <1>1, <1>7 DEF Stages
<1>9. BackStages(t, n, D, a)
  BY <1>5, <1>7, <1>8 DEF BackStages
<1>10. QED
  BY <1>9

\* The slots not put back yet: those beyond k that are no extremes, and s, which stays outside.
Loose(e, k, s) == {x \in e.live : ~IsExtreme(e, x) /\ (x > k \/ x = s)}

\* e is a with fewer points in new cells, but for the slots beyond k and s.
Regridding(a, e, k, s) ==
  /\ ArcShape(e) /\ Grid(e, Loose(e, k, s)) /\ e.F = a.F /\ e.live \in SUBSET a.live
  /\ e.own = a.own /\ s \in Loose(e, k, s) /\ \A j \in Objectives : e.ext[j] = a.ext[j]

LEMMA PutKeeps ==
  ASSUME NEW a, NEW s, NEW k \in Nat \ {0}, NEW e, Regridding(a, e, k - 1, s), NEW w, w = Put(a.ext, s, e, k)
  PROVE  Regridding(a, w, k, s)
<1>1. /\ ArcShape(e) /\ Grid(e, Loose(e, k - 1, s)) /\ e.F = a.F /\ e.live \in SUBSET a.live
      /\ e.own = a.own /\ s \in Loose(e, k - 1, s) /\ \A j \in Objectives : e.ext[j] = a.ext[j]
  BY DEF Regridding
<1>2. \A x \in e.live : x \in Nat
  BY <1>1 DEF ArcShape
<1>3. \A x \in Nat : x > k - 1 <=> x > k \/ x = k
  OBVIOUS
<1>4. CASE k \in e.live /\ k # s /\ (\A j \in Objectives : a.ext[j] # k)
  <2>1. w = Place(e, k)
    BY <1>4 DEF Put
  <2>2. ~IsExtreme(e, k)
    BY <1>1, <1>4 DEF IsExtreme
  <2>3. k \in Loose(e, k - 1, s)
    BY <1>2, <1>3, <1>4, <2>2 DEF Loose
  <2>4. Settled(e, w, Loose(e, k - 1, s) \ {k})
    BY <1>1, <2>1, <2>3, PlaceKeeps
  <2>5. ArcShape(w) /\ Grid(w, Loose(e, k - 1, s) \ {k}) /\ w.F = e.F /\ SameFrame(e, w)
        /\ w.live \in SUBSET e.live /\ \A j \in Objectives : w.ext[j] = e.ext[j]
    BY <2>4 DEF Settled, Fewer
  <2>6. Loose(e, k - 1, s) \ {k} \in SUBSET w.live
    BY <2>5 DEF Grid
  <2>7. \A x : IsExtreme(w, x) <=> IsExtreme(e, x)
    BY <2>5 DEF IsExtreme
  <2>8. Loose(w, k, s) = Loose(e, k - 1, s) \ {k}
    <3>1. \A x \in Loose(w, k, s) : x \in Loose(e, k - 1, s) \ {k}
      BY <1>2, <1>3, <1>4, <2>5, <2>7 DEF Loose
    <3>2. \A x \in Loose(e, k - 1, s) \ {k} : x \in Loose(w, k, s)
      BY <1>2, <1>3, <1>4, <2>6, <2>7 DEF Loose
    <3>3. QED
      BY <3>1, <3>2
  <2>9. w.own = a.own /\ s \in Loose(w, k, s)
    BY <1>1, <1>4, <2>5, <2>8 DEF SameFrame
  <2>10. QED
    BY <1>1, <2>5, <2>8, <2>9 DEF Regridding
<1>5. CASE ~(k \in e.live /\ k # s /\ (\A j \in Objectives : a.ext[j] # k))
  <2>1. w = e
    BY <1>5 DEF Put
  <2>2. \A x \in e.live : ~IsExtreme(e, x) /\ x = k => x = s
    BY <1>1, <1>5 DEF IsExtreme
  <2>3. Loose(e, k, s) = Loose(e, k - 1, s)
    <3>1. \A x \in e.live : ~IsExtreme(e, x) => (x > k \/ x = s <=> x > k - 1 \/ x = s)
      BY <1>2, <1>3, <2>2
    <3>2. QED
      BY <3>1 DEF Loose
  <2>4. QED
    BY <1>1, <2>1, <2>3 DEF Regridding
<1>6. QED
  BY <1>4, <1>5

\* The new frame, and no cells.
Emptied(a) == [Bounds(a) EXCEPT !.cell = [c \in {} |-> 0], !.cellOf = [x \in {} |-> 0]]

LEMMA EmptyIs ==
  ASSUME NEW a, ArcShape(a), NEW s, Grid(a, {s}), NEW e, e = Emptied(a)
  PROVE  Regridding(a, e, 0, s)
<1>1. a = [F |-> a.F, live |-> a.live, cellOf |-> a.cellOf, cell |-> a.cell, ext |-> a.ext,
           lo |-> a.lo, span |-> a.span, own |-> a.own, cap |-> a.cap]
      /\ a.F \in Seq(Nat \X Nat) /\ a.live \in SUBSET (1..Len(a.F))
  BY DEF ArcShape
<1>2. PICK lo, span : Bounds(a) = [a EXCEPT !.lo = lo, !.span = span]
  BY DEF Bounds
<1>3. PICK none : none = [c \in {} |-> 0]
  OBVIOUS
<1>4. e = [[a EXCEPT !.lo = lo, !.span = span] EXCEPT !.cell = none, !.cellOf = none]
  BY <1>2, <1>3 DEF Emptied
<1>5. e = [F |-> a.F, live |-> a.live, cellOf |-> none, cell |-> none, ext |-> a.ext,
           lo |-> lo, span |-> span, own |-> a.own, cap |-> a.cap]
  BY <1>1, <1>4
<1>6. e.F = a.F /\ e.live = a.live /\ e.cellOf = none /\ e.cell = none /\ e.ext = a.ext /\ e.own = a.own
  BY <1>5
<1>7. ArcShape(e)
  <2>1. e.lo = lo /\ e.span = span /\ e.cap = a.cap
    BY <1>5
  <2>2. QED
    BY <1>1, <1>5, <1>6, <2>1 DEF ArcShape
<1>8. DOMAIN none = {}
  BY <1>3
<1>9. \A x : IsExtreme(e, x) <=> IsExtreme(a, x)
  BY <1>6 DEF IsExtreme
<1>10. \A x \in a.live : x > 0
  BY <1>1
<1>11. s \in a.live /\ ~IsExtreme(a, s) /\ \A j \in Objectives : a.ext[j] \in a.live \cup {0}
  BY DEF Grid
<1>12. \A x \in e.live : x \in Loose(e, 0, s) <=> ~IsExtreme(e, x)
  BY <1>6, <1>10 DEF Loose
<1>13. Loose(e, 0, s) \in SUBSET e.live
  BY DEF Loose
<1>14. Grid(e, Loose(e, 0, s))
  BY <1>6, <1>8, <1>11, <1>12, <1>13 DEF Grid
<1>15. QED
  BY <1>6, <1>7, <1>9, <1>11, <1>12, <1>14 DEF Regridding

\* Every cell anew, but for slot s.
Regridded(a, c, s) ==
  /\ ArcShape(c) /\ Grid(c, {s}) /\ c.F = a.F /\ c.live \in SUBSET a.live
  /\ c.own = a.own /\ \A j \in Objectives : c.ext[j] = a.ext[j]

LEMMA RegridKeeps ==
  ASSUME NEW a, ArcShape(a), NEW s, Grid(a, {s}), NEW c, c = Regrid(a, s)
  PROVE  Regridded(a, c, s)
<1>1. PICK n \in Nat : n = Len(a.F) /\ DOMAIN a.F = 1..n /\ a.live \in SUBSET (1..n)
  BY DEF ArcShape
<1>2. PICK e : e = Emptied(a)
  OBVIOUS
<1>3. Regridding(a, e, 0, s)
  BY <1>2, EmptyIs
<1>4. c = Rising(LAMBDA b, x : Put(a.ext, s, b, x), e, 1..n)
  BY <1>1, <1>2 DEF Regrid, Emptied
<1>5. PICK t : PutStages(t, n, 1..n, e, a.ext, s)
  <2>1. 1..n \in SUBSET (1..n)
    OBVIOUS
  <2>2. QED
    BY <2>1, PutFold
<1>6. t[0] = e /\ \A k \in 1..n : t[k] = Put(a.ext, s, t[k - 1], k)
  BY <1>5 DEF PutStages
<1>7. t[n] = c
  BY <1>4, <1>5 DEF PutStages
<1>8. PICK T : T = {k \in 0..n : Regridding(a, t[k], k, s)}
  OBVIOUS
<1>9. 0 \in T
  <2>1. 0 \in 0..n
    OBVIOUS
  <2>2. QED
    BY <2>1, <1>3, <1>6, <1>8
<1>10. ASSUME NEW k \in 1..n, k - 1 \in T PROVE k \in T
  <2>1. k \in Nat \ {0} /\ k \in 0..n
    OBVIOUS
  <2>2. Regridding(a, t[k - 1], k - 1, s)
    BY <1>8, <1>10
  <2>3. Regridding(a, t[k], k, s)
    BY <1>6, <2>1, <2>2, PutKeeps
  <2>4. QED
    BY <1>8, <2>1, <2>3
<1>11. n \in T
  <2>1. n \in 0..n
    OBVIOUS
  <2>2. QED
    BY <1>9, <1>10, <2>1, Upwards
<1>12. Regridding(a, c, n, s)
  BY <1>8, <1>11, <1>7
<1>13. /\ ArcShape(c) /\ Grid(c, Loose(c, n, s)) /\ c.F = a.F /\ c.live \in SUBSET a.live
       /\ c.own = a.own /\ s \in Loose(c, n, s) /\ \A j \in Objectives : c.ext[j] = a.ext[j]
  BY <1>12 DEF Regridding
<1>14. \A x \in c.live : ~(x > n)
  BY <1>1, <1>13
<1>15. \A x \in Loose(c, n, s) : x = s
  BY <1>14 DEF Loose
<1>16. Loose(c, n, s) = {s}
  BY <1>13, <1>15
<1>17. QED
  BY <1>13, <1>16 DEF Regridded

LEMMA FewerTwice ==
  ASSUME NEW a, NEW b, NEW c, Fewer(a, b), Fewer(b, c)
  PROVE  Fewer(a, c)
<1>1. /\ b.F = a.F /\ SameFrame(a, b) /\ b.live \in SUBSET a.live /\ \A j \in Objectives : b.ext[j] = a.ext[j]
      /\ \A s \in a.live : \E t \in b.live : Key(b, b.F[t]) = Key(a, a.F[s])
  BY DEF Fewer
<1>2. /\ c.F = b.F /\ SameFrame(b, c) /\ c.live \in SUBSET b.live /\ \A j \in Objectives : c.ext[j] = b.ext[j]
      /\ \A s \in b.live : \E t \in c.live : Key(c, c.F[t]) = Key(b, b.F[s])
  BY DEF Fewer
<1>3. SameFrame(a, c)
  BY <1>1, <1>2 DEF SameFrame
<1>4. \A s \in a.live : \E t \in c.live : Key(c, c.F[t]) = Key(a, a.F[s])
  <2>1. SUFFICES ASSUME NEW s \in a.live PROVE \E t \in c.live : Key(c, c.F[t]) = Key(a, a.F[s])
    OBVIOUS
  <2>2. PICK u \in b.live : Key(b, b.F[u]) = Key(a, a.F[s])
    BY <1>1, <2>1
  <2>3. PICK t \in c.live : Key(c, c.F[t]) = Key(b, b.F[u])
    BY <1>2, <2>2
  <2>4. QED
    BY <2>2, <2>3
<1>5. QED
  BY <1>1, <1>2, <1>3, <1>4 DEF Fewer

\* Of T's slots, those beyond k that are no extremes of b have not rejoined the grid yet.
Dethroned(b, k, T) == {x \in T : x > k /\ ~IsExtreme(b, x)}
Rejoining(b, e, k, T) == ArcShape(e) /\ Grid(e, Dethroned(b, k, T)) /\ Fewer(b, e)

LEMMA BackKeeps ==
  ASSUME NEW b, NEW T \in SUBSET Nat, NEW k \in Nat \ {0}, NEW e, Rejoining(b, e, k - 1, T),
         NEW w, w = IF k \in T THEN Back(e, k) ELSE e
  PROVE  Rejoining(b, w, k, T)
<1>1. ArcShape(e) /\ Grid(e, Dethroned(b, k - 1, T)) /\ Fewer(b, e)
  BY DEF Rejoining
<1>2. \A x : IsExtreme(e, x) <=> IsExtreme(b, x)
  BY <1>1 DEF Fewer, IsExtreme
<1>3. \A x \in Nat : x > k - 1 <=> x > k \/ x = k
  OBVIOUS
<1>4. CASE k \in T /\ ~IsExtreme(b, k)
  <2>1. k \in Dethroned(b, k - 1, T)
    BY <1>3, <1>4 DEF Dethroned
  <2>2. k \in e.live
    BY <1>1, <2>1 DEF Grid
  <2>3. w = Place(e, k)
    BY <1>2, <1>4, <2>2 DEF Back
  <2>4. Settled(e, w, Dethroned(b, k - 1, T) \ {k})
    BY <1>1, <2>1, <2>3, PlaceKeeps
  <2>5. Dethroned(b, k - 1, T) \ {k} = Dethroned(b, k, T)
    <3>1. \A x \in T : x > k - 1 /\ x # k <=> x > k
      BY <1>3
    <3>2. QED
      BY <3>1 DEF Dethroned
  <2>6. ArcShape(w) /\ Grid(w, Dethroned(b, k, T)) /\ Fewer(e, w)
    BY <2>4, <2>5 DEF Settled
  <2>7. Fewer(b, w)
    BY <1>1, <2>6, FewerTwice
  <2>8. QED
    BY <2>6, <2>7 DEF Rejoining
<1>5. CASE ~(k \in T /\ ~IsExtreme(b, k))
  <2>1. w = e
    BY <1>2, <1>5 DEF Back
  <2>2. Dethroned(b, k - 1, T) = Dethroned(b, k, T)
    <3>1. \A x \in T : ~IsExtreme(b, x) => (x > k - 1 <=> x > k)
      BY <1>3, <1>5
    <3>2. QED
      BY <3>1 DEF Dethroned
  <2>3. QED
    BY <1>1, <2>1, <2>2 DEF Rejoining
<1>6. QED
  BY <1>4, <1>5

\* Slot s made the best of the objectives new.
Dethrones(a, new) == {a.ext[j] : j \in new} \ {0}
CrownedOn(a, s, new) == [a EXCEPT !.ext = [j \in Objectives |-> IF j \in new THEN s ELSE @[j]]]

CrownedFirst(a, b, s, new, T) ==
  /\ ArcShape(b) /\ Grid(b, Dethroned(b, 0, T))
  /\ b.F = a.F /\ b.live = a.live /\ SameFrame(a, b)
  /\ \A j \in Objectives : b.ext[j] = IF j \in new THEN s ELSE a.ext[j]

LEMMA CrownedOnIs ==
  ASSUME NEW a, ArcShape(a), NEW s, Grid(a, {s}), NEW new \in SUBSET Objectives, new # {},
         NEW b, b = CrownedOn(a, s, new), NEW T, T = Dethrones(a, new)
  PROVE  CrownedFirst(a, b, s, new, T)
<1>1. a = [F |-> a.F, live |-> a.live, cellOf |-> a.cellOf, cell |-> a.cell, ext |-> a.ext,
           lo |-> a.lo, span |-> a.span, own |-> a.own, cap |-> a.cap]
      /\ a.F \in Seq(Nat \X Nat) /\ a.live \in SUBSET (1..Len(a.F))
  BY DEF ArcShape
<1>2. PICK ext : ext = [j \in Objectives |-> IF j \in new THEN s ELSE a.ext[j]]
  OBVIOUS
<1>3. b = [a EXCEPT !.ext = ext]
  BY <1>2 DEF CrownedOn
<1>4. b = [F |-> a.F, live |-> a.live, cellOf |-> a.cellOf, cell |-> a.cell, ext |-> ext,
           lo |-> a.lo, span |-> a.span, own |-> a.own, cap |-> a.cap]
  BY <1>1, <1>3
<1>5. /\ b.F = a.F /\ b.live = a.live /\ b.cellOf = a.cellOf /\ b.cell = a.cell /\ b.ext = ext
      /\ b.lo = a.lo /\ b.span = a.span /\ b.own = a.own /\ b.cap = a.cap
  BY <1>4
<1>6. ArcShape(b)
  BY <1>1, <1>4, <1>5 DEF ArcShape
<1>7. SameFrame(a, b) /\ \A j \in Objectives : b.ext[j] = IF j \in new THEN s ELSE a.ext[j]
  BY <1>2, <1>5 DEF SameFrame
<1>8. \A f : Key(b, f) = Key(a, f)
  BY <1>7, KeySame
<1>9. /\ \A j \in Objectives : a.ext[j] \in a.live \cup {0}
      /\ s \in a.live
      /\ \A x \in a.live : x \in {s} <=> ~IsExtreme(a, x) /\ x \notin DOMAIN a.cellOf
      /\ \A x \in a.live : ~(IsExtreme(a, x) /\ x \in DOMAIN a.cellOf)
      /\ \A x \in DOMAIN a.cellOf :
            /\ x \in a.live /\ a.cellOf[x] = Key(a, a.F[x])
            /\ a.cellOf[x] \in DOMAIN a.cell /\ a.cell[a.cellOf[x]] = x
      /\ \A c \in DOMAIN a.cell : a.cell[c] \in DOMAIN a.cellOf /\ a.cellOf[a.cell[c]] = c
  BY DEF Grid
<1>10. \A x \in a.live : x \in Nat /\ x > 0
  BY <1>1
<1>11. T = {a.ext[j] : j \in new} \ {0}
  BY DEF Dethrones
<1>12. T \in SUBSET a.live
  BY <1>9, <1>11
<1>13. \A x \in a.live : x \in Dethroned(b, 0, T) <=> ~IsExtreme(b, x) /\ x \notin DOMAIN a.cellOf
  <2>1. ASSUME NEW x \in a.live, x \in Dethroned(b, 0, T) PROVE ~IsExtreme(b, x) /\ x \notin DOMAIN a.cellOf
    <3>1. ~IsExtreme(b, x) /\ x \in T
      BY <2>1 DEF Dethroned
    <3>2. IsExtreme(a, x)
      BY <1>11, <3>1 DEF IsExtreme
    <3>3. QED
      BY <1>9, <2>1, <3>1, <3>2
  <2>2. ASSUME NEW x \in a.live, ~IsExtreme(b, x), x \notin DOMAIN a.cellOf PROVE x \in Dethroned(b, 0, T)
    <3>1. x # s
      <4>1. PICK j \in new : TRUE
        OBVIOUS
      <4>2. b.ext[j] = s /\ j \in Objectives
        BY <1>7, <4>1
      <4>3. QED
        BY <2>2, <4>2 DEF IsExtreme
    <3>2. IsExtreme(a, x)
      BY <1>9, <2>2, <3>1
    <3>3. PICK j \in Objectives : a.ext[j] = x
      BY <3>2 DEF IsExtreme
    <3>4. j \in new
      BY <1>7, <2>2, <3>3 DEF IsExtreme
    <3>5. x \in T /\ x > 0
      BY <1>10, <1>11, <2>2, <3>3, <3>4
    <3>6. QED
      BY <2>2, <3>5 DEF Dethroned
  <2>3. QED
    BY <2>1, <2>2
<1>14. \A x \in a.live : ~(IsExtreme(b, x) /\ x \in DOMAIN a.cellOf)
  <2>1. SUFFICES ASSUME NEW x \in a.live, IsExtreme(b, x) PROVE x \notin DOMAIN a.cellOf
    OBVIOUS
  <2>2. PICK j \in Objectives : b.ext[j] = x
    BY <2>1 DEF IsExtreme
  <2>3. CASE j \in new
    BY <1>7, <1>9, <2>1, <2>2, <2>3
  <2>4. CASE j \notin new
    <3>1. IsExtreme(a, x)
      BY <1>7, <2>2, <2>4 DEF IsExtreme
    <3>2. QED
      BY <1>9, <2>1, <3>1
  <2>5. QED
    BY <2>3, <2>4
<1>15. \A j \in Objectives : b.ext[j] \in b.live \cup {0}
  BY <1>5, <1>7, <1>9
<1>16. Dethroned(b, 0, T) \in SUBSET b.live
  BY <1>5, <1>12 DEF Dethroned
<1>17. \A x \in DOMAIN b.cellOf :
          /\ x \in b.live /\ b.cellOf[x] = Key(b, b.F[x])
          /\ b.cellOf[x] \in DOMAIN b.cell /\ b.cell[b.cellOf[x]] = x
  BY <1>5, <1>8, <1>9
<1>18. /\ \A x \in b.live : x \in Dethroned(b, 0, T) <=> ~IsExtreme(b, x) /\ x \notin DOMAIN b.cellOf
       /\ \A x \in b.live : ~(IsExtreme(b, x) /\ x \in DOMAIN b.cellOf)
       /\ \A c \in DOMAIN b.cell : b.cell[c] \in DOMAIN b.cellOf /\ b.cellOf[b.cell[c]] = c
  BY <1>5, <1>9, <1>13, <1>14
<1>19. Grid(b, Dethroned(b, 0, T))
  BY <1>15, <1>16, <1>17, <1>18 DEF Grid
<1>20. QED
  BY <1>5, <1>6, <1>7, <1>19 DEF CrownedFirst

\* What a seated slot leaves of the archive: the extremes are given by new, and each cell that
\* had a point has one.
Crowned(a, d, s, new) ==
  /\ ArcShape(d) /\ Grid(d, {}) /\ d.F = a.F /\ d.live \in SUBSET a.live /\ SameFrame(a, d)
  /\ \A j \in Objectives : d.ext[j] = IF j \in new THEN s ELSE a.ext[j]
  /\ \A x \in a.live : \E t \in d.live : Key(d, d.F[t]) = Key(a, a.F[x])

LEMMA CrownKeeps ==
  ASSUME NEW a, ArcShape(a), NEW s, Grid(a, {s}), NEW new \in SUBSET Objectives, new # {},
         NEW d, d = Crown(a, s, new)
  PROVE  Crowned(a, d, s, new)
<1>1. PICK b : b = CrownedOn(a, s, new)
  OBVIOUS
<1>2. PICK T : T = Dethrones(a, new)
  OBVIOUS
<1>3. /\ ArcShape(b) /\ Grid(b, Dethroned(b, 0, T))
      /\ b.F = a.F /\ b.live = a.live /\ SameFrame(a, b)
      /\ \A j \in Objectives : b.ext[j] = IF j \in new THEN s ELSE a.ext[j]
  <2>1. CrownedFirst(a, b, s, new, T)
    BY <1>1, <1>2, CrownedOnIs
  <2>2. QED
    BY <2>1 DEF CrownedFirst
<1>4. PICK n \in Nat : n = Len(a.F) /\ a.live \in SUBSET (1..n)
  BY DEF ArcShape
<1>5. T \in SUBSET (1..n)
  <2>1. \A j \in Objectives : a.ext[j] \in a.live \cup {0}
    BY DEF Grid
  <2>2. QED
    BY <1>2, <1>4, <2>1 DEF Dethrones
<1>6. d = Rising(Back, b, T)
  BY <1>1, <1>2 DEF Crown, CrownedOn, Dethrones
<1>7. PICK t : BackStages(t, n, T, b)
  BY <1>5, BackFold
<1>8. t[0] = b /\ \A k \in 1..n : t[k] = IF k \in T THEN Back(t[k - 1], k) ELSE t[k - 1]
  BY <1>7 DEF BackStages
<1>9. t[n] = d
  BY <1>6, <1>7 DEF BackStages
<1>10. Rejoining(b, b, 0, T)
  <2>1. SameFrame(b, b)
    BY DEF SameFrame
  <2>2. Fewer(b, b)
    BY <2>1 DEF Fewer
  <2>3. QED
    BY <1>3, <2>2 DEF Rejoining
<1>11. PICK U : U = {k \in 0..n : Rejoining(b, t[k], k, T)}
  OBVIOUS
<1>12. 0 \in U
  <2>1. 0 \in 0..n
    OBVIOUS
  <2>2. QED
    BY <1>8, <1>10, <1>11, <2>1
<1>13. ASSUME NEW k \in 1..n, k - 1 \in U PROVE k \in U
  <2>1. k \in Nat \ {0} /\ k \in 0..n /\ T \in SUBSET Nat
    BY <1>5
  <2>2. Rejoining(b, t[k - 1], k - 1, T)
    BY <1>11, <1>13
  <2>3. Rejoining(b, t[k], k, T)
    BY <1>8, <2>1, <2>2, BackKeeps
  <2>4. QED
    BY <1>11, <2>1, <2>3
<1>14. n \in U
  <2>1. n \in 0..n
    OBVIOUS
  <2>2. QED
    BY <1>12, <1>13, <2>1, Upwards
<1>15. ArcShape(d) /\ Grid(d, Dethroned(b, n, T)) /\ Fewer(b, d)
  BY <1>9, <1>11, <1>14 DEF Rejoining
<1>16. Dethroned(b, n, T) = {}
  <2>1. \A x \in T : ~(x > n)
    BY <1>5
  <2>2. QED
    BY <2>1 DEF Dethroned
<1>17. \A f : Key(b, f) = Key(a, f)
  BY <1>3, KeySame
<1>18. /\ d.F = a.F /\ d.live \in SUBSET a.live /\ SameFrame(a, d)
       /\ \A j \in Objectives : d.ext[j] = IF j \in new THEN s ELSE a.ext[j]
  BY <1>3, <1>15 DEF Fewer, SameFrame
<1>19. \A x \in a.live : \E u \in d.live : Key(d, d.F[u]) = Key(a, a.F[x])
  BY <1>3, <1>15, <1>17 DEF Fewer
<1>20. QED
  BY <1>15, <1>16, <1>18, <1>19 DEF Crowned

-----------------------------------------------------------------------------
(* The slots numbered anew.                                                *)

\* The live slots' numbers are 1 to however many there are, one for each.
LEMMA RankIs ==
  ASSUME NEW a, ArcShape(a), NEW N, N = Cardinality(a.live)
  PROVE  /\ N \in Nat /\ \A s \in a.live : Rank(a, s) \in 1..N
         /\ \A s, t \in a.live : Rank(a, s) = Rank(a, t) => s = t
         /\ \A i \in 1..N : \E s \in a.live : Rank(a, s) = i
<1>1. PICK n \in Nat : a.live \in SUBSET (1..n)
  <2>1. a.F \in Seq(Nat \X Nat) /\ a.live \in SUBSET (1..Len(a.F))
    BY DEF ArcShape
  <2>2. Len(a.F) \in Nat
    BY <2>1
  <2>3. QED
    BY <2>1, <2>2
<1>2. IsFiniteSet(a.live) /\ N \in Nat
  <2>1. IsFiniteSet(1..n)
    BY FS_Interval
  <2>2. IsFiniteSet(a.live)
    BY <1>1, <2>1, FS_Subset
  <2>3. QED
    BY <2>2, FS_CardinalityType
<1>3. \A s \in a.live : s \in Nat
  BY <1>1
<1>4. ASSUME NEW s \in a.live
      PROVE  /\ IsFiniteSet({t \in a.live : t <= s}) /\ Rank(a, s) = Cardinality({t \in a.live : t <= s})
             /\ Rank(a, s) \in 1..N
  <2>1. PICK T : T = {t \in a.live : t <= s}
    OBVIOUS
  <2>2. T \in SUBSET a.live /\ s \in T
    BY <1>3, <2>1
  <2>3. IsFiniteSet(T) /\ Cardinality(T) <= N
    BY <1>2, <2>2, FS_Subset
  <2>4. Cardinality(T) \in Nat /\ Cardinality(T) # 0
    BY <2>2, <2>3, FS_CardinalityType, FS_EmptySet
  <2>5. Rank(a, s) = Cardinality(T)
    BY <2>1 DEF Rank
  <2>6. QED
    BY <1>2, <2>1, <2>3, <2>4, <2>5
<1>5. ASSUME NEW s \in a.live, NEW t \in a.live, s < t PROVE Rank(a, s) # Rank(a, t)
  <2>1. PICK S : S = {x \in a.live : x <= s}
    OBVIOUS
  <2>2. PICK T : T = {x \in a.live : x <= t}
    OBVIOUS
  <2>3. S \in SUBSET T /\ t \in T /\ t \notin S
    BY <1>3, <1>5, <2>1, <2>2
  <2>4. IsFiniteSet(T) /\ Rank(a, t) = Cardinality(T) /\ Rank(a, s) = Cardinality(S)
    BY <1>4, <1>5, <2>1, <2>2
  <2>5. QED
    BY <2>3, <2>4, FS_Subset
<1>6. \A s, t \in a.live : Rank(a, s) = Rank(a, t) => s = t
  BY <1>3, <1>5
<1>7. PICK r : r = [s \in a.live |-> Rank(a, s)]
  OBVIOUS
<1>8. r \in Injection(a.live, 1..N)
  <2>1. r \in [a.live -> 1..N]
    BY <1>4, <1>7
  <2>2. \A s, t \in DOMAIN r : r[s] = r[t] => s = t
    BY <1>6, <1>7
  <2>3. QED
    BY <2>1, <2>2 DEF Injection, IsInjective
<1>9. r \in Surjection(a.live, 1..N)
  <2>1. IsFiniteSet(1..N) /\ Cardinality(1..N) = N
    BY <1>2, FS_Interval
  <2>2. QED
    BY <1>8, <2>1, FS_Injection
<1>10. \A i \in 1..N : \E s \in a.live : Rank(a, s) = i
  BY <1>7, <1>9 DEF Surjection
<1>11. QED
  BY <1>2, <1>4, <1>6, <1>10

\* b is a with slot i for slot q[i].
Renumbered(a, b, q, N) ==
  /\ N \in Nat /\ q \in [1..N -> a.live]
  /\ \A i, k \in 1..N : q[i] = q[k] => i = k
  /\ \A s \in a.live : \E i \in 1..N : q[i] = s
  /\ ArcShape(b) /\ b.live = 1..N /\ Len(b.F) = N /\ \A i \in 1..N : b.F[i] = a.F[q[i]]
  /\ SameFrame(a, b)
  /\ \A j \in Objectives : IF a.ext[j] = 0 THEN b.ext[j] = 0 ELSE b.ext[j] \in 1..N /\ q[b.ext[j]] = a.ext[j]
  /\ DOMAIN b.cellOf = {i \in 1..N : q[i] \in DOMAIN a.cellOf}
  /\ \A i \in DOMAIN b.cellOf : b.cellOf[i] = a.cellOf[q[i]]
  /\ DOMAIN b.cell = {b.cellOf[i] : i \in DOMAIN b.cellOf}
  /\ \A c \in DOMAIN b.cell : b.cell[c] \in DOMAIN b.cellOf /\ b.cellOf[b.cell[c]] = c

LEMMA CompactIs ==
  ASSUME NEW a, ArcShape(a), \A j \in Objectives : a.ext[j] \in a.live \cup {0},
         DOMAIN a.cellOf \in SUBSET a.live, NEW b, b = Compact(a)
  PROVE  \E q, N : Renumbered(a, b, q, N)
<1>1. a = [F |-> a.F, live |-> a.live, cellOf |-> a.cellOf, cell |-> a.cell, ext |-> a.ext,
           lo |-> a.lo, span |-> a.span, own |-> a.own, cap |-> a.cap]
      /\ a.F \in Seq(Nat \X Nat) /\ a.live \in SUBSET (1..Len(a.F))
  BY DEF ArcShape
<1>2. PICK N : N = Cardinality(a.live)
  OBVIOUS
<1>3. /\ N \in Nat /\ \A s \in a.live : Rank(a, s) \in 1..N
      /\ \A s, t \in a.live : Rank(a, s) = Rank(a, t) => s = t
      /\ \A i \in 1..N : \E s \in a.live : Rank(a, s) = i
  BY <1>2, RankIs
<1>4. \A i \in 1..N : Ranked(a, i) \in a.live /\ Rank(a, Ranked(a, i)) = i
  BY <1>3 DEF Ranked
<1>5. PICK q : q = [i \in 1..N |-> Ranked(a, i)]
  OBVIOUS
<1>6. q \in [1..N -> a.live] /\ \A i \in 1..N : Rank(a, q[i]) = i
  BY <1>4, <1>5
<1>7. \A s \in a.live : q[Rank(a, s)] = s
  BY <1>3, <1>6
<1>8. PICK F : F = [i \in 1..N |-> a.F[Ranked(a, i)]]
  OBVIOUS
<1>9. PICK own : own = [i \in {Rank(a, s) : s \in DOMAIN a.cellOf} |-> a.cellOf[Ranked(a, i)]]
  OBVIOUS
<1>10. PICK cell : cell = [c \in Range(own) |-> CHOOSE i \in DOMAIN own : own[i] = c]
  OBVIOUS
<1>11. PICK ext : ext = [j \in Objectives |-> IF a.ext[j] = 0 THEN 0 ELSE Rank(a, a.ext[j])]
  OBVIOUS
<1>12. PICK slots : slots = 1..N
  OBVIOUS
<1>13. b = [a EXCEPT !.F = F, !.live = slots, !.cellOf = own, !.cell = cell, !.ext = ext]
  BY <1>2, <1>8, <1>9, <1>10, <1>11, <1>12 DEF Compact
<1>14. b = [F |-> F, live |-> slots, cellOf |-> own, cell |-> cell, ext |-> ext,
           lo |-> a.lo, span |-> a.span, own |-> a.own, cap |-> a.cap]
  BY <1>1, <1>13
<1>15. /\ b.F = F /\ b.live = slots /\ b.cellOf = own /\ b.cell = cell /\ b.ext = ext
       /\ b.lo = a.lo /\ b.span = a.span /\ b.own = a.own /\ b.cap = a.cap
  BY <1>14
<1>16. F \in Seq(Nat \X Nat) /\ Len(F) = N /\ \A i \in 1..N : F[i] = a.F[q[i]]
  <2>1. \A i \in 1..N : F[i] = a.F[q[i]] /\ q[i] \in 1..Len(a.F)
    BY <1>1, <1>5, <1>6, <1>8
  <2>2. \A i \in 1..N : F[i] \in Nat \X Nat
    <3>1. \A k \in 1..Len(a.F) : a.F[k] \in Nat \X Nat
      BY <1>1
    <3>2. QED
      BY <2>1, <3>1
  <2>3. F \in [1..N -> Nat \X Nat]
    BY <1>8, <2>2
  <2>4. QED
    BY <1>3, <2>1, <2>3
<1>17. ArcShape(b)
  BY <1>12, <1>14, <1>15, <1>16 DEF ArcShape
<1>18. SameFrame(a, b)
  BY <1>15 DEF SameFrame
<1>19. \A j \in Objectives : IF a.ext[j] = 0 THEN b.ext[j] = 0 ELSE b.ext[j] \in 1..N /\ q[b.ext[j]] = a.ext[j]
  <2>1. SUFFICES ASSUME NEW j \in Objectives
                 PROVE  IF a.ext[j] = 0 THEN b.ext[j] = 0 ELSE b.ext[j] \in 1..N /\ q[b.ext[j]] = a.ext[j]
    OBVIOUS
  <2>2. b.ext[j] = IF a.ext[j] = 0 THEN 0 ELSE Rank(a, a.ext[j])
    BY <1>11, <1>15, <2>1
  <2>3. a.ext[j] # 0 => a.ext[j] \in a.live
    BY <2>1
  <2>4. QED
    BY <1>3, <1>7, <2>2, <2>3
<1>20. DOMAIN own = {i \in 1..N : q[i] \in DOMAIN a.cellOf}
  <2>1. DOMAIN own = {Rank(a, s) : s \in DOMAIN a.cellOf}
    BY <1>9
  <2>2. \A s \in DOMAIN a.cellOf : Rank(a, s) \in 1..N /\ q[Rank(a, s)] = s
    BY <1>3, <1>7
  <2>3. \A i \in 1..N : q[i] \in DOMAIN a.cellOf => i \in DOMAIN own
    BY <1>6, <2>1
  <2>4. \A i \in DOMAIN own : i \in 1..N /\ q[i] \in DOMAIN a.cellOf
    BY <2>1, <2>2
  <2>5. QED
    BY <2>3, <2>4
<1>21. \A i \in DOMAIN own : own[i] = a.cellOf[q[i]]
  BY <1>5, <1>9, <1>20
<1>22. DOMAIN cell = {own[i] : i \in DOMAIN own}
  BY <1>10 DEF Range
<1>23. \A c \in DOMAIN cell : cell[c] \in DOMAIN own /\ own[cell[c]] = c
  <2>1. SUFFICES ASSUME NEW c \in DOMAIN cell PROVE cell[c] \in DOMAIN own /\ own[cell[c]] = c
    OBVIOUS
  <2>2. PICK i \in DOMAIN own : own[i] = c
    BY <1>22, <2>1
  <2>3. cell[c] = CHOOSE k \in DOMAIN own : own[k] = c
    BY <1>10, <2>1
  <2>4. QED
    BY <2>2, <2>3
<1>24. /\ \A i, k \in 1..N : q[i] = q[k] => i = k
       /\ \A s \in a.live : \E i \in 1..N : q[i] = s
  BY <1>3, <1>6, <1>7
<1>25. Renumbered(a, b, q, N)
  BY <1>3, <1>6, <1>12, <1>15, <1>16, <1>17, <1>18, <1>19, <1>20, <1>21, <1>22, <1>23, <1>24 DEF Renumbered
<1>26. QED
  BY <1>25

\* Numbered anew, the grid lists the same points.
LEMMA RenumberedGrid ==
  ASSUME NEW a, NEW b, NEW q, NEW N, ArcShape(a), Grid(a, {}), Renumbered(a, b, q, N)
  PROVE  Grid(b, {})
<1>1. /\ N \in Nat /\ q \in [1..N -> a.live]
      /\ \A i, k \in 1..N : q[i] = q[k] => i = k
      /\ b.live = 1..N /\ Len(b.F) = N /\ \A i \in 1..N : b.F[i] = a.F[q[i]]
      /\ SameFrame(a, b)
      /\ \A j \in Objectives : IF a.ext[j] = 0 THEN b.ext[j] = 0 ELSE b.ext[j] \in 1..N /\ q[b.ext[j]] = a.ext[j]
      /\ DOMAIN b.cellOf = {i \in 1..N : q[i] \in DOMAIN a.cellOf}
      /\ \A i \in DOMAIN b.cellOf : b.cellOf[i] = a.cellOf[q[i]]
      /\ DOMAIN b.cell = {b.cellOf[i] : i \in DOMAIN b.cellOf}
      /\ \A c \in DOMAIN b.cell : b.cell[c] \in DOMAIN b.cellOf /\ b.cellOf[b.cell[c]] = c
  BY DEF Renumbered
<1>2. /\ \A j \in Objectives : a.ext[j] \in a.live \cup {0}
      /\ \A s \in a.live : IsExtreme(a, s) \/ s \in DOMAIN a.cellOf
      /\ \A s \in a.live : ~(IsExtreme(a, s) /\ s \in DOMAIN a.cellOf)
      /\ \A s \in DOMAIN a.cellOf :
            /\ s \in a.live /\ a.cellOf[s] = Key(a, a.F[s])
            /\ a.cellOf[s] \in DOMAIN a.cell /\ a.cell[a.cellOf[s]] = s
  BY DEF Grid
<1>3. \A i \in 1..N : i # 0 /\ q[i] # 0 /\ q[i] \in a.live
  <2>1. 0 \notin a.live
    BY DEF ArcShape
  <2>2. QED
    BY <1>1, <2>1
<1>4. \A i \in 1..N : IsExtreme(b, i) <=> IsExtreme(a, q[i])
  <2>1. ASSUME NEW i \in 1..N, IsExtreme(b, i) PROVE IsExtreme(a, q[i])
    <3>1. PICK j \in Objectives : b.ext[j] = i
      BY <2>1 DEF IsExtreme
    <3>2. a.ext[j] = q[i]
      BY <1>1, <1>3, <3>1
    <3>3. QED
      BY <3>2 DEF IsExtreme
  <2>2. ASSUME NEW i \in 1..N, IsExtreme(a, q[i]) PROVE IsExtreme(b, i)
    <3>1. PICK j \in Objectives : a.ext[j] = q[i]
      BY <2>2 DEF IsExtreme
    <3>2. b.ext[j] = i
      BY <1>1, <1>3, <3>1
    <3>3. QED
      BY <3>2 DEF IsExtreme
  <2>3. QED
    BY <2>1, <2>2
<1>5. \A f : Key(b, f) = Key(a, f)
  BY <1>1, KeySame
<1>6. \A i \in DOMAIN b.cellOf :
        /\ i \in b.live /\ b.cellOf[i] = Key(b, b.F[i])
        /\ b.cellOf[i] \in DOMAIN b.cell /\ b.cell[b.cellOf[i]] = i
  <2>1. SUFFICES ASSUME NEW i \in DOMAIN b.cellOf
                 PROVE  /\ i \in b.live /\ b.cellOf[i] = Key(b, b.F[i])
                        /\ b.cellOf[i] \in DOMAIN b.cell /\ b.cell[b.cellOf[i]] = i
    OBVIOUS
  <2>2. i \in 1..N /\ q[i] \in DOMAIN a.cellOf /\ b.cellOf[i] = a.cellOf[q[i]]
    BY <1>1, <2>1
  <2>3. i \in b.live /\ b.cellOf[i] = Key(b, b.F[i])
    BY <1>1, <1>2, <1>5, <2>2
  <2>4. b.cellOf[i] \in DOMAIN b.cell
    BY <1>1, <2>1
  <2>5. PICK k : k = b.cell[b.cellOf[i]]
    OBVIOUS
  <2>6. k \in DOMAIN b.cellOf /\ b.cellOf[k] = b.cellOf[i]
    BY <1>1, <2>4, <2>5
  <2>7. k \in 1..N /\ q[k] \in DOMAIN a.cellOf /\ a.cellOf[q[k]] = a.cellOf[q[i]]
    BY <1>1, <2>2, <2>6
  <2>8. q[k] = q[i]
    BY <1>2, <2>2, <2>7
  <2>9. QED
    BY <1>1, <2>2, <2>3, <2>4, <2>5, <2>7, <2>8
<1>7. \A j \in Objectives : b.ext[j] \in b.live \cup {0}
  BY <1>1
<1>8. \A i \in b.live : i \in {} <=> ~IsExtreme(b, i) /\ i \notin DOMAIN b.cellOf
  BY <1>1, <1>2, <1>3, <1>4
<1>9. \A i \in b.live : ~(IsExtreme(b, i) /\ i \in DOMAIN b.cellOf)
  BY <1>1, <1>2, <1>3, <1>4
<1>10. {} \in SUBSET b.live
  OBVIOUS
<1>11. QED
  BY <1>1, <1>6, <1>7, <1>8, <1>9, <1>10 DEF Grid

-----------------------------------------------------------------------------
(* What the points dominate.                                               *)

Pair == Nat \X Nat

LEMMA WeaklyTwice ==
  ASSUME NEW p \in Pair, NEW q \in Pair, NEW r \in Pair, Weakly(p, q), Weakly(q, r)
  PROVE  Weakly(p, r)
<1>1. p[1] \in Nat /\ p[2] \in Nat /\ q[1] \in Nat /\ q[2] \in Nat /\ r[1] \in Nat /\ r[2] \in Nat
  BY DEF Pair
<1>2. p[1] <= q[1] /\ p[2] <= q[2] /\ q[1] <= r[1] /\ q[2] <= r[2]
  BY DEF Weakly
<1>3. p[1] <= r[1] /\ p[2] <= r[2]
  BY <1>1, <1>2
<1>4. QED
  BY <1>3 DEF Weakly

LEMMA DivRises ==
  ASSUME NEW x \in Int, NEW y \in Int, x <= y, NEW d \in Nat \ {0}
  PROVE  x \div d \in Int /\ x \div d <= y \div d
<1>1. x \div d \in Int /\ y \div d \in Int /\ x % d \in 0..(d - 1) /\ y % d \in 0..(d - 1)
  OBVIOUS
<1>2. x = d * (x \div d) + (x % d) /\ y = d * (y \div d) + (y % d)
  OBVIOUS
<1>3. \A u, v \in Int : u > v => d * u >= d * v + d
  OBVIOUS
<1>4. QED
  BY <1>1, <1>2, <1>3

LEMMA TimesRises ==
  ASSUME NEW x \in Int, NEW y \in Int, x <= y, NEW d \in Nat
  PROVE  x * d \in Int /\ x * d <= y * d
OBVIOUS

Framed(a) == a.lo \in [Objectives -> Nat] /\ a.span \in [Objectives -> Nat \ {0}]

\* A point's cell rises with it.
LEMMA KeyRises ==
  ASSUME NEW a, Framed(a), NEW p \in Pair, NEW q \in Pair, Weakly(p, q)
  PROVE  /\ Key(a, p)[1] \in Int /\ Key(a, p)[2] \in Int /\ Weakly(Key(a, p), Key(a, q))
<1>1. 1 \in Objectives /\ 2 \in Objectives
  BY DEF Objectives
<1>2. p[1] \in Nat /\ p[2] \in Nat /\ q[1] \in Nat /\ q[2] \in Nat /\ p[1] <= q[1] /\ p[2] <= q[2]
  BY DEF Pair, Weakly
<1>3. Cuts \in Nat
  BY ArchiveAssumption
<1>4. ASSUME NEW x \in Nat, NEW y \in Nat, x <= y, NEW j \in Objectives
      PROVE  /\ ((x - a.lo[j]) * Cuts) \div a.span[j] \in Int
             /\ ((x - a.lo[j]) * Cuts) \div a.span[j] <= ((y - a.lo[j]) * Cuts) \div a.span[j]
  <2>1. PICK l \in Nat : l = a.lo[j]
    BY <1>4 DEF Framed
  <2>2. PICK d \in Nat \ {0} : d = a.span[j]
    BY <1>4 DEF Framed
  <2>3. PICK u \in Int : u = x - l
    BY <1>4
  <2>4. PICK v \in Int : v = y - l
    BY <1>4
  <2>5. u <= v
    BY <1>4, <2>3, <2>4
  <2>6. PICK m \in Int : m = u * Cuts
    BY <1>3, <2>3, <2>5, TimesRises
  <2>7. v <= v
    BY <2>4
  <2>8. PICK n \in Int : n = v * Cuts
    BY <1>3, <2>4, <2>7, TimesRises
  <2>9. m <= n
    BY <1>3, <2>3, <2>4, <2>5, <2>6, <2>8, TimesRises
  <2>10. m \div d \in Int /\ m \div d <= n \div d
    BY <2>2, <2>6, <2>8, <2>9, DivRises
  <2>11. QED
    BY <2>1, <2>2, <2>3, <2>4, <2>6, <2>8, <2>10
<1>5. \A f : Key(a, f)[1] = ((f[1] - a.lo[1]) * Cuts) \div a.span[1]
             /\ Key(a, f)[2] = ((f[2] - a.lo[2]) * Cuts) \div a.span[2]
  BY <1>1 DEF Key
<1>6. Key(a, p)[1] \in Int /\ Key(a, p)[1] <= Key(a, q)[1]
  BY <1>1, <1>2, <1>4, <1>5
<1>7. Key(a, p)[2] \in Int /\ Key(a, p)[2] <= Key(a, q)[2]
  BY <1>1, <1>2, <1>4, <1>5
<1>8. QED
  BY <1>6, <1>7 DEF Weakly

\* Near by way of another.
LEMMA KeyTwice ==
  ASSUME NEW a, Framed(a), NEW p \in Pair, NEW q \in Pair, NEW r \in Pair,
         Weakly(Key(a, p), Key(a, q)), Weakly(Key(a, q), Key(a, r))
  PROVE  Weakly(Key(a, p), Key(a, r))
<1>1. \A x \in Pair : Key(a, x)[1] \in Int /\ Key(a, x)[2] \in Int
  <2>1. SUFFICES ASSUME NEW x \in Pair PROVE Key(a, x)[1] \in Int /\ Key(a, x)[2] \in Int
    OBVIOUS
  <2>2. Weakly(x, x)
    BY <2>1 DEF Pair, Weakly
  <2>3. QED
    BY <2>1, <2>2, KeyRises
<1>2. /\ Key(a, p)[1] \in Int /\ Key(a, p)[2] \in Int /\ Key(a, q)[1] \in Int /\ Key(a, q)[2] \in Int
      /\ Key(a, r)[1] \in Int /\ Key(a, r)[2] \in Int
  BY <1>1
<1>3. /\ Key(a, p)[1] <= Key(a, q)[1] /\ Key(a, p)[2] <= Key(a, q)[2]
      /\ Key(a, q)[1] <= Key(a, r)[1] /\ Key(a, q)[2] <= Key(a, r)[2]
  BY DEF Weakly
<1>4. Key(a, p)[1] <= Key(a, r)[1] /\ Key(a, p)[2] <= Key(a, r)[2]
  BY <1>2, <1>3
<1>5. QED
  BY <1>4 DEF Weakly

\* The points are pairs.
LEMMA PointIs ==
  ASSUME NEW a, ArcShape(a), NEW s \in a.live
  PROVE  a.F[s] \in Pair /\ a.F[s][1] \in Nat /\ a.F[s][2] \in Nat
<1>1. a.F \in Seq(Nat \X Nat) /\ s \in 1..Len(a.F)
  BY DEF ArcShape
<1>2. a.F[s] \in Nat \X Nat
  BY <1>1
<1>3. QED
  BY <1>2 DEF Pair

\* One look at the step below decides: it is the lowest of those before.
LEMMA CoveredIs ==
  ASSUME NEW a, ArcShape(a), Nondominated(a), NEW f \in Pair
  PROVE  Covered(a, f) <=> \E s \in a.live : Weakly(a.F[s], f)
<1>1. \A s \in a.live : a.F[s][1] \in Nat /\ a.F[s][2] \in Nat
  BY PointIs
<1>2. f[1] \in Nat /\ f[2] \in Nat
  BY DEF Pair
<1>3. PICK lower : lower = {s \in a.live : a.F[s][1] <= f[1]}
  OBVIOUS
<1>4. Covered(a, f) <=> \E s \in lower : (\A t \in lower : a.F[t][1] <= a.F[s][1]) /\ a.F[s][2] <= f[2]
  BY <1>3 DEF Covered
<1>5. ASSUME Covered(a, f) PROVE \E s \in a.live : Weakly(a.F[s], f)
  <2>1. PICK s \in lower : a.F[s][2] <= f[2]
    BY <1>4, <1>5
  <2>2. QED
    BY <1>3, <2>1 DEF Weakly
<1>6. ASSUME NEW s \in a.live, Weakly(a.F[s], f) PROVE Covered(a, f)
  <2>1. a.F[s][1] <= f[1] /\ a.F[s][2] <= f[2] /\ s \in lower
    BY <1>3, <1>6 DEF Weakly
  <2>2. PICK gap : gap = {f[1] - a.F[t][1] : t \in lower}
    OBVIOUS
  <2>3. gap \in SUBSET Nat /\ gap # {}
    <3>1. \A t \in lower : f[1] - a.F[t][1] \in Nat
      BY <1>1, <1>2, <1>3
    <3>2. QED
      BY <2>1, <2>2, <3>1
  <2>4. PICK least \in gap : \A g \in gap : least <= g
    BY <2>3, LeastIs
  <2>5. PICK t \in lower : least = f[1] - a.F[t][1]
    BY <2>2, <2>4
  <2>6. \A x \in lower : a.F[x][1] <= a.F[t][1]
    <3>1. SUFFICES ASSUME NEW x \in lower PROVE a.F[x][1] <= a.F[t][1]
      OBVIOUS
    <3>2. f[1] - a.F[t][1] <= f[1] - a.F[x][1]
      BY <2>2, <2>4, <2>5, <3>1
    <3>3. a.F[x][1] \in Nat /\ a.F[t][1] \in Nat
      BY <1>1, <1>3, <2>5, <3>1
    <3>4. QED
      BY <1>2, <3>2, <3>3
  <2>7. a.F[t][2] <= f[2]
    <3>1. CASE t = s
      BY <2>1, <3>1
    <3>2. CASE t # s
      <4>1. t \in a.live /\ a.F[s][1] <= a.F[t][1]
        BY <1>3, <2>1, <2>5, <2>6
      <4>2. ~Weakly(a.F[s], a.F[t])
        BY <1>6, <3>2, <4>1 DEF Nondominated
      <4>3. ~(a.F[s][2] <= a.F[t][2])
        BY <4>1, <4>2 DEF Weakly
      <4>4. a.F[s][2] \in Nat /\ a.F[t][2] \in Nat
        BY <1>1, <1>6, <4>1
      <4>5. QED
        BY <1>2, <2>1, <4>3, <4>4
    <3>3. QED
      BY <3>1, <3>2
  <2>8. QED
    BY <1>4, <2>5, <2>6, <2>7
<1>7. QED
  BY <1>5, <1>6

\* The walk up to the first lower step finds all that f is as good as.
LEMMA BeatenIs ==
  ASSUME NEW a, ArcShape(a), Nondominated(a), NEW f \in Pair
  PROVE  Beaten(a, f) = {s \in a.live : Weakly(f, a.F[s])}
<1>1. \A s \in a.live : a.F[s][1] \in Nat /\ a.F[s][2] \in Nat
  BY PointIs
<1>2. f[1] \in Nat /\ f[2] \in Nat
  BY DEF Pair
<1>3. PICK from : from = {s \in a.live : a.F[s][1] >= f[1]}
  OBVIOUS
<1>4. Beaten(a, f) = {s \in from : \A t \in from : a.F[t][1] <= a.F[s][1] => a.F[t][2] >= f[2]}
  BY <1>3 DEF Beaten
<1>5. ASSUME NEW s \in Beaten(a, f) PROVE s \in a.live /\ Weakly(f, a.F[s])
  <2>1. s \in from /\ s \in a.live /\ a.F[s][1] >= f[1] /\ a.F[s][1] \in Nat /\ a.F[s][2] \in Nat
    BY <1>1, <1>3, <1>4, <1>5
  <2>2. a.F[s][1] <= a.F[s][1]
    BY <2>1
  <2>3. a.F[s][2] >= f[2]
    BY <1>4, <1>5, <2>1, <2>2
  <2>4. f[1] <= a.F[s][1] /\ f[2] <= a.F[s][2]
    BY <1>2, <2>1, <2>3
  <2>5. QED
    BY <2>1, <2>4 DEF Weakly
<1>6. ASSUME NEW s \in a.live, Weakly(f, a.F[s]) PROVE s \in Beaten(a, f)
  <2>1. f[1] <= a.F[s][1] /\ f[2] <= a.F[s][2] /\ a.F[s][1] \in Nat /\ a.F[s][2] \in Nat
    BY <1>1, <1>6 DEF Weakly
  <2>2. s \in from
    BY <1>2, <1>3, <1>6, <2>1
  <2>3. ASSUME NEW t \in from, a.F[t][1] <= a.F[s][1] PROVE a.F[t][2] >= f[2]
    <3>1. t \in a.live /\ a.F[t][2] \in Nat
      BY <1>1, <1>3, <2>3
    <3>2. CASE t = s
      BY <1>2, <2>1, <3>2
    <3>3. CASE t # s
      <4>1. ~Weakly(a.F[t], a.F[s])
        BY <1>6, <3>1, <3>3 DEF Nondominated
      <4>2. ~(a.F[t][2] <= a.F[s][2])
        BY <2>3, <4>1 DEF Weakly
      <4>3. QED
        BY <1>2, <2>1, <3>1, <4>2
    <3>4. QED
      BY <3>2, <3>3
  <2>4. QED
    BY <1>4, <2>2, <2>3
<1>7. QED
  BY <1>5, <1>6

-----------------------------------------------------------------------------
(* What an archive keeps of the points O offered to it.                    *)

From(a, O) == \A s \in a.live : a.F[s] \in O

Keeps(a, O) ==
  /\ ArcShape(a) /\ Grid(a, {}) /\ Nondominated(a) /\ From(a, O)
  /\ \A j \in Objectives : O # {} => a.ext[j] \in a.live
  /\ \A j \in Objectives, g \in O : a.F[a.ext[j]][j] <= g[j]
  /\ a.own \/ (Framed(a) /\ Covers(a, O))

\* What f beats is gone: where an extreme is, f takes its place, and where a cell is empty
\* that had a point, f is as good.
Best(a, O, f) == \A j \in Objectives, g \in O : (IF a.ext[j] = 0 THEN f[j] ELSE a.F[a.ext[j]][j]) <= g[j]

Near(a, O, f) ==
  \A g \in O : Weakly(Key(a, f), Key(a, g)) \/ \E s \in a.live : Weakly(Key(a, a.F[s]), Key(a, g))

Apart(a, f) == \A s \in a.live : ~Weakly(a.F[s], f) /\ ~Weakly(f, a.F[s])

Ready(a, O, f) ==
  /\ ArcShape(a) /\ Grid(a, {}) /\ Nondominated(a) /\ From(a, O)
  /\ Apart(a, f) /\ Best(a, O, f) /\ (a.own \/ (Framed(a) /\ Near(a, O, f)))

LEMMA FramedSame ==
  ASSUME NEW a, NEW b, SameFrame(a, b), Framed(a)
  PROVE  Framed(b)
BY DEF SameFrame, Framed

LEMMA RemovedReady ==
  ASSUME NEW O \in SUBSET Pair, NEW f \in Pair, NEW a, Keeps(a, O), ~Covered(a, f),
         NEW w, w = Without(a, Beaten(a, f))
  PROVE  Ready(w, O, f)
<1>1. /\ ArcShape(a) /\ Grid(a, {}) /\ Nondominated(a) /\ From(a, O)
      /\ \A j \in Objectives : O # {} => a.ext[j] \in a.live
      /\ \A j \in Objectives, g \in O : a.F[a.ext[j]][j] <= g[j]
      /\ a.own \/ (Framed(a) /\ Covers(a, O))
  BY DEF Keeps
<1>2. PICK B : B = Beaten(a, f)
  OBVIOUS
<1>3. B = {s \in a.live : Weakly(f, a.F[s])}
  BY <1>1, <1>2, BeatenIs
<1>4. \A s \in a.live : ~Weakly(a.F[s], f)
  BY <1>1, CoveredIs
<1>5. Removed(a, w, B)
  BY <1>1, <1>2, WithoutIs
<1>6. /\ ArcShape(w) /\ w.F = a.F /\ w.live = a.live \ B /\ SameFrame(a, w)
      /\ \A j \in Objectives : w.ext[j] = IF a.ext[j] \in B THEN 0 ELSE a.ext[j]
  BY <1>5 DEF Removed
<1>7. 0 \notin a.live
  BY <1>1 DEF ArcShape
<1>8. Grid(w, {})
  <2>1. 0 \notin B /\ {} \ B = {}
    BY <1>3, <1>7
  <2>2. Grid(w, {} \ B)
    BY <1>1, <1>5, <2>1, WithoutKeeps
  <2>3. QED
    BY <2>1, <2>2
<1>9. Nondominated(w) /\ From(w, O) /\ Apart(w, f)
  BY <1>1, <1>3, <1>4, <1>6 DEF Nondominated, From, Apart
<1>10. Best(w, O, f)
  <2>1. SUFFICES ASSUME NEW j \in Objectives, NEW g \in O
                 PROVE  (IF w.ext[j] = 0 THEN f[j] ELSE w.F[w.ext[j]][j]) <= g[j]
    BY DEF Best
  <2>2. PICK e : e = a.ext[j]
    OBVIOUS
  <2>3. e \in a.live /\ a.F[e][j] <= g[j]
    BY <1>1, <2>1, <2>2
  <2>4. CASE e \in B
    <3>1. w.ext[j] = 0
      BY <1>6, <2>1, <2>2, <2>4
    <3>2. Weakly(f, a.F[e])
      BY <1>3, <2>4
    <3>3. j = 1 \/ j = 2
      BY <2>1 DEF Objectives
    <3>4. f[j] <= a.F[e][j]
      BY <3>2, <3>3 DEF Weakly
    <3>5. a.F[e][j] \in Nat
      BY <1>1, <2>3, <3>3, PointIs
    <3>6. f[j] \in Nat /\ g[j] \in Nat
      <4>1. g \in Pair
        BY <2>1
      <4>2. QED
        BY <3>3, <4>1 DEF Pair
    <3>7. QED
      BY <2>3, <3>1, <3>4, <3>5, <3>6
  <2>5. CASE e \notin B
    BY <1>6, <1>7, <2>1, <2>2, <2>3, <2>5
  <2>6. QED
    BY <2>4, <2>5
<1>11. w.own \/ (Framed(w) /\ Near(w, O, f))
  <2>1. CASE a.own
    BY <1>6, <2>1 DEF SameFrame
  <2>2. CASE Framed(a) /\ Covers(a, O)
    <3>1. Framed(w)
      BY <1>6, <2>2, FramedSame
    <3>2. \A x : Key(w, x) = Key(a, x)
      BY <1>6, KeySame
    <3>3. ASSUME NEW g \in O
          PROVE  Weakly(Key(a, f), Key(a, g)) \/ \E s \in w.live : Weakly(Key(a, a.F[s]), Key(a, g))
      <4>1. PICK s \in a.live : Weakly(Key(a, a.F[s]), Key(a, g))
        BY <2>2, <3>3 DEF Covers
      <4>2. CASE s \notin B
        BY <1>6, <4>1, <4>2
      <4>3. CASE s \in B
        <5>1. Weakly(f, a.F[s]) /\ a.F[s] \in Pair /\ g \in Pair
          BY <1>1, <1>3, <3>3, <4>1, <4>3, PointIs
        <5>2. Weakly(Key(a, f), Key(a, a.F[s]))
          BY <2>2, <5>1, KeyRises
        <5>3. QED
          BY <2>2, <4>1, <5>1, <5>2, KeyTwice
      <4>4. QED
        BY <4>2, <4>3
    <3>4. Near(w, O, f)
      BY <1>6, <3>2, <3>3 DEF Near
    <3>5. QED
      BY <3>1, <3>4
  <2>3. QED
    BY <1>1, <2>1, <2>2
<1>12. QED
  BY <1>6, <1>8, <1>9, <1>10, <1>11 DEF Ready

LEMMA RenumberedReady ==
  ASSUME NEW O, NEW f, NEW a, Ready(a, O, f), NEW b, NEW q, NEW N, Renumbered(a, b, q, N)
  PROVE  Ready(b, O, f)
<1>1. /\ ArcShape(a) /\ Grid(a, {}) /\ Nondominated(a) /\ From(a, O) /\ Apart(a, f) /\ Best(a, O, f)
      /\ a.own \/ (Framed(a) /\ Near(a, O, f))
  BY DEF Ready
<1>2. /\ N \in Nat /\ q \in [1..N -> a.live]
      /\ \A i, k \in 1..N : q[i] = q[k] => i = k
      /\ \A s \in a.live : \E i \in 1..N : q[i] = s
      /\ ArcShape(b) /\ b.live = 1..N /\ \A i \in 1..N : b.F[i] = a.F[q[i]]
      /\ SameFrame(a, b)
      /\ \A j \in Objectives : IF a.ext[j] = 0 THEN b.ext[j] = 0 ELSE b.ext[j] \in 1..N /\ q[b.ext[j]] = a.ext[j]
  BY DEF Renumbered
<1>3. Grid(b, {})
  BY <1>1, RenumberedGrid
<1>4. \A i \in b.live : q[i] \in a.live /\ b.F[i] = a.F[q[i]]
  BY <1>2
<1>5. Nondominated(b)
  <2>1. SUFFICES ASSUME NEW i \in b.live, NEW k \in b.live, i # k PROVE ~Weakly(b.F[i], b.F[k])
    BY DEF Nondominated
  <2>2. q[i] # q[k] /\ q[i] \in a.live /\ q[k] \in a.live
    BY <1>2, <1>4, <2>1
  <2>3. ~Weakly(a.F[q[i]], a.F[q[k]])
    BY <1>1, <2>2 DEF Nondominated
  <2>4. QED
    BY <1>4, <2>1, <2>3
<1>6. From(b, O) /\ Apart(b, f)
  BY <1>1, <1>4 DEF From, Apart
<1>7. Best(b, O, f)
  <2>1. SUFFICES ASSUME NEW j \in Objectives, NEW g \in O
                 PROVE  (IF b.ext[j] = 0 THEN f[j] ELSE b.F[b.ext[j]][j]) <= g[j]
    BY DEF Best
  <2>2. (IF a.ext[j] = 0 THEN f[j] ELSE a.F[a.ext[j]][j]) <= g[j]
    BY <1>1, <2>1 DEF Best
  <2>3. CASE a.ext[j] = 0
    BY <1>2, <2>1, <2>2, <2>3
  <2>4. CASE a.ext[j] # 0
    <3>1. b.ext[j] \in 1..N /\ q[b.ext[j]] = a.ext[j]
      BY <1>2, <2>1, <2>4
    <3>2. b.F[b.ext[j]] = a.F[a.ext[j]] /\ b.ext[j] # 0
      BY <1>2, <3>1
    <3>3. QED
      BY <2>2, <2>4, <3>2
  <2>5. QED
    BY <2>3, <2>4
<1>8. b.own \/ (Framed(b) /\ Near(b, O, f))
  <2>1. CASE a.own
    BY <1>2, <2>1 DEF SameFrame
  <2>2. CASE Framed(a) /\ Near(a, O, f)
    <3>1. Framed(b)
      BY <1>2, <2>2, FramedSame
    <3>2. \A x : Key(b, x) = Key(a, x)
      BY <1>2, KeySame
    <3>3. ASSUME NEW g \in O
          PROVE  Weakly(Key(b, f), Key(b, g)) \/ \E i \in b.live : Weakly(Key(b, b.F[i]), Key(b, g))
      <4>1. CASE Weakly(Key(a, f), Key(a, g))
        BY <3>2, <4>1
      <4>2. CASE \E s \in a.live : Weakly(Key(a, a.F[s]), Key(a, g))
        <5>1. PICK s \in a.live : Weakly(Key(a, a.F[s]), Key(a, g))
          BY <4>2
        <5>2. PICK i \in 1..N : q[i] = s
          BY <1>2, <5>1
        <5>3. i \in b.live /\ b.F[i] = a.F[s]
          BY <1>2, <5>2
        <5>4. QED
          BY <3>2, <5>1, <5>3
      <4>3. QED
        BY <2>2, <3>3, <4>1, <4>2 DEF Near
    <3>4. Near(b, O, f)
      BY <3>3 DEF Near
    <3>5. QED
      BY <3>1, <3>4
  <2>3. QED
    BY <1>1, <2>1, <2>2
<1>9. QED
  BY <1>2, <1>3, <1>5, <1>6, <1>7, <1>8 DEF Ready

\* Compacted, where the store is full and half of it is dead, or grown.
LEMMA RoomReady ==
  ASSUME NEW O, NEW f, NEW a, Ready(a, O, f), NEW c, c = MadeRoom(a)
  PROVE  Ready(c, O, f)
<1>1. /\ ArcShape(a) /\ Grid(a, {}) /\ Nondominated(a) /\ From(a, O) /\ Apart(a, f) /\ Best(a, O, f)
      /\ a.own \/ (Framed(a) /\ Near(a, O, f))
  BY DEF Ready
<1>2. PICK b : b = IF Len(a.F) > 2 * Cardinality(a.live) + Slack THEN Compact(a) ELSE a
  OBVIOUS
<1>3. Ready(b, O, f)
  <2>1. CASE b = a
    BY <2>1
  <2>2. CASE b = Compact(a)
    <3>1. /\ \A j \in Objectives : a.ext[j] \in a.live \cup {0}
          /\ DOMAIN a.cellOf \in SUBSET a.live
      BY <1>1 DEF Grid
    <3>2. PICK q, N : Renumbered(a, b, q, N)
      BY <1>1, <2>2, <3>1, CompactIs
    <3>3. QED
      BY <3>2, RenumberedReady
  <2>3. QED
    BY <1>2, <2>1, <2>2
<1>4. CASE c = a
  BY <1>4
<1>5. CASE c = b
  BY <1>3, <1>5
<1>6. CASE c = [b EXCEPT !.cap = 2 * @]
  <2>1. /\ ArcShape(b) /\ Grid(b, {}) /\ Nondominated(b) /\ From(b, O) /\ Apart(b, f) /\ Best(b, O, f)
        /\ b.own \/ (Framed(b) /\ Near(b, O, f))
    BY <1>3 DEF Ready
  <2>2. b = [F |-> b.F, live |-> b.live, cellOf |-> b.cellOf, cell |-> b.cell, ext |-> b.ext,
             lo |-> b.lo, span |-> b.span, own |-> b.own, cap |-> b.cap]
        /\ b.F \in Seq(Nat \X Nat) /\ b.live \in SUBSET (1..Len(b.F))
    BY <2>1 DEF ArcShape
  <2>3. PICK cap : cap = 2 * b.cap
    OBVIOUS
  <2>4. c = [b EXCEPT !.cap = cap]
    BY <1>6, <2>3
  <2>5. c = [F |-> b.F, live |-> b.live, cellOf |-> b.cellOf, cell |-> b.cell, ext |-> b.ext,
             lo |-> b.lo, span |-> b.span, own |-> b.own, cap |-> cap]
    BY <2>2, <2>4
  <2>6. /\ c.F = b.F /\ c.live = b.live /\ c.cellOf = b.cellOf /\ c.cell = b.cell /\ c.ext = b.ext
        /\ c.lo = b.lo /\ c.span = b.span /\ c.own = b.own /\ c.cap = cap
    BY <2>5
  <2>7. ArcShape(c)
    BY <2>2, <2>5, <2>6 DEF ArcShape
  <2>8. SameFrame(b, c)
    BY <2>6 DEF SameFrame
  <2>9. \A x : Key(c, x) = Key(b, x)
    BY <2>8, KeySame
  <2>10. \A x : IsExtreme(c, x) <=> IsExtreme(b, x)
    BY <2>6 DEF IsExtreme
  <2>11. Grid(c, {})
    BY <2>1, <2>6, <2>9, <2>10 DEF Grid
  <2>12. Nondominated(c) /\ From(c, O) /\ Apart(c, f)
    BY <2>1, <2>6 DEF Nondominated, From, Apart
  <2>13. Best(c, O, f)
    BY <2>1, <2>6 DEF Best
  <2>14. c.own \/ (Framed(c) /\ Near(c, O, f))
    <3>1. CASE b.own
      BY <2>6, <3>1
    <3>2. CASE Framed(b) /\ Near(b, O, f)
      <4>1. Framed(c)
        BY <2>8, <3>2, FramedSame
      <4>2. Near(c, O, f)
        BY <2>6, <2>9, <3>2 DEF Near
      <4>3. QED
        BY <4>1, <4>2
    <3>3. QED
      BY <2>1, <3>1, <3>2
  <2>15. QED
    BY <2>7, <2>11, <2>12, <2>13, <2>14 DEF Ready
<1>7. QED
  BY <1>2, <1>4, <1>5, <1>6 DEF MadeRoom

\* f is stored, in slot s, and has no place yet.
Waiting(a, s, O, f) ==
  /\ ArcShape(a) /\ s = Len(a.F) /\ s \in a.live /\ a.F[s] = f
  /\ Grid(a, {s}) /\ Nondominated(a) /\ From(a, O \cup {f}) /\ Best(a, O, f)
  /\ a.own \/ (Framed(a) /\ Covers(a, O \cup {f}))

LEMMA AppendedWaits ==
  ASSUME NEW O, NEW f \in Pair, NEW a, Ready(a, O, f), NEW c, c = Appended(a, f)
  PROVE  \E s : Waiting(c, s, O, f)
<1>1. PICK b : b = MadeRoom(a)
  OBVIOUS
<1>2. /\ ArcShape(b) /\ Grid(b, {}) /\ Nondominated(b) /\ From(b, O) /\ Apart(b, f) /\ Best(b, O, f)
      /\ b.own \/ (Framed(b) /\ Near(b, O, f))
  <2>1. Ready(b, O, f)
    BY <1>1, RoomReady
  <2>2. QED
    BY <2>1 DEF Ready
<1>3. b = [F |-> b.F, live |-> b.live, cellOf |-> b.cellOf, cell |-> b.cell, ext |-> b.ext,
           lo |-> b.lo, span |-> b.span, own |-> b.own, cap |-> b.cap]
      /\ b.F \in Seq(Nat \X Nat) /\ b.live \in SUBSET (1..Len(b.F))
  BY <1>2 DEF ArcShape
<1>4. PICK n \in Nat : n = Len(b.F)
  BY <1>3
<1>5. PICK s : s = n + 1
  OBVIOUS
<1>6. PICK F : F = Append(b.F, f)
  OBVIOUS
<1>7. F \in Seq(Nat \X Nat) /\ Len(F) = s /\ F[s] = f /\ \A i \in 1..n : F[i] = b.F[i]
  BY <1>3, <1>4, <1>5, <1>6 DEF Pair
<1>8. PICK live : live = b.live \cup {s}
  OBVIOUS
<1>9. c = [b EXCEPT !.F = F, !.live = live]
  BY <1>1, <1>4, <1>5, <1>6, <1>8 DEF Appended
<1>10. c = [F |-> F, live |-> live, cellOf |-> b.cellOf, cell |-> b.cell, ext |-> b.ext,
            lo |-> b.lo, span |-> b.span, own |-> b.own, cap |-> b.cap]
  BY <1>3, <1>9
<1>11. /\ c.F = F /\ c.live = live /\ c.cellOf = b.cellOf /\ c.cell = b.cell /\ c.ext = b.ext
       /\ c.lo = b.lo /\ c.span = b.span /\ c.own = b.own /\ c.cap = b.cap
  BY <1>10
<1>12. ArcShape(c)
  <2>1. live \in SUBSET (1..Len(F))
    BY <1>3, <1>4, <1>5, <1>7, <1>8
  <2>2. QED
    BY <1>7, <1>10, <1>11, <2>1 DEF ArcShape
<1>13. SameFrame(b, c)
  BY <1>11 DEF SameFrame
<1>14. \A x : Key(c, x) = Key(b, x)
  BY <1>13, KeySame
<1>15. \A t \in b.live : t \in 1..n /\ t # s /\ t # 0 /\ c.F[t] = b.F[t]
  BY <1>3, <1>4, <1>5, <1>7, <1>11
<1>16. s \in c.live /\ c.F[s] = f /\ s = Len(c.F) /\ s # 0 /\ s \notin b.live
  BY <1>4, <1>5, <1>7, <1>8, <1>11, <1>15
<1>17. Grid(c, {s})
  <2>1. /\ \A j \in Objectives : b.ext[j] \in b.live \cup {0}
        /\ \A t \in b.live : t \in {} <=> ~IsExtreme(b, t) /\ t \notin DOMAIN b.cellOf
        /\ \A t \in b.live : ~(IsExtreme(b, t) /\ t \in DOMAIN b.cellOf)
        /\ \A t \in DOMAIN b.cellOf :
              /\ t \in b.live /\ b.cellOf[t] = Key(b, b.F[t])
              /\ b.cellOf[t] \in DOMAIN b.cell /\ b.cell[b.cellOf[t]] = t
        /\ \A d \in DOMAIN b.cell : b.cell[d] \in DOMAIN b.cellOf /\ b.cellOf[b.cell[d]] = d
    BY <1>2 DEF Grid
  <2>2. \A x : IsExtreme(c, x) <=> IsExtreme(b, x)
    BY <1>11 DEF IsExtreme
  <2>3. ~IsExtreme(b, s) /\ s \notin DOMAIN b.cellOf
    BY <1>16, <2>1 DEF IsExtreme
  <2>4. \A j \in Objectives : c.ext[j] \in c.live \cup {0}
    BY <1>8, <1>11, <2>1
  <2>5. \A t \in c.live : t \in {s} <=> ~IsExtreme(c, t) /\ t \notin DOMAIN c.cellOf
    BY <1>8, <1>11, <1>16, <2>1, <2>2, <2>3
  <2>6. \A t \in c.live : ~(IsExtreme(c, t) /\ t \in DOMAIN c.cellOf)
    BY <1>8, <1>11, <2>1, <2>2, <2>3
  <2>7. \A t \in DOMAIN c.cellOf :
           /\ t \in c.live /\ c.cellOf[t] = Key(c, c.F[t])
           /\ c.cellOf[t] \in DOMAIN c.cell /\ c.cell[c.cellOf[t]] = t
    BY <1>8, <1>11, <1>14, <1>15, <2>1
  <2>8. \A d \in DOMAIN c.cell : c.cell[d] \in DOMAIN c.cellOf /\ c.cellOf[c.cell[d]] = d
    BY <1>11, <2>1
  <2>9. {s} \in SUBSET c.live
    BY <1>16
  <2>10. QED
    BY <2>4, <2>5, <2>6, <2>7, <2>8, <2>9 DEF Grid
<1>18. Nondominated(c)
  <2>1. SUFFICES ASSUME NEW t \in c.live, NEW u \in c.live, t # u PROVE ~Weakly(c.F[t], c.F[u])
    BY DEF Nondominated
  <2>2. CASE t = s
    BY <1>2, <1>8, <1>11, <1>15, <1>16, <2>1, <2>2 DEF Apart
  <2>3. CASE u = s
    BY <1>2, <1>8, <1>11, <1>15, <1>16, <2>1, <2>3 DEF Apart
  <2>4. CASE t # s /\ u # s
    BY <1>2, <1>8, <1>11, <1>15, <2>1, <2>4 DEF Nondominated
  <2>5. QED
    BY <2>2, <2>3, <2>4
<1>19. From(c, O \cup {f})
  BY <1>2, <1>8, <1>11, <1>15, <1>16 DEF From
<1>20. Best(c, O, f)
  <2>1. SUFFICES ASSUME NEW j \in Objectives, NEW g \in O
                 PROVE  (IF c.ext[j] = 0 THEN f[j] ELSE c.F[c.ext[j]][j]) <= g[j]
    BY DEF Best
  <2>2. (IF b.ext[j] = 0 THEN f[j] ELSE b.F[b.ext[j]][j]) <= g[j]
    BY <1>2, <2>1 DEF Best
  <2>3. b.ext[j] \in b.live \cup {0}
    BY <1>2, <2>1 DEF Grid
  <2>4. QED
    BY <1>11, <1>15, <2>2, <2>3
<1>21. c.own \/ (Framed(c) /\ Covers(c, O \cup {f}))
  <2>1. CASE b.own
    BY <1>11, <2>1
  <2>2. CASE Framed(b) /\ Near(b, O, f)
    <3>1. Framed(c)
      BY <1>13, <2>2, FramedSame
    <3>2. ASSUME NEW g \in O \cup {f} PROVE \E t \in c.live : Weakly(Key(c, c.F[t]), Key(c, g))
      <4>1. CASE Weakly(Key(b, f), Key(b, g))
        BY <1>14, <1>16, <4>1
      <4>2. CASE \E t \in b.live : Weakly(Key(b, b.F[t]), Key(b, g))
        BY <1>8, <1>11, <1>14, <1>15, <4>2
      <4>3. CASE g = f
        <5>1. Weakly(f, f)
          BY DEF Pair, Weakly
        <5>2. Weakly(Key(c, f), Key(c, f))
          BY <3>1, <5>1, KeyRises
        <5>3. QED
          BY <1>16, <4>3, <5>2
      <4>4. QED
        BY <2>2, <3>2, <4>1, <4>2, <4>3 DEF Near
    <3>3. Covers(c, O \cup {f})
      BY <3>2 DEF Covers
    <3>4. QED
      BY <3>1, <3>3
  <2>3. QED
    BY <1>2, <2>1, <2>2
<1>22. Waiting(c, s, O, f)
  BY <1>12, <1>16, <1>17, <1>18, <1>19, <1>20, <1>21 DEF Waiting
<1>23. QED
  BY <1>22

LEMMA ReframedWaits ==
  ASSUME NEW O, NEW f, NEW a, NEW s, Waiting(a, s, O, f), NEW c, c = Reframed(a)
  PROVE  Waiting(c, s, O, f)
<1>1. /\ ArcShape(a) /\ s = Len(a.F) /\ s \in a.live /\ a.F[s] = f
      /\ Grid(a, {s}) /\ Nondominated(a) /\ From(a, O \cup {f}) /\ Best(a, O, f)
  BY DEF Waiting
<1>2. CASE c = a
  BY <1>2
<1>3. CASE a.own /\ c = Regrid(a, Len(a.F))
  <2>1. /\ ArcShape(c) /\ Grid(c, {s}) /\ c.F = a.F /\ c.live \in SUBSET a.live
        /\ c.own = a.own /\ \A j \in Objectives : c.ext[j] = a.ext[j]
    <3>1. c = Regrid(a, s)
      BY <1>1, <1>3
    <3>2. Regridded(a, c, s)
      BY <1>1, <3>1, RegridKeeps
    <3>3. QED
      BY <3>2 DEF Regridded
  <2>2. s \in c.live
    BY <2>1 DEF Grid
  <2>3. Nondominated(c) /\ From(c, O \cup {f})
    BY <1>1, <2>1 DEF Nondominated, From
  <2>4. Best(c, O, f)
    BY <1>1, <2>1 DEF Best
  <2>5. QED
    BY <1>1, <1>3, <2>1, <2>2, <2>3, <2>4 DEF Waiting
<1>4. QED
  BY <1>2, <1>3 DEF Reframed

\* f in its place, or an extreme: nothing of what was offered is better.
LEMMA SeatedKept ==
  ASSUME NEW O \in SUBSET Pair, NEW f \in Pair, NEW a, NEW s, Waiting(a, s, O, f),
         NEW d, d = Seated(a, s)
  PROVE  Keeps(d, O \cup {f})
<1>1. /\ ArcShape(a) /\ s = Len(a.F) /\ s \in a.live /\ a.F[s] = f
      /\ Grid(a, {s}) /\ Nondominated(a) /\ From(a, O \cup {f}) /\ Best(a, O, f)
      /\ a.own \/ (Framed(a) /\ Covers(a, O \cup {f}))
  BY DEF Waiting
<1>2. PICK new : new = {j \in Objectives : a.ext[j] = 0 \/ a.F[s][j] < a.F[a.ext[j]][j]}
  OBVIOUS
<1>3. d = IF new = {} THEN Place(a, s) ELSE Crown(a, s, new)
  BY <1>2 DEF Seated
<1>4. Crowned(a, d, s, new)
  <2>1. CASE new = {}
    <3>1. s \in {s} /\ {s} \ {s} = {}
      OBVIOUS
    <3>2. Settled(a, d, {s} \ {s})
      BY <1>1, <1>3, <2>1, <3>1, PlaceKeeps
    <3>3. ArcShape(d) /\ Grid(d, {}) /\ Fewer(a, d)
      BY <3>1, <3>2 DEF Settled
    <3>4. /\ d.F = a.F /\ d.live \in SUBSET a.live /\ SameFrame(a, d)
          /\ \A j \in Objectives : d.ext[j] = a.ext[j]
          /\ \A x \in a.live : \E t \in d.live : Key(d, d.F[t]) = Key(a, a.F[x])
      BY <3>3 DEF Fewer
    <3>5. \A j \in Objectives : d.ext[j] = IF j \in new THEN s ELSE a.ext[j]
      BY <2>1, <3>4
    <3>6. QED
      BY <3>3, <3>4, <3>5 DEF Crowned
  <2>2. CASE new # {}
    <3>1. new \in SUBSET Objectives
      BY <1>2
    <3>2. d = Crown(a, s, new)
      BY <1>3, <2>2
    <3>3. QED
      BY <1>1, <2>2, <3>1, <3>2, CrownKeeps
  <2>3. QED
    BY <2>1, <2>2
<1>5. /\ ArcShape(d) /\ Grid(d, {}) /\ d.F = a.F /\ d.live \in SUBSET a.live /\ SameFrame(a, d)
      /\ \A j \in Objectives : d.ext[j] = IF j \in new THEN s ELSE a.ext[j]
      /\ \A x \in a.live : \E t \in d.live : Key(d, d.F[t]) = Key(a, a.F[x])
  BY <1>4 DEF Crowned
<1>6. Nondominated(d) /\ From(d, O \cup {f})
  BY <1>1, <1>5 DEF Nondominated, From
<1>7. s # 0 /\ \A j \in Objectives : d.ext[j] \in d.live \cup {0} /\ a.ext[j] \in a.live \cup {0}
  <2>1. 0 \notin a.live
    BY <1>1 DEF ArcShape
  <2>2. QED
    BY <1>1, <1>5, <2>1 DEF Grid
<1>8. \A j \in Objectives : d.ext[j] \in d.live
  BY <1>2, <1>5, <1>7
<1>9. ASSUME NEW j \in Objectives, NEW g \in O \cup {f} PROVE d.F[d.ext[j]][j] <= g[j]
  <2>1. j = 1 \/ j = 2
    BY <1>9 DEF Objectives
  <2>2. g[j] \in Nat /\ f[j] \in Nat
    <3>1. g \in Pair
      BY <1>9
    <3>2. QED
      BY <2>1, <3>1 DEF Pair
  <2>3. CASE j \in new
    <3>1. d.F[d.ext[j]] = f
      BY <1>1, <1>5, <1>9, <2>3
    <3>2. CASE g = f
      BY <2>2, <3>1, <3>2
    <3>3. CASE g \in O /\ a.ext[j] = 0
      BY <1>1, <1>9, <3>1, <3>3 DEF Best
    <3>4. CASE g \in O /\ a.ext[j] # 0
      <4>1. f[j] < a.F[a.ext[j]][j]
        BY <1>1, <1>2, <2>3, <3>4
      <4>2. a.F[a.ext[j]][j] <= g[j]
        BY <1>1, <1>9, <3>4 DEF Best
      <4>3. a.ext[j] \in a.live
        BY <1>7, <1>9, <3>4
      <4>4. a.F[a.ext[j]][j] \in Nat
        BY <1>1, <2>1, <4>3, PointIs
      <4>5. QED
        BY <2>2, <3>1, <4>1, <4>2, <4>4
    <3>5. QED
      BY <1>9, <3>2, <3>3, <3>4
  <2>4. CASE j \notin new
    <3>1. a.ext[j] # 0 /\ ~(f[j] < a.F[a.ext[j]][j]) /\ d.F[d.ext[j]] = a.F[a.ext[j]]
      BY <1>1, <1>2, <1>5, <1>9, <2>4
    <3>2. a.ext[j] \in a.live
      BY <1>7, <1>9, <3>1
    <3>3. a.F[a.ext[j]][j] \in Nat
      BY <1>1, <2>1, <3>2, PointIs
    <3>4. CASE g = f
      BY <2>2, <3>1, <3>3, <3>4
    <3>5. CASE g \in O
      BY <1>1, <1>9, <3>1, <3>5 DEF Best
    <3>6. QED
      BY <1>9, <3>4, <3>5
  <2>5. QED
    BY <2>3, <2>4
<1>10. d.own \/ (Framed(d) /\ Covers(d, O \cup {f}))
  <2>1. CASE a.own
    BY <1>5, <2>1 DEF SameFrame
  <2>2. CASE Framed(a) /\ Covers(a, O \cup {f})
    <3>1. Framed(d)
      BY <1>5, <2>2, FramedSame
    <3>2. \A x : Key(d, x) = Key(a, x)
      BY <1>5, KeySame
    <3>3. ASSUME NEW g \in O \cup {f} PROVE \E t \in d.live : Weakly(Key(d, d.F[t]), Key(d, g))
      <4>1. PICK x \in a.live : Weakly(Key(a, a.F[x]), Key(a, g))
        BY <2>2, <3>3 DEF Covers
      <4>2. PICK t \in d.live : Key(d, d.F[t]) = Key(a, a.F[x])
        BY <1>5, <4>1
      <4>3. QED
        BY <3>2, <4>1, <4>2
    <3>4. Covers(d, O \cup {f})
      BY <3>3 DEF Covers
    <3>5. QED
      BY <3>1, <3>4
  <2>3. QED
    BY <1>1, <2>1, <2>2
<1>11. QED
  BY <1>5, <1>6, <1>8, <1>9, <1>10 DEF Keeps

\* A point offered.
LEMMA AddKeeps ==
  ASSUME NEW O \in SUBSET Pair, NEW f \in Pair, NEW a, Keeps(a, O), NEW d, d = Add(a, f)
  PROVE  Keeps(d, O \cup {f})
<1>1. /\ ArcShape(a) /\ Grid(a, {}) /\ Nondominated(a) /\ From(a, O)
      /\ \A j \in Objectives : O # {} => a.ext[j] \in a.live
      /\ \A j \in Objectives, g \in O : a.F[a.ext[j]][j] <= g[j]
      /\ a.own \/ (Framed(a) /\ Covers(a, O))
  BY DEF Keeps
<1>2. CASE Covered(a, f)
  <2>1. d = a
    BY <1>2 DEF Add
  <2>2. PICK s \in a.live : Weakly(a.F[s], f)
    BY <1>1, <1>2, CoveredIs
  <2>3. a.F[s] \in O /\ a.F[s] \in Pair
    BY <1>1, <2>2 DEF From
  <2>4. From(a, O \cup {f}) /\ \A j \in Objectives : a.ext[j] \in a.live
    BY <1>1, <2>3 DEF From
  <2>5. ASSUME NEW j \in Objectives PROVE a.F[a.ext[j]][j] <= f[j]
    <3>1. j = 1 \/ j = 2
      BY <2>5 DEF Objectives
    <3>2. a.F[s][j] <= f[j]
      BY <2>2, <3>1 DEF Weakly
    <3>3. a.F[a.ext[j]][j] <= a.F[s][j]
      BY <1>1, <2>3, <2>5
    <3>4. a.F[s][j] \in Nat /\ f[j] \in Nat
      BY <2>3, <3>1 DEF Pair
    <3>5. a.F[a.ext[j]][j] \in Nat
      BY <1>1, <2>4, <2>5, <3>1, PointIs
    <3>6. QED
      BY <3>2, <3>3, <3>4, <3>5
  <2>6. \A j \in Objectives, g \in O \cup {f} : a.F[a.ext[j]][j] <= g[j]
    BY <1>1, <2>5
  <2>7. a.own \/ (Framed(a) /\ Covers(a, O \cup {f}))
    <3>1. CASE Framed(a) /\ Covers(a, O)
      <4>1. Weakly(Key(a, a.F[s]), Key(a, f))
        BY <2>2, <2>3, <3>1, KeyRises
      <4>2. Covers(a, O \cup {f})
        BY <2>2, <3>1, <4>1 DEF Covers
      <4>3. QED
        BY <3>1, <4>2
    <3>2. QED
      BY <1>1, <3>1
  <2>8. QED
    BY <1>1, <2>1, <2>4, <2>6, <2>7 DEF Keeps
<1>3. CASE ~Covered(a, f)
  <2>1. PICK w : w = Without(a, Beaten(a, f))
    OBVIOUS
  <2>2. PICK b : b = Appended(w, f)
    OBVIOUS
  <2>3. PICK c : c = Reframed(b)
    OBVIOUS
  <2>4. Ready(w, O, f)
    BY <1>3, <2>1, RemovedReady
  <2>5. PICK s : Waiting(b, s, O, f)
    BY <2>2, <2>4, AppendedWaits
  <2>6. Waiting(c, s, O, f)
    BY <2>3, <2>5, ReframedWaits
  <2>7. d = Seated(c, s)
    <3>1. s = Len(c.F)
      BY <2>6 DEF Waiting
    <3>2. d = SeatedLast(c)
      BY <1>3, <2>1, <2>2, <2>3 DEF Add
    <3>3. QED
      BY <3>1, <3>2 DEF SeatedLast
  <2>8. QED
    BY <2>6, <2>7, SeatedKept
<1>4. QED
  BY <1>2, <1>3

-----------------------------------------------------------------------------
(* The archives of a run.                                                  *)

\* A row offered, its point if it has not failed.
Offered(O, r) == IF r.ok THEN O \cup {r.f} ELSE O

LEMMA TakeKeeps ==
  ASSUME NEW O \in SUBSET Pair, NEW a, Keeps(a, O), NEW r \in RowType, NEW d, d = Take(a, r)
  PROVE  Offered(O, r) \in SUBSET Pair /\ Keeps(d, Offered(O, r))
<1>1. r.f \in Pair
  BY DEF RowType, Pair
<1>2. CASE r.ok
  <2>1. d = Add(a, r.f) /\ Offered(O, r) = O \cup {r.f}
    BY <1>2 DEF Take, Offered
  <2>2. Keeps(d, O \cup {r.f})
    BY <1>1, <2>1, AddKeeps
  <2>3. QED
    BY <1>1, <2>1, <2>2
<1>3. CASE ~r.ok
  BY <1>3 DEF Take, Offered
<1>4. QED
  BY <1>2, <1>3

\* An archive of some points.
Holds(a) == \E O \in SUBSET Pair : Keeps(a, O)

LEMMA OfferKeeps ==
  ASSUME NEW a, Holds(a), NEW batch \in Seq(RowType), NEW d, d = Offer(a, batch)
  PROVE  Holds(d)
<1>1. PICK n \in Nat : n = Len(batch) /\ DOMAIN batch = 1..n
  OBVIOUS
<1>2. PICK t : Through(t, a, batch, n) /\ t[n] = Offer(a, batch)
  BY <1>1, OfferFold
<1>3. t[0] = a /\ \A k \in 1..n : t[k] = Take(t[k - 1], batch[k])
  BY <1>2 DEF Through
<1>4. PICK T : T = {k \in 0..n : Holds(t[k])}
  OBVIOUS
<1>5. 0 \in T
  <2>1. 0 \in 0..n
    OBVIOUS
  <2>2. QED
    BY <1>3, <1>4, <2>1
<1>6. ASSUME NEW k \in 1..n, k - 1 \in T PROVE k \in T
  <2>1. PICK O \in SUBSET Pair : Keeps(t[k - 1], O)
    BY <1>4, <1>6 DEF Holds
  <2>2. batch[k] \in RowType /\ t[k] = Take(t[k - 1], batch[k]) /\ k \in 0..n
    BY <1>1, <1>3, <1>6
  <2>3. Offered(O, batch[k]) \in SUBSET Pair /\ Keeps(t[k], Offered(O, batch[k]))
    BY <2>1, <2>2, TakeKeeps
  <2>4. QED
    BY <1>4, <2>2, <2>3 DEF Holds
<1>7. n \in T
  <2>1. n \in 0..n
    OBVIOUS
  <2>2. QED
    BY <1>5, <1>6, <2>1, Upwards
<1>8. QED
  BY <1>2, <1>4, <1>7

\* One row.
LEMMA OfferOne ==
  ASSUME NEW a, NEW r
  PROVE  Offer(a, <<r>>) = Take(a, r)
<1>1. PICK n \in Nat : n = 1
  OBVIOUS
<1>2. PICK q : q = <<r>>
  OBVIOUS
<1>3. DOMAIN q = 1..n /\ q[1] = r /\ n \in 1..n /\ n - 1 = 0
  BY <1>1, <1>2
<1>4. PICK t : Through(t, a, q, n) /\ t[n] = Offer(a, q)
  BY <1>3, OfferFold
<1>5. t[0] = a /\ t[n] = Take(t[n - 1], q[n])
  BY <1>3, <1>4 DEF Through
<1>6. QED
  BY <1>1, <1>2, <1>3, <1>4, <1>5

\* The archive of every evaluation so far keeps what was offered, and the ledger's is an
\* archive of some of it.
ArchiveInv ==
  /\ offered \in SUBSET Pair /\ Keeps(online, offered)
  /\ Holds(led.arc)

\* The rows handed over are offered.
LEMMA AccountOffers ==
  ASSUME LedgerInv, NEW batch \in Seq(RowType)
  PROVE  Account(led, batch).arc = Offer(led.arc, batch)
<1>1. PICK D : D = {b \in setting.reads : led.fe < b /\ b <= led.fe + Len(batch)}
  OBVIOUS
<1>2. PICK z : z = Account(led, batch)
  OBVIOUS
<1>3. setting.reads \in SUBSET (Nat \ {0})
  BY SettingIs DEF LedgerInv
<1>4. /\ led = [fe |-> led.fe, arc |-> led.arc, readAt |-> led.readAt] /\ led.fe \in Nat
      /\ \A b \in DOMAIN led.readAt : b <= led.fe
  BY DEF LedgerInv
<1>5. Ledgered(z, led, batch, D)
  BY <1>1, <1>2, <1>3, <1>4, AccountIs
<1>6. QED
  BY <1>2, <1>5 DEF Ledgered

LEMMA ArchiveStep ==
  ASSUME LedgerInv, ArchiveInv, [Next]_<<setting, vars>>
  PROVE  ArchiveInv'
<1> USE DEF history
<1>1. ASSUME NEW batch \in Seq(RowType), led' = Account(led, batch) PROVE Holds(led'.arc)
  <2>1. led'.arc = Offer(led.arc, batch)
    BY <1>1, AccountOffers
  <2>2. Holds(led.arc)
    BY DEF ArchiveInv
  <2>3. QED
    BY <1>1, <2>1, <2>2, OfferKeeps
<1>2. buf \in Seq(RowType) /\ setting \in Settings
  BY DEF LedgerInv
<1>3. ASSUME led' = Flush(led), UNCHANGED <<online, offered>> PROVE ArchiveInv'
  <2>1. Holds(led'.arc)
    BY <1>1, <1>2, <1>3 DEF Flush
  <2>2. QED
    BY <1>3, <2>1 DEF ArchiveInv
<1>4. ASSUME UNCHANGED <<led, online, offered>> PROVE ArchiveInv'
  BY <1>4 DEF ArchiveInv
<1>5. ASSUME NEW r \in Rows, Evaluate(r) PROVE ArchiveInv'
  <2>1. r \in RowType
    BY <1>2, RowIs
  <2>2. online' = Take(online, r)
    BY <1>5, OfferOne DEF Evaluate
  <2>3. offered' = Offered(offered, r)
    BY <1>5 DEF Evaluate, Offered
  <2>4. offered \in SUBSET Pair /\ Keeps(online, offered)
    BY DEF ArchiveInv
  <2>5. Offered(offered, r) \in SUBSET Pair /\ Keeps(online', Offered(offered, r))
    BY <2>1, <2>2, <2>4, TakeKeeps
  <2>6. Holds(led'.arc)
    <3>1. CASE led' = led
      BY <3>1 DEF ArchiveInv
    <3>2. CASE led' = Account(led, Append(buf, r))
      <4>1. Append(buf, r) \in Seq(RowType)
        BY <1>2, <2>1
      <4>2. QED
        BY <1>1, <3>2, <4>1
    <3>3. QED
      BY <1>5, <3>1, <3>2 DEF Evaluate
  <2>7. QED
    BY <2>3, <2>5, <2>6 DEF ArchiveInv
<1>6. ASSUME EndSetup PROVE ArchiveInv'
  <2>1. UNCHANGED <<online, offered>>
    BY <1>6 DEF EndSetup
  <2>2. CASE Emit(0, "loop")
    BY <1>3, <2>1, <2>2 DEF Emit
  <2>3. CASE Silently("loop")
    BY <1>4, <2>1, <2>3 DEF Silently
  <2>4. QED
    BY <1>6, <2>2, <2>3 DEF EndSetup
<1>7. ASSUME BeginStep PROVE ArchiveInv'
  BY <1>4, <1>7 DEF BeginStep
<1>8. ASSUME EndStep PROVE ArchiveInv'
  <2>1. UNCHANGED <<online, offered>>
    BY <1>8 DEF EndStep
  <2>2. PICK done \in BOOLEAN : EndStepCounted(done) \/ EndStepSpent(done)
    BY <1>8 DEF EndStep
  <2>3. CASE Emit(steps', "over") \/ Emit(steps', "loop")
    BY <1>3, <2>1, <2>3 DEF Emit
  <2>4. CASE Silently("over") \/ Silently("loop") \/ Silently("threw")
    BY <1>4, <2>1, <2>4 DEF Silently
  <2>5. QED
    BY <2>2, <2>3, <2>4 DEF EndStepCounted, EndStepSpent
<1>9. ASSUME EndRun PROVE ArchiveInv'
  BY <1>3, <1>9 DEF EndRun
<1>10. ASSUME UNCHANGED <<setting, vars>> PROVE ArchiveInv'
  BY <1>4, <1>10 DEF vars, driver
<1>11. QED
  BY <1>5, <1>6, <1>7, <1>8, <1>9, <1>10 DEF Next

\* A new archive, in the problem's frame or without one.
LEMMA NewArchiveKept ==
  ASSUME NEW lo, NEW span, <<lo, span>> \in {<<NoFrame, NoFrame>>}
                              \cup ([Objectives -> Nat] \X [Objectives -> Nat \ {0}]),
         NEW a, a = NewArchive(lo, span)
  PROVE  Keeps(a, {})
<1>1. PICK own : own = (lo = NoFrame)
  OBVIOUS
<1>2. PICK ext : ext = [j \in Objectives |-> 0]
  OBVIOUS
<1>3. PICK none : none = [s \in {} |-> 0]
  OBVIOUS
<1>4. PICK F : F = <<>>
  OBVIOUS
<1>5. PICK live : live = {}
  OBVIOUS
<1>6. a = [F |-> F, live |-> live, cellOf |-> none, cell |-> none, ext |-> ext, lo |-> lo, span |-> span,
           own |-> own, cap |-> Store]
  BY <1>1, <1>2, <1>3, <1>4, <1>5 DEF NewArchive
<1>7. /\ a.F = F /\ a.live = live /\ a.cellOf = none /\ a.cell = none /\ a.ext = ext
      /\ a.lo = lo /\ a.span = span /\ a.own = own /\ a.cap = Store
  BY <1>6
<1>8. F \in Seq(Nat \X Nat) /\ live \in SUBSET (1..Len(F)) /\ DOMAIN none = {}
  BY <1>3, <1>4, <1>5
<1>9. ArcShape(a)
  BY <1>6, <1>7, <1>8 DEF ArcShape
<1>10. Grid(a, {})
  <2>1. \A j \in Objectives : a.ext[j] = 0
    BY <1>2, <1>7
  <2>2. QED
    BY <1>5, <1>7, <1>8, <2>1 DEF Grid
<1>11. Nondominated(a) /\ From(a, {}) /\ Covers(a, {})
  BY <1>5, <1>7 DEF Nondominated, From, Covers
<1>12. a.own \/ Framed(a)
  <2>1. CASE lo = NoFrame
    BY <1>1, <1>7, <2>1
  <2>2. CASE lo \in [Objectives -> Nat] /\ span \in [Objectives -> Nat \ {0}]
    BY <1>7, <2>2 DEF Framed
  <2>3. QED
    BY <2>1, <2>2
<1>13. QED
  BY <1>9, <1>10, <1>11, <1>12 DEF Keeps

LEMMA ArchiveBegins == Init => ArchiveInv
<1> SUFFICES ASSUME Init PROVE ArchiveInv
  OBVIOUS
<1>1. PICK lo : lo = setting.frame[1]
  OBVIOUS
<1>2. PICK span : span = setting.frame[2]
  OBVIOUS
<1>3. PICK a : a = NewArchive(lo, span)
  OBVIOUS
<1>4. <<lo, span>> \in {<<NoFrame, NoFrame>>} \cup ([Objectives -> Nat] \X [Objectives -> Nat \ {0}])
  <2>1. setting \in SettingType
    BY DriverAssumption DEF Init
  <2>2. setting.frame \in {<<NoFrame, NoFrame>>} \cup ([Objectives -> Nat] \X [Objectives -> Nat \ {0}])
    BY <2>1 DEF SettingType
  <2>3. setting.frame = <<lo, span>>
    BY <1>1, <1>2, <2>2
  <2>4. QED
    BY <2>2, <2>3
<1>5. Keeps(a, {})
  BY <1>3, <1>4, NewArchiveKept
<1>6. PICK none : none = [b \in {} |-> 0]
  OBVIOUS
<1>7. led = [fe |-> 0, arc |-> a, readAt |-> none]
  BY <1>1, <1>2, <1>3, <1>6 DEF Init
<1>8. led.arc = a
  BY <1>7
<1>9. online = a /\ offered = {}
  BY <1>8 DEF Init
<1>10. QED
  BY <1>5, <1>8, <1>9 DEF ArchiveInv, Holds

LEMMA ArchiveAlways == Spec => [](LedgerInv /\ ReportedInv /\ ArchiveInv)
<1>1. Init => LedgerInv /\ ReportedInv /\ ArchiveInv
  BY LedgerBegins, ArchiveBegins
<1>2. LedgerInv /\ ReportedInv /\ ArchiveInv /\ [Next]_<<setting, vars>>
        => (LedgerInv /\ ReportedInv /\ ArchiveInv)'
  BY LedgerStep, ArchiveStep
<1>3. QED
  BY <1>1, <1>2, PTL DEF Spec

\* With every row handed over, the ledger's archive is that of all of them.
LEMMA AllOffered ==
  ASSUME LedgerInv, ArchiveInv, buf = <<>>
  PROVE  Keeps(led.arc, offered) /\ offered \in SUBSET Pair
<1>1. led.arc = online
  BY OfferNone DEF LedgerInv
<1>2. QED
  BY <1>1 DEF ArchiveInv

\* No point of the archive dominates another, and its grid lists its points, each an objective's
\* best or alone in its cell - for any points, frame, grid and store, across every regrid and
\* compaction (GridArchive::add).
THEOREM ArchiveIsTrue == Spec => []ArchiveTrue
<1>1. LedgerInv /\ ReportedInv /\ ArchiveInv => ArchiveTrue
  <2>1. SUFFICES ASSUME ArchiveInv PROVE ArchiveTrue
    OBVIOUS
  <2>2. PICK a : a = led.arc
    OBVIOUS
  <2>3. PICK O \in SUBSET Pair : Keeps(a, O)
    BY <2>1, <2>2 DEF ArchiveInv, Holds
  <2>4. Nondominated(a) /\ Grid(a, {})
    BY <2>3 DEF Keeps
  <2>5. GridTrue(a)
    <3>1. /\ \A s \in a.live : s \in {} <=> ~IsExtreme(a, s) /\ s \notin DOMAIN a.cellOf
          /\ \A s \in a.live : ~(IsExtreme(a, s) /\ s \in DOMAIN a.cellOf)
          /\ \A s \in DOMAIN a.cellOf :
                s \in a.live /\ a.cellOf[s] = Key(a, a.F[s]) /\ a.cell[a.cellOf[s]] = s
          /\ \A c \in DOMAIN a.cell : a.cell[c] \in DOMAIN a.cellOf /\ a.cellOf[a.cell[c]] = c
      BY <2>4 DEF Grid
    <3>2. \A s \in a.live : IsExtreme(a, s) # (s \in DOMAIN a.cellOf)
      BY <3>1
    <3>3. QED
      BY <3>1, <3>2 DEF GridTrue
  <2>6. QED
    BY <2>2, <2>4, <2>5 DEF ArchiveTrue
<1>2. QED
  BY <1>1, ArchiveAlways, PTL

\* The best value offered of each objective is kept, whatever was pruned, dethroned or moved
\* ("the ends of the front are never pruned", docs/running.md).
THEOREM ExtremesAreKept == Spec => []ExtremesKept
<1>1. LedgerInv /\ ReportedInv /\ ArchiveInv => ExtremesKept
  <2>1. SUFFICES ASSUME LedgerInv, ArchiveInv, buf = <<>>, NEW j \in Objectives, offered # {}
                 PROVE  /\ led.arc.ext[j] \in led.arc.live
                        /\ led.arc.F[led.arc.ext[j]][j] = Min({f[j] : f \in offered})
    BY DEF ExtremesKept, HasExtremes
  <2>2. PICK a : a = led.arc
    OBVIOUS
  <2>3. Keeps(a, offered) /\ offered \in SUBSET Pair
    BY <2>1, <2>2, AllOffered
  <2>4. /\ a.ext[j] \in a.live /\ From(a, offered)
        /\ \A g \in offered : a.F[a.ext[j]][j] <= g[j]
    BY <2>1, <2>3 DEF Keeps
  <2>5. PICK V : V = {f[j] : f \in offered}
    OBVIOUS
  <2>6. V \in SUBSET Nat
    <3>1. j = 1 \/ j = 2
      BY <2>1 DEF Objectives
    <3>2. \A f \in offered : f[j] \in Nat
      BY <2>3, <3>1 DEF Pair
    <3>3. QED
      BY <2>5, <3>2
  <2>7. PICK x : x = a.F[a.ext[j]][j]
    OBVIOUS
  <2>8. x \in V /\ \A y \in V : x <= y
    BY <2>4, <2>5, <2>7 DEF From
  <2>9. Min(V) = x
    BY <2>6, <2>8, MinAmong
  <2>10. QED
    BY <2>2, <2>4, <2>5, <2>7, <2>9
<1>2. QED
  BY <1>1, ArchiveAlways, PTL

\* Under the problem's frame every point offered has a point kept that is as good to the width
\* of a cell, however long the chain of prunings (GridArchive::place).
THEOREM NothingIsLost == Spec => []NothingLost
<1>1. LedgerInv /\ ReportedInv /\ ArchiveInv => NothingLost
  <2>1. SUFFICES ASSUME LedgerInv, ArchiveInv, buf = <<>>, ~led.arc.own PROVE Covers(led.arc, offered)
    BY DEF NothingLost
  <2>2. Keeps(led.arc, offered)
    BY <2>1, AllOffered
  <2>3. QED
    BY <2>1, <2>2 DEF Keeps
<1>2. QED
  BY <1>1, ArchiveAlways, PTL
=============================================================================
