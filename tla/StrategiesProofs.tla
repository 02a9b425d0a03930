-------------------------- MODULE StrategiesProofs --------------------------
(***************************************************************************)
(* That a point a solver comes back to is never counted twice, that any    *)
(* number of threads gives the run of one, for any strategy, plans,        *)
(* budgets and interleaving of the threads, that a round spends no more    *)
(* than its starts were given, nor they more than was left, and that a     *)
(* strategy by restarts ends for a reason.                                 *)
(*                                                                         *)
(* A fold of the community modules is some solution of its equation: the   *)
(* first lemmas show, without an induction theorem, that there is one, and *)
(* that each fold the model uses is the last of a trace of its steps.      *)
(***************************************************************************)
EXTENDS Strategies, FiniteSetTheorems, SequenceTheorems, WellFoundedInduction, TLAPS

\* A set of natural numbers has a least element.
LEMMA LeastIs ==
  ASSUME NEW T \in SUBSET Nat, T # {}
  PROVE  \E x \in T : \A y \in T : x <= y
<1>1. \E x \in T : \A y \in T : ~(<<y, x>> \in OpToRel(<, Nat))
  BY NatLessThanWellFounded, WFMin
<1>2. PICK x \in T : \A y \in T : ~(<<y, x>> \in OpToRel(<, Nat))
  BY <1>1
<1>3. \A y \in T : ~(y < x)
  BY <1>2 DEF OpToRel
<1>4. QED
  BY <1>3

\* A set of numbers up to n that has some has a greatest.
LEMMA MaxIs ==
  ASSUME NEW n \in Nat, NEW s \in SUBSET (1..n), s # {}
  PROVE  Max(s) \in s /\ \A y \in s : y <= Max(s)
<1> DEFINE T == {n - i : i \in s}
<1>1. T \in SUBSET Nat /\ T # {}
  <2>1. \A i \in s : n - i \in Nat
    OBVIOUS
  <2>2. QED
    BY <2>1
<1>2. PICK z \in T : \A y \in T : z <= y
  <2> HIDE DEF T
  <2>1. QED
    BY <1>1, LeastIs
<1>3. PICK m \in s : z = n - m
  BY <1>2
<1>4. \A y \in s : m >= y
  <2>1. SUFFICES ASSUME NEW y \in s PROVE m >= y
    OBVIOUS
  <2>2. n - m <= n - y
    BY <1>2, <1>3, <2>1
  <2>3. QED
    BY <1>3, <2>1, <2>2
<1>5. \E x \in s : \A y \in s : x >= y
  BY <1>4
<1>6. Max(s) \in s /\ \A y \in s : Max(s) >= y
  BY <1>5 DEF Max
<1>7. QED
  BY <1>6

LEMMA MaxOfUpTo ==
  ASSUME NEW n \in Nat, NEW s \in SUBSET (1..(n + 1)), n + 1 \in s
  PROVE  Max(s) = n + 1
<1>1. n + 1 \in Nat /\ s # {} /\ s \in SUBSET (1..(n + 1))
  OBVIOUS
<1>2. Max(s) \in s /\ \A y \in s : y <= Max(s)
  BY <1>1, MaxIs
<1>3. Max(s) \in 1..(n + 1) /\ n + 1 <= Max(s)
  BY <1>2
<1>4. QED
  BY <1>3

LEMMA MaxOfAll ==
  ASSUME NEW k \in Nat, k # 0
  PROVE  Max(1..k) = k
<1>1. 1..k \in SUBSET (1..k) /\ 1..k # {} /\ k \in 1..k
  OBVIOUS
<1>2. Max(1..k) \in 1..k /\ \A y \in 1..k : y <= Max(1..k)
  BY <1>1, MaxIs
<1>3. QED
  BY <1>1, <1>2

\* What holds at first and from number to number holds of all up to n.
LEMMA Upwards ==
  ASSUME NEW n \in Nat, NEW T, 0 \in T, \A k \in 1..n : k - 1 \in T => k \in T
  PROVE  \A k \in 0..n : k \in T
<1> DEFINE None == {k \in 0..n : k \notin T}
<1>1. None \in SUBSET Nat
  OBVIOUS
<1>2. SUFFICES ASSUME None # {} PROVE FALSE
  OBVIOUS
<1>3. PICK m \in None : \A k \in None : m <= k
  <2> HIDE DEF None
  <2>1. QED
    BY <1>1, <1>2, LeastIs
<1>4. m \in 1..n /\ m - 1 \in 0..n /\ ~(m <= m - 1)
  BY <1>3
<1>5. m - 1 \in T
  BY <1>3, <1>4
<1>6. QED
  BY <1>3, <1>4, <1>5

\* ... such as what a function is on the first k numbers.
LEMMA AlongTheWay ==
  ASSUME NEW n \in Nat, NEW A, NEW it, it[1..0] \in A,
         \A k \in 1..n : it[1..(k - 1)] \in A => it[1..k] \in A
  PROVE  \A k \in 0..n : it[1..k] \in A
<1>1. PICK T : T = {k \in 0..n : it[1..k] \in A}
  OBVIOUS
<1>2. 0 \in T /\ \A k \in 1..n : k - 1 \in T => k \in T
  BY <1>1
<1>3. \A k \in 0..n : k \in T
  BY <1>2, Upwards
<1>4. QED
  BY <1>1, <1>3

\* The functions that give each subset of 1..n what the step h makes of its numbers in turn,
\* from a on.
FoldsOf(n, A, a, h) ==
  {g \in [SUBSET (1..n) -> A] :
      /\ g[{}] = a
      /\ \A s \in SUBSET (1..n) : s # {} => g[s] = h[<<g[s \ {Max(s)}], Max(s)>>]}

\* There is one.
LEMMA FoldExists ==
  ASSUME NEW n \in Nat, NEW A, NEW a \in A, NEW h \in [A \X (1..n) -> A]
  PROVE  FoldsOf(n, A, a, h) # {}
<1>0. \A e \in A : \A i \in 1..n : h[<<e, i>>] \in A
  OBVIOUS
<1> DEFINE Fold(m, g) == /\ g \in [SUBSET (1..m) -> A]
                         /\ g[{}] = a
                         /\ \A s \in SUBSET (1..m) : s # {} => g[s] = h[<<g[s \ {Max(s)}], Max(s)>>]
           None == {m \in 0..n : ~\E g : Fold(m, g)}
<1>1. SUFFICES None = {}
  <2>1. n \in 0..n
    OBVIOUS
  <2>3. \E g : Fold(n, g)
    BY <1>1, <2>1
  <2>2. QED
    BY <2>3 DEF FoldsOf
<1>2. SUFFICES ASSUME None # {} PROVE FALSE
  OBVIOUS
<1>3. PICK m \in None : \A k \in None : m <= k
  <2>1. None \in SUBSET Nat
    OBVIOUS
  <2>2. QED
    BY <1>2, <2>1, LeastIs
<1>4. CASE m = 0
  <2>1. PICK g : g = [s \in SUBSET (1..0) |-> a]
    OBVIOUS
  <2>2. \A s \in SUBSET (1..0) : s = {}
    OBVIOUS
  <2>3. Fold(0, g)
    BY <2>1, <2>2
  <2>4. QED
    BY <1>3, <1>4, <2>3
<1>5. CASE m # 0
  <2>1. PICK k \in 0..n : m = k + 1
    <3>1. m - 1 \in 0..n /\ m = (m - 1) + 1
      BY <1>3, <1>5
    <3>2. QED
      BY <3>1
  <2>2. k \notin None
    <3>1. ~(m <= k)
      BY <2>1
    <3>2. QED
      BY <1>3, <3>1
  <2>3. PICK g : Fold(k, g)
    BY <2>2
  <2>4. PICK b : b = [s \in SUBSET (1..(k + 1)) |-> IF k + 1 \in s THEN h[<<g[s \ {k + 1}], k + 1>>] ELSE g[s]]
    OBVIOUS
  <2>5. /\ \A s \in SUBSET (1..(k + 1)) : s \ {k + 1} \in SUBSET (1..k)
        /\ \A s \in SUBSET (1..(k + 1)) : k + 1 \notin s => s \in SUBSET (1..k)
        /\ k + 1 \in 1..n /\ \A s \in SUBSET (1..k) : k + 1 \notin s /\ s \in SUBSET (1..(k + 1))
    BY <1>3, <2>1
  <2>6. \A s \in SUBSET (1..k) : g[s] \in A
    BY <2>3
  <2>7. b \in [SUBSET (1..(k + 1)) -> A]
    <3>1. ASSUME NEW s \in SUBSET (1..(k + 1)) PROVE b[s] \in A
      <4>1. CASE k + 1 \in s
        BY <2>4, <2>5, <2>6, <4>1
      <4>2. CASE k + 1 \notin s
        BY <2>4, <2>5, <2>6, <4>2
      <4>3. QED
        BY <4>1, <4>2
    <3>2. QED
      BY <2>4, <3>1
  <2>8. \A s \in SUBSET (1..k) : b[s] = g[s]
    BY <2>4, <2>5
  <2>9. b[{}] = a
    BY <2>3, <2>8
  <2>10. ASSUME NEW s \in SUBSET (1..(k + 1)), s # {} PROVE b[s] = h[<<b[s \ {Max(s)}], Max(s)>>]
    <3>1. CASE k + 1 \in s
      <4>1. Max(s) = k + 1
        BY <3>1, MaxOfUpTo
      <4>2. b[s] = h[<<g[s \ {k + 1}], k + 1>>]
        BY <2>4, <3>1
      <4>3. b[s \ {k + 1}] = g[s \ {k + 1}]
        BY <2>5, <2>8
      <4>4. QED
        BY <4>1, <4>2, <4>3
    <3>2. CASE k + 1 \notin s
      <4>1. s \in SUBSET (1..k) /\ s \ {Max(s)} \in SUBSET (1..k)
        BY <2>5, <3>2
      <4>2. g[s] = h[<<g[s \ {Max(s)}], Max(s)>>]
        BY <2>3, <2>10, <4>1
      <4>3. QED
        BY <2>8, <4>1, <4>2
    <3>3. QED
      BY <3>1, <3>2
  <2>11. Fold(k + 1, b)
    BY <2>7, <2>9, <2>10
  <2>12. QED
    BY <1>3, <2>1, <2>11
<1>6. QED
  BY <1>4, <1>5

\* Up to k of 1..n: the last is k, and before it are those up to k - 1.
LEMMA UpTo ==
  ASSUME NEW n \in Nat, NEW k \in 1..n
  PROVE  /\ 1..k \in SUBSET (1..n) /\ 1..k # {}
         /\ Max(1..k) = k /\ (1..k) \ {Max(1..k)} = 1..(k - 1)
<1>1. k \in Nat /\ k # 0 /\ k \in 1..k
  OBVIOUS
<1>2. Max(1..k) = k
  BY <1>1, MaxOfAll
<1>3. 1..k \in SUBSET (1..n) /\ (1..k) \ {k} = 1..(k - 1)
  OBVIOUS
<1>4. QED
  BY <1>1, <1>2, <1>3

\* The functions on sets of numbers that take the step h from each 1..k - 1 to 1..k, and the n
\* steps of h from a on.
Follows(n, A, a, h, it) ==
  /\ it[{}] = a
  /\ \A k \in 1..n : it[1..(k - 1)] \in A => it[1..k] = h[<<it[1..(k - 1)], k>>]

Reaches(n, A, a, h, z) ==
  \E r \in [0..n -> A] : r[0] = a /\ r[n] = z /\ \A k \in 1..n : r[k] = h[<<r[k - 1], k>>]

\* Such a function comes to the last of the steps.
LEMMA StepByStep ==
  ASSUME NEW n \in Nat, NEW A, NEW a \in A, NEW h \in [A \X (1..n) -> A], NEW it,
         Follows(n, A, a, h, it)
  PROVE  Reaches(n, A, a, h, it[1..n])
<1> USE DEF Follows
<1>1. 1..0 = {} /\ n \in 0..n /\ 0 \in 0..n
  OBVIOUS
<1>2. \A k \in 1..n : it[1..(k - 1)] \in A => it[1..k] \in A
  OBVIOUS
<1>3. \A k \in 0..n : it[1..k] \in A
  BY <1>1, <1>2, AlongTheWay
<1>4. PICK r : r = [k \in 0..n |-> it[1..k]]
  OBVIOUS
<1>5. \A k \in 1..n : k \in 0..n /\ k - 1 \in 0..n
  OBVIOUS
<1>6. \A k \in 1..n : r[k] = h[<<r[k - 1], k>>]
  BY <1>3, <1>4, <1>5
<1>7. QED
  BY <1>1, <1>3, <1>4, <1>6 DEF Reaches

\* What bringing a start's events into the archive comes to: the last of its steps.
AdoptTrace(A, a, q) ==
  \E r \in [0..Len(q) -> A] :
     /\ r[0] = a /\ r[Len(q)] = Adopted(a, q)
     /\ \A i \in 1..Len(q) : r[i] = Adopt(r[i - 1], q[i])

\* There is one, where the steps stay in A.
LEMMA AdoptFold ==
  ASSUME NEW B, NEW q \in Seq(B), NEW A, NEW a \in A,
         \A e \in A : \A v \in B : Adopt(e, v) \in A
  PROVE  AdoptTrace(A, a, q)
<1>1. PICK n \in Nat : n = Len(q) /\ DOMAIN q = 1..n /\ \A i \in 1..n : q[i] \in B
  OBVIOUS
<1>2. PICK h : h = [p \in A \X (1..n) |-> Adopt(p[1], q[p[2]])]
  OBVIOUS
<1>3. \A e \in A : \A i \in 1..n : h[<<e, i>>] = Adopt(e, q[i])
  BY <1>2
<1>4. h \in [A \X (1..n) -> A]
  BY <1>1, <1>2
<1>5. PICK g \in FoldsOf(n, A, a, h) : TRUE
  BY <1>1, <1>4, FoldExists
<1>6. g \in [SUBSET (1..n) -> A] /\ g[{}] = a
  BY <1>5 DEF FoldsOf
<1>7. \A s \in SUBSET (1..n) : s # {} => g[s] = Adopt(g[s \ {Max(s)}], q[Max(s)])
  <2>1. SUFFICES ASSUME NEW s \in SUBSET (1..n), s # {} PROVE g[s] = Adopt(g[s \ {Max(s)}], q[Max(s)])
    OBVIOUS
  <2>2. Max(s) \in 1..n
    BY <1>1, <2>1, MaxIs
  <2>3. g[s \ {Max(s)}] \in A
    BY <1>6
  <2>4. g[s] = h[<<g[s \ {Max(s)}], Max(s)>>]
    BY <1>5, <2>1 DEF FoldsOf
  <2>5. QED
    BY <1>3, <2>2, <2>3, <2>4
<1>8. g = [s \in SUBSET (1..n) |-> IF s = {} THEN a ELSE Adopt(g[s \ {Max(s)}], q[Max(s)])]
  BY <1>6, <1>7
<1>9. PICK it : it = CHOOSE f : f = [s \in SUBSET (1..n) |->
                         IF s = {} THEN a ELSE Adopt(f[s \ {Max(s)}], q[Max(s)])]
  OBVIOUS
<1>10. it = [s \in SUBSET (1..n) |-> IF s = {} THEN a ELSE Adopt(it[s \ {Max(s)}], q[Max(s)])]
  BY <1>8, <1>9
<1>11. Adopted(a, q) = it[1..n]
  BY <1>1, <1>9 DEF Adopted, FoldLeft, MapThenFoldSet
<1>12. it[{}] = a /\ \A k \in 1..n : it[1..k] = Adopt(it[1..(k - 1)], q[k])
  <2>1. it[{}] = a
    BY <1>10
  <2>2. ASSUME NEW k \in 1..n PROVE it[1..k] = Adopt(it[1..(k - 1)], q[k])
    <3>1. 1..k \in SUBSET (1..n) /\ 1..k # {} /\ Max(1..k) = k /\ (1..k) \ {Max(1..k)} = 1..(k - 1)
      BY <1>1, UpTo
    <3>2. it[1..k] = Adopt(it[(1..k) \ {Max(1..k)}], q[Max(1..k)])
      BY <1>10, <3>1
    <3>3. QED
      BY <3>1, <3>2
  <2>3. QED
    BY <2>1, <2>2
<1>13. \A k \in 1..n : it[1..(k - 1)] \in A => it[1..k] = h[<<it[1..(k - 1)], k>>]
  BY <1>3, <1>12
<1>14. PICK r \in [0..n -> A] :
            r[0] = a /\ r[n] = it[1..n] /\ \A k \in 1..n : r[k] = h[<<r[k - 1], k>>]
  <2>1. Follows(n, A, a, h, it)
    BY <1>12, <1>13 DEF Follows
  <2>2. Reaches(n, A, a, h, it[1..n])
    BY <1>1, <1>4, <2>1, StepByStep
  <2>3. QED
    BY <2>2 DEF Reaches
<1>15. \A k \in 1..n : k - 1 \in 0..n /\ r[k - 1] \in A
  BY <1>1, <1>14
<1>16. \A k \in 1..n : r[k] = Adopt(r[k - 1], q[k])
  BY <1>3, <1>14, <1>15
<1>17. QED
  BY <1>1, <1>11, <1>14, <1>16 DEF AdoptTrace

\* ... and what bringing the views together does.
MergeTrace(A, a, q) ==
  \E r \in [0..Len(q) -> A] :
     /\ r[0] = a /\ r[Len(q)] = Merge(a, q)
     /\ \A i \in 1..Len(q) : r[i] = Adopted(r[i - 1], q[i].events)

\* There is one, where the steps stay in A.
LEMMA MergeFold ==
  ASSUME NEW B, NEW q \in Seq(B), NEW A, NEW a \in A,
         \A e \in A : \A v \in B : Adopted(e, v.events) \in A
  PROVE  MergeTrace(A, a, q)
<1>1. PICK n \in Nat : n = Len(q) /\ DOMAIN q = 1..n /\ \A i \in 1..n : q[i] \in B
  OBVIOUS
<1>2. PICK h : h = [p \in A \X (1..n) |-> Adopted(p[1], q[p[2]].events)]
  OBVIOUS
<1>3. \A e \in A : \A i \in 1..n : h[<<e, i>>] = Adopted(e, q[i].events)
  BY <1>2
<1>4. h \in [A \X (1..n) -> A]
  BY <1>1, <1>2
<1>5. PICK g \in FoldsOf(n, A, a, h) : TRUE
  BY <1>1, <1>4, FoldExists
<1>6. g \in [SUBSET (1..n) -> A] /\ g[{}] = a
  BY <1>5 DEF FoldsOf
<1>7. \A s \in SUBSET (1..n) : s # {} => g[s] = Adopted(g[s \ {Max(s)}], q[Max(s)].events)
  <2>1. SUFFICES ASSUME NEW s \in SUBSET (1..n), s # {} PROVE g[s] = Adopted(g[s \ {Max(s)}], q[Max(s)].events)
    OBVIOUS
  <2>2. Max(s) \in 1..n
    BY <1>1, <2>1, MaxIs
  <2>3. g[s \ {Max(s)}] \in A
    BY <1>6
  <2>4. g[s] = h[<<g[s \ {Max(s)}], Max(s)>>]
    BY <1>5, <2>1 DEF FoldsOf
  <2>5. QED
    BY <1>3, <2>2, <2>3, <2>4
<1>8. g = [s \in SUBSET (1..n) |-> IF s = {} THEN a ELSE Adopted(g[s \ {Max(s)}], q[Max(s)].events)]
  BY <1>6, <1>7
<1>9. PICK it : it = CHOOSE f : f = [s \in SUBSET (1..n) |->
                         IF s = {} THEN a ELSE Adopted(f[s \ {Max(s)}], q[Max(s)].events)]
  OBVIOUS
<1>10. it = [s \in SUBSET (1..n) |-> IF s = {} THEN a ELSE Adopted(it[s \ {Max(s)}], q[Max(s)].events)]
  BY <1>8, <1>9
<1>11. Merge(a, q) = it[1..n]
  BY <1>1, <1>9 DEF Merge, FoldLeft, MapThenFoldSet
<1>12. it[{}] = a /\ \A k \in 1..n : it[1..k] = Adopted(it[1..(k - 1)], q[k].events)
  <2>1. it[{}] = a
    BY <1>10
  <2>2. ASSUME NEW k \in 1..n PROVE it[1..k] = Adopted(it[1..(k - 1)], q[k].events)
    <3>1. 1..k \in SUBSET (1..n) /\ 1..k # {} /\ Max(1..k) = k /\ (1..k) \ {Max(1..k)} = 1..(k - 1)
      BY <1>1, UpTo
    <3>2. it[1..k] = Adopted(it[(1..k) \ {Max(1..k)}], q[Max(1..k)].events)
      BY <1>10, <3>1
    <3>3. QED
      BY <3>1, <3>2
  <2>3. QED
    BY <2>1, <2>2
<1>13. \A k \in 1..n : it[1..(k - 1)] \in A => it[1..k] = h[<<it[1..(k - 1)], k>>]
  BY <1>3, <1>12
<1>14. PICK r \in [0..n -> A] :
            r[0] = a /\ r[n] = it[1..n] /\ \A k \in 1..n : r[k] = h[<<r[k - 1], k>>]
  <2>1. Follows(n, A, a, h, it)
    BY <1>12, <1>13 DEF Follows
  <2>2. Reaches(n, A, a, h, it[1..n])
    BY <1>1, <1>4, <2>1, StepByStep
  <2>3. QED
    BY <2>2 DEF Reaches
<1>15. \A k \in 1..n : k - 1 \in 0..n /\ r[k - 1] \in A
  BY <1>1, <1>14
<1>16. \A k \in 1..n : r[k] = Adopted(r[k - 1], q[k].events)
  BY <1>3, <1>14, <1>15
<1>17. QED
  BY <1>1, <1>11, <1>14, <1>16 DEF MergeTrace

\* The steps of the starts run one after the other, from a on.
InTurnTrace(arch, A, a, q) ==
  \E r \in [0..Len(q) -> A] :
     /\ r[0] = a /\ r[Len(q)] = InTurn(arch, a, q)
     /\ \A i \in 1..Len(q) : r[i] = Alone(arch, r[i - 1], q[i])

\* There is one, where the steps stay in A.
LEMMA InTurnFold ==
  ASSUME NEW arch, NEW B, NEW q \in Seq(B), NEW A, NEW a \in A,
         \A e \in A : \A v \in B : Alone(arch, e, v) \in A
  PROVE  InTurnTrace(arch, A, a, q)
<1>1. PICK n \in Nat : n = Len(q) /\ DOMAIN q = 1..n /\ \A i \in 1..n : q[i] \in B
  OBVIOUS
<1>2. PICK h : h = [p \in A \X (1..n) |-> Alone(arch, p[1], q[p[2]])]
  OBVIOUS
<1>3. \A e \in A : \A i \in 1..n : h[<<e, i>>] = Alone(arch, e, q[i])
  BY <1>2
<1>4. h \in [A \X (1..n) -> A]
  BY <1>1, <1>2
<1>5. PICK g \in FoldsOf(n, A, a, h) : TRUE
  BY <1>1, <1>4, FoldExists
<1>6. g \in [SUBSET (1..n) -> A] /\ g[{}] = a
  BY <1>5 DEF FoldsOf
<1>7. \A s \in SUBSET (1..n) : s # {} => g[s] = Alone(arch, g[s \ {Max(s)}], q[Max(s)])
  <2>1. SUFFICES ASSUME NEW s \in SUBSET (1..n), s # {} PROVE g[s] = Alone(arch, g[s \ {Max(s)}], q[Max(s)])
    OBVIOUS
  <2>2. Max(s) \in 1..n
    BY <1>1, <2>1, MaxIs
  <2>3. g[s \ {Max(s)}] \in A
    BY <1>6
  <2>4. g[s] = h[<<g[s \ {Max(s)}], Max(s)>>]
    BY <1>5, <2>1 DEF FoldsOf
  <2>5. QED
    BY <1>3, <2>2, <2>3, <2>4
<1>8. g = [s \in SUBSET (1..n) |-> IF s = {} THEN a ELSE Alone(arch, g[s \ {Max(s)}], q[Max(s)])]
  BY <1>6, <1>7
<1>9. PICK it : it = CHOOSE f : f = [s \in SUBSET (1..n) |->
                         IF s = {} THEN a ELSE Alone(arch, f[s \ {Max(s)}], q[Max(s)])]
  OBVIOUS
<1>10. it = [s \in SUBSET (1..n) |-> IF s = {} THEN a ELSE Alone(arch, it[s \ {Max(s)}], q[Max(s)])]
  BY <1>8, <1>9
<1>11. InTurn(arch, a, q) = it[1..n]
  BY <1>1, <1>9 DEF InTurn, FoldLeft, MapThenFoldSet
<1>12. it[{}] = a /\ \A k \in 1..n : it[1..k] = Alone(arch, it[1..(k - 1)], q[k])
  <2>1. it[{}] = a
    BY <1>10
  <2>2. ASSUME NEW k \in 1..n PROVE it[1..k] = Alone(arch, it[1..(k - 1)], q[k])
    <3>1. 1..k \in SUBSET (1..n) /\ 1..k # {} /\ Max(1..k) = k /\ (1..k) \ {Max(1..k)} = 1..(k - 1)
      BY <1>1, UpTo
    <3>2. it[1..k] = Alone(arch, it[(1..k) \ {Max(1..k)}], q[Max(1..k)])
      BY <1>10, <3>1
    <3>3. QED
      BY <3>1, <3>2
  <2>3. QED
    BY <2>1, <2>2
<1>13. \A k \in 1..n : it[1..(k - 1)] \in A => it[1..k] = h[<<it[1..(k - 1)], k>>]
  BY <1>3, <1>12
<1>14. PICK r \in [0..n -> A] :
            r[0] = a /\ r[n] = it[1..n] /\ \A k \in 1..n : r[k] = h[<<r[k - 1], k>>]
  <2>1. Follows(n, A, a, h, it)
    BY <1>12, <1>13 DEF Follows
  <2>2. Reaches(n, A, a, h, it[1..n])
    BY <1>1, <1>4, <2>1, StepByStep
  <2>3. QED
    BY <2>2 DEF Reaches
<1>15. \A k \in 1..n : k - 1 \in 0..n /\ r[k - 1] \in A
  BY <1>1, <1>14
<1>16. \A k \in 1..n : r[k] = Alone(arch, r[k - 1], q[k])
  BY <1>3, <1>14, <1>15
<1>17. QED
  BY <1>1, <1>11, <1>14, <1>16 DEF InTurnTrace

\* ... of a sum,
TotalTrace(A, a, q) ==
  \E r \in [0..Len(q) -> A] :
     /\ r[0] = a /\ r[Len(q)] = Total(q)
     /\ \A i \in 1..Len(q) : r[i] = r[i - 1] + q[i]

\* There is one, where the steps stay in A.
LEMMA TotalFold ==
  ASSUME NEW B, NEW q \in Seq(B), NEW A, NEW a \in A, a = 0,
         \A e \in A : \A v \in B : e + v \in A
  PROVE  TotalTrace(A, a, q)
<1>1. PICK n \in Nat : n = Len(q) /\ DOMAIN q = 1..n /\ \A i \in 1..n : q[i] \in B
  OBVIOUS
<1>2. PICK h : h = [p \in A \X (1..n) |-> p[1] + q[p[2]]]
  OBVIOUS
<1>3. \A e \in A : \A i \in 1..n : h[<<e, i>>] = e + q[i]
  BY <1>2
<1>4. h \in [A \X (1..n) -> A]
  BY <1>1, <1>2
<1>5. PICK g \in FoldsOf(n, A, a, h) : TRUE
  BY <1>1, <1>4, FoldExists
<1>6. g \in [SUBSET (1..n) -> A] /\ g[{}] = a
  BY <1>5 DEF FoldsOf
<1>7. \A s \in SUBSET (1..n) : s # {} => g[s] = g[s \ {Max(s)}] + q[Max(s)]
  <2>1. SUFFICES ASSUME NEW s \in SUBSET (1..n), s # {} PROVE g[s] = g[s \ {Max(s)}] + q[Max(s)]
    OBVIOUS
  <2>2. Max(s) \in 1..n
    BY <1>1, <2>1, MaxIs
  <2>3. g[s \ {Max(s)}] \in A
    BY <1>6
  <2>4. g[s] = h[<<g[s \ {Max(s)}], Max(s)>>]
    BY <1>5, <2>1 DEF FoldsOf
  <2>5. QED
    BY <1>3, <2>2, <2>3, <2>4
<1>8. g = [s \in SUBSET (1..n) |-> IF s = {} THEN a ELSE g[s \ {Max(s)}] + q[Max(s)]]
  BY <1>6, <1>7
<1>9. PICK it : it = CHOOSE f : f = [s \in SUBSET (1..n) |->
                         IF s = {} THEN a ELSE f[s \ {Max(s)}] + q[Max(s)]]
  OBVIOUS
<1>10. it = [s \in SUBSET (1..n) |-> IF s = {} THEN a ELSE it[s \ {Max(s)}] + q[Max(s)]]
  BY <1>8, <1>9
<1>11. Total(q) = it[1..n]
  BY <1>1, <1>9 DEF Total, FoldLeft, MapThenFoldSet
<1>12. it[{}] = a /\ \A k \in 1..n : it[1..k] = it[1..(k - 1)] + q[k]
  <2>1. it[{}] = a
    BY <1>10
  <2>2. ASSUME NEW k \in 1..n PROVE it[1..k] = it[1..(k - 1)] + q[k]
    <3>1. 1..k \in SUBSET (1..n) /\ 1..k # {} /\ Max(1..k) = k /\ (1..k) \ {Max(1..k)} = 1..(k - 1)
      BY <1>1, UpTo
    <3>2. it[1..k] = it[(1..k) \ {Max(1..k)}] + q[Max(1..k)]
      BY <1>10, <3>1
    <3>3. QED
      BY <3>1, <3>2
  <2>3. QED
    BY <2>1, <2>2
<1>13. \A k \in 1..n : it[1..(k - 1)] \in A => it[1..k] = h[<<it[1..(k - 1)], k>>]
  BY <1>3, <1>12
<1>14. PICK r \in [0..n -> A] :
            r[0] = a /\ r[n] = it[1..n] /\ \A k \in 1..n : r[k] = h[<<r[k - 1], k>>]
  <2>1. Follows(n, A, a, h, it)
    BY <1>12, <1>13 DEF Follows
  <2>2. Reaches(n, A, a, h, it[1..n])
    BY <1>1, <1>4, <2>1, StepByStep
  <2>3. QED
    BY <2>2 DEF Reaches
<1>15. \A k \in 1..n : k - 1 \in 0..n /\ r[k - 1] \in A
  BY <1>1, <1>14
<1>16. \A k \in 1..n : r[k] = r[k - 1] + q[k]
  BY <1>3, <1>14, <1>15
<1>17. QED
  BY <1>1, <1>11, <1>14, <1>16 DEF TotalTrace

\* ... of a start run alone,
AloneTrace(arch, spec, n, A, a) ==
  \E r \in [0..n -> A] :
     /\ r[0] = a /\ r[n] = AloneRun(arch, a, spec)
     /\ \A i \in 1..n : r[i] = AloneStep(arch, r[i - 1], spec)

\* There is one, where the steps stay in A.
LEMMA AloneFold ==
  ASSUME NEW arch, NEW spec, NEW n \in Nat, n = Len(spec.plan) + 1, NEW A, NEW a \in A,
         \A e \in A : AloneStep(arch, e, spec) \in A
  PROVE  AloneTrace(arch, spec, n, A, a)
<1>1. n \in Nat /\ n = Len(spec.plan) + 1
  OBVIOUS
<1>2. PICK h : h = [p \in A \X (1..n) |-> AloneStep(arch, p[1], spec)]
  OBVIOUS
<1>3. \A e \in A : \A i \in 1..n : h[<<e, i>>] = AloneStep(arch, e, spec)
  BY <1>2
<1>4. h \in [A \X (1..n) -> A]
  BY <1>1, <1>2
<1>5. PICK g \in FoldsOf(n, A, a, h) : TRUE
  BY <1>1, <1>4, FoldExists
<1>6. g \in [SUBSET (1..n) -> A] /\ g[{}] = a
  BY <1>5 DEF FoldsOf
<1>7. \A s \in SUBSET (1..n) : s # {} => g[s] = AloneStep(arch, g[s \ {Max(s)}], spec)
  <2>1. SUFFICES ASSUME NEW s \in SUBSET (1..n), s # {} PROVE g[s] = AloneStep(arch, g[s \ {Max(s)}], spec)
    OBVIOUS
  <2>2. Max(s) \in 1..n
    BY <1>1, <2>1, MaxIs
  <2>3. g[s \ {Max(s)}] \in A
    BY <1>6
  <2>4. g[s] = h[<<g[s \ {Max(s)}], Max(s)>>]
    BY <1>5, <2>1 DEF FoldsOf
  <2>5. QED
    BY <1>3, <2>2, <2>3, <2>4
<1>8. g = [s \in SUBSET (1..n) |-> IF s = {} THEN a ELSE AloneStep(arch, g[s \ {Max(s)}], spec)]
  BY <1>6, <1>7
<1>9. PICK it : it = CHOOSE f : f = [s \in SUBSET (1..n) |->
                         IF s = {} THEN a ELSE AloneStep(arch, f[s \ {Max(s)}], spec)]
  OBVIOUS
<1>10. it = [s \in SUBSET (1..n) |-> IF s = {} THEN a ELSE AloneStep(arch, it[s \ {Max(s)}], spec)]
  BY <1>8, <1>9
<1>11. AloneRun(arch, a, spec) = it[1..n]
  BY <1>1, <1>9 DEF AloneRun, FoldLeft, MapThenFoldSet
<1>12. it[{}] = a /\ \A k \in 1..n : it[1..k] = AloneStep(arch, it[1..(k - 1)], spec)
  <2>1. it[{}] = a
    BY <1>10
  <2>2. ASSUME NEW k \in 1..n PROVE it[1..k] = AloneStep(arch, it[1..(k - 1)], spec)
    <3>1. 1..k \in SUBSET (1..n) /\ 1..k # {} /\ Max(1..k) = k /\ (1..k) \ {Max(1..k)} = 1..(k - 1)
      BY <1>1, UpTo
    <3>2. it[1..k] = AloneStep(arch, it[(1..k) \ {Max(1..k)}], spec)
      BY <1>10, <3>1
    <3>3. QED
      BY <3>1, <3>2
  <2>3. QED
    BY <2>1, <2>2
<1>13. \A k \in 1..n : it[1..(k - 1)] \in A => it[1..k] = h[<<it[1..(k - 1)], k>>]
  BY <1>3, <1>12
<1>14. PICK r \in [0..n -> A] :
            r[0] = a /\ r[n] = it[1..n] /\ \A k \in 1..n : r[k] = h[<<r[k - 1], k>>]
  <2>1. Follows(n, A, a, h, it)
    BY <1>12, <1>13 DEF Follows
  <2>2. Reaches(n, A, a, h, it[1..n])
    BY <1>1, <1>4, <2>1, StepByStep
  <2>3. QED
    BY <2>2 DEF Reaches
<1>15. \A k \in 1..n : k - 1 \in 0..n /\ r[k - 1] \in A
  BY <1>1, <1>14
<1>16. \A k \in 1..n : r[k] = AloneStep(arch, r[k - 1], spec)
  BY <1>3, <1>14, <1>15
<1>17. QED
  BY <1>1, <1>11, <1>14, <1>16 DEF AloneTrace

\* ... and of the lists of what the starts counted.
FlushedTrace(n, A, a) ==
  \E r \in [0..n -> A] :
     /\ r[0] = a /\ r[n] = Flushed
     /\ \A i \in 1..n : r[i] = r[i - 1] \o Shown(i)

\* There is one, where the steps stay in A.
LEMMA FlushedFold ==
  ASSUME NEW n \in Nat, DOMAIN later = 1..n, NEW A, NEW a \in A, a = log,
         \A e \in A : \A k \in 1..n : e \o Shown(k) \in A
  PROVE  FlushedTrace(n, A, a)
<1>0. PICK q : q = [k \in DOMAIN later |-> k]
  OBVIOUS
<1>1. n \in Nat /\ DOMAIN later = 1..n /\ a = log /\ \A i \in 1..n : q[i] = i
  BY <1>0
<1>2. PICK h : h = [p \in A \X (1..n) |-> p[1] \o Shown(q[p[2]])]
  OBVIOUS
<1>3. \A e \in A : \A i \in 1..n : h[<<e, i>>] = e \o Shown(q[i])
  BY <1>2
<1>4. h \in [A \X (1..n) -> A]
  BY <1>1, <1>2
<1>5. PICK g \in FoldsOf(n, A, a, h) : TRUE
  BY <1>1, <1>4, FoldExists
<1>6. g \in [SUBSET (1..n) -> A] /\ g[{}] = a
  BY <1>5 DEF FoldsOf
<1>7. \A s \in SUBSET (1..n) : s # {} => g[s] = g[s \ {Max(s)}] \o Shown(q[Max(s)])
  <2>1. SUFFICES ASSUME NEW s \in SUBSET (1..n), s # {} PROVE g[s] = g[s \ {Max(s)}] \o Shown(q[Max(s)])
    OBVIOUS
  <2>2. Max(s) \in 1..n
    BY <1>1, <2>1, MaxIs
  <2>3. g[s \ {Max(s)}] \in A
    BY <1>6
  <2>4. g[s] = h[<<g[s \ {Max(s)}], Max(s)>>]
    BY <1>5, <2>1 DEF FoldsOf
  <2>5. QED
    BY <1>3, <2>2, <2>3, <2>4
<1>8. g = [s \in SUBSET (1..n) |-> IF s = {} THEN a ELSE g[s \ {Max(s)}] \o Shown(q[Max(s)])]
  BY <1>6, <1>7
<1>9. PICK it : it = CHOOSE f : f = [s \in SUBSET (1..n) |->
                         IF s = {} THEN a ELSE f[s \ {Max(s)}] \o Shown(q[Max(s)])]
  OBVIOUS
<1>10. it = [s \in SUBSET (1..n) |-> IF s = {} THEN a ELSE it[s \ {Max(s)}] \o Shown(q[Max(s)])]
  BY <1>8, <1>9
<1>11. Flushed = it[1..n]
  BY <1>0, <1>1, <1>9 DEF Flushed, FoldLeft, MapThenFoldSet
<1>12. it[{}] = a /\ \A k \in 1..n : it[1..k] = it[1..(k - 1)] \o Shown(q[k])
  <2>1. it[{}] = a
    BY <1>10
  <2>2. ASSUME NEW k \in 1..n PROVE it[1..k] = it[1..(k - 1)] \o Shown(q[k])
    <3>1. 1..k \in SUBSET (1..n) /\ 1..k # {} /\ Max(1..k) = k /\ (1..k) \ {Max(1..k)} = 1..(k - 1)
      BY <1>1, UpTo
    <3>2. it[1..k] = it[(1..k) \ {Max(1..k)}] \o Shown(q[Max(1..k)])
      BY <1>10, <3>1
    <3>3. QED
      BY <3>1, <3>2
  <2>3. QED
    BY <2>1, <2>2
<1>13. \A k \in 1..n : it[1..(k - 1)] \in A => it[1..k] = h[<<it[1..(k - 1)], k>>]
  BY <1>3, <1>12
<1>14. PICK r \in [0..n -> A] :
            r[0] = a /\ r[n] = it[1..n] /\ \A k \in 1..n : r[k] = h[<<r[k - 1], k>>]
  <2>1. Follows(n, A, a, h, it)
    BY <1>12, <1>13 DEF Follows
  <2>2. Reaches(n, A, a, h, it[1..n])
    BY <1>1, <1>4, <2>1, StepByStep
  <2>3. QED
    BY <2>2 DEF Reaches
<1>15. \A k \in 1..n : k - 1 \in 0..n /\ r[k - 1] \in A
  BY <1>1, <1>14
<1>16. \A k \in 1..n : r[k] = r[k - 1] \o Shown(q[k])
  BY <1>3, <1>14, <1>15
<1>17. QED
  BY <1>1, <1>11, <1>14, <1>16 DEF FlushedTrace

-----------------------------------------------------------------------------
(* What the counts owe each other.                                         *)

Events == [x : Points, evals : Nat, grads : Nat]

Views == [own : SUBSET Points, grads : SUBSET Points, events : Seq(Events), spent : Nat,
          asked : Nat, pos : Nat,
          state : {"new", "running", "stopped", "failed"}]

Archives == [order : Seq(Points), grads : SUBSET Points, spent : Nat, gradCalls : Nat,
             budget : Nat, out : BOOLEAN]

\* The archives whose counts are those of what they hold: a gradient is counted before the
\* point it came with, which may be the run's last.
Counts(e) ==
  /\ e.spent = Len(e.order) /\ IsInjective(e.order)
  /\ e.grads \subseteq Known(e) /\ IsFiniteSet(e.grads)
  /\ e.gradCalls - Cardinality(e.grads) \in (IF e.out THEN {0, 1} ELSE {0})

Honest == {e \in Archives : Counts(e)}

\* A point new to a sequence keeps it injective, and is the one it adds.
LEMMA AppendNew ==
  ASSUME NEW q \in Seq(Points), NEW x \in Points, IsInjective(q), x \notin ToSet(q)
  PROVE  /\ Append(q, x) \in Seq(Points) /\ Len(Append(q, x)) = Len(q) + 1
         /\ IsInjective(Append(q, x)) /\ ToSet(Append(q, x)) = ToSet(q) \cup {x}
<1>1. PICK n \in Nat : n = Len(q) /\ DOMAIN q = 1..n
  OBVIOUS
<1>2. PICK r : r = Append(q, x)
  OBVIOUS
<1>3. r \in Seq(Points) /\ Len(r) = n + 1 /\ DOMAIN r = 1..(n + 1) /\ r[n + 1] = x /\ \A i \in 1..n : r[i] = q[i]
  BY <1>1, <1>2
<1>4. IsInjective(r)
  <2>1. SUFFICES ASSUME NEW i \in 1..(n + 1), NEW j \in 1..(n + 1), r[i] = r[j] PROVE i = j
    BY <1>3 DEF IsInjective
  <2>2. \A k \in 1..n : r[k] # x
    BY <1>1, <1>3 DEF ToSet
  <2>3. CASE i = n + 1 \/ j = n + 1
    <3>1. i = n + 1 \/ i \in 1..n
      BY <1>1, <2>1
    <3>2. j = n + 1 \/ j \in 1..n
      BY <1>1, <2>1
    <3>3. QED
      BY <1>3, <2>1, <2>2, <2>3, <3>1, <3>2
  <2>4. CASE i # n + 1 /\ j # n + 1
    <3>1. i \in 1..n /\ j \in 1..n
      BY <1>1, <2>1, <2>4
    <3>2. q[i] = q[j]
      BY <1>3, <2>1, <3>1
    <3>3. QED
      BY <1>1, <3>1, <3>2 DEF IsInjective
  <2>5. QED
    BY <2>3, <2>4
<1>5. ToSet(r) = ToSet(q) \cup {x}
  <2>1. \A k : k \in 1..(n + 1) <=> (k \in 1..n \/ k = n + 1)
    BY <1>1
  <2>2. \A y \in ToSet(r) : y \in ToSet(q) \cup {x}
    BY <1>1, <1>3, <2>1 DEF ToSet
  <2>3. \A y \in ToSet(q) : y \in ToSet(r)
    BY <1>1, <1>3, <2>1 DEF ToSet
  <2>4. x \in ToSet(r)
    BY <1>3, <2>1 DEF ToSet
  <2>5. QED
    BY <2>2, <2>3, <2>4
<1>6. QED
  BY <1>1, <1>2, <1>3, <1>4, <1>5

\* What a point kept, with a gradient counted or not, makes of an archive.
LEMMA KeepCounts ==
  ASSUME NEW e \in Honest, ~e.out, NEW x \in Points, x \notin Known(e), NEW d \in {0, 1},
         NEW c, c = [e EXCEPT !.gradCalls = @ + d], NEW k, k = Keep(c, x)
  PROVE  /\ k \in Archives /\ k.grads = e.grads
         /\ k.spent = Len(k.order) /\ IsInjective(k.order) /\ Known(k) = Known(e) \cup {x}
         /\ k.gradCalls = Cardinality(e.grads) + d
         /\ k.out => k.spent = k.budget
         /\ k.out = (x \in Target)
<1>1. e \in Archives /\ e.spent = Len(e.order) /\ IsInjective(e.order)
      /\ e.gradCalls - Cardinality(e.grads) \in {0} /\ IsFiniteSet(e.grads)
  BY DEF Honest, Counts
<1>2. c \in Archives /\ c.order = e.order /\ c.grads = e.grads /\ c.spent = e.spent
      /\ c.gradCalls = e.gradCalls + d /\ c.budget = e.budget
  BY <1>1 DEF Archives
<1>3. e.order \in Seq(Points) /\ e.spent \in Nat /\ e.gradCalls \in Nat
  BY <1>1 DEF Archives
<1>4. Cardinality(e.grads) \in Nat
  BY <1>1, FS_CardinalityType
<1>5. e.gradCalls = Cardinality(e.grads)
  BY <1>1, <1>3, <1>4
<1>6. k = [c EXCEPT !.order = Append(e.order, x), !.spent = e.spent + 1, !.out = x \in Target,
                    !.budget = IF x \in Target THEN e.spent + 1 ELSE e.budget]
  BY <1>2 DEF Keep
<1>7. /\ k.order = Append(e.order, x) /\ k.spent = e.spent + 1 /\ k.out = (x \in Target)
      /\ k.budget = IF x \in Target THEN e.spent + 1 ELSE e.budget
      /\ k.grads = e.grads /\ k.gradCalls = e.gradCalls + d
  BY <1>2, <1>6 DEF Archives
<1>8. x \notin ToSet(e.order)
  BY DEF Known
<1>9. /\ Append(e.order, x) \in Seq(Points) /\ Len(Append(e.order, x)) = Len(e.order) + 1
      /\ IsInjective(Append(e.order, x)) /\ ToSet(Append(e.order, x)) = ToSet(e.order) \cup {x}
  BY <1>1, <1>3, <1>8, AppendNew
<1>10. k \in Archives
  <2>0. \A o \in Seq(Points), g \in SUBSET Points, z, y, u \in Nat :
          /\ [order |-> o, grads |-> g, spent |-> z, gradCalls |-> y, budget |-> u, out |-> TRUE] \in Archives
          /\ [order |-> o, grads |-> g, spent |-> z, gradCalls |-> y, budget |-> u, out |-> FALSE] \in Archives
    BY DEF Archives
  <2>1. PICK q \in Seq(Points) : q = Append(e.order, x)
    BY <1>9
  <2>2. PICK m \in Nat : m = IF x \in Target THEN e.spent + 1 ELSE e.budget
    BY <1>1, <1>3 DEF Archives
  <2>3. PICK s \in Nat : s = e.spent + 1
    BY <1>3
  <2>4. PICK t \in Nat : t = c.gradCalls
    BY <1>2 DEF Archives
  <2>5. e.grads \in SUBSET Points
    BY <1>1 DEF Archives
  <2>6. CASE x \in Target
    <3>1. k = [order |-> q, grads |-> e.grads, spent |-> s, gradCalls |-> t, budget |-> m, out |-> TRUE]
      BY <1>2, <1>6, <2>1, <2>2, <2>3, <2>4, <2>6 DEF Archives
    <3>2. QED
      <4>1. [order |-> q, grads |-> e.grads, spent |-> s, gradCalls |-> t, budget |-> m, out |-> TRUE] \in Archives
        BY <2>0, <2>1, <2>2, <2>3, <2>4, <2>5
      <4>2. QED
        BY <3>1, <4>1
  <2>7. CASE x \notin Target
    <3>1. k = [order |-> q, grads |-> e.grads, spent |-> s, gradCalls |-> t, budget |-> m, out |-> FALSE]
      <4>0. (x \in Target) = FALSE
        BY <2>7
      <4>1. k = [c EXCEPT !.order = q, !.spent = s, !.out = FALSE, !.budget = m]
        BY <1>6, <2>1, <2>2, <2>3, <2>7, <4>0
      <4>2. QED
        BY <1>2, <2>4, <4>1 DEF Archives
    <3>2. QED
      <4>1. [order |-> q, grads |-> e.grads, spent |-> s, gradCalls |-> t, budget |-> m, out |-> FALSE] \in Archives
        BY <2>0, <2>1, <2>2, <2>3, <2>4, <2>5
      <4>2. QED
        BY <3>1, <4>1
  <2>8. QED
    BY <2>6, <2>7
<1>11. QED
  BY <1>1, <1>5, <1>7, <1>9, <1>10 DEF Known

\* A gradient new to an archive that holds its point.
LEMMA GradientCounts ==
  ASSUME NEW k \in Archives, k.spent = Len(k.order), IsInjective(k.order), ~k.out,
         IsFiniteSet(k.grads), k.grads \subseteq Known(k), NEW x \in Known(k), x \in Points,
         x \notin k.grads, k.gradCalls = Cardinality(k.grads) + 1
  PROVE  [k EXCEPT !.grads = @ \cup {x}] \in Honest
<1>1. PICK g : g = [k EXCEPT !.grads = @ \cup {x}]
  OBVIOUS
<1>2. g \in Archives /\ g.grads = k.grads \cup {x} /\ g.order = k.order /\ g.spent = k.spent
      /\ g.gradCalls = k.gradCalls /\ g.out = k.out
  BY <1>1 DEF Archives
<1>3. IsFiniteSet(g.grads) /\ Cardinality(g.grads) = Cardinality(k.grads) + 1
  BY <1>2, FS_AddElement
<1>4. Cardinality(k.grads) \in Nat
  BY FS_CardinalityType
<1>5. g.gradCalls - Cardinality(g.grads) = 0
  BY <1>2, <1>3, <1>4
<1>6. g.grads \subseteq Known(g)
  BY <1>2 DEF Known
<1>7. g.spent = Len(g.order) /\ IsInjective(g.order) /\ ~g.out
  BY <1>2
<1>8. Counts(g)
  BY <1>3, <1>5, <1>6, <1>7 DEF Counts
<1>9. QED
  BY <1>1, <1>2, <1>8 DEF Honest

\* A start's event brought into the archive leaves counts true (Evaluator::adopt).
LEMMA AdoptCounts ==
  ASSUME NEW e \in Honest, NEW event \in Events
  PROVE  Adopt(e, event) \in Honest
<1>0. event.x \in Points
  BY DEF Events
<1>1. CASE e.out
  BY <1>1 DEF Adopt
<1>2. CASE ~e.out
  <2> DEFINE gradNew == event.grads > 0 /\ event.x \notin e.grads
  <2>1. PICK d \in {0, 1} : d = IF gradNew THEN 1 ELSE 0
    OBVIOUS
  <2>2. PICK c : c = [e EXCEPT !.gradCalls = @ + d]
    OBVIOUS
  <2>3. e \in Archives /\ e.gradCalls \in Nat /\ Counts(e) /\ IsFiniteSet(e.grads)
    BY DEF Honest, Archives, Counts
  <2>4. c = [e EXCEPT !.gradCalls = IF gradNew THEN @ + 1 ELSE @]
    BY <2>1, <2>2, <2>3
  <2>5. PICK k : k = IF event.x \in Known(e) THEN c ELSE Keep(c, event.x)
    OBVIOUS
  <2>6. Adopt(e, event) = IF gradNew /\ ~k.out THEN [k EXCEPT !.grads = @ \cup {event.x}] ELSE k
    BY <1>2, <2>4, <2>5 DEF Adopt
  <2>7. Cardinality(e.grads) \in Nat
    BY <2>3, FS_CardinalityType
  <2>8. e.gradCalls = Cardinality(e.grads)
    BY <1>2, <2>3, <2>7 DEF Counts
  <2>9. /\ k \in Archives /\ k.grads = e.grads
        /\ k.spent = Len(k.order) /\ IsInjective(k.order) /\ Known(k) = Known(e) \cup {event.x}
        /\ k.gradCalls = Cardinality(e.grads) + d
    <3>1. CASE event.x \in Known(e)
      <4>1. k = c
        BY <2>5, <3>1
      <4>2. c \in Archives /\ c.order = e.order /\ c.grads = e.grads /\ c.spent = e.spent
            /\ c.gradCalls = e.gradCalls + d
        BY <2>2, <2>3 DEF Archives
      <4>3. QED
        BY <2>3, <2>8, <3>1, <4>1, <4>2 DEF Counts, Known
    <3>2. CASE event.x \notin Known(e)
      <4>1. k = Keep(c, event.x)
        BY <2>5, <3>2
      <4>2. QED
        BY <1>0, <1>2, <2>2, <3>2, <4>1, KeepCounts
    <3>3. QED
      BY <3>1, <3>2
  <2>10. e.grads \subseteq Known(k)
    BY <2>3, <2>9 DEF Counts
  <2>11. CASE gradNew /\ ~k.out
    <3>1. d = 1 /\ event.x \in Known(k) /\ event.x \notin k.grads
      BY <2>1, <2>9, <2>11
    <3>2. [k EXCEPT !.grads = @ \cup {event.x}] \in Honest
      BY <1>0, <2>3, <2>9, <2>10, <2>11, <3>1, GradientCounts
    <3>3. QED
      BY <2>6, <2>11, <3>2
  <2>12. CASE ~(gradNew /\ ~k.out)
    <3>1. k.gradCalls - Cardinality(k.grads) \in (IF k.out THEN {0, 1} ELSE {0})
      BY <2>1, <2>7, <2>9, <2>12
    <3>2. k \in Honest
      BY <2>3, <2>9, <2>10, <3>1 DEF Honest, Counts
    <3>3. QED
      BY <2>6, <2>12, <3>2
  <2>13. QED
    BY <2>11, <2>12
<1>3. QED
  BY <1>1, <1>2

\* What Adopt preserves, all of a start's events do.
LEMMA AdoptStays ==
  ASSUME NEW B, NEW q \in Seq(B), NEW A, NEW a \in A,
         \A e \in A : \A v \in B : Adopt(e, v) \in A
  PROVE  Adopted(a, q) \in A
<1>1. PICK r \in [0..Len(q) -> A] : r[Len(q)] = Adopted(a, q)
  BY AdoptFold DEF AdoptTrace
<1>2. Len(q) \in 0..Len(q)
  OBVIOUS
<1>3. QED
  BY <1>1, <1>2

\* So do all of its events, and those of all the starts.
LEMMA MergeCounts ==
  ASSUME NEW e \in Honest, NEW vs \in Seq(Views)
  PROVE  Merge(e, vs) \in Honest
<1>1. ASSUME NEW a \in Honest, NEW v \in Views PROVE Adopted(a, v.events) \in Honest
  <2>1. PICK q \in Seq(Events) : q = v.events
    BY DEF Views
  <2>2. \A b \in Honest : \A w \in Events : Adopt(b, w) \in Honest
    BY AdoptCounts
  <2>3. Adopted(a, q) \in Honest
    BY <1>1, <2>1, <2>2, AdoptStays
  <2>4. QED
    BY <2>1, <2>3
<1>2. \A a \in Honest : \A v \in Views : Adopted(a, v.events) \in Honest
  BY <1>1
<1>3. PICK r \in [0..Len(vs) -> Honest] : r[Len(vs)] = Merge(e, vs)
  BY <1>2, MergeFold DEF MergeTrace
<1>4. Len(vs) \in 0..Len(vs)
  OBVIOUS
<1>5. QED
  BY <1>3, <1>4

\* An evaluation leaves counts true, and is the run's last only where it reaches the target,
\* with nothing left to spend (Evaluator::index, keep).
LEMMA IndexedCounts ==
  ASSUME ev \in Honest, ~ev.out, knobs \in Runs, NEW x \in Points, NEW limit,
         NEW k, k = Indexed(x, limit)
  PROVE  /\ k \in Honest
         /\ k.out => ~Returned(x, limit) /\ Outcome(x, limit) # "throws" /\ k.spent >= k.budget
<1>0. ev \in Archives /\ Counts(ev) /\ IsFiniteSet(ev.grads) /\ knobs.joint \in BOOLEAN
  BY EvaluatorAssumption DEF Honest, Counts
<1>1. CASE Outcome(x, limit) # "fresh"
  <2>1. k = ev
    BY <1>1 DEF Indexed
  <2>2. QED
    BY <2>1
<1>2. CASE Outcome(x, limit) = "fresh"
  <2>1. x \notin Known(ev)
    BY <1>2 DEF Outcome
  <2>2. PICK d \in {0, 1} : d = IF knobs.joint THEN 1 ELSE 0
    OBVIOUS
  <2>3. PICK c : c = [ev EXCEPT !.gradCalls = @ + d]
    OBVIOUS
  <2>4. c = IF knobs.joint THEN [ev EXCEPT !.gradCalls = @ + 1] ELSE ev
    <3>1. CASE knobs.joint
      BY <2>2, <2>3, <3>1
    <3>2. CASE ~knobs.joint
      <4>1. ev.gradCalls \in Nat
        BY <1>0 DEF Archives
      <4>2. c = [ev EXCEPT !.gradCalls = ev.gradCalls]
        BY <2>2, <2>3, <3>2, <4>1
      <4>3. c = ev
        BY <1>0, <4>2 DEF Archives
      <4>4. QED
        BY <3>2, <4>3
    <3>3. QED
      BY <3>1, <3>2
  <2>5. PICK b : b = Keep(c, x)
    OBVIOUS
  <2>6. k = IF knobs.joint /\ ~b.out THEN [b EXCEPT !.grads = @ \cup {x}] ELSE b
    BY <1>2, <2>4, <2>5 DEF Indexed
  <2>7. /\ b \in Archives /\ b.grads = ev.grads
        /\ b.spent = Len(b.order) /\ IsInjective(b.order) /\ Known(b) = Known(ev) \cup {x}
        /\ b.gradCalls = Cardinality(ev.grads) + d
        /\ b.out => b.spent = b.budget
        /\ b.out = (x \in Target)
    BY <2>1, <2>2, <2>3, <2>5, KeepCounts
  <2>8. ev.grads \subseteq Known(ev) /\ Cardinality(ev.grads) \in Nat
    BY <1>0, FS_CardinalityType DEF Counts
  <2>9. CASE knobs.joint /\ ~b.out
    <3>1. d = 1 /\ x \in Known(b) /\ x \notin b.grads /\ b.grads \subseteq Known(b)
      BY <2>1, <2>2, <2>7, <2>8, <2>9
    <3>2. [b EXCEPT !.grads = @ \cup {x}] \in Honest
      BY <1>0, <2>7, <2>9, <3>1, GradientCounts
    <3>3. k = [b EXCEPT !.grads = @ \cup {x}]
      BY <2>6, <2>9
    <3>4. ~k.out
      BY <2>7, <2>9, <3>3 DEF Archives
    <3>5. QED
      BY <3>2, <3>3, <3>4
  <2>10. CASE ~(knobs.joint /\ ~b.out)
    <3>1. k = b
      BY <2>6, <2>10
    <3>2. b.gradCalls - Cardinality(b.grads) \in (IF b.out THEN {0, 1} ELSE {0})
      BY <1>0, <2>2, <2>7, <2>8, <2>10
    <3>3. b \in Honest
      BY <1>0, <2>7, <2>8, <3>2 DEF Honest, Counts
    <3>4. b.out => x \in Target /\ b.spent \in Nat /\ b.budget \in Nat /\ b.spent >= b.budget
      BY <2>7 DEF Archives
    <3>5. b.out => ~Returned(x, limit)
      BY <1>2, <3>4 DEF Returned
    <3>6. QED
      BY <1>2, <3>1, <3>3, <3>4, <3>5
  <2>11. QED
    BY <2>9, <2>10
<1>3. QED
  BY <1>1, <1>2

-----------------------------------------------------------------------------
(* The starts.                                                             *)

\* A call of the problem leaves a view a view, as far along its plan as it was.
LEMMA CallingViews ==
  ASSUME NEW v \in Views, NEW spec, NEW x \in Points, NEW evals \in Nat, NEW grads \in Nat,
         NEW w, w = Calling(v, spec, x, evals, grads)
  PROVE  w \in Views /\ w.pos = v.pos
<1>1. PICK cost \in Nat : cost = evals + GradCost * grads
  <2>1. GradCost \in Nat
    BY EvaluatorAssumption
  <2>2. \A p, q, r \in Nat : p + q * r \in Nat
    OBVIOUS
  <2>3. QED
    BY <2>1, <2>2
<1>2. CASE ~Affordable(v, spec, cost)
  <2>1. w = [v EXCEPT !.state = "stopped"]
    BY <1>1, <1>2 DEF Calling
  <2>2. QED
    BY <2>1 DEF Views
<1>3. CASE Affordable(v, spec, cost) /\ x \in Throwing
  <2>1. w = [v EXCEPT !.state = "failed"]
    BY <1>1, <1>3 DEF Calling
  <2>2. QED
    BY <2>1 DEF Views
<1>4. CASE Affordable(v, spec, cost) /\ x \notin Throwing
  <2>1. PICK event \in Events : event = [x |-> x, evals |-> evals, grads |-> grads]
    BY DEF Events
  <2>2. w = [v EXCEPT !.spent = @ + cost, !.own = @ \cup {x},
                      !.grads = IF grads > 0 THEN @ \cup {x} ELSE @, !.events = Append(@, event)]
    BY <1>1, <1>4, <2>1 DEF Calling
  <2>3. PICK own \in SUBSET Points : own = v.own \cup {x}
    BY DEF Views
  <2>4. PICK gs \in SUBSET Points : gs = IF grads > 0 THEN v.grads \cup {x} ELSE v.grads
    BY DEF Views
  <2>5. PICK es \in Seq(Events) : es = Append(v.events, event)
    <3>1. v.events \in Seq(Events)
      BY DEF Views
    <3>2. \A q \in Seq(Events), b \in Events : Append(q, b) \in Seq(Events)
      OBVIOUS
    <3>3. QED
      BY <2>1, <3>1, <3>2
  <2>6. PICK spent \in Nat : spent = v.spent + cost
    BY <1>1 DEF Views
  <2>7. w = [v EXCEPT !.spent = spent, !.own = own, !.grads = gs, !.events = es]
    BY <2>2, <2>3, <2>4, <2>5, <2>6
  <2>8. QED
    BY <2>3, <2>4, <2>5, <2>6, <2>7 DEF Views
<1>5. QED
  BY <1>2, <1>3, <1>4

\* View::get, likewise.
LEMMA GetViews ==
  ASSUME NEW v \in Views, NEW spec, NEW x \in Points, NEW kind, NEW e \in Archives,
         NEW w, w = Get(e, v, spec, x, kind)
  PROVE  w \in Views /\ w.pos = v.pos
<1>1. PICK u : u = Looked(e, v, spec, x, kind)
  OBVIOUS
<1>2. u \in Views /\ u.pos = v.pos
  <2>1. CASE x \in v.own
    BY <1>1, <2>1 DEF Looked
  <2>2. CASE x \in Known(e) \ v.own
    <3>1. u = [v EXCEPT !.own = @ \cup {x}, !.grads = @ \cup (e.grads \cap {x})]
      BY <1>1, <2>2 DEF Looked
    <3>2. QED
      BY <3>1 DEF Views, Archives
  <2>3. CASE x \notin v.own /\ x \notin Known(e)
    <3>1. PICK n \in Nat : n = IF kind = "joint" THEN 1 ELSE 0
      OBVIOUS
    <3>2. u = Calling(v, spec, x, 1, n)
      BY <1>1, <2>3, <3>1 DEF Looked
    <3>3. QED
      BY <3>1, <3>2, CallingViews
  <2>4. QED
    BY <2>1, <2>2, <2>3
<1>3. CASE u.state = "running" /\ kind # "values" /\ x \notin u.grads
  <2>1. w = Calling(u, spec, x, 0, 1)
    BY <1>1, <1>3 DEF Get
  <2>2. QED
    BY <1>2, <2>1, CallingViews
<1>4. CASE ~(u.state = "running" /\ kind # "values" /\ x \notin u.grads)
  <2>1. w = u
    BY <1>1, <1>4 DEF Get
  <2>2. QED
    BY <1>2, <2>1
<1>5. QED
  BY <1>3, <1>4

\* The inner solver's next call takes it a step along its plan at most.
LEMMA AskViews ==
  ASSUME NEW v \in Views, NEW spec, spec.plan \in Seq(Calls), v.pos <= Len(spec.plan),
         NEW e \in Archives, NEW w, w = Ask(e, v, spec)
  PROVE  w \in Views /\ w.pos <= Len(spec.plan) /\ (w.state = "running" => w.pos = v.pos + 1)
<1>1. PICK n \in Nat : n = Len(spec.plan) /\ \A i \in 1..n : spec.plan[i] \in Calls
  OBVIOUS
<1>2. PICK p \in Nat : p = v.pos
  BY DEF Views
<1>3. CASE p = n
  <2>1. w = [v EXCEPT !.state = "stopped"]
    BY <1>1, <1>2, <1>3 DEF Ask
  <2>2. QED
    BY <2>1 DEF Views
<1>4. CASE p # n
  <2>1. p + 1 \in 1..n
    BY <1>1, <1>2, <1>4
  <2>2. PICK c \in Calls : c = spec.plan[v.pos + 1]
    BY <1>1, <1>2, <2>1
  <2>3. c.x \in Points /\ c.kind \in {"values", "grad", "joint"}
    BY <2>2 DEF Calls
  <2>4. PICK m \in Nat : m = v.asked + InnerCost(c.kind)
    <3>1. InnerCost(c.kind) \in Nat
      BY <2>3, RoundsAssumption DEF InnerCost
    <3>2. QED
      BY <3>1 DEF Views
  <2>5. PICK u : u = [v EXCEPT !.pos = p + 1, !.asked = m]
    OBVIOUS
  <2>6. u \in Views /\ u.pos = p + 1
    <3>1. PICK z \in Nat : z = p + 1
      BY <1>2
    <3>2. u = [v EXCEPT !.pos = z, !.asked = m]
      BY <2>5, <3>1
    <3>3. QED
      BY <2>4, <3>1, <3>2 DEF Views
  <2>7. PICK g : g = Get(e, u, spec, c.x, c.kind)
    OBVIOUS
  <2>8. g \in Views /\ g.pos = p + 1
    BY <2>3, <2>6, <2>7, GetViews
  <2>9. u = [v EXCEPT !.pos = @ + 1, !.asked = @ + InnerCost(c.kind)]
    BY <1>2, <2>4, <2>5
  <2>10. w = CASE v.asked + InnerCost(c.kind) > spec.allowance -> [v EXCEPT !.state = "stopped"]
               [] g.state = "running" /\ c.kind # "grad" /\ c.x \in Target -> [g EXCEPT !.state = "stopped"]
               [] OTHER -> g
    BY <1>1, <1>2, <1>4, <2>2, <2>7, <2>9 DEF Ask
  <2>11. w = [v EXCEPT !.state = "stopped"] \/ w = [g EXCEPT !.state = "stopped"] \/ w = g
    BY <2>10
  <2>12. [v EXCEPT !.state = "stopped"] \in Views /\ [v EXCEPT !.state = "stopped"].pos = p
         /\ [v EXCEPT !.state = "stopped"].state = "stopped"
    BY <1>2 DEF Views
  <2>13. [g EXCEPT !.state = "stopped"] \in Views /\ [g EXCEPT !.state = "stopped"].pos = p + 1
    BY <2>8 DEF Views
  <2>14. p <= n /\ p + 1 <= n
    BY <1>1, <1>2, <2>1
  <2>15. QED
    BY <1>1, <1>2, <2>8, <2>11, <2>12, <2>13, <2>14
<1>5. QED
  BY <1>3, <1>4

\* A start begins at the beginning.
LEMMA BegunViews ==
  ASSUME NEW spec
  PROVE  NewView \in Views /\ NewView.pos = 0 /\ Begun(spec) \in Views /\ Begun(spec).pos = 0
<1>1. <<>> \in Seq(Events)
  OBVIOUS
<1>2. NewView \in Views /\ NewView.pos = 0
  BY <1>1 DEF NewView, Views
<1>3. QED
  BY <1>2 DEF Begun, Views

-----------------------------------------------------------------------------
(* The invariant.                                                          *)

\* The counts are true, and a run that has reached its target takes no step more.
EvInv ==
  /\ knobs \in Runs /\ ev \in Honest
  /\ ev.out => phase \in {"over", "failed"}

\* The arms kept between rounds have plans.
ArmsInv ==
  \E n \in Nat : /\ DOMAIN arms = 1..n /\ arms = [a \in 1..n |-> arms[a]]
                 /\ \A a \in 1..n : "plan" \in DOMAIN arms[a] /\ arms[a].plan \in Plans
                 /\ knobs.strategy = "memetic" => n = 1

\* Starts with plans, as a sequence of n.
Given(n, starts) ==
  /\ DOMAIN starts = 1..n /\ starts = [k \in 1..n |-> starts[k]]
  /\ \A k \in 1..n : starts[k].plan \in Plans

\* Each start has a plan, and a view no further than its end.
StartsInv ==
  \E n \in Nat : /\ Given(n, specs)
                 /\ views \in Seq(Views) /\ Len(views) = n
                 /\ \A k \in 1..n : views[k].pos <= Len(specs[k].plan)

CountsInv == EvInv /\ ArmsInv /\ StartsInv

\* A round begins with views of no event.
LEMMA BeginInv ==
  ASSUME NEW n \in Nat, NEW given, Given(n, given), Begin(given)
  PROVE  StartsInv'
<1>1. specs' = given /\ views' = [k \in 1..n |-> NewView]
  BY DEF Begin, Given
<1>2. NewView \in Views /\ NewView.pos = 0
  BY BegunViews
<1>3. views' \in Seq(Views) /\ Len(views') = n
  BY <1>1, <1>2
<1>4. \A k \in 1..n : Len(given[k].plan) \in Nat
  BY RoundsAssumption DEF Given
<1>5. \A k \in 1..n : views'[k].pos <= Len(specs'[k].plan)
  BY <1>1, <1>2, <1>4
<1>6. QED
  BY <1>1, <1>3, <1>5 DEF StartsInv, Given

LEMMA BeginEv ==
  ASSUME NEW given, Begin(given), EvInv
  PROVE  EvInv'
BY DEF Begin, EvInv

\* A set of numbers up to n with 0 among them has a greatest.
LEMMA MaxUpTo ==
  ASSUME NEW n \in Nat, NEW T \in SUBSET (0..n), 0 \in T
  PROVE  Max(T) \in T
<1>1. \E x \in T : \A y \in T : x >= y
  <2>1. CASE T = {0}
    BY <2>1
  <2>2. CASE T # {0}
    <3>1. T \ {0} \in SUBSET (1..n) /\ T \ {0} # {}
      BY <2>2
    <3>2. Max(T \ {0}) \in T \ {0} /\ \A y \in T \ {0} : y <= Max(T \ {0})
      BY <3>1, MaxIs
    <3>3. Max(T \ {0}) \in 1..n
      BY <3>1, <3>2
    <3>5. Max(T \ {0}) \in T /\ \A y \in T : Max(T \ {0}) >= y
      <4>1. ASSUME NEW y \in T PROVE Max(T \ {0}) >= y
        <5>1. CASE y = 0
          BY <3>3, <5>1
        <5>2. CASE y # 0
          <6>1. y \in T \ {0} /\ y \in 1..n
            BY <4>1, <5>2
          <6>2. QED
            BY <3>2, <3>3, <6>1
        <5>3. QED
          BY <5>1, <5>2
      <4>2. QED
        BY <3>2, <4>1
    <3>4. QED
      BY <3>5
  <2>3. QED
    BY <2>1, <2>2
<1>2. QED
  BY <1>1 DEF Max

\* The starts of search::starts are some of those it is given, in their order.
LEMMA StartsGiven ==
  ASSUME NEW n \in Nat, NEW plan \in [1..n -> Plans], NEW cap
  PROVE  \E m \in Nat : Given(m, Starts(plan, cap))
<1>1. PICK share : share = RestShares(cap, Len(plan))
  OBVIOUS
<1>2. DOMAIN plan = 1..n
  OBVIOUS
<1>3. PICK T : T = {0} \cup {k \in DOMAIN plan : share[k] > 0}
  OBVIOUS
<1>4. T \in SUBSET (0..n) /\ 0 \in T
  BY <1>2, <1>3
<1>5. Max(T) \in T
  BY <1>4, MaxUpTo
<1>6. Starts(plan, cap) = [k \in 1..Max(T) |-> Spec1(plan[k], share[k])]
  BY <1>1, <1>3 DEF Starts
<1>7. Max(T) \in Nat /\ \A k \in 1..Max(T) : k \in 1..n
  <2>1. Max(T) \in 0..n
    BY <1>4, <1>5
  <2>2. \A m \in 0..n : m \in Nat /\ \A k \in 1..m : k \in 1..n
    OBVIOUS
  <2>3. QED
    BY <2>1, <2>2
<1>8. \A k \in 1..Max(T) : Starts(plan, cap)[k].plan = plan[k] /\ plan[k] \in Plans
  BY <1>6, <1>7 DEF Spec1
<1>9. QED
  BY <1>6, <1>7, <1>8 DEF Given

\* One start, or none.
LEMMA OneGiven ==
  ASSUME NEW start, start.plan \in Plans
  PROVE  Given(1, <<start>>)
BY DEF Given

LEMMA NoneGiven == Given(0, <<>>)
BY DEF Given

\* Every way a round starts: with plans, and the arms keep theirs.
LEMMA StartRoundInv ==
  ASSUME CountsInv, StartRound
  PROVE  CountsInv'
<1>0. EvInv /\ ArmsInv /\ knobs' = knobs
  BY DEF CountsInv, StartRound, Multistart, Mlsl, Walk, Tiktak, Halving, GlobalPhase, LocalPhase, Begin
<1>1. CASE Multistart
  <2>1. PICK plan \in [1..knobs.starts -> Plans] :
          Begin([k \in DOMAIN plan |-> Spec1(plan[k], EvenShares(knobs.starts)[k])])
    BY <1>1 DEF Multistart
  <2>2. PICK given : given = [k \in DOMAIN plan |-> Spec1(plan[k], EvenShares(knobs.starts)[k])]
    OBVIOUS
  <2>3. Given(knobs.starts, given)
    BY <2>1, <2>2 DEF Given, Spec1
  <2>4. knobs.starts \in Nat
    BY <1>0, EvaluatorAssumption DEF EvInv
  <2>5. StartsInv' /\ EvInv'
    BY <1>0, <2>1, <2>2, <2>3, <2>4, BeginInv, BeginEv
  <2>6. ArmsInv'
    BY <1>0, <1>1 DEF Multistart, ArmsInv
  <2>7. QED
    BY <2>5, <2>6 DEF CountsInv
<1>2. CASE Mlsl
  <2>1. PICK n \in 0..knobs.starts : \E plan \in [1..n -> Plans] : Begin(Starts(plan, knobs.cap))
    BY <1>2 DEF Mlsl
  <2>2. PICK plan \in [1..n -> Plans] : Begin(Starts(plan, knobs.cap))
    BY <2>1
  <2>3. n \in Nat
    BY <2>1
  <2>4. PICK m \in Nat : Given(m, Starts(plan, knobs.cap))
    BY <2>2, <2>3, StartsGiven
  <2>5. StartsInv' /\ EvInv'
    BY <1>0, <2>2, <2>4, BeginInv, BeginEv
  <2>6. ArmsInv'
    BY <1>0, <1>2 DEF Mlsl, ArmsInv
  <2>7. QED
    BY <2>5, <2>6 DEF CountsInv
<1>3. CASE Walk
  <2>1. PICK plan \in Plans : Begin(Starts(<<plan>>, knobs.cap))
    BY <1>3 DEF Walk
  <2>2. <<plan>> \in [1..1 -> Plans]
    BY <2>1
  <2>3. PICK m \in Nat : Given(m, Starts(<<plan>>, knobs.cap))
    BY <2>2, StartsGiven
  <2>4. StartsInv' /\ EvInv'
    BY <1>0, <2>1, <2>3, BeginInv, BeginEv
  <2>5. ArmsInv'
    BY <1>0, <1>3 DEF Walk, ArmsInv
  <2>6. QED
    BY <2>4, <2>5 DEF CountsInv
<1>4. CASE Tiktak
  <2>1. PICK plan \in Plans :
          Begin(IF Left(ev) <= 0 THEN <<>>
                ELSE <<Spec1(plan, Each(knobs.cap, Left(ev), Searches - turn))>>)
    BY <1>4 DEF Tiktak
  <2>2. PICK start : start = Spec1(plan, Each(knobs.cap, Left(ev), Searches - turn))
    OBVIOUS
  <2>3. start.plan \in Plans
    BY <2>1, <2>2 DEF Spec1
  <2>4. Begin(<<>>) \/ Begin(<<start>>)
    BY <2>1, <2>2
  <2>5. StartsInv' /\ EvInv'
    BY <1>0, <2>3, <2>4, OneGiven, NoneGiven, BeginInv, BeginEv
  <2>6. ArmsInv'
    BY <1>0, <1>4 DEF Tiktak, ArmsInv
  <2>7. QED
    BY <2>5, <2>6 DEF CountsInv
<1>5. CASE Halving
  <2> DEFINE more == knobs.budget \div (Len(arms) * Ceil2(knobs.starts))
             fresh == MinOf(more, Left(ev) \div Len(arms))
             grown == [a \in DOMAIN arms |-> [arms[a] EXCEPT !.allowance = @ + more]]
             given == [a \in DOMAIN arms |-> [Spec1(grown[a].plan, grown[a].allowance)
                                                EXCEPT !.fresh = fresh]]
  <2>1. \/ Begin(<<>>) /\ UNCHANGED arms
        \/ Begin(given) /\ arms' = grown
    BY <1>5 DEF Halving
  <2> HIDE DEF more, fresh
  <2>2. PICK n \in Nat : /\ DOMAIN arms = 1..n /\ arms = [a \in 1..n |-> arms[a]]
                         /\ \A a \in 1..n : "plan" \in DOMAIN arms[a] /\ arms[a].plan \in Plans
                         /\ knobs.strategy = "memetic" => n = 1
    BY <1>0 DEF ArmsInv
  <2>3. \A a \in 1..n : "plan" \in DOMAIN grown[a] /\ grown[a].plan = arms[a].plan
    BY <2>2
  <2>4. DOMAIN grown = 1..n /\ DOMAIN given = 1..n /\ given = [a \in 1..n |-> given[a]]
    BY <2>2
  <2>5. \A a \in 1..n : given[a].plan = grown[a].plan
    BY <2>2 DEF Spec1
  <2>6. Given(n, given)
    BY <2>2, <2>3, <2>4, <2>5 DEF Given
  <2>7. CASE Begin(<<>>) /\ UNCHANGED arms
    <3>1. StartsInv' /\ EvInv'
      BY <1>0, <2>7, NoneGiven, BeginInv, BeginEv
    <3>2. QED
      BY <1>0, <2>7, <3>1 DEF ArmsInv, CountsInv
  <2>8. CASE Begin(given) /\ arms' = grown
    <3>1. StartsInv' /\ EvInv'
      <4> HIDE DEF given
      <4>1. QED
        BY <1>0, <2>2, <2>6, <2>8, BeginInv, BeginEv
    <3>2. ArmsInv'
      BY <1>0, <2>2, <2>3, <2>4, <2>8 DEF ArmsInv
    <3>3. QED
      BY <3>1, <3>2 DEF CountsInv
  <2>9. QED
    BY <2>1, <2>7, <2>8
<1>6. CASE GlobalPhase
  <2> DEFINE fresh == MinOf(Every, Left(ev))
             allowance == arms[1].allowance + fresh
             start == [Spec1(arms[1].plan, allowance) EXCEPT !.fresh = fresh]
  <2>1. Begin(<<start>>) /\ arms' = [arms EXCEPT ![1].allowance = allowance] /\ knobs.strategy = "memetic"
    BY <1>6 DEF GlobalPhase
  <2> HIDE DEF fresh, allowance
  <2>2. PICK n \in Nat : /\ DOMAIN arms = 1..n /\ arms = [a \in 1..n |-> arms[a]]
                         /\ \A a \in 1..n : "plan" \in DOMAIN arms[a] /\ arms[a].plan \in Plans
                         /\ knobs.strategy = "memetic" => n = 1
    BY <1>0 DEF ArmsInv
  <2>3. start.plan = arms[1].plan
    BY DEF Spec1
  <2>4. n # 0
    BY <2>1, <2>2
  <2>5. Given(1, <<start>>)
    <3>1. arms[1].plan \in Plans
      BY <2>2, <2>4
    <3>2. QED
      BY <2>3, <3>1, OneGiven
  <2>6. StartsInv' /\ EvInv'
    <3> HIDE DEF start
    <3>1. QED
      BY <1>0, <2>1, <2>5, BeginInv, BeginEv
  <2>7. ArmsInv'
    <3>1. \A a \in 1..n : arms'[a] = IF a = 1 THEN [arms[1] EXCEPT !.allowance = allowance] ELSE arms[a]
      BY <2>1, <2>2
    <3>2. \A a \in 1..n : "plan" \in DOMAIN arms'[a] /\ arms'[a].plan \in Plans
      BY <2>2, <3>1
    <3>3. DOMAIN arms' = 1..n /\ arms' = [a \in 1..n |-> arms'[a]]
      BY <2>1, <2>2
    <3>4. QED
      BY <1>0, <2>2, <3>2, <3>3 DEF ArmsInv
  <2>8. QED
    BY <2>6, <2>7 DEF CountsInv
<1>7. CASE LocalPhase
  <2>1. PICK n \in 0..knobs.starts : \E plan \in [1..n -> Plans] : \E cap : Begin(Starts(plan, cap))
    BY <1>7 DEF LocalPhase
  <2>2. PICK plan \in [1..n -> Plans] : \E cap : Begin(Starts(plan, cap))
    BY <2>1
  <2>3. PICK cap : Begin(Starts(plan, cap))
    BY <2>2
  <2>4. n \in Nat
    BY <2>1
  <2>5. PICK m \in Nat : Given(m, Starts(plan, cap))
    BY <2>2, <2>4, StartsGiven
  <2>6. StartsInv' /\ EvInv'
    BY <1>0, <2>3, <2>5, BeginInv, BeginEv
  <2>7. ArmsInv'
    BY <1>0, <1>7 DEF LocalPhase, ArmsInv
  <2>8. QED
    BY <2>6, <2>7 DEF CountsInv
<1>8. QED
  BY <1>1, <1>2, <1>3, <1>4, <1>5, <1>6, <1>7 DEF StartRound

\* What a step of a start makes of the views.
LEMMA ViewSet ==
  ASSUME StartsInv, NEW k, NEW w, specs' = specs, views' = [views EXCEPT ![k] = w],
         k \in DOMAIN views => w \in Views /\ w.pos <= Len(specs[k].plan)
  PROVE  StartsInv'
<1>1. PICK n \in Nat : /\ Given(n, specs) /\ views \in Seq(Views) /\ Len(views) = n
                       /\ \A i \in 1..n : views[i].pos <= Len(specs[i].plan)
  BY DEF StartsInv
<1>2. CASE k \in DOMAIN views
  <2>1. k \in 1..Len(views)
    BY <1>1, <1>2
  <2>2. views' \in Seq(Views) /\ Len(views') = n
    BY <1>1, <1>2, <2>1, ExceptSeq
  <2>3. \A i \in 1..n : views'[i] = IF i = k THEN w ELSE views[i]
    BY <1>1, <2>1
  <2>4. \A i \in 1..n : views'[i].pos <= Len(specs[i].plan)
    BY <1>1, <1>2, <2>3
  <2>5. QED
    BY <1>1, <2>2, <2>4 DEF StartsInv, Given
<1>3. CASE k \notin DOMAIN views
  <2>1. views' = views
    BY <1>1, <1>3
  <2>2. QED
    BY <1>1, <2>1 DEF StartsInv, Given
<1>4. QED
  BY <1>2, <1>3

\* Every step of a round keeps the invariant.
LEMMA RoundsInv ==
  ASSUME CountsInv, NextRounds
  PROVE  CountsInv'
<1>0. EvInv /\ ArmsInv /\ StartsInv
  BY DEF CountsInv
<1>1. ASSUME NEW x \in Points, Draw(x) PROVE CountsInv'
  <2>1. phase = "loop" /\ ev' = Indexed(x, knobs.budget) /\ knobs' = knobs /\ arms' = arms
        /\ specs' = specs /\ views' = views
        /\ phase' = CASE Outcome(x, knobs.budget) = "throws" -> "failed"
                      [] Outcome(x, knobs.budget) # "throws" /\ Returned(x, knobs.budget) -> phase
                      [] OTHER -> "over"
    BY <1>1 DEF Draw, roundState
  <2>2. ~ev.out /\ ev \in Honest /\ knobs \in Runs
    BY <1>0, <2>1 DEF EvInv
  <2>3. PICK k : k = Indexed(x, knobs.budget)
    OBVIOUS
  <2>4. k \in Honest /\ (k.out => ~Returned(x, knobs.budget))
    BY <1>1, <2>2, <2>3, IndexedCounts
  <2>5. k.out => phase' \in {"over", "failed"}
    BY <2>1, <2>4
  <2>6. EvInv'
    BY <2>1, <2>2, <2>3, <2>4, <2>5 DEF EvInv
  <2>7. ArmsInv' /\ StartsInv'
    BY <1>0, <2>1 DEF ArmsInv, StartsInv, Given
  <2>8. QED
    BY <2>6, <2>7 DEF CountsInv
<1>2. CASE StartRound
  BY <1>2, StartRoundInv
<1>3. ASSUME NEW t \in AllThreads, Claim(t) PROVE CountsInv'
  <2>1. /\ views' = [views EXCEPT ![next] = Begun(specs[next])]
        /\ UNCHANGED <<knobs, phase, ev, arms, specs>>
    BY <1>3 DEF Claim, loop
  <2>2. Begun(specs[next]) \in Views /\ Begun(specs[next]).pos = 0
    BY BegunViews
  <2>3. next \in DOMAIN views => Begun(specs[next]).pos <= Len(specs[next].plan)
    <3>1. PICK n \in Nat : Given(n, specs) /\ views \in Seq(Views) /\ Len(views) = n
      BY <1>0 DEF StartsInv
    <3>2. next \in DOMAIN views => specs[next].plan \in Seq(Calls)
      BY <3>1, RoundsAssumption DEF Given
    <3>3. QED
      BY <2>2, <3>2
  <2>4. StartsInv'
    BY <1>0, <2>1, <2>2, <2>3, ViewSet
  <2>5. EvInv' /\ ArmsInv'
    BY <1>0, <2>1 DEF EvInv, ArmsInv
  <2>6. QED
    BY <2>4, <2>5 DEF CountsInv
<1>4. ASSUME NEW t \in AllThreads, Step(t) PROVE CountsInv'
  <2>1. PICK k : k = at[t]
    OBVIOUS
  <2>2. PICK w : w = Ask(ev, views[k], specs[k])
    OBVIOUS
  <2>3. /\ views' = [views EXCEPT ![k] = w]
        /\ UNCHANGED <<knobs, phase, ev, arms, specs>>
    BY <1>4, <2>1, <2>2 DEF Step, loop
  <2>4. k \in DOMAIN views => w \in Views /\ w.pos <= Len(specs[k].plan)
    <3>1. SUFFICES ASSUME k \in DOMAIN views PROVE w \in Views /\ w.pos <= Len(specs[k].plan)
      OBVIOUS
    <3>2. PICK n \in Nat : /\ Given(n, specs) /\ views \in Seq(Views) /\ Len(views) = n
                           /\ \A i \in 1..n : views[i].pos <= Len(specs[i].plan)
      BY <1>0 DEF StartsInv
    <3>3. k \in 1..n /\ views[k] \in Views /\ specs[k].plan \in Plans
      BY <3>1, <3>2 DEF Given
    <3>4. specs[k].plan \in Seq(Calls) /\ views[k].pos <= Len(specs[k].plan)
      BY <3>2, <3>3, RoundsAssumption
    <3>5. ev \in Archives
      BY <1>0 DEF EvInv, Honest
    <3>6. QED
      BY <2>2, <3>3, <3>4, <3>5, AskViews
  <2>5. StartsInv'
    BY <1>0, <2>3, <2>4, ViewSet
  <2>6. EvInv' /\ ArmsInv'
    BY <1>0, <2>3 DEF EvInv, ArmsInv
  <2>7. QED
    BY <2>5, <2>6 DEF CountsInv
<1>5. ASSUME NEW t \in AllThreads, Finish(t) PROVE CountsInv'
  <2>1. UNCHANGED <<knobs, phase, ev, arms, specs, views>>
    BY <1>5 DEF Finish, loop
  <2>2. QED
    BY <1>0, <2>1 DEF CountsInv, EvInv, ArmsInv, StartsInv, Given
<1>6. CASE EndRound
  <2>1. /\ ev' = (IF Throws(views) THEN ev ELSE Merge(ev, views))
        /\ knobs' = knobs /\ specs' = <<>> /\ views' = <<>>
    BY <1>6 DEF EndRound
  <2>2. ~ev'.out \/ phase' \in {"over", "failed"}
    BY <1>6 DEF EndRound
  <2>3. ev' \in Honest
    <3>1. views \in Seq(Views) /\ ev \in Honest
      BY <1>0 DEF StartsInv, EvInv
    <3>2. Merge(ev, views) \in Honest
      BY <3>1, MergeCounts
    <3>3. QED
      BY <2>1, <3>1, <3>2
  <2>4. EvInv'
    BY <1>0, <2>1, <2>2, <2>3 DEF EvInv
  <2>5. StartsInv'
    <3>1. <<>> \in Seq(Views) /\ Len(<<>>) = 0
      OBVIOUS
    <3>2. Given(0, <<>>)
      BY NoneGiven
    <3>3. Given(0, <<>>) /\ views' \in Seq(Views) /\ Len(views') = 0 /\ specs' = <<>>
      BY <2>1, <3>1, <3>2
    <3>4. \A i \in 1..0 : views'[i].pos <= Len(specs'[i].plan)
      OBVIOUS
    <3>5. QED
      BY <3>3, <3>4 DEF StartsInv, Given
  <2>6. ArmsInv'
    <3>1. CASE arms' = arms
      BY <1>0, <2>1, <3>1 DEF ArmsInv
    <3>2. CASE knobs.strategy = "halving" /\ \E order \in Halved : arms' = [k \in DOMAIN order |-> arms[order[k]]]
      <4>1. PICK n \in Nat : /\ DOMAIN arms = 1..n /\ arms = [a \in 1..n |-> arms[a]]
                             /\ \A a \in 1..n : "plan" \in DOMAIN arms[a] /\ arms[a].plan \in Plans
        BY <1>0 DEF ArmsInv
      <4>2. PICK order \in Halved : arms' = [k \in DOMAIN order |-> arms[order[k]]]
        BY <3>2
      <4>3. PICK m : m = (Len(arms) + 1) \div 2
        OBVIOUS
      <4>4. order \in [1..m -> 1..n]
        BY <4>1, <4>2, <4>3 DEF Halved
      <4>5. Len(arms) = n
        <5>1. arms \in [1..n -> {arms[a] : a \in 1..n}]
          BY <4>1
        <5>2. QED
          BY <5>1
      <4>6. m \in Nat
        BY <4>3, <4>5
      <4>7. \A k \in 1..m : arms'[k] = arms[order[k]] /\ order[k] \in 1..n
        BY <4>2, <4>4
      <4>8. DOMAIN arms' = 1..m /\ arms' = [k \in 1..m |-> arms'[k]]
        BY <4>2, <4>4
      <4>9. knobs'.strategy # "memetic"
        BY <2>1, <3>2
      <4>10. \A k \in 1..m : "plan" \in DOMAIN arms'[k] /\ arms'[k].plan \in Plans
        BY <4>1, <4>7
      <4>11. QED
        BY <4>6, <4>8, <4>9, <4>10 DEF ArmsInv
    <3>3. QED
      BY <1>6, <3>1, <3>2 DEF EndRound
  <2>7. QED
    BY <2>4, <2>5, <2>6 DEF CountsInv
<1>7. QED
  BY <1>1, <1>2, <1>3, <1>4, <1>5, <1>6 DEF NextRounds

\* So does every step of the restarts of CMA-ES.
LEMMA RestartsInv ==
  ASSUME CountsInv, NextRestarts, UNCHANGED rounds
  PROVE  CountsInv'
<1>0. EvInv /\ ArmsInv /\ StartsInv /\ arms' = arms /\ specs' = specs /\ views' = views
  BY DEF CountsInv, rounds, loop, roundState
<1>1. knobs' = knobs
  BY DEF NextRestarts, NextRun, Sample, Tell
<1>2. ArmsInv' /\ StartsInv'
  BY <1>0, <1>1 DEF ArmsInv, StartsInv, Given
<1>3. EvInv'
  <2>1. CASE NextRun
    <3>1. ev' = ev /\ phase = "loop"
      BY <2>1 DEF NextRun
    <3>2. QED
      BY <1>0, <1>1, <3>1 DEF EvInv
  <2>2. CASE Tell
    <3>1. ev' = ev /\ phase = "run"
      BY <2>2 DEF Tell
    <3>2. QED
      BY <1>0, <1>1, <3>1 DEF EvInv
  <2>3. ASSUME NEW x \in Points, Sample(x) PROVE EvInv'
    <3>1. /\ phase = "run" /\ ev' = Indexed(x, run.limit)
          /\ CASE Outcome(x, run.limit) = "throws" -> phase' = "failed" /\ UNCHANGED restarts
               [] Outcome(x, run.limit) # "throws" /\ Returned(x, run.limit) ->
                    run' = [run EXCEPT !.sampled = @ + 1] /\ UNCHANGED <<phase, runs>>
               [] OTHER -> EndRun(ev', TRUE)
      BY <2>3 DEF Sample
    <3>2. ~ev.out /\ ev \in Honest /\ knobs \in Runs
      BY <1>0, <3>1 DEF EvInv
    <3>3. PICK k : k = Indexed(x, run.limit)
      OBVIOUS
    <3>4. /\ k \in Honest
          /\ k.out => ~Returned(x, run.limit) /\ Outcome(x, run.limit) # "throws" /\ k.spent >= k.budget
      BY <2>3, <3>2, <3>3, IndexedCounts
    <3>5. ASSUME k.out PROVE phase' \in {"over", "failed"}
      <4>1. EndRun(ev', TRUE)
        BY <3>1, <3>4, <3>5
      <4>2. OutOfBudget(ev', TRUE)
        BY <3>1, <3>3, <3>4, <3>5 DEF OutOfBudget
      <4>3. QED
        BY <4>1, <4>2 DEF EndRun
    <3>6. QED
      BY <1>1, <3>1, <3>2, <3>3, <3>4, <3>5 DEF EvInv
  <2>4. QED
    BY <2>1, <2>2, <2>3 DEF NextRestarts
<1>4. QED
  BY <1>2, <1>3 DEF CountsInv

LEMMA CountsBegin ==
  ASSUME Init
  PROVE  CountsInv
<1>1. knobs \in Runs /\ phase = "loop" /\ ev = NewEvaluator
  BY DEF Init, StartEvaluator
<1>2. EvInv
  <2>1. knobs.budget \in Nat
    BY <1>1, EvaluatorAssumption
  <2>2. <<>> \in Seq(Points) /\ Len(<<>>) = 0 /\ IsInjective(<<>>)
    BY DEF IsInjective
  <2>3. IsFiniteSet({}) /\ Cardinality({}) = 0
    BY FS_EmptySet
  <2>4. ev \in Archives
    BY <1>1, <2>1, <2>2 DEF NewEvaluator, Archives
  <2>5. Counts(ev) /\ ~ev.out
    BY <1>1, <2>2, <2>3 DEF NewEvaluator, Counts
  <2>6. QED
    BY <1>1, <2>4, <2>5 DEF EvInv, Honest
<1>3. StartsInv
  <2>1. specs = <<>> /\ views = <<>>
    BY DEF Init, InitRounds
  <2>2. Given(0, <<>>)
    BY NoneGiven
  <2>3. views \in Seq(Views) /\ Len(views) = 0
    BY <2>1
  <2>4. QED
    BY <2>1, <2>2, <2>3 DEF StartsInv
<1>4. ArmsInv
  <2>1. knobs.starts \in Nat
    BY <1>1, EvaluatorAssumption
  <2>2. arms \in CASE knobs.strategy = "halving" -> [1..knobs.starts -> [plan : Plans, allowance : {0}]]
                   [] knobs.strategy = "memetic" -> [1..1 -> [plan : Plans, allowance : {0}]]
                   [] OTHER -> {<<>>}
    BY DEF Init, InitRounds
  <2>3. CASE knobs.strategy = "halving"
    <3>1. arms \in [1..knobs.starts -> [plan : Plans, allowance : {0}]]
      BY <2>2, <2>3
    <3>2. QED
      BY <2>1, <2>3, <3>1 DEF ArmsInv
  <2>4. CASE knobs.strategy = "memetic"
    <3>1. arms \in [1..1 -> [plan : Plans, allowance : {0}]]
      BY <2>2, <2>4
    <3>2. QED
      BY <3>1 DEF ArmsInv
  <2>5. CASE knobs.strategy \notin {"halving", "memetic"}
    <3>1. arms = <<>>
      BY <2>2, <2>5
    <3>2. PICK n \in Nat : n = 0
      OBVIOUS
    <3>3. DOMAIN arms = 1..n /\ arms = [a \in 1..n |-> arms[a]]
      BY <3>1, <3>2
    <3>4. \A a \in 1..n : "plan" \in DOMAIN arms[a] /\ arms[a].plan \in Plans
      BY <3>2
    <3>5. knobs.strategy = "memetic" => n = 1
      BY <2>5
    <3>6. QED
      BY <3>3, <3>4, <3>5 DEF ArmsInv
  <2>6. QED
    BY <2>3, <2>4, <2>5
<1>5. QED
  BY <1>2, <1>3, <1>4 DEF CountsInv

LEMMA CountsStep ==
  ASSUME CountsInv, [Next]_vars
  PROVE  CountsInv'
<1>1. CASE NextRounds
  BY <1>1, RoundsInv
<1>2. CASE NextRestarts /\ UNCHANGED rounds
  BY <1>2, RestartsInv
<1>3. CASE UNCHANGED vars
  <2>1. UNCHANGED <<knobs, phase, ev, arms, specs, views>>
    BY <1>3 DEF vars, evaluator, rounds, loop, roundState
  <2>2. QED
    BY <2>1 DEF CountsInv, EvInv, ArmsInv, StartsInv, Given
<1>4. QED
  BY <1>1, <1>2, <1>3 DEF Next, Ended

\* A run of any strategy: the counts are those of the archive, for any plans, budgets, numbers
\* of starts and threads, whichever of them asked first (Evaluator::adopt, index, keep).
THEOREM CountedOnceAlways == Spec => []CountedOnce
<1>1. Init => CountsInv
  BY CountsBegin
<1>2. CountsInv /\ [Next]_vars => CountsInv'
  BY CountsStep
<1>3. CountsInv => CountedOnce
  BY DEF CountsInv, EvInv, Honest, Counts, CountedOnce
<1>4. QED
  BY <1>1, <1>2, <1>3, PTL DEF Spec

-----------------------------------------------------------------------------
(* What is logged.                                                         *)

Logged == [event : Events, repairs : Nat]

\* A log as it is when d repairs more were made before it.
Plus(q, d) == [i \in 1..Len(q) |-> [event |-> q[i].event, repairs |-> q[i].repairs + d]]

LEMMA PlusIs ==
  ASSUME NEW q \in Seq(Logged), NEW d \in Nat
  PROVE  /\ Plus(q, d) \in Seq(Logged) /\ Len(Plus(q, d)) = Len(q)
         /\ \A i \in 1..Len(q) : Plus(q, d)[i] = [event |-> q[i].event, repairs |-> q[i].repairs + d]
<1>1. PICK n \in Nat : n = Len(q) /\ \A i \in 1..n : q[i] \in Logged
  OBVIOUS
<1>2. PICK p : p = Plus(q, d)
  OBVIOUS
<1>3. p = [i \in 1..n |-> [event |-> q[i].event, repairs |-> q[i].repairs + d]]
  BY <1>1, <1>2 DEF Plus
<1>4. ASSUME NEW i \in 1..n PROVE p[i] = [event |-> q[i].event, repairs |-> q[i].repairs + d] /\ p[i] \in Logged
  <2>1. q[i] \in Logged
    BY <1>1
  <2>2. q[i].event \in Events /\ q[i].repairs + d \in Nat
    BY <2>1 DEF Logged
  <2>3. QED
    BY <1>3, <2>2 DEF Logged
<1>5. p \in Seq(Logged) /\ Len(p) = n
  BY <1>3, <1>4
<1>6. QED
  BY <1>1, <1>2, <1>4, <1>5

LEMMA SameSeq ==
  ASSUME NEW S, NEW p \in Seq(S), NEW q \in Seq(S), Len(p) = Len(q), \A i \in 1..Len(p) : p[i] = q[i]
  PROVE  p = q
OBVIOUS

LEMMA Joined ==
  ASSUME NEW S, NEW p \in Seq(S), NEW q \in Seq(S)
  PROVE  /\ p \o q \in Seq(S) /\ Len(p \o q) = Len(p) + Len(q)
         /\ \A i \in 1..Len(p) : (p \o q)[i] = p[i]
         /\ \A i \in 1..Len(q) : (p \o q)[Len(p) + i] = q[i]
         /\ \A i \in (Len(p) + 1)..(Len(p) + Len(q)) : (p \o q)[i] = q[i - Len(p)]
<1>1. PICK m \in Nat : m = Len(p)
  OBVIOUS
<1>2. PICK n \in Nat : n = Len(q)
  OBVIOUS
<1>3. p \o q \in Seq(S) /\ Len(p \o q) = m + n
  BY <1>1, <1>2
<1>4. \A i \in 1..(m + n) : (p \o q)[i] = IF i <= m THEN p[i] ELSE q[i - m]
  BY <1>1, <1>2
<1>5. \A i \in 1..n : m + i \in 1..(m + n) /\ ~(m + i <= m) /\ (m + i) - m = i
  OBVIOUS
<1>6. \A i \in 1..m : i \in 1..(m + n) /\ i <= m
  OBVIOUS
<1>7. \A i \in (m + 1)..(m + n) : i \in 1..(m + n) /\ ~(i <= m)
  OBVIOUS
<1>8. QED
  BY <1>1, <1>2, <1>3, <1>4, <1>5, <1>6, <1>7

LEMMA JoinedThree ==
  ASSUME NEW S, NEW p \in Seq(S), NEW q \in Seq(S), NEW r \in Seq(S)
  PROVE  (p \o q) \o r = p \o (q \o r)
OBVIOUS

LEMMA PlusJoined ==
  ASSUME NEW p \in Seq(Logged), NEW q \in Seq(Logged), NEW d \in Nat
  PROVE  Plus(p \o q, d) = Plus(p, d) \o Plus(q, d)
<1>1. PICK a \in Seq(Logged) : a = Plus(p, d)
  BY PlusIs
<1>2. PICK b \in Seq(Logged) : b = Plus(q, d)
  BY PlusIs
<1>3. PICK c \in Seq(Logged) : c = p \o q
  BY Joined
<1>4. PICK m \in Nat : m = Len(p)
  OBVIOUS
<1>5. PICK n \in Nat : n = Len(q)
  OBVIOUS
<1>6. Len(a) = m /\ Len(b) = n /\ Len(c) = m + n
  BY <1>1, <1>2, <1>3, <1>4, <1>5, PlusIs, Joined
<1>7. /\ \A i \in 1..m : a[i] = [event |-> p[i].event, repairs |-> p[i].repairs + d]
      /\ \A i \in 1..n : b[i] = [event |-> q[i].event, repairs |-> q[i].repairs + d]
      /\ \A i \in 1..m : c[i] = p[i]
      /\ \A i \in (m + 1)..(m + n) : c[i] = q[i - m]
  BY <1>1, <1>2, <1>3, <1>4, <1>5, PlusIs, Joined
<1>8. /\ Plus(c, d) \in Seq(Logged) /\ Len(Plus(c, d)) = m + n
      /\ \A i \in 1..(m + n) : Plus(c, d)[i] = [event |-> c[i].event, repairs |-> c[i].repairs + d]
  BY <1>6, PlusIs
<1>9. /\ a \o b \in Seq(Logged) /\ Len(a \o b) = m + n
      /\ \A i \in 1..m : (a \o b)[i] = a[i]
      /\ \A i \in (m + 1)..(m + n) : (a \o b)[i] = b[i - m]
  <2>1. /\ a \o b \in Seq(Logged) /\ Len(a \o b) = Len(a) + Len(b)
        /\ \A i \in 1..Len(a) : (a \o b)[i] = a[i]
        /\ \A i \in (Len(a) + 1)..(Len(a) + Len(b)) : (a \o b)[i] = b[i - Len(a)]
    BY <1>1, <1>2, Joined
  <2>2. QED
    BY <1>6, <2>1
<1>10. ASSUME NEW i \in 1..(m + n) PROVE Plus(c, d)[i] = (a \o b)[i]
  <2>1. CASE i <= m
    <3>1. i \in 1..m
      BY <1>4, <1>5, <2>1
    <3>2. QED
      BY <1>7, <1>8, <1>9, <3>1
  <2>2. CASE ~(i <= m)
    <3>1. i \in (m + 1)..(m + n) /\ i - m \in 1..n
      BY <1>4, <1>5, <2>2
    <3>2. QED
      BY <1>7, <1>8, <1>9, <3>1
  <2>3. QED
    BY <2>1, <2>2
<1>11. QED
  BY <1>1, <1>2, <1>3, <1>8, <1>9, <1>10, SameSeq

\* What a step of a start counts, with n repairs before it and with d more.
LEMMA CountedIs ==
  ASSUME NEW v \in Views, NEW w \in Views, NEW n \in Nat
  PROVE  /\ Counted(v, w, n) \in Seq(Logged)
         /\ \A d \in Nat : Counted(v, w, n + d) = Plus(Counted(v, w, n), d)
<1>1. PICK a \in Nat : a = Len(v.events)
  BY DEF Views
<1>2. PICK q \in Seq(Events) : q = w.events
  BY DEF Views
<1>3. PICK b \in Nat : b = Len(q)
  OBVIOUS
<1>4. \A i \in 1..(b - a) : q[a + i] \in Events
  <2>1. \A i \in 1..(b - a) : a + i \in 1..b
    OBVIOUS
  <2>2. QED
    BY <1>3, <2>1
<1>5. \A m : Counted(v, w, m) = [i \in 1..(b - a) |-> [event |-> q[a + i], repairs |-> m]]
  BY <1>1, <1>2, <1>3 DEF Counted
<1>6. PICK k \in Nat : 1..(b - a) = 1..k /\ \A i \in 1..k : i \in 1..(b - a)
  <2>1. CASE a <= b
    <3>1. b - a \in Nat
      BY <2>1
    <3>2. QED
      BY <3>1
  <2>2. CASE ~(a <= b)
    <3>1. 1..(b - a) = 1..0
      BY <2>2
    <3>2. QED
      BY <3>1
  <2>3. QED
    BY <2>1, <2>2
<1>7. PICK x : x = [i \in 1..k |-> q[a + i]]
  OBVIOUS
<1>8. \A i \in 1..k : x[i] \in Events
  BY <1>4, <1>6, <1>7
<1>9. \A m : Counted(v, w, m) = [i \in 1..k |-> [event |-> x[i], repairs |-> m]]
  <2>1. \A m : Counted(v, w, m) = [i \in 1..k |-> [event |-> q[a + i], repairs |-> m]]
    BY <1>5, <1>6
  <2>2. \A i \in 1..k : x[i] = q[a + i]
    BY <1>7
  <2>3. QED
    BY <2>1, <2>2
<1>10. ASSUME NEW m \in Nat
       PROVE  /\ Counted(v, w, m) \in Seq(Logged) /\ Len(Counted(v, w, m)) = k
              /\ \A i \in 1..k : Counted(v, w, m)[i] = [event |-> x[i], repairs |-> m]
  <2>1. PICK c : c = Counted(v, w, m)
    OBVIOUS
  <2>2. c = [i \in 1..k |-> [event |-> x[i], repairs |-> m]]
    BY <1>9, <2>1
  <2>3. \A i \in 1..k : c[i] = [event |-> x[i], repairs |-> m]
    BY <2>2
  <2>4. \A i \in 1..k : [event |-> x[i], repairs |-> m] \in Logged
    BY <1>8, <1>10 DEF Logged
  <2>5. k \in Nat
    BY <1>6
  <2>6. c \in Seq(Logged) /\ Len(c) = k
    BY <2>2, <2>3, <2>4, <2>5
  <2>7. QED
    BY <2>1, <2>3, <2>6
<1>11. ASSUME NEW d \in Nat PROVE Counted(v, w, n + d) = Plus(Counted(v, w, n), d)
  <2>1. PICK m \in Nat : m = n + d
    BY <1>11
  <2>2. PICK c \in Seq(Logged) : c = Counted(v, w, n) /\ Len(c) = k
    BY <1>10
  <2>3. PICK e \in Seq(Logged) : e = Counted(v, w, m) /\ Len(e) = k
    BY <1>10, <2>1
  <2>4. \A i \in 1..k : c[i] = [event |-> x[i], repairs |-> n] /\ e[i] = [event |-> x[i], repairs |-> m]
    BY <1>10, <2>1, <2>2, <2>3
  <2>5. /\ Plus(c, d) \in Seq(Logged) /\ Len(Plus(c, d)) = k
        /\ \A i \in 1..k : Plus(c, d)[i] = [event |-> c[i].event, repairs |-> c[i].repairs + d]
    BY <1>11, <2>2, PlusIs
  <2>6. ASSUME NEW i \in 1..k PROVE c[i].event = x[i] /\ c[i].repairs = n
    <3>1. c[i] = [event |-> x[i], repairs |-> n]
      BY <2>4, <2>6
    <3>2. QED
      BY <3>1
  <2>7. \A i \in 1..k : e[i] = Plus(c, d)[i]
    BY <2>1, <2>4, <2>5, <2>6
  <2>8. e = Plus(c, d)
    BY <2>3, <2>5, <2>7, SameSeq
  <2>9. QED
    BY <2>1, <2>2, <2>3, <2>8
<1>12. QED
  BY <1>10, <1>11

-----------------------------------------------------------------------------
(* A start alone.                                                          *)

\* What a start of n calls can be at.
States(n) == [view : {v \in Views : v.pos <= n}, count : Nat, log : Seq(Logged)]

Planned(spec) == spec.plan \in Seq(Calls)

\* What a step from s to r does.
Moves(e, spec, n, s, r) ==
  /\ r \in States(n)
  /\ s.view.state # "running" => r = s
  /\ r.view.state = "running" => s.view.state = "running" /\ r.view.pos = s.view.pos + 1
  /\ s.view.state = "running" =>
        /\ r.view = Ask(e, s.view, spec)
        /\ r.count = s.count + Repairs(s.view, spec)
        /\ r.log = s.log \o Counted(s.view, r.view, r.count)

\* A step keeps it, takes the view one call on while it runs, and leaves one that has ended.
LEMMA AloneStepIs ==
  ASSUME NEW e \in Archives, NEW spec, Planned(spec), NEW n \in Nat, n = Len(spec.plan),
         NEW s \in States(n)
  PROVE  Moves(e, spec, n, s, AloneStep(e, s, spec))
<1>0. PICK r : r = AloneStep(e, s, spec)
  OBVIOUS
<1>1. PICK v \in Views : v = s.view /\ v.pos <= n
  BY DEF States
<1>2. CASE v.state # "running"
  <2>1. r = s
    BY <1>0, <1>1, <1>2 DEF AloneStep
  <2>2. QED
    BY <1>0, <1>1, <1>2, <2>1 DEF Moves
<1>3. CASE v.state = "running"
  <2>1. PICK w : w = Ask(e, v, spec)
    OBVIOUS
  <2>2. w \in Views /\ w.pos <= n /\ (w.state = "running" => w.pos = v.pos + 1)
    BY <1>1, <2>1, AskViews DEF Planned
  <2>3. PICK rep : rep = Repairs(v, spec)
    OBVIOUS
  <2>4. rep \in Nat
    <3>1. v.pos \in Nat
      BY <1>1 DEF Views
    <3>2. v.pos < n => spec.plan[v.pos + 1] \in Calls
      BY <3>1 DEF Planned
    <3>3. rep = IF v.pos < n THEN spec.plan[v.pos + 1].rep ELSE 0
      BY <2>3 DEF Repairs
    <3>4. QED
      BY <3>2, <3>3 DEF Calls
  <2>5. PICK c : c = s.count + rep
    OBVIOUS
  <2>6. c \in Nat /\ s.log \in Seq(Logged)
    BY <2>4, <2>5 DEF States
  <2>7. PICK d \in Seq(Logged) : d = Counted(v, w, c)
    BY <1>1, <2>2, <2>6, CountedIs
  <2>8. r = [view |-> w, count |-> c, log |-> s.log \o d]
    BY <1>0, <1>1, <1>3, <2>1, <2>3, <2>5, <2>7 DEF AloneStep
  <2>9. s.log \o d \in Seq(Logged)
    BY <2>6, <2>7, Joined
  <2>10. r \in States(n)
    <3>1. w \in {u \in Views : u.pos <= n}
      BY <2>2
    <3>2. QED
      BY <2>6, <2>8, <2>9, <3>1 DEF States
  <2>11. r.view = w /\ r.count = c /\ r.log = s.log \o d
    BY <2>8
  <2>12. QED
    BY <1>0, <1>1, <1>3, <2>1, <2>2, <2>3, <2>5, <2>7, <2>10, <2>11 DEF Moves
<1>4. QED
  BY <1>2, <1>3

\* The states a start alone goes through from s.
Runs1(e, s, spec, n, r) ==
  /\ r \in [0..(n + 1) -> States(n)]
  /\ r[0] = s /\ r[n + 1] = AloneRun(e, s, spec)
  /\ \A i \in 1..(n + 1) : r[i] = AloneStep(e, r[i - 1], spec)

LEMMA AloneGoes ==
  ASSUME NEW e \in Archives, NEW spec, Planned(spec), NEW n \in Nat, n = Len(spec.plan), NEW s \in States(n)
  PROVE  \E r : Runs1(e, s, spec, n, r)
<1>1. PICK A : A = States(n)
  OBVIOUS
<1>2. \A a \in A : AloneStep(e, a, spec) \in A
  BY <1>1, AloneStepIs DEF Moves
<1>3. PICK m \in Nat : m = n + 1
  OBVIOUS
<1>4. PICK r \in [0..m -> A] :
         /\ r[0] = s /\ r[m] = AloneRun(e, s, spec)
         /\ \A i \in 1..m : r[i] = AloneStep(e, r[i - 1], spec)
  <2>1. s \in A /\ m = Len(spec.plan) + 1
    BY <1>1, <1>3
  <2>2. AloneTrace(e, spec, m, A, s)
    BY <1>2, <1>3, <2>1, AloneFold
  <2>3. QED
    BY <2>2 DEF AloneTrace
<1>5. QED
  BY <1>1, <1>3, <1>4 DEF Runs1

\* It ends within the calls of its plan: its steps are enough.
LEMMA AloneEnds ==
  ASSUME NEW e \in Archives, NEW spec, Planned(spec), NEW n \in Nat, n = Len(spec.plan), NEW s \in States(n)
  PROVE  AloneRun(e, s, spec) \in States(n) /\ AloneRun(e, s, spec).view.state # "running"
<1>1. PICK r : Runs1(e, s, spec, n, r)
  BY AloneGoes
<1>2. PICK m \in Nat : m = n + 1
  OBVIOUS
<1>3. /\ \A i \in 0..m : r[i] \in States(n)
      /\ \A i \in 1..m : r[i] = AloneStep(e, r[i - 1], spec)
      /\ r[m] = AloneRun(e, s, spec)
  BY <1>1, <1>2 DEF Runs1
<1>4. PICK T : T = {i \in 0..m : r[i].view.state = "running" => i <= r[i].view.pos}
  OBVIOUS
<1>5. \A i \in 0..m : r[i].view.pos \in Nat /\ r[i].view.pos <= n
  BY <1>3 DEF States, Views
<1>6. 0 \in T
  BY <1>4, <1>5
<1>7. ASSUME NEW i \in 1..m, i - 1 \in T PROVE i \in T
  <2>1. i - 1 \in 0..m /\ i \in 0..m
    BY <1>7
  <2>2. r[i].view.state = "running" => r[i - 1].view.state = "running" /\ r[i].view.pos = r[i - 1].view.pos + 1
    <3>1. Moves(e, spec, n, r[i - 1], r[i])
      BY <1>3, <1>7, <2>1, AloneStepIs
    <3>2. QED
      BY <3>1 DEF Moves
  <2>3. r[i - 1].view.state = "running" => i - 1 <= r[i - 1].view.pos
    BY <1>4, <1>7
  <2>4. r[i].view.state = "running" => i <= r[i].view.pos
    BY <1>5, <2>1, <2>2, <2>3
  <2>5. QED
    BY <1>4, <2>1, <2>4
<1>8. \A i \in 0..m : i \in T
  BY <1>2, <1>6, <1>7, Upwards
<1>9. r[m].view.state # "running"
  BY <1>2, <1>4, <1>5, <1>8
<1>10. QED
  BY <1>2, <1>3, <1>9

\* One that has ended stays as it is.
LEMMA AloneStays ==
  ASSUME NEW e \in Archives, NEW spec, Planned(spec), NEW n \in Nat, n = Len(spec.plan),
         NEW s \in States(n), s.view.state # "running"
  PROVE  AloneRun(e, s, spec) = s
<1>1. PICK r : Runs1(e, s, spec, n, r)
  BY AloneGoes
<1>2. PICK m \in Nat : m = n + 1
  OBVIOUS
<1>3. /\ r[0] = s /\ \A i \in 1..m : r[i] = AloneStep(e, r[i - 1], spec)
      /\ r[m] = AloneRun(e, s, spec)
  BY <1>1, <1>2 DEF Runs1
<1>4. PICK T : T = {i \in 0..m : r[i] = s}
  OBVIOUS
<1>5. 0 \in T
  BY <1>3, <1>4
<1>6. ASSUME NEW i \in 1..m, i - 1 \in T PROVE i \in T
  <2>1. r[i] = AloneStep(e, s, spec) /\ i \in 0..m
    BY <1>3, <1>4, <1>6
  <2>2. r[i] = s
    <3>1. Moves(e, spec, n, s, AloneStep(e, s, spec))
      BY AloneStepIs
    <3>2. QED
      BY <2>1, <3>1 DEF Moves
  <2>3. QED
    BY <1>4, <2>1, <2>2
<1>7. \A i \in 0..m : i \in T
  BY <1>2, <1>5, <1>6, Upwards
<1>8. QED
  BY <1>3, <1>4, <1>7

\* A step of it comes to the same end.
LEMMA AloneGoesOn ==
  ASSUME NEW e \in Archives, NEW spec, Planned(spec), NEW n \in Nat, n = Len(spec.plan), NEW s \in States(n)
  PROVE  AloneRun(e, AloneStep(e, s, spec), spec) = AloneRun(e, s, spec)
<1>1. PICK t \in States(n) : t = AloneStep(e, s, spec)
  BY AloneStepIs DEF Moves
<1>2. PICK r : Runs1(e, s, spec, n, r)
  BY AloneGoes
<1>3. PICK u : Runs1(e, t, spec, n, u)
  BY AloneGoes
<1>4. PICK m \in Nat : m = n + 1
  OBVIOUS
<1>5. /\ r[0] = s /\ r[m] = AloneRun(e, s, spec) /\ u[0] = t /\ u[m] = AloneRun(e, t, spec)
      /\ \A i \in 1..m : r[i] = AloneStep(e, r[i - 1], spec) /\ u[i] = AloneStep(e, u[i - 1], spec)
      /\ r[m] \in States(n)
  BY <1>2, <1>3, <1>4 DEF Runs1
<1>6. PICK T : T = {i \in 0..n : u[i] = r[i + 1]}
  OBVIOUS
<1>7. 0 \in T
  <2>1. 1 \in 1..m /\ 1 - 1 = 0 /\ 0 + 1 = 1 /\ 0 \in 0..n
    BY <1>4
  <2>2. r[1] = AloneStep(e, r[0], spec)
    BY <1>5, <2>1
  <2>3. QED
    BY <1>1, <1>5, <1>6, <2>1, <2>2
<1>8. ASSUME NEW i \in 1..n, i - 1 \in T PROVE i \in T
  <2>1. i \in 0..n /\ i \in 1..m /\ i + 1 \in 1..m /\ (i - 1) + 1 = i /\ (i + 1) - 1 = i
    BY <1>4, <1>8
  <2>2. u[i - 1] = r[i]
    BY <1>6, <1>8, <2>1
  <2>3. u[i] = AloneStep(e, u[i - 1], spec) /\ r[i + 1] = AloneStep(e, r[i], spec)
    BY <1>5, <2>1
  <2>4. QED
    BY <1>6, <2>1, <2>2, <2>3
<1>9. \A i \in 0..n : i \in T
  BY <1>7, <1>8, Upwards
<1>10. u[n] = r[m]
  BY <1>4, <1>6, <1>9
<1>11. m \in 1..m /\ m - 1 = n
  BY <1>4
<1>12. u[m] = AloneStep(e, r[m], spec)
  BY <1>5, <1>10, <1>11
<1>13. r[m].view.state # "running"
  BY <1>5, AloneEnds
<1>14. u[m] = r[m]
  <2>1. Moves(e, spec, n, r[m], AloneStep(e, r[m], spec))
    BY <1>5, AloneStepIs
  <2>2. QED
    BY <1>12, <1>13, <2>1 DEF Moves
<1>15. QED
  BY <1>1, <1>5, <1>14

\* State t is s after d repairs more and what log m holds.
Shifted(s, t, d, m) == t.view = s.view /\ t.count = s.count + d /\ t.log = m \o Plus(s.log, d)

\* With more repairs and calls before it a start does the same.
LEMMA AloneShifts ==
  ASSUME NEW e \in Archives, NEW spec, Planned(spec), NEW n \in Nat, n = Len(spec.plan),
         NEW s \in States(n), NEW t \in States(n), NEW d \in Nat, NEW m \in Seq(Logged), Shifted(s, t, d, m)
  PROVE  Shifted(AloneRun(e, s, spec), AloneRun(e, t, spec), d, m)
<1>1. ASSUME NEW a \in States(n), NEW b \in States(n), Shifted(a, b, d, m),
             NEW a1 \in States(n), a1 = AloneStep(e, a, spec), NEW b1 \in States(n), b1 = AloneStep(e, b, spec)
      PROVE  Shifted(a1, b1, d, m)
  <2>0. Moves(e, spec, n, a, a1) /\ Moves(e, spec, n, b, b1)
    BY <1>1, AloneStepIs
  <2>1. b.view = a.view /\ b.count = a.count + d /\ b.log = m \o Plus(a.log, d)
    BY <1>1 DEF Shifted
  <2>2. CASE a.view.state # "running"
    <3>1. a1 = a /\ b1 = b
      BY <2>0, <2>1, <2>2 DEF Moves
    <3>2. QED
      BY <1>1, <3>1
  <2>3. CASE a.view.state = "running"
    <3>1. /\ a1.view = Ask(e, a.view, spec) /\ a1.count = a.count + Repairs(a.view, spec)
          /\ a1.log = a.log \o Counted(a.view, a1.view, a1.count)
      BY <2>0, <2>3 DEF Moves
    <3>2. /\ b1.view = Ask(e, a.view, spec) /\ b1.count = b.count + Repairs(a.view, spec)
          /\ b1.log = b.log \o Counted(a.view, b1.view, b1.count)
      BY <2>0, <2>1, <2>3 DEF Moves
    <3>3. /\ a.view \in Views /\ a1.view \in Views /\ a.count \in Nat /\ a1.count \in Nat /\ b1.count \in Nat
          /\ a.log \in Seq(Logged)
      BY <1>1 DEF States
    <3>4. b1.count = a1.count + d
      <4>1. PICK rep : rep = Repairs(a.view, spec)
        OBVIOUS
      <4>2. rep \in Nat
        <5>1. PICK v \in Views : v = a.view /\ v.pos <= n
          BY <1>1 DEF States
        <5>2. v.pos \in Nat
          BY <5>1 DEF Views
        <5>3. v.pos < n => spec.plan[v.pos + 1] \in Calls
          BY <5>2 DEF Planned
        <5>4. QED
          BY <4>1, <5>1, <5>3 DEF Repairs, Calls
      <4>3. QED
        BY <2>1, <3>1, <3>2, <3>3, <4>1, <4>2
    <3>5. PICK c \in Seq(Logged) : c = Counted(a.view, a1.view, a1.count)
      BY <3>3, CountedIs
    <3>6. Counted(a.view, b1.view, b1.count) = Plus(c, d)
      <4>1. b1.view = a1.view
        BY <3>1, <3>2
      <4>2. Counted(a.view, a1.view, a1.count + d) = Plus(Counted(a.view, a1.view, a1.count), d)
        BY <3>3, CountedIs
      <4>3. QED
        BY <3>4, <3>5, <4>1, <4>2
    <3>7. b1.log = (m \o Plus(a.log, d)) \o Plus(c, d)
      BY <2>1, <3>2, <3>6
    <3>8. Plus(a.log, d) \in Seq(Logged) /\ Plus(c, d) \in Seq(Logged)
      BY <3>3, <3>5, PlusIs
    <3>9. b1.log = m \o (Plus(a.log, d) \o Plus(c, d))
      BY <3>7, <3>8, JoinedThree
    <3>10. Plus(a1.log, d) = Plus(a.log, d) \o Plus(c, d)
      <4>1. a1.log = a.log \o c
        BY <3>1, <3>5
      <4>2. Plus(a.log \o c, d) = Plus(a.log, d) \o Plus(c, d)
        BY <3>3, <3>5, PlusJoined
      <4>3. QED
        BY <4>1, <4>2
    <3>11. QED
      BY <3>1, <3>2, <3>4, <3>9, <3>10 DEF Shifted
  <2>4. QED
    BY <2>2, <2>3
<1>2. PICK r : Runs1(e, s, spec, n, r)
  BY AloneGoes
<1>3. PICK u : Runs1(e, t, spec, n, u)
  BY AloneGoes
<1>4. PICK z \in Nat : z = n + 1
  OBVIOUS
<1>5. /\ r[0] = s /\ r[z] = AloneRun(e, s, spec) /\ u[0] = t /\ u[z] = AloneRun(e, t, spec)
      /\ \A i \in 1..z : r[i] = AloneStep(e, r[i - 1], spec) /\ u[i] = AloneStep(e, u[i - 1], spec)
      /\ \A i \in 0..z : r[i] \in States(n) /\ u[i] \in States(n)
  BY <1>2, <1>3, <1>4 DEF Runs1
<1>6. PICK T : T = {i \in 0..z : Shifted(r[i], u[i], d, m)}
  OBVIOUS
<1>7. 0 \in T
  BY <1>5, <1>6
<1>8. ASSUME NEW i \in 1..z, i - 1 \in T PROVE i \in T
  <2>1. i \in 0..z /\ i - 1 \in 0..z
    BY <1>8
  <2>2. Shifted(r[i - 1], u[i - 1], d, m)
    BY <1>6, <1>8
  <2>3. r[i] \in States(n) /\ u[i] \in States(n) /\ r[i - 1] \in States(n) /\ u[i - 1] \in States(n)
        /\ r[i] = AloneStep(e, r[i - 1], spec) /\ u[i] = AloneStep(e, u[i - 1], spec)
    BY <1>5, <1>8, <2>1
  <2>4. Shifted(r[i], u[i], d, m)
    BY <1>1, <2>2, <2>3
  <2>5. QED
    BY <1>6, <2>1, <2>4
<1>9. \A i \in 0..z : i \in T
  BY <1>4, <1>7, <1>8, Upwards
<1>10. QED
  BY <1>5, <1>6, <1>9

-----------------------------------------------------------------------------
(* Sums.                                                                   *)

LEMMA TotalGoes ==
  ASSUME NEW q \in Seq(Nat)
  PROVE  TotalTrace(Nat, 0, q) /\ Total(q) \in Nat
<1>1. \A e \in Nat : \A v \in Nat : e + v \in Nat
  OBVIOUS
<1>2. PICK a \in Nat : a = 0
  OBVIOUS
<1>3. TotalTrace(Nat, a, q)
  BY <1>1, <1>2, TotalFold
<1>4. Len(q) \in 0..Len(q)
  OBVIOUS
<1>5. QED
  BY <1>2, <1>3, <1>4 DEF TotalTrace

LEMMA TotalNone == Total(<<>>) = 0
<1>1. <<>> \in Seq(Nat) /\ Len(<<>>) = 0
  OBVIOUS
<1>2. TotalTrace(Nat, 0, <<>>)
  BY <1>1, TotalGoes
<1>3. QED
  BY <1>1, <1>2 DEF TotalTrace

LEMMA BeginsIs ==
  ASSUME NEW q \in Seq(Nat), NEW k \in Nat, k <= Len(q)
  PROVE  /\ SubSeq(q, 1, k) \in Seq(Nat) /\ Len(SubSeq(q, 1, k)) = k
         /\ \A i \in 1..k : SubSeq(q, 1, k)[i] = q[i]
<1>1. PICK p : p = SubSeq(q, 1, k)
  OBVIOUS
<1>2. p = [i \in 1..k |-> q[i]]
  <2>1. p = [i \in 1..(k - 1 + 1) |-> q[i + 1 - 1]]
    BY <1>1
  <2>2. k - 1 + 1 = k /\ \A i \in 1..k : i + 1 - 1 = i
    OBVIOUS
  <2>3. QED
    BY <2>1, <2>2
<1>3. \A i \in 1..k : q[i] \in Nat
  OBVIOUS
<1>4. p \in Seq(Nat) /\ Len(p) = k
  BY <1>2, <1>3
<1>5. \A i \in 1..k : p[i] = q[i]
  BY <1>2
<1>6. QED
  BY <1>1, <1>4, <1>5

LEMMA TotalNext ==
  ASSUME NEW q \in Seq(Nat), NEW k \in 1..Len(q)
  PROVE  Total(SubSeq(q, 1, k)) = Total(SubSeq(q, 1, k - 1)) + q[k]
<1>1. PICK j \in Nat : j = k - 1 /\ k = j + 1 /\ k \in Nat /\ k <= Len(q) /\ k \in 1..k
  OBVIOUS
<1>2. PICK p : p = SubSeq(q, 1, k)
  OBVIOUS
<1>2a. p \in Seq(Nat) /\ Len(p) = k /\ \A i \in 1..k : p[i] = q[i]
  BY <1>1, <1>2, BeginsIs
<1>3. PICK o : o = SubSeq(q, 1, j)
  OBVIOUS
<1>3a. o \in Seq(Nat) /\ Len(o) = j /\ \A i \in 1..j : o[i] = q[i]
  <2>1. j \in Nat /\ j <= Len(q)
    BY <1>1
  <2>2. QED
    BY <1>3, <2>1, BeginsIs
<1>4. TotalTrace(Nat, 0, p) /\ TotalTrace(Nat, 0, o)
  BY <1>2a, <1>3a, TotalGoes
<1>5. PICK r : /\ r[0] = 0 /\ r[k] = Total(p)
               /\ \A i \in 1..k : r[i] = r[i - 1] + p[i]
  BY <1>2a, <1>4 DEF TotalTrace
<1>6. PICK u : /\ u[0] = 0 /\ u[j] = Total(o)
               /\ \A i \in 1..j : u[i] = u[i - 1] + o[i]
  BY <1>3a, <1>4 DEF TotalTrace
<1>7. PICK T : T = {i \in 0..j : r[i] = u[i]}
  OBVIOUS
<1>8. 0 \in T
  BY <1>1, <1>5, <1>6, <1>7
<1>9. ASSUME NEW i \in 1..j, i - 1 \in T PROVE i \in T
  <2>1. i \in 0..j /\ i \in 1..k
    BY <1>1, <1>9
  <2>2. r[i] = r[i - 1] + q[i] /\ u[i] = u[i - 1] + q[i]
    BY <1>2a, <1>3a, <1>5, <1>6, <1>9, <2>1
  <2>3. r[i - 1] = u[i - 1]
    BY <1>7, <1>9
  <2>4. QED
    BY <1>7, <2>1, <2>2, <2>3
<1>10. \A i \in 0..j : i \in T
  BY <1>1, <1>8, <1>9, Upwards
<1>11. j \in 0..j
  BY <1>1
<1>12. r[j] = u[j]
  BY <1>7, <1>10, <1>11
<1>13. r[k] = r[j] + q[k]
  BY <1>1, <1>2a, <1>5
<1>14. QED
  BY <1>1, <1>2, <1>3, <1>5, <1>6, <1>12, <1>13

LEMMA TotalZero ==
  ASSUME NEW q \in Seq(Nat), \A i \in 1..Len(q) : q[i] = 0
  PROVE  Total(q) = 0
<1>1. PICK n \in Nat : n = Len(q)
  OBVIOUS
<1>2. TotalTrace(Nat, 0, q)
  BY TotalGoes
<1>3. PICK r : /\ r[0] = 0 /\ r[n] = Total(q)
               /\ \A i \in 1..n : r[i] = r[i - 1] + q[i]
  BY <1>1, <1>2 DEF TotalTrace
<1>4. PICK T : T = {i \in 0..n : r[i] = 0}
  OBVIOUS
<1>5. 0 \in T
  BY <1>1, <1>3, <1>4
<1>6. ASSUME NEW i \in 1..n, i - 1 \in T PROVE i \in T
  <2>1. r[i] = 0 + 0 /\ i \in 0..n
    BY <1>1, <1>3, <1>4, <1>6
  <2>2. QED
    BY <1>4, <2>1
<1>7. \A i \in 0..n : i \in T
  BY <1>1, <1>5, <1>6, Upwards
<1>8. n \in 0..n
  BY <1>1
<1>9. QED
  BY <1>3, <1>4, <1>7, <1>8

-----------------------------------------------------------------------------
(* The starts one after the other.                                         *)

Alones == [views : Seq(Views), count : Nat, log : Seq(Logged)]

StartOf(spec, c, l) == [view |-> Begun(spec), count |-> c, log |-> l]

\* A start as if it were the first.
Own(e, spec) == AloneRun(e, StartOf(spec, 0, <<>>), spec)

LEMMA StartIs ==
  ASSUME NEW spec, NEW n \in Nat, NEW c \in Nat, NEW l \in Seq(Logged)
  PROVE  StartOf(spec, c, l) \in States(n)
<1>1. Begun(spec) \in Views /\ Begun(spec).pos = 0
  BY BegunViews
<1>2. Begun(spec) \in {v \in Views : v.pos <= n}
  BY <1>1
<1>3. QED
  BY <1>2 DEF StartOf, States

\* After others a start does what it does as the first, its repairs and calls after theirs.
LEMMA AloneIs ==
  ASSUME NEW e \in Archives, NEW spec, Planned(spec), NEW a \in Alones
  PROVE  LET r == Alone(e, a, spec)
             o == Own(e, spec)
         IN  /\ r \in Alones /\ o.view \in Views /\ o.count \in Nat /\ o.log \in Seq(Logged)
             /\ r.views = Append(a.views, o.view)
             /\ r.count = a.count + o.count
             /\ r.log = a.log \o Plus(o.log, a.count)
<1>1. PICK n \in Nat : n = Len(spec.plan)
  BY DEF Planned
<1>2. PICK c \in Nat : c = a.count
  BY DEF Alones
<1>3. PICK l \in Seq(Logged) : l = a.log
  BY DEF Alones
<1>4. <<>> \in Seq(Logged) /\ Plus(<<>>, c) = <<>> /\ l \o <<>> = l
  <2>1. <<>> \in Seq(Logged) /\ Len(<<>>) = 0
    OBVIOUS
  <2>2. Plus(<<>>, c) \in Seq(Logged) /\ Len(Plus(<<>>, c)) = 0
    BY <1>2, <2>1, PlusIs
  <2>3. QED
    BY <1>3, <2>1, <2>2
<1>5. PICK s \in States(n) : s = StartOf(spec, 0, <<>>)
  BY <1>1, <1>4, StartIs
<1>6. PICK t \in States(n) : t = StartOf(spec, c, l)
  BY <1>1, <1>2, <1>3, StartIs
<1>7. Shifted(s, t, c, l)
  BY <1>2, <1>4, <1>5, <1>6 DEF Shifted, StartOf
<1>8. PICK o \in States(n) : o = Own(e, spec)
  BY <1>1, <1>5, AloneEnds DEF Own
<1>9. PICK z \in States(n) : z = AloneRun(e, t, spec)
  BY <1>1, <1>6, AloneEnds
<1>10. Shifted(o, z, c, l)
  BY <1>1, <1>2, <1>3, <1>5, <1>6, <1>7, <1>8, <1>9, AloneShifts DEF Own
<1>11. Alone(e, a, spec) = [views |-> Append(a.views, z.view), count |-> z.count, log |-> z.log]
  BY <1>2, <1>3, <1>6, <1>9 DEF Alone, StartOf
<1>12. /\ z.view \in Views /\ z.count \in Nat /\ z.log \in Seq(Logged)
       /\ o.view \in Views /\ o.count \in Nat /\ o.log \in Seq(Logged)
  BY <1>8, <1>9 DEF States
<1>13. Append(a.views, z.view) \in Seq(Views)
  BY <1>12 DEF Alones
<1>14. Alone(e, a, spec) \in Alones
  BY <1>11, <1>12, <1>13 DEF Alones
<1>15. /\ z.view = o.view /\ z.count = o.count + c /\ z.log = l \o Plus(o.log, c)
  BY <1>10 DEF Shifted
<1>16. PICK r : r = Alone(e, a, spec)
  OBVIOUS
<1>17. /\ r.views = Append(a.views, o.view) /\ r.count = o.count + c /\ r.log = l \o Plus(o.log, c)
  BY <1>11, <1>15, <1>16
<1>18. r.count = a.count + o.count
  BY <1>2, <1>12, <1>17
<1>19. QED
  BY <1>2, <1>3, <1>8, <1>12, <1>14, <1>16, <1>17, <1>18

\* The starts run one after the other, from a count of b on.
Turn(e, b, given, n, m) ==
  /\ m \in [0..n -> Alones]
  /\ m[0] = [views |-> <<>>, count |-> b, log |-> <<>>]
  /\ \A k \in 1..n : m[k] = Alone(e, m[k - 1], given[k])

LEMMA TurnIs ==
  ASSUME NEW e \in Archives, NEW n \in Nat, NEW given, Given(n, given), NEW b \in Nat
  PROVE  \E m : Turn(e, b, given, n, m) /\ m[n] = InTurn(e, [views |-> <<>>, count |-> b, log |-> <<>>], given)
<1>1. PICK B : B = {given[k] : k \in 1..n}
  OBVIOUS
<1>2. given \in Seq(B) /\ Len(given) = n
  BY <1>1 DEF Given
<1>3. \A spec \in B : Planned(spec)
  BY <1>1, RoundsAssumption DEF Given, Planned
<1>4. \A a \in Alones : \A spec \in B : Alone(e, a, spec) \in Alones
  BY <1>3, AloneIs
<1>5. PICK a : a = [views |-> <<>>, count |-> b, log |-> <<>>]
  OBVIOUS
<1>6. a \in Alones
  <2>1. <<>> \in Seq(Views) /\ <<>> \in Seq(Logged)
    OBVIOUS
  <2>2. QED
    BY <1>5, <2>1 DEF Alones
<1>7. InTurnTrace(e, Alones, a, given)
  BY <1>2, <1>4, <1>6, InTurnFold
<1>8. PICK m \in [0..n -> Alones] : /\ m[0] = a /\ m[n] = InTurn(e, a, given)
                                    /\ \A i \in 1..n : m[i] = Alone(e, m[i - 1], given[i])
  BY <1>2, <1>7 DEF InTurnTrace
<1>9. QED
  BY <1>5, <1>8 DEF Turn

-----------------------------------------------------------------------------
(* A start in hand.                                                        *)

\* From view v, repairs c and log l on, a start ends at s.
Ends(e, spec, v, c, l, s) == AloneRun(e, [view |-> v, count |-> c, log |-> l], spec) = s

\* A view within its plan.
Within(spec, v) == Planned(spec) /\ v \in Views /\ v.pos <= Len(spec.plan)

LEMMA InStates ==
  ASSUME NEW spec, NEW v, Within(spec, v), NEW c \in Nat, NEW l \in Seq(Logged)
  PROVE  [view |-> v, count |-> c, log |-> l] \in States(Len(spec.plan)) /\ Len(spec.plan) \in Nat
<1>1. v \in {u \in Views : u.pos <= Len(spec.plan)}
  BY DEF Within
<1>2. QED
  BY <1>1 DEF States, Within, Planned

\* Its next call comes to the same end ...
LEMMA EndsStep ==
  ASSUME NEW e \in Archives, NEW spec, NEW v, Within(spec, v), v.state = "running",
         NEW c \in Nat, NEW l \in Seq(Logged), NEW s, Ends(e, spec, v, c, l, s),
         NEW w, w = Ask(e, v, spec), NEW d, d = c + Repairs(v, spec)
  PROVE  /\ d \in Nat /\ d >= c /\ Counted(v, w, d) \in Seq(Logged)
         /\ l \o Counted(v, w, d) \in Seq(Logged)
         /\ Ends(e, spec, w, d, l \o Counted(v, w, d), s)
<1>1. PICK n \in Nat : n = Len(spec.plan)
  BY DEF Within, Planned
<1>2. PICK a : a = [view |-> v, count |-> c, log |-> l]
  OBVIOUS
<1>3. a \in States(n) /\ a.view = v /\ a.count = c /\ a.log = l
  BY <1>1, <1>2, InStates
<1>4. PICK r : r = AloneStep(e, a, spec)
  OBVIOUS
<1>5. Planned(spec)
  BY DEF Within
<1>6. Moves(e, spec, n, a, r)
  BY <1>1, <1>3, <1>4, <1>5, AloneStepIs
<1>7. r \in States(n) /\ r.view = w /\ r.count = d /\ r.log = l \o Counted(v, w, d)
  BY <1>3, <1>6 DEF Moves
<1>8. r = [view |-> w, count |-> d, log |-> l \o Counted(v, w, d)]
  BY <1>7 DEF States
<1>9. AloneRun(e, r, spec) = AloneRun(e, a, spec)
  BY <1>1, <1>3, <1>4, <1>5, AloneGoesOn
<1>10. w \in Views /\ d \in Nat /\ l \o Counted(v, w, d) \in Seq(Logged)
  BY <1>7 DEF States
<1>11. Counted(v, w, d) \in Seq(Logged)
  BY <1>10, CountedIs DEF Within
<1>12. d >= c
  <2>1. PICK rep : rep = Repairs(v, spec)
    OBVIOUS
  <2>2. rep \in Nat
    <3>1. v.pos \in Nat
      BY DEF Within, Views
    <3>2. v.pos < n => spec.plan[v.pos + 1] \in Calls
      BY <1>1, <1>5, <3>1 DEF Planned
    <3>3. QED
      BY <1>1, <2>1, <3>2 DEF Repairs, Calls
  <2>3. QED
    BY <2>1, <2>2
<1>13. QED
  BY <1>2, <1>8, <1>9, <1>10, <1>11, <1>12 DEF Ends

\* What it counts is a log.
LEMMA PlainStep ==
  ASSUME NEW e \in Archives, NEW spec, NEW v, Within(spec, v), v.state = "running",
         NEW c \in Nat, NEW l \in Seq(Logged),
         NEW w, w = Ask(e, v, spec), NEW d, d = c + Repairs(v, spec)
  PROVE  l \o Counted(v, w, d) \in Seq(Logged)
<1>1. PICK s : s = AloneRun(e, [view |-> v, count |-> c, log |-> l], spec)
  OBVIOUS
<1>2. Ends(e, spec, v, c, l, s)
  BY <1>1 DEF Ends
<1>3. QED
  BY <1>2, EndsStep

\* ... and it is there when it has ended.
LEMMA EndsThere ==
  ASSUME NEW e \in Archives, NEW spec, NEW v, Within(spec, v), v.state # "running",
         NEW c \in Nat, NEW l \in Seq(Logged), NEW s, Ends(e, spec, v, c, l, s)
  PROVE  s = [view |-> v, count |-> c, log |-> l]
<1>1. PICK n \in Nat : n = Len(spec.plan)
  BY DEF Within, Planned
<1>2. PICK a : a = [view |-> v, count |-> c, log |-> l]
  OBVIOUS
<1>3. a \in States(n) /\ a.view = v
  BY <1>1, <1>2, InStates
<1>4. AloneRun(e, a, spec) = a
  BY <1>1, <1>3, AloneStays DEF Within
<1>5. QED
  BY <1>2, <1>4 DEF Ends

-----------------------------------------------------------------------------
(* The starts of one thread, in turn.                                      *)

\* r is what the first k starts gave.
Same(r, vs, k) == Len(r.views) = k /\ \A i \in 1..k : r.views[i] = vs[i]

\* With x - 1 starts begun, a the one in hand (0: none), views, repairs and log are those of
\* the starts run one after the other.
Walked(e, b, given, n, vs, c, l, a, x) ==
  \A m : Turn(e, b, given, n, m) =>
    /\ a = 0 => Same(m[x - 1], vs, x - 1) /\ m[x - 1].count = c /\ m[x - 1].log = l
    /\ a # 0 => /\ a = x - 1 /\ Same(m[x - 2], vs, x - 2)
                /\ Ends(e, given[a], vs[a], c, l,
                        AloneRun(e, StartOf(given[a], m[x - 2].count, m[x - 2].log), given[a]))

LEMMA WalkedBegins ==
  ASSUME NEW e, NEW b, NEW given, NEW n \in Nat, NEW vs
  PROVE  Walked(e, b, given, n, vs, b, <<>>, 0, 1)
<1>1. SUFFICES ASSUME NEW m, Turn(e, b, given, n, m)
               PROVE  Same(m[0], vs, 0) /\ m[0].count = b /\ m[0].log = <<>>
  BY DEF Walked
<1>2. m[0] = [views |-> <<>>, count |-> b, log |-> <<>>]
  BY <1>1 DEF Turn
<1>3. QED
  BY <1>2 DEF Same

LEMMA WalkedClaims ==
  ASSUME NEW e, NEW b, NEW given, NEW n \in Nat, NEW vs \in Seq(Views), Len(vs) = n, NEW c, NEW l,
         NEW x \in 1..n, Walked(e, b, given, n, vs, c, l, 0, x)
  PROVE  Walked(e, b, given, n, [vs EXCEPT ![x] = Begun(given[x])], c, l, x, x + 1)
<1>1. PICK us : us = [vs EXCEPT ![x] = Begun(given[x])]
  OBVIOUS
<1>2. us[x] = Begun(given[x]) /\ \A i \in 1..(x - 1) : us[i] = vs[i]
  BY <1>1
<1>3. SUFFICES ASSUME NEW m, Turn(e, b, given, n, m)
               PROVE  /\ Same(m[x - 1], us, x - 1)
                      /\ Ends(e, given[x], us[x], c, l,
                              AloneRun(e, StartOf(given[x], m[x - 1].count, m[x - 1].log), given[x]))
  <2>1. PICK y : y = x + 1 /\ y - 1 = x /\ y - 2 = x - 1 /\ x # 0
    OBVIOUS
  <2>2. Walked(e, b, given, n, us, c, l, x, y)
    BY <1>3, <2>1 DEF Walked
  <2>3. QED
    BY <1>1, <2>1, <2>2
<1>4. Same(m[x - 1], vs, x - 1) /\ m[x - 1].count = c /\ m[x - 1].log = l
  BY <1>3 DEF Walked
<1>5. Same(m[x - 1], us, x - 1)
  BY <1>2, <1>4 DEF Same
<1>6. QED
  BY <1>2, <1>4, <1>5 DEF Ends, StartOf

LEMMA WalkedSteps ==
  ASSUME NEW e \in Archives, NEW b, NEW given, NEW n \in Nat, NEW vs \in Seq(Views), Len(vs) = n,
         NEW c \in Nat, NEW l \in Seq(Logged), NEW x \in 1..(n + 1), NEW a \in 1..n,
         Walked(e, b, given, n, vs, c, l, a, x), Within(given[a], vs[a]), vs[a].state = "running",
         NEW w, w = Ask(e, vs[a], given[a]), NEW d, d = c + Repairs(vs[a], given[a])
  PROVE  Walked(e, b, given, n, [vs EXCEPT ![a] = w], d, l \o Counted(vs[a], w, d), a, x)
<1>1. PICK us : us = [vs EXCEPT ![a] = w]
  OBVIOUS
<1>2. us[a] = w /\ \A i \in 1..(a - 1) : us[i] = vs[i]
  BY <1>1
<1>3. PICK g : g = l \o Counted(vs[a], w, d)
  OBVIOUS
<1>4. SUFFICES ASSUME NEW m, Turn(e, b, given, n, m)
               PROVE  /\ a = x - 1 /\ Same(m[x - 2], us, x - 2)
                      /\ Ends(e, given[a], us[a], d, g,
                              AloneRun(e, StartOf(given[a], m[x - 2].count, m[x - 2].log), given[a]))
  <2>1. a # 0
    OBVIOUS
  <2>2. QED
    BY <1>1, <1>3, <2>1 DEF Walked
<1>5. PICK s : s = AloneRun(e, StartOf(given[a], m[x - 2].count, m[x - 2].log), given[a])
  OBVIOUS
<1>6. a = x - 1 /\ Same(m[x - 2], vs, x - 2) /\ Ends(e, given[a], vs[a], c, l, s)
  BY <1>4, <1>5 DEF Walked
<1>7. Same(m[x - 2], us, x - 2)
  <2>1. x - 2 = a - 1
    BY <1>6
  <2>2. QED
    BY <1>2, <1>6, <2>1 DEF Same
<1>8. Ends(e, given[a], w, d, g, s)
  BY <1>3, <1>6, EndsStep
<1>9. QED
  BY <1>2, <1>5, <1>6, <1>7, <1>8

LEMMA WalkedFinishes ==
  ASSUME NEW e \in Archives, NEW b \in Nat, NEW given, NEW n \in Nat, NEW vs \in Seq(Views), Len(vs) = n,
         NEW c \in Nat, NEW l \in Seq(Logged), NEW x \in 1..(n + 1), NEW a \in 1..n,
         Walked(e, b, given, n, vs, c, l, a, x), Within(given[a], vs[a]), vs[a].state # "running"
  PROVE  Walked(e, b, given, n, vs, c, l, 0, x)
<1>1. SUFFICES ASSUME NEW m, Turn(e, b, given, n, m)
               PROVE  Same(m[x - 1], vs, x - 1) /\ m[x - 1].count = c /\ m[x - 1].log = l
  BY DEF Walked
<1>2. PICK p : p = m[x - 2]
  OBVIOUS
<1>3. PICK s : s = AloneRun(e, StartOf(given[a], p.count, p.log), given[a])
  OBVIOUS
<1>4. a = x - 1 /\ Same(p, vs, x - 2) /\ Ends(e, given[a], vs[a], c, l, s)
  BY <1>1, <1>2, <1>3 DEF Walked
<1>5. s = [view |-> vs[a], count |-> c, log |-> l]
  BY <1>4, EndsThere
<1>6. x - 2 \in 0..n /\ x - 1 \in 1..n /\ (x - 1) - 1 = x - 2
  BY <1>4
<1>7. p \in Alones /\ m[x - 1] = Alone(e, p, given[a])
  BY <1>1, <1>2, <1>4, <1>6 DEF Turn
<1>8. m[x - 1] = [views |-> Append(p.views, s.view), count |-> s.count, log |-> s.log]
  BY <1>3, <1>7 DEF Alone, StartOf
<1>9. /\ m[x - 1].views = Append(p.views, vs[a])
      /\ m[x - 1].count = c /\ m[x - 1].log = l
  BY <1>5, <1>8
<1>10. Same(m[x - 1], vs, x - 1)
  <2>1. p.views \in Seq(Views) /\ Len(p.views) = x - 2 /\ \A i \in 1..(x - 2) : p.views[i] = vs[i]
    BY <1>4, <1>7 DEF Same, Alones
  <2>2. PICK q : q = Append(p.views, vs[a])
    OBVIOUS
  <2>3. vs[a] \in Views
    BY DEF Within
  <2>4. Len(q) = x - 1 /\ q[x - 1] = vs[a] /\ \A i \in 1..(x - 2) : q[i] = p.views[i]
    BY <1>6, <2>1, <2>2, <2>3
  <2>5. \A i \in 1..(x - 1) : q[i] = vs[i]
    BY <1>4, <1>6, <2>1, <2>4
  <2>6. QED
    BY <1>9, <2>2, <2>4, <2>5 DEF Same
<1>11. QED
  BY <1>9, <1>10

-----------------------------------------------------------------------------
(* The invariant of a round.                                               *)

CountersInv ==
  /\ counts \in [AllThreads -> Nat] /\ counts0 \in [AllThreads -> Nat]
  /\ \A t \in AllThreads : counts0[t] <= counts[t]
  /\ at \in [AllThreads -> Nat]
  /\ base \in Nat /\ log \in Seq(Logged)
  /\ phase # "round" => next = 1 /\ \A t \in AllThreads : at[t] = 0

\* The starts are dealt one by one; one not begun has counted nothing.
DealtInv ==
  /\ later \in Seq(Seq(Logged)) /\ Len(later) = Len(specs)
  /\ made \in Seq(Nat) /\ Len(made) = Len(specs)
  /\ next \in 1..(Len(specs) + 1)
  /\ \A t \in AllThreads : at[t] < next /\ (at[t] # 0 => t \in Pool)
  /\ \A t, u \in AllThreads : at[t] = at[u] /\ at[t] # 0 => t = u
  /\ \A k \in 1..Len(specs) : k >= next => later[k] = <<>>

\* Threads of a pool: a start comes, or has come, to what it would be as the first.
ParallelInv ==
  /\ counts[0] = base /\ log = <<>>
  /\ \A t \in AllThreads : at[t] # 0 =>
       Ends(ev, specs[at[t]], views[at[t]], counts[t] - counts0[t], later[at[t]], Own(ev, specs[at[t]]))
  /\ \A k \in 1..Len(specs) : k < next /\ (\A t \in AllThreads : at[t] # k) =>
       Own(ev, specs[k]) = [view |-> views[k], count |-> made[k], log |-> later[k]]

\* The strategy's own thread: nothing is deferred.
SerialInv ==
  /\ \A k \in 1..Len(specs) : later[k] = <<>> /\ made[k] = 0
  /\ Walked(ev, base, specs, Len(specs), views, counts[0], log, at[0], next)

OrderInv ==
  /\ CountersInv
  /\ phase = "round" => DealtInv /\ IF InThreads THEN ParallelInv ELSE SerialInv

\* The round's starts, and their views within their plans.
LEMMA StartsAre ==
  ASSUME CountsInv
  PROVE  /\ Len(specs) \in Nat /\ Given(Len(specs), specs) /\ DOMAIN specs = 1..Len(specs)
         /\ views \in Seq(Views) /\ Len(views) = Len(specs)
         /\ \A k \in 1..Len(specs) : Within(specs[k], views[k])
         /\ ev \in Archives
<1>1. PICK n \in Nat : /\ Given(n, specs) /\ views \in Seq(Views) /\ Len(views) = n
                       /\ \A k \in 1..n : views[k].pos <= Len(specs[k].plan)
  BY DEF CountsInv, StartsInv
<1>2. Len(specs) = n /\ DOMAIN specs = 1..n
  <2>1. PICK B : B = {specs[k] : k \in 1..n}
    OBVIOUS
  <2>2. specs \in Seq(B) /\ Len(specs) = n
    BY <1>1, <2>1 DEF Given
  <2>3. QED
    BY <1>1, <2>2 DEF Given
<1>3. \A k \in 1..n : specs[k].plan \in Seq(Calls)
  BY <1>1, RoundsAssumption DEF Given
<1>4. \A k \in 1..n : Within(specs[k], views[k])
  BY <1>1, <1>3 DEF Within, Planned
<1>5. ev \in Archives
  BY DEF CountsInv, EvInv, Honest
<1>6. QED
  BY <1>1, <1>2, <1>4, <1>5

\* The strategy's thread is one of them, and alone where it runs the starts.
LEMMA PoolIs ==
  0 \in AllThreads /\ (~InThreads => Pool = {0}) /\ (InThreads => 0 \notin Pool)
<1>1. 0 \in AllThreads
  <2>1. PICK S : S = {r.threads : r \in Runs}
    OBVIOUS
  <2>2. \A s \in S : s \in Nat
    BY <2>1, EvaluatorAssumption
  <2>3. \E s \in S : \A r \in Runs : r.threads <= s
    BY <2>1, RoundsAssumption
  <2>4. PICK c : c = CHOOSE s \in S : \A r \in Runs : r.threads <= s
    OBVIOUS
  <2>5. c \in S
    BY <2>3, <2>4
  <2>6. AllThreads = 0..c
    BY <2>1, <2>4 DEF AllThreads
  <2>7. QED
    BY <2>2, <2>5, <2>6
<1>2. PICK T : T = MinOf(Len(specs), knobs.threads)
  OBVIOUS
<1>3. Pool = IF T <= 1 THEN {0} ELSE 1..T
  BY <1>2 DEF Pool
<1>4. InThreads <=> 0 \notin Pool
  BY DEF InThreads
<1>5. CASE T <= 1
  BY <1>1, <1>3, <1>4, <1>5
<1>6. CASE ~(T <= 1)
  <2>1. Pool = 1..T
    BY <1>3, <1>6
  <2>2. 0 \notin 1..T
    OBVIOUS
  <2>3. QED
    BY <1>1, <1>4, <2>1, <2>2
<1>7. QED
  BY <1>5, <1>6

\* What the lists give when they run.
LEMMA FlushIs ==
  ASSUME CountersInv, DealtInv, NEW n \in Nat, n = Len(specs)
  PROVE  /\ MadeBefore(1) = 0 /\ MadeBefore(n + 1) \in Nat
         /\ \A k \in 1..n : /\ MadeBefore(k) \in Nat /\ MadeBefore(k + 1) = MadeBefore(k) + made[k]
                            /\ Shown(k) = Plus(later[k], counts[0] + MadeBefore(k))
         /\ FlushedTrace(n, Seq(Logged), log)
<1>1. made \in Seq(Nat) /\ Len(made) = n /\ later \in Seq(Seq(Logged)) /\ Len(later) = n
  BY DEF DealtInv
<1>2. counts[0] \in Nat /\ log \in Seq(Logged)
  BY PoolIs DEF CountersInv
<1>3. \A k \in 1..(n + 1) : MadeBefore(k) \in Nat
  <2>1. SUFFICES ASSUME NEW k \in 1..(n + 1) PROVE MadeBefore(k) \in Nat
    OBVIOUS
  <2>2. PICK j : j = k - 1 /\ j \in Nat /\ j <= Len(made)
    BY <1>1
  <2>3. SubSeq(made, 1, j) \in Seq(Nat)
    BY <1>1, <2>2, BeginsIs
  <2>4. Total(SubSeq(made, 1, j)) \in Nat
    BY <2>3, TotalGoes
  <2>5. QED
    BY <2>2, <2>4 DEF MadeBefore
<1>4. MadeBefore(1) = 0
  <2>1. PICK p : p = SubSeq(made, 1, 1 - 1)
    OBVIOUS
  <2>2. p = SubSeq(made, 1, 0) /\ 0 \in Nat /\ 0 <= Len(made)
    BY <1>1, <2>1
  <2>3. p \in Seq(Nat) /\ Len(p) = 0
    BY <1>1, <2>2, BeginsIs
  <2>4. p = <<>>
    BY <2>3
  <2>5. QED
    BY <2>1, <2>4, TotalNone DEF MadeBefore
<1>5. ASSUME NEW k \in 1..n PROVE MadeBefore(k + 1) = MadeBefore(k) + made[k]
  <2>1. k \in 1..Len(made) /\ k + 1 - 1 = k
    BY <1>1
  <2>2. Total(SubSeq(made, 1, k)) = Total(SubSeq(made, 1, k - 1)) + made[k]
    BY <1>1, <2>1, TotalNext
  <2>3. MadeBefore(k + 1) = Total(SubSeq(made, 1, k))
    BY <2>1 DEF MadeBefore
  <2>4. QED
    BY <2>2, <2>3 DEF MadeBefore
<1>6. ASSUME NEW k \in 1..n PROVE Shown(k) = Plus(later[k], counts[0] + MadeBefore(k))
  <2>1. PICK q \in Seq(Logged) : q = later[k]
    BY <1>1
  <2>2. k \in 1..(n + 1)
    OBVIOUS
  <2>3. PICK d \in Nat : d = counts[0] + MadeBefore(k)
    BY <1>2, <1>3, <2>2
  <2>4. Shown(k) = [i \in DOMAIN q |-> [q[i] EXCEPT !.repairs = d + @]]
    BY <2>1, <2>3 DEF Shown
  <2>5. PICK z \in Nat : z = Len(q) /\ DOMAIN q = 1..z
    OBVIOUS
  <2>6. ASSUME NEW i \in 1..z
        PROVE  [q[i] EXCEPT !.repairs = d + @] = [event |-> q[i].event, repairs |-> q[i].repairs + d]
    <3>1. q[i] \in Logged
      BY <2>5
    <3>2. q[i] = [event |-> q[i].event, repairs |-> q[i].repairs] /\ q[i].repairs \in Nat
      BY <3>1 DEF Logged
    <3>3. d + q[i].repairs = q[i].repairs + d
      BY <3>2
    <3>4. QED
      BY <3>2, <3>3
  <2>7. Shown(k) = [i \in 1..z |-> [event |-> q[i].event, repairs |-> q[i].repairs + d]]
    BY <2>4, <2>5, <2>6
  <2>8. QED
    BY <2>1, <2>3, <2>5, <2>7 DEF Plus
<1>7. FlushedTrace(n, Seq(Logged), log)
  <2>1. PICK A : A = Seq(Logged)
    OBVIOUS
  <2>2. ASSUME NEW q \in A, NEW k \in 1..n PROVE q \o Shown(k) \in A
    <3>1. later[k] \in Seq(Logged) /\ q \in Seq(Logged)
      BY <1>1, <2>1, <2>2
    <3>2. k \in 1..(n + 1)
      OBVIOUS
    <3>3. PICK d \in Nat : d = counts[0] + MadeBefore(k)
      BY <1>2, <1>3, <3>2
    <3>4. PICK p \in Seq(Logged) : p = Shown(k)
      BY <1>6, <3>1, <3>3, PlusIs
    <3>5. QED
      BY <2>1, <3>1, <3>4, Joined
  <2>3. DOMAIN later = 1..n
    BY <1>1
  <2>4. PICK l \in A : l = log
    BY <1>2, <2>1
  <2>5. FlushedTrace(n, A, l)
    BY <2>2, <2>3, <2>4, FlushedFold
  <2>6. QED
    BY <2>1, <2>4, <2>5
<1>8. QED
  <2>1. n + 1 \in 1..(n + 1) /\ \A k \in 1..n : k \in 1..(n + 1)
    OBVIOUS
  <2>2. QED
    BY <1>3, <1>4, <1>5, <1>6, <1>7, <2>1

-----------------------------------------------------------------------------
(* The invariant's steps.                                                  *)

\* A thread takes the next start.
LEMMA ClaimOrder ==
  ASSUME CountsInv, OrderInv, NEW t \in AllThreads, Claim(t)
  PROVE  OrderInv'
<1>1. PICK n \in Nat : n = Len(specs)
  BY StartsAre
<1>2. /\ DOMAIN specs = 1..n /\ views \in Seq(Views) /\ Len(views) = n /\ ev \in Archives
      /\ 0 \in AllThreads
  BY <1>1, StartsAre, PoolIs
<1>3. /\ phase = "round" /\ t \in Pool /\ at[t] = 0 /\ next <= n
      /\ at' = [at EXCEPT ![t] = next] /\ next' = next + 1
      /\ counts0' = [counts0 EXCEPT ![t] = StartCounts0(t)]
      /\ views' = [views EXCEPT ![next] = Begun(specs[next])]
      /\ UNCHANGED <<knobs, phase, ev, log, counts, specs, later, made, base>>
  BY <1>1 DEF Claim, Advanced
<1>4. CountersInv /\ DealtInv
  BY <1>3 DEF OrderInv
<1>5. Pool' = Pool /\ InThreads' = InThreads
  BY <1>3 DEF Pool, MinOf, InThreads
<1>6. /\ counts \in [AllThreads -> Nat] /\ counts0 \in [AllThreads -> Nat] /\ at \in [AllThreads -> Nat]
      /\ \A u \in AllThreads : counts0[u] <= counts[u]
  BY <1>4 DEF CountersInv
<1>7. /\ next \in 1..n /\ \A u \in AllThreads : at[u] < next /\ (at[u] # 0 => u \in Pool)
      /\ \A u, v \in AllThreads : at[u] = at[v] /\ at[u] # 0 => u = v
      /\ \A k \in 1..n : k >= next => later[k] = <<>>
  BY <1>1, <1>3, <1>4 DEF DealtInv
<1>8. StartCounts0(t) = IF InThreads THEN counts[t] ELSE counts0[t]
  BY DEF StartCounts0
<1>9. CountersInv'
  <2>1. at' \in [AllThreads -> Nat] /\ counts0' \in [AllThreads -> Nat]
    BY <1>3, <1>6, <1>7, <1>8
  <2>2. \A u \in AllThreads : counts0'[u] <= counts[u]
    BY <1>3, <1>6, <1>8
  <2>3. QED
    BY <1>3, <1>4, <2>1, <2>2 DEF CountersInv
<1>10. \A u \in AllThreads : at'[u] = IF u = t THEN next ELSE at[u]
  BY <1>3, <1>6
<1>11. \A k \in 1..n : views'[k] = IF k = next THEN Begun(specs[next]) ELSE views[k]
  BY <1>2, <1>3
<1>12. DealtInv'
  <2>1. next' \in 1..(n + 1)
    BY <1>3, <1>7
  <2>2. \A u \in AllThreads : at'[u] < next' /\ (at'[u] # 0 => u \in Pool)
    <3>1. SUFFICES ASSUME NEW u \in AllThreads PROVE at'[u] < next' /\ (at'[u] # 0 => u \in Pool)
      OBVIOUS
    <3>2. at[u] \in Nat /\ at[u] < next
      BY <1>6, <1>7
    <3>3. QED
      BY <1>3, <1>7, <1>10, <3>2
  <2>3. \A u, v \in AllThreads : at'[u] = at'[v] /\ at'[u] # 0 => u = v
    <3>1. SUFFICES ASSUME NEW u \in AllThreads, NEW v \in AllThreads, at'[u] = at'[v], at'[u] # 0 PROVE u = v
      OBVIOUS
    <3>2. at[u] < next /\ at[v] < next /\ at[u] \in Nat /\ at[v] \in Nat /\ next \in Nat
      BY <1>6, <1>7
    <3>3. at[u] # next /\ at[v] # next
      BY <3>2
    <3>4. QED
      BY <1>7, <1>10, <3>1, <3>3
  <2>4. \A k \in 1..n : k >= next' => later[k] = <<>>
    BY <1>3, <1>7
  <2>5. QED
    BY <1>1, <1>3, <1>4, <1>5, <2>1, <2>2, <2>3, <2>4 DEF DealtInv
<1>13. ASSUME InThreads PROVE ParallelInv'
  <2>1. ParallelInv
    BY <1>3, <1>13 DEF OrderInv
  <2>2. counts'[0] = base' /\ log' = <<>>
    BY <1>3, <2>1 DEF ParallelInv
  <2>3. ASSUME NEW u \in AllThreads, at'[u] # 0
        PROVE  Ends(ev, specs[at'[u]], views'[at'[u]], counts[u] - counts0'[u], later[at'[u]], Own(ev, specs[at'[u]]))
    <3>1. CASE u = t
      <4>1. at'[u] = next /\ views'[next] = Begun(specs[next]) /\ later[next] = <<>>
        BY <1>7, <1>10, <1>11, <3>1
      <4>2. counts0'[u] = counts[u] /\ counts[u] \in Nat
        BY <1>3, <1>6, <1>8, <1>13, <3>1
      <4>3. counts[u] - counts0'[u] = 0
        BY <4>2
      <4>4. Ends(ev, specs[next], Begun(specs[next]), 0, <<>>, Own(ev, specs[next]))
        BY DEF Ends, Own, StartOf
      <4>5. QED
        BY <4>1, <4>3, <4>4
    <3>2. CASE u # t
      <4>1. at'[u] = at[u] /\ counts0'[u] = counts0[u]
        BY <1>3, <1>6, <1>10, <3>2
      <4>2. at[u] \in 1..n /\ at[u] # next
        BY <1>6, <1>7, <2>3, <4>1
      <4>3. views'[at[u]] = views[at[u]]
        BY <1>11, <4>2
      <4>4. QED
        BY <2>1, <2>3, <4>1, <4>3 DEF ParallelInv
    <3>3. QED
      BY <3>1, <3>2
  <2>4. ASSUME NEW k \in 1..n, k < next', \A u \in AllThreads : at'[u] # k
        PROVE  Own(ev, specs[k]) = [view |-> views'[k], count |-> made[k], log |-> later[k]]
    <3>1. k # next
      BY <1>10, <2>4
    <3>2. k < next
      BY <1>3, <1>7, <2>4, <3>1
    <3>3. \A u \in AllThreads : at[u] # k
      <4>1. k # 0
        OBVIOUS
      <4>2. QED
        BY <1>3, <1>10, <2>4, <4>1
    <3>4. views'[k] = views[k]
      BY <1>11, <3>1
    <3>5. QED
      BY <1>1, <2>1, <3>2, <3>3, <3>4 DEF ParallelInv
  <2>5. QED
    BY <1>1, <1>3, <2>2, <2>3, <2>4 DEF ParallelInv
<1>14. ASSUME ~InThreads PROVE SerialInv'
  <2>1. SerialInv
    BY <1>3, <1>14 DEF OrderInv
  <2>2. t = 0
    BY <1>3, <1>14, PoolIs
  <2>3. PICK x : x = next
    OBVIOUS
  <2>4. Walked(ev, base, specs, n, views, counts[0], log, 0, x)
    BY <1>1, <1>3, <2>1, <2>2, <2>3 DEF SerialInv
  <2>5. Walked(ev, base, specs, n, [views EXCEPT ![x] = Begun(specs[x])], counts[0], log, x, x + 1)
    BY <1>2, <1>7, <2>3, <2>4, WalkedClaims
  <2>6. at'[0] = x
    BY <1>2, <1>10, <2>2, <2>3
  <2>7. Walked(ev', base', specs', Len(specs'), views', counts'[0], log', at'[0], next')
    BY <1>1, <1>3, <2>3, <2>5, <2>6
  <2>8. QED
    BY <1>3, <2>1, <2>7 DEF SerialInv
<1>15. QED
  BY <1>3, <1>5, <1>9, <1>12, <1>13, <1>14 DEF OrderInv

\* A start's next call.
LEMMA StepOrder ==
  ASSUME CountsInv, OrderInv, NEW t \in AllThreads, Step(t)
  PROVE  OrderInv'
<1>1. PICK n \in Nat : n = Len(specs)
  BY StartsAre
<1>2. /\ DOMAIN specs = 1..n /\ views \in Seq(Views) /\ Len(views) = n /\ ev \in Archives
      /\ 0 \in AllThreads /\ \A k \in 1..n : Within(specs[k], views[k])
  BY <1>1, StartsAre, PoolIs
<1>3. PICK k : k = at[t]
  OBVIOUS
<1>4. PICK w : w = Ask(ev, views[k], specs[k])
  OBVIOUS
<1>5. PICK c : c = counts[t] + Repairs(views[k], specs[k])
  OBVIOUS
<1>6. /\ phase = "round" /\ k # 0 /\ views[k].state = "running"
      /\ views' = [views EXCEPT ![k] = w]
      /\ counts' = [counts EXCEPT ![t] = c]
      /\ IF InThreads
         THEN /\ later' = [later EXCEPT ![k] = later[k] \o Counted(views[k], w, c - counts0[t])]
              /\ UNCHANGED log
         ELSE log' = log \o Counted(views[k], w, c) /\ UNCHANGED later
      /\ UNCHANGED <<knobs, phase, ev, specs, made, next, at, counts0, base>>
  BY <1>3, <1>4, <1>5 DEF Step
<1>7. CountersInv /\ DealtInv
  BY <1>6 DEF OrderInv
<1>8. Pool' = Pool /\ InThreads' = InThreads
  BY <1>6 DEF Pool, MinOf, InThreads
<1>9. /\ counts \in [AllThreads -> Nat] /\ counts0 \in [AllThreads -> Nat] /\ at \in [AllThreads -> Nat]
      /\ \A u \in AllThreads : counts0[u] <= counts[u]
      /\ log \in Seq(Logged)
  BY <1>7 DEF CountersInv
<1>10. /\ next \in 1..(n + 1) /\ \A u \in AllThreads : at[u] < next /\ (at[u] # 0 => u \in Pool)
       /\ \A u, v \in AllThreads : at[u] = at[v] /\ at[u] # 0 => u = v
       /\ \A j \in 1..n : j >= next => later[j] = <<>>
       /\ later \in Seq(Seq(Logged)) /\ Len(later) = n
  BY <1>1, <1>7 DEF DealtInv
<1>11. k \in 1..n /\ k < next /\ t \in Pool
  BY <1>3, <1>6, <1>9, <1>10
<1>12. PICK v \in Views : v = views[k]
  BY <1>2, <1>11
<1>13. PICK spec : spec = specs[k]
  OBVIOUS
<1>14. Within(spec, v) /\ v.state = "running" /\ w = Ask(ev, v, spec)
  BY <1>2, <1>4, <1>6, <1>11, <1>12, <1>13
<1>15. PICK rep \in Nat : rep = Repairs(v, spec)
  <2>1. v.pos \in Nat
    BY DEF Views
  <2>2. v.pos < Len(spec.plan) => spec.plan[v.pos + 1] \in Calls
    BY <1>14, <2>1 DEF Within, Planned
  <2>3. QED
    BY <2>2 DEF Repairs, Calls
<1>16. c = counts[t] + rep /\ c \in Nat /\ c >= counts[t]
  BY <1>5, <1>9, <1>12, <1>13, <1>15
<1>17. \A j \in 1..n : views'[j] = IF j = k THEN w ELSE views[j]
  BY <1>2, <1>6
<1>18. \A u \in AllThreads : counts'[u] = IF u = t THEN c ELSE counts[u]
  BY <1>6, <1>9
<1>19. counts' \in [AllThreads -> Nat] /\ \A u \in AllThreads : counts0[u] <= counts'[u]
  <2>1. counts' \in [AllThreads -> Nat]
    BY <1>6, <1>9, <1>16
  <2>2. ASSUME NEW u \in AllThreads PROVE counts0[u] <= counts'[u]
    <3>1. counts0[u] \in Nat /\ counts[u] \in Nat /\ counts0[u] <= counts[u]
      BY <1>9
    <3>2. QED
      BY <1>16, <1>18, <3>1
  <2>3. QED
    BY <2>1, <2>2
<1>20. CASE InThreads
  <2>1. ParallelInv
    BY <1>6, <1>20 DEF OrderInv
  <2>2. PICK b \in Nat : b = counts[t] - counts0[t]
    <3>1. counts[t] \in Nat /\ counts0[t] \in Nat /\ counts0[t] <= counts[t]
      BY <1>9
    <3>2. counts[t] - counts0[t] \in Nat
      BY <3>1
    <3>3. QED
      BY <3>2
  <2>3. PICK d \in Nat : d = c - counts0[t] /\ d = b + Repairs(v, spec)
    <3>1. counts[t] \in Nat /\ counts0[t] \in Nat
      BY <1>9
    <3>2. c - counts0[t] = b + rep
      BY <1>16, <2>2, <3>1
    <3>3. QED
      BY <1>15, <3>2
  <2>4. PICK l \in Seq(Logged) : l = later[k]
    BY <1>10, <1>11
  <2>5. PICK s : s = Own(ev, spec)
    OBVIOUS
  <2>6. Ends(ev, spec, v, b, l, s)
    BY <1>3, <1>6, <1>12, <1>13, <2>1, <2>2, <2>4, <2>5 DEF ParallelInv
  <2>7. PICK g : g = l \o Counted(v, w, d)
    OBVIOUS
  <2>8. g \in Seq(Logged) /\ Ends(ev, spec, w, d, g, s)
    BY <1>2, <1>14, <2>3, <2>6, <2>7, EndsStep
  <2>9. later' = [later EXCEPT ![k] = g] /\ log' = log
    BY <1>6, <1>12, <1>20, <2>3, <2>4, <2>7
  <2>10. /\ later' \in Seq(Seq(Logged)) /\ Len(later') = n
         /\ \A j \in 1..n : later'[j] = IF j = k THEN g ELSE later[j]
    <3>1. k \in 1..Len(later) /\ g \in Seq(Logged)
      BY <1>10, <1>11, <2>8
    <3>2. PICK S : S = Seq(Logged)
      OBVIOUS
    <3>3. later \in Seq(S) /\ g \in S
      BY <1>10, <3>1, <3>2
    <3>4. later' \in Seq(S) /\ Len(later') = n
      BY <1>10, <2>9, <3>1, <3>3, ExceptSeq
    <3>5. \A j \in 1..n : later'[j] = IF j = k THEN g ELSE later[j]
      BY <1>10, <2>9
    <3>6. QED
      BY <3>2, <3>4, <3>5
  <2>11. CountersInv'
    BY <1>6, <1>7, <1>19, <2>9 DEF CountersInv
  <2>12. DealtInv'
    <3>1. \A j \in 1..n : j >= next => later'[j] = <<>>
      BY <1>10, <1>11, <2>10
    <3>2. QED
      BY <1>1, <1>6, <1>7, <1>8, <2>10, <3>1 DEF DealtInv
  <2>13. ParallelInv'
    <3>1. counts'[0] = base /\ log = <<>>
      <4>1. t # 0
        BY <1>11, <1>20, PoolIs
      <4>2. QED
        BY <1>2, <1>18, <2>1, <4>1 DEF ParallelInv
    <3>2. ASSUME NEW u \in AllThreads, at[u] # 0
          PROVE  Ends(ev, specs[at[u]], views'[at[u]], counts'[u] - counts0[u], later'[at[u]], Own(ev, specs[at[u]]))
      <4>1. CASE u = t
        <5>1. /\ at[u] = k /\ views'[k] = w /\ later'[k] = g /\ specs[k] = spec
              /\ counts'[u] - counts0[u] = d
          BY <1>3, <1>11, <1>13, <1>17, <1>18, <2>3, <2>10, <4>1
        <5>2. QED
          BY <2>5, <2>8, <5>1
      <4>2. CASE u # t
        <5>1. at[u] \in 1..n /\ at[u] # k
          BY <1>3, <1>9, <1>10, <3>2, <4>2
        <5>2. views'[at[u]] = views[at[u]] /\ later'[at[u]] = later[at[u]] /\ counts'[u] = counts[u]
          BY <1>17, <1>18, <2>10, <4>2, <5>1
        <5>3. QED
          BY <2>1, <3>2, <5>2 DEF ParallelInv
      <4>3. QED
        BY <4>1, <4>2
    <3>3. ASSUME NEW j \in 1..n, j < next, \A u \in AllThreads : at[u] # j
          PROVE  Own(ev, specs[j]) = [view |-> views'[j], count |-> made[j], log |-> later'[j]]
      <4>1. j # k
        BY <1>3, <3>3
      <4>2. views'[j] = views[j] /\ later'[j] = later[j]
        BY <1>17, <2>10, <4>1
      <4>3. QED
        BY <1>1, <2>1, <3>3, <4>2 DEF ParallelInv
    <3>4. QED
      BY <1>1, <1>6, <2>9, <3>1, <3>2, <3>3 DEF ParallelInv
  <2>14. QED
    BY <1>8, <1>20, <2>11, <2>12, <2>13 DEF OrderInv
<1>21. CASE ~InThreads
  <2>1. SerialInv
    BY <1>6, <1>21 DEF OrderInv
  <2>2. t = 0
    BY <1>11, <1>21, PoolIs
  <2>3. PICK x \in 1..(n + 1) : x = next
    BY <1>10
  <2>4. PICK b \in Nat : b = counts[0]
    BY <1>2, <1>9
  <2>5. PICK l \in Seq(Logged) : l = log
    BY <1>9
  <2>6. Walked(ev, base, specs, n, views, b, l, k, x)
    BY <1>1, <1>3, <2>1, <2>2, <2>3, <2>4, <2>5 DEF SerialInv
  <2>7. c = b + Repairs(views[k], specs[k])
    BY <1>5, <2>2, <2>4
  <2>8. PICK g : g = l \o Counted(views[k], w, c)
    OBVIOUS
  <2>9. Walked(ev, base, specs, n, [views EXCEPT ![k] = w], c, g, k, x)
    BY <1>2, <1>4, <1>6, <1>11, <2>6, <2>7, <2>8, WalkedSteps
  <2>10. g \in Seq(Logged)
    BY <1>2, <1>12, <1>13, <1>14, <2>5, <2>7, <2>8, PlainStep
  <2>11. log' = g /\ later' = later
    BY <1>6, <1>21, <2>5, <2>8
  <2>12. CountersInv'
    BY <1>6, <1>7, <1>19, <2>10, <2>11 DEF CountersInv
  <2>13. DealtInv'
    BY <1>1, <1>6, <1>7, <1>8, <2>11 DEF DealtInv
  <2>14. Walked(ev', base', specs', Len(specs'), views', counts'[0], log', at'[0], next')
    <3>1. counts'[0] = c /\ at'[0] = k
      BY <1>2, <1>3, <1>6, <1>18, <2>2
    <3>2. QED
      BY <1>1, <1>6, <2>3, <2>9, <2>11, <3>1
  <2>15. SerialInv'
    BY <1>6, <2>1, <2>11, <2>14 DEF SerialInv
  <2>16. QED
    BY <1>8, <1>21, <2>12, <2>13, <2>15 DEF OrderInv
<1>22. QED
  BY <1>20, <1>21

\* A start ends.
LEMMA FinishOrder ==
  ASSUME CountsInv, OrderInv, NEW t \in AllThreads, Finish(t)
  PROVE  OrderInv'
<1>1. PICK n \in Nat : n = Len(specs)
  BY StartsAre
<1>2. /\ DOMAIN specs = 1..n /\ views \in Seq(Views) /\ Len(views) = n /\ ev \in Archives
      /\ 0 \in AllThreads /\ \A k \in 1..n : Within(specs[k], views[k])
  BY <1>1, StartsAre, PoolIs
<1>3. PICK k : k = at[t]
  OBVIOUS
<1>4. /\ phase = "round" /\ k # 0 /\ views[k].state \in {"stopped", "failed"}
      /\ made' = [made EXCEPT ![k] = IF InThreads THEN counts[t] - counts0[t] ELSE made[k]]
      /\ at' = [at EXCEPT ![t] = 0]
      /\ UNCHANGED <<knobs, phase, ev, log, counts, specs, views, later, next, counts0, base>>
  BY <1>3 DEF Finish
<1>5. CountersInv /\ DealtInv
  BY <1>4 DEF OrderInv
<1>6. Pool' = Pool /\ InThreads' = InThreads
  BY <1>4 DEF Pool, MinOf, InThreads
<1>7. /\ counts \in [AllThreads -> Nat] /\ counts0 \in [AllThreads -> Nat] /\ at \in [AllThreads -> Nat]
      /\ \A u \in AllThreads : counts0[u] <= counts[u]
      /\ log \in Seq(Logged) /\ base \in Nat
  BY <1>5 DEF CountersInv
<1>8. /\ next \in 1..(n + 1) /\ \A u \in AllThreads : at[u] < next /\ (at[u] # 0 => u \in Pool)
      /\ \A u, v \in AllThreads : at[u] = at[v] /\ at[u] # 0 => u = v
      /\ later \in Seq(Seq(Logged)) /\ Len(later) = n /\ made \in Seq(Nat) /\ Len(made) = n
  BY <1>1, <1>5 DEF DealtInv
<1>9. k \in 1..n /\ k < next /\ t \in Pool
  BY <1>3, <1>4, <1>7, <1>8
<1>10. PICK b \in Nat : b = counts[t] - counts0[t]
  <2>1. counts[t] \in Nat /\ counts0[t] \in Nat /\ counts0[t] <= counts[t]
    BY <1>7
  <2>2. counts[t] - counts0[t] \in Nat
    BY <2>1
  <2>3. QED
    BY <2>2
<1>11. \A u \in AllThreads : at'[u] = IF u = t THEN 0 ELSE at[u]
  BY <1>4, <1>7
<1>12. PICK z \in Nat : z = IF InThreads THEN b ELSE made[k]
  BY <1>8, <1>9, <1>10
<1>13. made' = [made EXCEPT ![k] = z]
  BY <1>4, <1>10, <1>12
<1>14. made' \in Seq(Nat) /\ Len(made') = n /\ \A j \in 1..n : made'[j] = IF j = k THEN z ELSE made[j]
  <2>1. k \in 1..Len(made)
    BY <1>8, <1>9
  <2>2. made' \in Seq(Nat) /\ Len(made') = n
    BY <1>8, <1>13, <2>1, ExceptSeq
  <2>3. QED
    BY <1>8, <1>13, <2>2
<1>15. CountersInv'
  <2>1. at' \in [AllThreads -> Nat]
    BY <1>4, <1>7
  <2>2. QED
    BY <1>4, <1>5, <2>1 DEF CountersInv
<1>16. DealtInv'
  <2>1. \A u \in AllThreads : at'[u] < next /\ (at'[u] # 0 => u \in Pool)
    BY <1>8, <1>11
  <2>2. \A u, v \in AllThreads : at'[u] = at'[v] /\ at'[u] # 0 => u = v
    BY <1>8, <1>11
  <2>3. QED
    BY <1>1, <1>4, <1>5, <1>6, <1>14, <2>1, <2>2 DEF DealtInv
<1>17. PICK v \in Views : v = views[k]
  BY <1>2, <1>9
<1>18. PICK spec : spec = specs[k]
  OBVIOUS
<1>19. Within(spec, v) /\ v.state # "running"
  BY <1>2, <1>4, <1>9, <1>17, <1>18
<1>20. ASSUME InThreads PROVE ParallelInv'
  <2>1. ParallelInv
    BY <1>4, <1>20 DEF OrderInv
  <2>2. PICK l \in Seq(Logged) : l = later[k]
    BY <1>8, <1>9
  <2>3. PICK s : s = Own(ev, spec)
    OBVIOUS
  <2>4. Ends(ev, spec, v, b, l, s)
    BY <1>3, <1>4, <1>10, <1>17, <1>18, <2>1, <2>2, <2>3 DEF ParallelInv
  <2>5. s = [view |-> v, count |-> b, log |-> l]
    BY <1>2, <1>19, <2>4, EndsThere
  <2>6. ASSUME NEW u \in AllThreads, at'[u] # 0
        PROVE  Ends(ev, specs[at'[u]], views[at'[u]], counts[u] - counts0[u], later[at'[u]], Own(ev, specs[at'[u]]))
    <3>1. at'[u] = at[u]
      BY <1>11, <2>6
    <3>2. QED
      BY <2>1, <2>6, <3>1 DEF ParallelInv
  <2>7. ASSUME NEW j \in 1..n, j < next, \A u \in AllThreads : at'[u] # j
        PROVE  Own(ev, specs[j]) = [view |-> views[j], count |-> made'[j], log |-> later[j]]
    <3>1. CASE j = k
      <4>1. made'[k] = b
        BY <1>9, <1>12, <1>14, <1>20
      <4>2. QED
        BY <1>17, <1>18, <2>2, <2>3, <2>5, <3>1, <4>1
    <3>2. CASE j # k
      <4>1. \A u \in AllThreads : at[u] # j
        BY <1>3, <1>11, <2>7, <3>2
      <4>2. made'[j] = made[j]
        BY <1>14, <3>2
      <4>3. QED
        BY <1>1, <2>1, <2>7, <4>1, <4>2 DEF ParallelInv
    <3>3. QED
      BY <3>1, <3>2
  <2>8. counts[0] = base /\ log = <<>>
    BY <2>1 DEF ParallelInv
  <2>9. QED
    BY <1>1, <1>4, <2>6, <2>7, <2>8 DEF ParallelInv
<1>21. ASSUME ~InThreads PROVE SerialInv'
  <2>1. SerialInv
    BY <1>4, <1>21 DEF OrderInv
  <2>2. t = 0
    BY <1>9, <1>21, PoolIs
  <2>3. PICK x \in 1..(n + 1) : x = next
    BY <1>8
  <2>4. PICK c \in Nat : c = counts[0]
    BY <1>2, <1>7
  <2>5. PICK l \in Seq(Logged) : l = log
    BY <1>7
  <2>6. Walked(ev, base, specs, n, views, c, l, k, x)
    BY <1>1, <1>3, <2>1, <2>2, <2>3, <2>4, <2>5 DEF SerialInv
  <2>7. Walked(ev, base, specs, n, views, c, l, 0, x)
    BY <1>2, <1>7, <1>9, <1>17, <1>18, <1>19, <2>6, WalkedFinishes
  <2>8. at'[0] = 0
    BY <1>2, <1>11, <2>2
  <2>9. Walked(ev', base', specs', Len(specs'), views', counts'[0], log', at'[0], next')
    BY <1>1, <1>4, <2>3, <2>4, <2>5, <2>7, <2>8
  <2>10. \A j \in 1..n : later[j] = <<>> /\ made'[j] = 0
    <3>1. \A j \in 1..n : later[j] = <<>> /\ made[j] = 0
      BY <1>1, <2>1 DEF SerialInv
    <3>2. z = 0
      BY <1>9, <1>12, <1>21, <3>1
    <3>3. QED
      BY <1>14, <3>1, <3>2
  <2>11. QED
    BY <1>1, <1>4, <2>9, <2>10 DEF SerialInv
<1>22. QED
  BY <1>4, <1>6, <1>15, <1>16, <1>20, <1>21 DEF OrderInv

\* A round begins.
LEMMA BeginOrder ==
  ASSUME CountsInv, CountsInv', OrderInv, StartRound
  PROVE  OrderInv'
<1>1. \E given : Begin(given)
  BY DEF StartRound, Multistart, Mlsl, Walk, Tiktak, Halving, GlobalPhase, LocalPhase
<1>2. PICK given : Begin(given)
  BY <1>1
<1>3. /\ phase = "loop" /\ phase' = "round" /\ specs' = given
      /\ later' = [k \in DOMAIN given |-> <<>>] /\ made' = [k \in DOMAIN given |-> 0]
      /\ base' = counts[0] /\ log' = <<>>
      /\ UNCHANGED <<knobs, ev, counts, next, at, counts0>>
  BY <1>2 DEF Begin
<1>4. PICK n \in Nat : n = Len(given) /\ DOMAIN given = 1..n
  <2>1. PICK n \in Nat : Given(n, specs')
    BY DEF CountsInv, StartsInv, Given
  <2>2. PICK B : B = {given[k] : k \in 1..n}
    OBVIOUS
  <2>3. given \in Seq(B) /\ Len(given) = n /\ DOMAIN given = 1..n
    BY <1>3, <2>1, <2>2 DEF Given
  <2>4. QED
    BY <2>3
<1>5. /\ CountersInv /\ next = 1 /\ counts \in [AllThreads -> Nat] /\ 0 \in AllThreads
      /\ \A t \in AllThreads : at[t] = 0
  BY <1>3, PoolIs DEF OrderInv, CountersInv
<1>6. <<>> \in Seq(Logged)
  OBVIOUS
<1>7. CountersInv'
  <2>1. base' \in Nat
    BY <1>3, <1>5
  <2>2. QED
    BY <1>3, <1>5, <1>6, <2>1 DEF CountersInv
<1>8. /\ later' \in Seq(Seq(Logged)) /\ Len(later') = n /\ made' \in Seq(Nat) /\ Len(made') = n
      /\ \A k \in 1..n : later'[k] = <<>> /\ made'[k] = 0
  <2>1. PICK S : S = Seq(Logged)
    OBVIOUS
  <2>2. <<>> \in S
    BY <1>6, <2>1
  <2>3. later' = [k \in 1..n |-> <<>>] /\ made' = [k \in 1..n |-> 0]
    BY <1>3, <1>4
  <2>4. later' \in Seq(S) /\ Len(later') = n
    BY <2>2, <2>3
  <2>5. made' \in Seq(Nat) /\ Len(made') = n
    BY <2>3
  <2>6. QED
    BY <2>1, <2>3, <2>4, <2>5
<1>9. DealtInv'
  <2>1. next' = 1 /\ Len(specs') = n /\ at' = at
    BY <1>3, <1>4, <1>5
  <2>2. next' \in 1..(n + 1)
    BY <2>1
  <2>3. \A t \in AllThreads : at'[t] < next' /\ at'[t] = 0
    BY <1>5, <2>1
  <2>4. QED
    BY <1>8, <2>1, <2>2, <2>3 DEF DealtInv
<1>10. ParallelInv'
  <2>1. counts'[0] = base' /\ log' = <<>>
    BY <1>3
  <2>2. \A t \in AllThreads : at'[t] = 0
    BY <1>3, <1>5
  <2>3. \A k \in 1..n : ~(k < next')
    BY <1>3, <1>5
  <2>4. QED
    BY <1>3, <1>4, <2>1, <2>2, <2>3 DEF ParallelInv
<1>11. SerialInv'
  <2>1. Walked(ev', base', given, n, views', base', <<>>, 0, 1)
    BY WalkedBegins
  <2>2. counts'[0] = base' /\ at'[0] = 0 /\ next' = 1
    BY <1>3, <1>5
  <2>3. QED
    BY <1>3, <1>4, <1>8, <2>1, <2>2 DEF SerialInv
<1>12. QED
  BY <1>7, <1>9, <1>10, <1>11 DEF OrderInv

\* Outside a round, and at its end, the counters start anew.
LEMMA EndOrder ==
  ASSUME CountsInv, OrderInv, EndRound
  PROVE  OrderInv' /\ phase' # "round"
<1>1. PICK n \in Nat : n = Len(specs)
  BY StartsAre
<1>2. /\ phase = "round" /\ \A t \in AllThreads : at[t] = 0
      /\ log' = Flushed
      /\ counts' = [t \in AllThreads |-> IF t = 0 THEN counts[0] + MadeBefore(Len(made) + 1) ELSE 0]
      /\ counts0' = [t \in AllThreads |-> 0]
      /\ next' = 1 /\ base' = 0 /\ at' = at
  BY DEF EndRound
<1>3. phase' # "round"
  <2>1. PICK s : phase' = CASE Throws(views) -> "failed"
                            [] ~Throws(views) /\ ~ev'.out /\ GoesOn(ev', s.stage) -> "loop"
                            [] OTHER -> "over"
    BY DEF EndRound
  <2>2. phase' \in {"failed", "loop", "over"}
    BY <2>1
  <2>3. QED
    BY <2>2
<1>4. CountersInv /\ DealtInv /\ 0 \in AllThreads
  BY <1>2, PoolIs DEF OrderInv
<1>5. MadeBefore(n + 1) \in Nat /\ FlushedTrace(n, Seq(Logged), log) /\ Len(made) = n
  BY <1>1, <1>4, FlushIs DEF DealtInv
<1>6. Flushed \in Seq(Logged)
  <2>1. PICK r \in [0..n -> Seq(Logged)] : r[n] = Flushed
    BY <1>5 DEF FlushedTrace
  <2>2. n \in 0..n
    OBVIOUS
  <2>3. QED
    BY <2>1, <2>2
<1>7. PICK c \in Nat : c = counts[0] + MadeBefore(Len(made) + 1)
  <2>1. counts[0] \in Nat
    BY <1>4 DEF CountersInv
  <2>2. counts[0] + MadeBefore(Len(made) + 1) \in Nat
    BY <1>5, <2>1
  <2>3. QED
    BY <2>2
<1>8. counts' \in [AllThreads -> Nat] /\ counts0' \in [AllThreads -> Nat]
      /\ \A t \in AllThreads : counts0'[t] <= counts'[t]
  <2>1. counts' = [t \in AllThreads |-> IF t = 0 THEN c ELSE 0]
    BY <1>2, <1>7
  <2>2. QED
    BY <1>2, <2>1
<1>9. CountersInv'
  BY <1>2, <1>4, <1>6, <1>8 DEF CountersInv
<1>10. QED
  BY <1>3, <1>9 DEF OrderInv

\* What a step outside a round leaves.
LEMMA QuietOrder ==
  ASSUME OrderInv, phase # "round", phase' # "round",
         UNCHANGED <<log, counts, roundState>>
  PROVE  OrderInv'
<1>1. CountersInv
  BY DEF OrderInv
<1>2. CountersInv'
  BY <1>1 DEF CountersInv, roundState
<1>3. QED
  BY <1>2 DEF OrderInv

LEMMA NextOrder ==
  ASSUME CountsInv, CountsInv', OrderInv, [Next]_vars
  PROVE  OrderInv'
<1>1. CASE NextRounds
  <2>1. ASSUME NEW x \in Points, Draw(x) PROVE OrderInv'
    <3>1. phase = "loop" /\ UNCHANGED <<log, counts, roundState>>
      BY <2>1 DEF Draw
    <3>2. phase' \in {"failed", "loop", "over"}
      BY <2>1 DEF Draw
    <3>3. QED
      BY <3>1, <3>2, QuietOrder
  <2>2. CASE StartRound
    BY <2>2, BeginOrder
  <2>3. CASE EndRound
    BY <2>3, EndOrder
  <2>4. QED
    BY <1>1, <2>1, <2>2, <2>3, ClaimOrder, StepOrder, FinishOrder DEF NextRounds
<1>2. CASE NextRestarts /\ UNCHANGED rounds
  <2>1. phase # "round" /\ phase' # "round"
    BY <1>2 DEF NextRestarts, NextRun, Sample, Tell, EndRun, Ipop, FirstRun, LargeRun, SmallRun, BeginRun
  <2>2. QED
    BY <1>2, <2>1, QuietOrder DEF rounds
<1>3. CASE UNCHANGED vars
  <2>1. UNCHANGED <<knobs, phase, ev, log, counts, specs, views, later, made, next, at, counts0, base>>
    BY <1>3 DEF vars, evaluator, rounds, roundState
  <2>2. CountersInv'
    BY <2>1 DEF OrderInv, CountersInv
  <2>3. Pool' = Pool /\ InThreads' = InThreads
    BY <2>1 DEF Pool, MinOf, InThreads
  <2>4. CASE phase # "round"
    BY <2>1, <2>2, <2>4 DEF OrderInv
  <2>5. CASE phase = "round"
    <3>1. DealtInv /\ IF InThreads THEN ParallelInv ELSE SerialInv
      BY <2>5 DEF OrderInv
    <3>2. DealtInv'
      BY <2>1, <2>3, <3>1 DEF DealtInv
    <3>3. InThreads => ParallelInv'
      BY <2>1, <3>1 DEF ParallelInv
    <3>4. ~InThreads => SerialInv'
      BY <2>1, <3>1 DEF SerialInv
    <3>5. QED
      BY <2>2, <2>3, <3>2, <3>3, <3>4 DEF OrderInv
  <2>6. QED
    BY <2>4, <2>5
<1>4. QED
  BY <1>1, <1>2, <1>3 DEF Next, Ended

-----------------------------------------------------------------------------
(* The end of a round.                                                     *)

\* What the starts gave in turn, up to the k-th, is what the lists give up to it.
Alike(r, f, k) ==
  r.count = counts[0] + MadeBefore(k + 1) /\ r.log = f /\ Same(r, views, k)

\* ... by the threads of a pool, when all have ended.
LEMMA ParallelEnds ==
  ASSUME CountsInv, CountersInv, DealtInv, ParallelInv, NEW n \in Nat, n = Len(specs), next = n + 1,
         \A t \in AllThreads : at[t] = 0,
         NEW m, Turn(ev, base, specs, n, m),
         NEW f \in [0..n -> Seq(Logged)], f[0] = log, \A i \in 1..n : f[i] = f[i - 1] \o Shown(i)
  PROVE  Alike(m[n], f[n], n)
<1>1. /\ \A k \in 1..n : Within(specs[k], views[k])
      /\ views \in Seq(Views) /\ Len(views) = n /\ ev \in Archives
      /\ counts[0] = base /\ base \in Nat /\ log = <<>>
  BY StartsAre DEF ParallelInv, CountersInv
<1>2. \A k \in 1..n : Own(ev, specs[k]) = [view |-> views[k], count |-> made[k], log |-> later[k]]
  <2>1. SUFFICES ASSUME NEW k \in 1..n
                 PROVE  Own(ev, specs[k]) = [view |-> views[k], count |-> made[k], log |-> later[k]]
    OBVIOUS
  <2>2. k < next /\ \A t \in AllThreads : at[t] # k
    OBVIOUS
  <2>3. QED
    BY <2>2 DEF ParallelInv
<1>3. /\ MadeBefore(1) = 0
      /\ \A k \in 1..n : /\ MadeBefore(k) \in Nat /\ MadeBefore(k + 1) = MadeBefore(k) + made[k]
                         /\ Shown(k) = Plus(later[k], counts[0] + MadeBefore(k))
  BY FlushIs
<1>4. /\ m[0] = [views |-> <<>>, count |-> base, log |-> <<>>]
      /\ \A k \in 1..n : m[k] = Alone(ev, m[k - 1], specs[k])
      /\ \A k \in 0..n : m[k] \in Alones
  BY DEF Turn
<1>5. PICK T : T = {k \in 0..n : Alike(m[k], f[k], k)}
  OBVIOUS
<1>6. 0 \in T
  <2>1. counts[0] + MadeBefore(0 + 1) = base
    BY <1>1, <1>3
  <2>2. Same(m[0], views, 0)
    BY <1>4 DEF Same
  <2>3. QED
    BY <1>1, <1>4, <1>5, <2>1, <2>2 DEF Alike
<1>7. ASSUME NEW k \in 1..n, k - 1 \in T PROVE k \in T
  <2>1. PICK j \in 0..n : j = k - 1 /\ j + 1 = k
    OBVIOUS
  <2>2. PICK a \in Alones : a = m[j]
    BY <1>4
  <2>3. a.count = counts[0] + MadeBefore(k) /\ a.log = f[j] /\ Same(a, views, j)
    BY <1>5, <1>7, <2>1, <2>2 DEF Alike
  <2>4. PICK spec : spec = specs[k]
    OBVIOUS
  <2>5. PICK r : r = Alone(ev, a, spec)
    OBVIOUS
  <2>6. PICK o : o = Own(ev, spec)
    OBVIOUS
  <2>7. o.view = views[k] /\ o.count = made[k] /\ o.log = later[k]
    <3>1. o = [view |-> views[k], count |-> made[k], log |-> later[k]]
      BY <1>2, <2>4, <2>6
    <3>2. QED
      BY <3>1
  <2>8. Planned(spec)
    BY <1>1, <2>4 DEF Within
  <2>9. /\ o.count \in Nat
        /\ r.views = Append(a.views, o.view) /\ r.count = a.count + o.count
        /\ r.log = a.log \o Plus(o.log, a.count)
    BY <1>1, <2>5, <2>6, <2>8, AloneIs
  <2>10. r.count = counts[0] + MadeBefore(k + 1)
    <3>1. MadeBefore(k) \in Nat /\ MadeBefore(k + 1) = MadeBefore(k) + made[k] /\ made[k] \in Nat
      BY <1>3, <2>7, <2>9
    <3>2. r.count = (base + MadeBefore(k)) + made[k]
      BY <1>1, <2>3, <2>7, <2>9
    <3>3. QED
      BY <1>1, <3>1, <3>2
  <2>11. r.log = f[k]
    <3>1. Shown(k) = Plus(later[k], a.count)
      BY <1>3, <2>3
    <3>2. f[k] = f[j] \o Shown(k)
      BY <2>1
    <3>3. QED
      BY <2>3, <2>7, <2>9, <3>1, <3>2
  <2>12. Same(r, views, k)
    <3>1. a.views \in Seq(Views) /\ Len(a.views) = j /\ \A i \in 1..j : a.views[i] = views[i]
      BY <2>3 DEF Same, Alones
    <3>2. PICK v \in Views : v = views[k]
      BY <1>1
    <3>3. PICK q : q = Append(a.views, v)
      OBVIOUS
    <3>4. Len(q) = k /\ q[k] = v /\ \A i \in 1..j : q[i] = a.views[i]
      BY <2>1, <3>1, <3>3
    <3>5. \A i \in 1..k : q[i] = views[i]
      BY <2>1, <3>1, <3>2, <3>4
    <3>6. r.views = q
      BY <2>7, <2>9, <3>2, <3>3
    <3>7. QED
      BY <3>4, <3>5, <3>6 DEF Same
  <2>13. m[k] = r /\ k \in 0..n
    BY <1>4, <2>1, <2>2, <2>4, <2>5
  <2>14. QED
    BY <1>5, <2>10, <2>11, <2>12, <2>13 DEF Alike
<1>8. \A k \in 0..n : k \in T
  BY <1>6, <1>7, Upwards
<1>9. n \in 0..n
  OBVIOUS
<1>10. QED
  BY <1>5, <1>8, <1>9

\* ... and by the strategy's own thread.
LEMMA SerialEnds ==
  ASSUME CountsInv, CountersInv, DealtInv, SerialInv, NEW n \in Nat, n = Len(specs), next = n + 1,
         \A t \in AllThreads : at[t] = 0,
         NEW m, Turn(ev, base, specs, n, m),
         NEW f \in [0..n -> Seq(Logged)], f[0] = log, \A i \in 1..n : f[i] = f[i - 1] \o Shown(i)
  PROVE  Alike(m[n], f[n], n)
<1>1. /\ \A k \in 1..n : later[k] = <<>> /\ made[k] = 0
      /\ Walked(ev, base, specs, n, views, counts[0], log, at[0], next)
  BY DEF SerialInv
<1>2. at[0] = 0 /\ next - 1 = n
  BY PoolIs
<1>3. Same(m[n], views, n) /\ m[n].count = counts[0] /\ m[n].log = log
  BY <1>1, <1>2 DEF Walked
<1>4. counts[0] \in Nat /\ log \in Seq(Logged) /\ made \in Seq(Nat) /\ Len(made) = n
  BY PoolIs DEF CountersInv, DealtInv
<1>5. MadeBefore(n + 1) = 0
  <2>1. PICK p : p = SubSeq(made, 1, n)
    OBVIOUS
  <2>2. p \in Seq(Nat) /\ Len(p) = n /\ \A i \in 1..n : p[i] = made[i]
    BY <1>4, <2>1, BeginsIs
  <2>3. \A i \in 1..Len(p) : p[i] = 0
    BY <1>1, <2>2
  <2>4. Total(p) = 0
    BY <2>2, <2>3, TotalZero
  <2>5. n + 1 - 1 = n
    OBVIOUS
  <2>6. QED
    BY <2>1, <2>4, <2>5 DEF MadeBefore
<1>6. \A k \in 1..n : Shown(k) = <<>>
  <2>1. SUFFICES ASSUME NEW k \in 1..n PROVE Shown(k) = <<>>
    OBVIOUS
  <2>2. PICK d \in Nat : d = counts[0] + MadeBefore(k)
    <3>1. MadeBefore(k) \in Nat
      BY FlushIs
    <3>2. counts[0] + MadeBefore(k) \in Nat
      BY <1>4, <3>1
    <3>3. QED
      BY <3>2
  <2>3. Shown(k) = Plus(<<>>, d)
    BY <1>1, <2>2, FlushIs
  <2>4. <<>> \in Seq(Logged) /\ Len(<<>>) = 0
    OBVIOUS
  <2>5. Plus(<<>>, d) \in Seq(Logged) /\ Len(Plus(<<>>, d)) = 0
    BY <2>2, <2>4, PlusIs
  <2>6. QED
    BY <2>3, <2>5
<1>7. PICK T : T = {k \in 0..n : f[k] = log}
  OBVIOUS
<1>8. 0 \in T
  BY <1>7
<1>9. ASSUME NEW k \in 1..n, k - 1 \in T PROVE k \in T
  <2>1. f[k] = log \o <<>>
    BY <1>6, <1>7, <1>9
  <2>2. log \o <<>> = log
    BY <1>4
  <2>3. k \in 0..n
    OBVIOUS
  <2>4. QED
    BY <1>7, <2>1, <2>2, <2>3
<1>10. \A k \in 0..n : k \in T
  BY <1>8, <1>9, Upwards
<1>11. n \in 0..n
  OBVIOUS
<1>12. f[n] = log
  BY <1>7, <1>10, <1>11
<1>13. QED
  BY <1>3, <1>4, <1>5, <1>12 DEF Alike

\* What a round leaves when it ends is what its starts run one after the other give.
LEMMA EndsAlike ==
  ASSUME CountsInv, OrderInv, EndRound
  PROVE  /\ log' = OneThread.log /\ counts'[0] = OneThread.count
         /\ OneThread.views = views
<1>1. PICK n \in Nat : n = Len(specs)
  BY StartsAre
<1>2. /\ phase = "round" /\ \A t \in AllThreads : at[t] = 0
      /\ next > n /\ log' = Flushed
      /\ counts' = [t \in AllThreads |-> IF t = 0 THEN counts[0] + MadeBefore(Len(made) + 1) ELSE 0]
  BY <1>1 DEF EndRound
<1>3. CountersInv /\ DealtInv /\ (IF InThreads THEN ParallelInv ELSE SerialInv) /\ 0 \in AllThreads
  BY <1>2, PoolIs DEF OrderInv
<1>4. next = n + 1 /\ Len(made) = n /\ base \in Nat
  <2>1. next \in 1..(n + 1) /\ Len(made) = n
    BY <1>1, <1>3 DEF DealtInv
  <2>2. next = n + 1
    BY <1>2, <2>1
  <2>3. QED
    BY <1>3, <2>1, <2>2 DEF CountersInv
<1>5. Given(n, specs) /\ ev \in Archives /\ views \in Seq(Views) /\ Len(views) = n
  BY <1>1, StartsAre
<1>6. PICK m : /\ Turn(ev, base, specs, n, m)
               /\ m[n] = InTurn(ev, [views |-> <<>>, count |-> base, log |-> <<>>], specs)
  BY <1>4, <1>5, TurnIs
<1>7. m[n] = OneThread
  BY <1>6 DEF OneThread
<1>8. FlushedTrace(n, Seq(Logged), log)
  BY <1>1, <1>3, FlushIs
<1>9. PICK f \in [0..n -> Seq(Logged)] :
         /\ f[0] = log /\ f[n] = Flushed
         /\ \A i \in 1..n : f[i] = f[i - 1] \o Shown(i)
  BY <1>8 DEF FlushedTrace
<1>10. Alike(m[n], f[n], n)
  <2>1. CASE InThreads
    BY <1>1, <1>2, <1>3, <1>4, <1>6, <1>9, <2>1, ParallelEnds
  <2>2. CASE ~InThreads
    BY <1>1, <1>2, <1>3, <1>4, <1>6, <1>9, <2>2, SerialEnds
  <2>3. QED
    BY <2>1, <2>2
<1>11. m[n].views = views
  <2>1. n \in 0..n
    OBVIOUS
  <2>2. m[n] \in Alones
    BY <1>6, <2>1 DEF Turn
  <2>3. PICK q \in Seq(Views) : q = m[n].views
    BY <2>2 DEF Alones
  <2>4. Len(q) = n /\ \A i \in 1..n : q[i] = views[i]
    BY <1>10, <2>3 DEF Alike, Same
  <2>5. q = views
    BY <1>5, <2>4, SameSeq
  <2>6. QED
    BY <2>3, <2>5
<1>12. m[n].log = log' /\ m[n].count = counts'[0]
  BY <1>2, <1>3, <1>4, <1>9, <1>10 DEF Alike
<1>13. QED
  BY <1>7, <1>11, <1>12

\* A run of any strategy by rounds, for any plans, budgets, numbers of starts and threads,
\* in whatever order the threads take the starts and make their calls: each round leaves the
\* calls counted, the repairs, the archive and the failure that its starts run one after the
\* other give (round, defer_or_run, Evaluator::adopt).
THEOREM OneThreadsRun == Spec => SameAsOneThread
<1> DEFINE Ending ==
      phase = "round" /\ phase' # "round" =>
        /\ log' = OneThread.log
        /\ counts'[0] = OneThread.count
        /\ (phase' = "failed") = Throws(OneThread.views)
        /\ ~Throws(OneThread.views) => ev' = Merge(ev, OneThread.views)
<1>1. Init => CountsInv /\ OrderInv
  <2>1. SUFFICES ASSUME Init PROVE OrderInv
    BY CountsBegin
  <2>2. /\ phase = "loop" /\ log = <<>> /\ base = 0 /\ next = 1
        /\ counts = [t \in AllThreads |-> 0] /\ counts0 = [t \in AllThreads |-> 0]
        /\ at = [t \in AllThreads |-> 0]
    BY <2>1 DEF Init, StartEvaluator, InitRounds
  <2>3. <<>> \in Seq(Logged)
    OBVIOUS
  <2>4. CountersInv
    BY <2>2, <2>3 DEF CountersInv
  <2>5. QED
    BY <2>2, <2>4 DEF OrderInv
<1>2. CountsInv /\ OrderInv /\ [Next]_vars => CountsInv' /\ OrderInv'
  BY CountsStep, NextOrder
<1>3. CountsInv /\ OrderInv /\ [Next]_vars => [Ending]_roundVars
  <2>1. SUFFICES ASSUME CountsInv, OrderInv, [Next]_vars, phase = "round", phase' # "round"
                 PROVE  /\ log' = OneThread.log
                        /\ counts'[0] = OneThread.count
                        /\ (phase' = "failed") = Throws(OneThread.views)
                        /\ ~Throws(OneThread.views) => ev' = Merge(ev, OneThread.views)
    OBVIOUS
  <2>2. EndRound
    <3>1. CASE NextRounds
      <4>1. \A x \in Points : Draw(x) => phase = "loop"
        BY DEF Draw
      <4>2. StartRound => phase = "loop"
        BY DEF StartRound, Multistart, Mlsl, Walk, Tiktak, Halving, GlobalPhase, LocalPhase, Begin
      <4>3. \A t \in AllThreads : Claim(t) \/ Step(t) \/ Finish(t) => phase' = phase
        BY DEF Claim, Step, Finish
      <4>4. QED
        BY <2>1, <3>1, <4>1, <4>2, <4>3 DEF NextRounds
    <3>2. CASE NextRestarts
      BY <2>1, <3>2 DEF NextRestarts, NextRun, Sample, Tell
    <3>3. CASE UNCHANGED vars
      BY <2>1, <3>3 DEF vars, evaluator
    <3>4. QED
      BY <2>1, <3>1, <3>2, <3>3 DEF Next, Ended
  <2>3. log' = OneThread.log /\ counts'[0] = OneThread.count /\ OneThread.views = views
    BY <2>1, <2>2, EndsAlike
  <2>4. ev' = IF Throws(views) THEN ev ELSE Merge(ev, views)
    BY <2>2 DEF EndRound
  <2>5. (phase' = "failed") <=> Throws(views)
    <3>1. PICK s : phase' = CASE Throws(views) -> "failed"
                              [] ~Throws(views) /\ ~ev'.out /\ GoesOn(ev', s.stage) -> "loop"
                              [] OTHER -> "over"
      BY <2>2 DEF EndRound
    <3>2. QED
      BY <3>1
  <2>6. (phase' = "failed") = Throws(views)
    BY <2>5 DEF Throws
  <2>7. QED
    BY <2>3, <2>4, <2>6
<1>4. QED
  BY <1>1, <1>2, <1>3, PTL DEF Spec, SameAsOneThread
-----------------------------------------------------------------------------
(* The restarts of CMA-ES.                                                 *)

\* A run is limited by the budget, a small one by an allowance of its own, at least one.
LimitInv ==
  /\ run.regime \in 0..2 /\ run.before \in Nat /\ run.before <= ev.spent
  /\ run.regime # 2 => run.limit = knobs.budget
  /\ run.regime = 2 =>
        knobs.strategy = "bipop" /\ \E a \in Nat \ {0} : run.limit = MinOf(knobs.budget, run.before + a)

GoInv ==
  /\ ~ev.out => ev.budget = knobs.budget
  /\ ~knobs.joint => ev.gradCalls = 0
  /\ \E n \in Nat : /\ DOMAIN runs = 1..n /\ runs = [i \in 1..n |-> runs[i]]
                    /\ \A i \in 1..n : runs[i].evaluations \in Nat
  /\ phase \in {"loop", "run"} => Cardinality(Of(1)) < Large
  /\ phase = "run" => LimitInv
  /\ phase # "round"

\* A run more, behind those before it.
LEMMA OfNext ==
  ASSUME NEW n \in Nat, DOMAIN runs = 1..n, runs = [i \in 1..n |-> runs[i]], NEW b, runs' = Append(runs, b)
  PROVE  /\ DOMAIN runs' = 1..(n + 1) /\ runs' = [i \in 1..(n + 1) |-> runs'[i]]
         /\ runs'[n + 1] = b /\ Last(runs') = b /\ \A i \in 1..n : runs'[i] = runs[i]
         /\ Cardinality(Of(1)) \in Nat
         /\ Cardinality(Of(1)') = IF b.regime = 1 THEN Cardinality(Of(1)) + 1 ELSE Cardinality(Of(1))
<1>1. PICK B : B = {runs[i] : i \in 1..n} \cup {b}
  OBVIOUS
<1>2. runs \in Seq(B) /\ Len(runs) = n /\ b \in B
  BY <1>1
<1>3. /\ runs' \in Seq(B) /\ Len(runs') = n + 1 /\ runs'[n + 1] = b
      /\ \A i \in 1..n : runs'[i] = runs[i]
  BY <1>2
<1>4. DOMAIN runs' = 1..(n + 1) /\ runs' = [i \in 1..(n + 1) |-> runs'[i]]
  BY <1>3
<1>5. Last(runs') = b
  BY <1>3 DEF Last
<1>6. PICK D : D = Of(1)
  OBVIOUS
<1>7. D \subseteq 1..n /\ IsFiniteSet(D)
  <2>1. D \subseteq 1..n
    BY <1>6 DEF Of
  <2>2. IsFiniteSet(1..n)
    BY FS_Interval
  <2>3. QED
    BY <2>1, <2>2, FS_Subset
<1>8. Cardinality(D) \in Nat
  BY <1>7, FS_CardinalityType
<1>9. Of(1)' = {i \in 1..(n + 1) : runs'[i].regime = 1}
  BY <1>4 DEF Of
<1>10. \A i \in 1..(n + 1) : i = n + 1 \/ i \in 1..n
  OBVIOUS
<1>11. n + 1 \in 1..(n + 1) /\ n + 1 \notin 1..n /\ \A i \in 1..n : i \in 1..(n + 1)
  OBVIOUS
<1>12. D = {i \in 1..n : runs[i].regime = 1}
  BY <1>6 DEF Of
<1>13. CASE b.regime = 1
  <2>1. Of(1)' = D \cup {n + 1}
    BY <1>3, <1>9, <1>10, <1>11, <1>12, <1>13
  <2>2. n + 1 \notin D
    BY <1>7, <1>11
  <2>3. Cardinality(D \cup {n + 1}) = Cardinality(D) + 1
    BY <1>7, <2>2, FS_AddElement
  <2>4. QED
    BY <1>3, <1>4, <1>5, <1>6, <1>8, <1>13, <2>1, <2>3
<1>14. CASE b.regime # 1
  <2>1. Of(1)' = D
    BY <1>3, <1>9, <1>10, <1>11, <1>12, <1>14
  <2>2. QED
    BY <1>3, <1>4, <1>5, <1>6, <1>8, <1>14, <2>1
<1>15. QED
  BY <1>13, <1>14

\* The end of a run: what is over is over for a reason.
Reason(e) ==
  \/ Used(e) + Cost > e.budget
  \/ Cardinality({i \in DOMAIN runs' : runs'[i].regime = 1}) = Large
  \/ Last(runs').evaluations = 0 /\ ~Last(runs').out

\* A run stopped short, by the budget or by what it was allowed of it.
Short(e) ==
  \/ Used(e) + Cost > e.budget
  \/ run.regime = 2 /\ e.spent < e.budget /\ e.spent # run.before

Gone(e) ==
  /\ phase' \in {"over", "loop"}
  /\ \E n \in Nat : /\ DOMAIN runs' = 1..n /\ runs' = [i \in 1..n |-> runs'[i]]
                    /\ \A i \in 1..n : runs'[i].evaluations \in Nat
  /\ phase' = "loop" => Cardinality(Of(1)') < Large
  /\ phase' = "over" => Reason(e)

LEMMA EndRunGoes ==
  ASSUME GoInv, LimitInv, phase = "run", NEW e, NEW out \in BOOLEAN, EndRun(e, out), out => Short(e),
         e.spent \in Nat, e.budget \in Nat, e.spent >= run.before
  PROVE  Gone(e)
<1>1. PICK n \in Nat : /\ DOMAIN runs = 1..n /\ runs = [i \in 1..n |-> runs[i]]
                       /\ \A i \in 1..n : runs[i].evaluations \in Nat
  BY DEF GoInv
<1>2. PICK b : b = [regime |-> run.regime, lambda |-> run.lambda,
                    evaluations |-> e.spent - run.before, out |-> out]
  OBVIOUS
<1>3. runs' = Append(runs, b)
  BY <1>2 DEF EndRun
<1>4. b.regime = run.regime /\ b.evaluations = e.spent - run.before /\ b.out = out
  BY <1>2
<1>5. PICK c \in Nat : c = Cardinality(Of(1)) /\ c < Large
  <2>1. Cardinality(Of(1)) \in Nat /\ Cardinality(Of(1)) < Large
    BY <1>1, <1>3, OfNext DEF GoInv
  <2>2. QED
    BY <2>1
<1>6. /\ DOMAIN runs' = 1..(n + 1) /\ runs' = [i \in 1..(n + 1) |-> runs'[i]] /\ Last(runs') = b
      /\ runs'[n + 1] = b /\ \A i \in 1..n : runs'[i] = runs[i]
      /\ Cardinality(Of(1)') = IF b.regime = 1 THEN c + 1 ELSE c
  BY <1>1, <1>3, <1>5, OfNext
<1>7. phase' = IF \/ run.regime = 1 /\ c + 1 >= Large
                  \/ OutOfBudget(e, out) \/ e.spent - run.before = 0 THEN "over" ELSE "loop"
  BY <1>5 DEF EndRun
<1>8. Large \in Nat
  BY RestartsAssumption
<1>9. phase' = "loop" => Cardinality(Of(1)') < Large
  BY <1>4, <1>5, <1>6, <1>7, <1>8
<1>10. ASSUME phase' = "over" PROVE Reason(e)
  <2>1. CASE run.regime = 1 /\ c + 1 >= Large
    <3>1. Cardinality(Of(1)') = Large
      BY <1>4, <1>5, <1>6, <1>8, <2>1
    <3>2. Of(1)' = {i \in DOMAIN runs' : runs'[i].regime = 1}
      BY DEF Of
    <3>3. QED
      BY <3>1, <3>2 DEF Reason
  <2>2. CASE OutOfBudget(e, out)
    <3>1. out /\ (run.regime = 2 => e.spent >= e.budget)
      BY <2>2 DEF OutOfBudget
    <3>2. Used(e) + Cost > e.budget
      <4>1. CASE run.regime = 2 /\ e.spent < e.budget /\ e.spent # run.before
        BY <3>1, <4>1
      <4>2. QED
        BY <3>1, <4>1 DEF Short
    <3>3. QED
      BY <3>2 DEF Reason
  <2>3. CASE e.spent - run.before = 0 /\ ~out
    <3>1. Last(runs').evaluations = 0 /\ ~Last(runs').out
      BY <1>4, <1>6, <2>3
    <3>2. QED
      BY <3>1 DEF Reason
  <2>4. CASE e.spent - run.before = 0 /\ out
    <3>1. run.before \in Nat
      BY DEF LimitInv
    <3>2. e.spent = run.before
      BY <2>4, <3>1
    <3>3. QED
      BY <2>4, <3>2 DEF Reason, Short
  <2>5. QED
    BY <1>7, <1>10, <2>1, <2>2, <2>3, <2>4
<1>11. phase' \in {"over", "loop"}
  BY <1>7
<1>12. n + 1 \in Nat /\ \A i \in 1..(n + 1) : runs'[i].evaluations \in Nat
  <2>1. b.evaluations \in Nat
    BY <1>4 DEF LimitInv
  <2>2. \A i \in 1..(n + 1) : i = n + 1 \/ i \in 1..n
    OBVIOUS
  <2>3. QED
    BY <1>1, <1>6, <2>1, <2>2
<1>13. QED
  BY <1>6, <1>9, <1>10, <1>11, <1>12 DEF Gone

\* What the run has spent is at least its evaluations, and an evaluation costs one or more.
LEMMA UsedIs ==
  ASSUME NEW e \in Archives, knobs \in Runs
  PROVE  Used(e) \in Nat /\ Used(e) >= e.spent /\ Cost \in Nat \ {0} /\ (~knobs.joint => Cost = 1)
         /\ (e.gradCalls = 0 => Used(e) = e.spent)
<1>1. GradCost \in Nat /\ e.spent \in Nat /\ e.gradCalls \in Nat
  BY EvaluatorAssumption DEF Archives
<1>2. PICK p \in Nat : p = GradCost * e.gradCalls
  BY <1>1
<1>3. e.gradCalls = 0 => p = 0
  BY <1>1, <1>2
<1>4. Used(e) = e.spent + p
  BY <1>2 DEF Used
<1>5. Cost = IF knobs.joint THEN 1 + GradCost ELSE 1
  BY DEF Cost
<1>6. QED
  BY <1>1, <1>3, <1>4, <1>5

\* What an evaluation makes of the archive: one that reaches the target leaves no room in
\* the budget, the others leave the budget as it was.
LEMMA IndexedGoes ==
  ASSUME ev \in Honest, ~ev.out, knobs \in Runs, NEW x \in Points, NEW limit, NEW k, k = Indexed(x, limit)
  PROVE  /\ k.spent >= ev.spent
         /\ (Outcome(x, limit) # "fresh" => k = ev)
         /\ (~k.out => k.budget = ev.budget)
         /\ (~knobs.joint => k.gradCalls = ev.gradCalls)
         /\ (Outcome(x, limit) = "fresh" /\ x \in Target => k.out)
         /\ k.spent <= ev.spent + 1 /\ (k.out => k.spent = k.budget)
<1>0. ev \in Archives /\ ev.gradCalls \in Nat /\ ev.spent \in Nat /\ knobs.joint \in BOOLEAN
      /\ ev.spent = Len(ev.order) /\ ev.order \in Seq(Points)
  BY EvaluatorAssumption DEF Honest, Archives, Counts
<1>1. CASE Outcome(x, limit) # "fresh"
  <2>1. k = ev
    BY <1>1 DEF Indexed
  <2>2. QED
    BY <1>0, <1>1, <2>1
<1>2. CASE Outcome(x, limit) = "fresh"
  <2>1. x \notin Known(ev)
    BY <1>2 DEF Outcome
  <2>2. PICK d \in {0, 1} : d = IF knobs.joint THEN 1 ELSE 0
    OBVIOUS
  <2>3. PICK c : c = [ev EXCEPT !.gradCalls = @ + d]
    OBVIOUS
  <2>4. c = IF knobs.joint THEN [ev EXCEPT !.gradCalls = @ + 1] ELSE ev
    <3>1. CASE knobs.joint
      BY <2>2, <2>3, <3>1
    <3>2. CASE ~knobs.joint
      <4>1. c = [ev EXCEPT !.gradCalls = ev.gradCalls]
        BY <1>0, <2>2, <2>3, <3>2
      <4>2. c = ev
        BY <1>0, <4>1 DEF Archives
      <4>3. QED
        BY <3>2, <4>2
    <3>3. QED
      BY <3>1, <3>2
  <2>5. c.gradCalls = ev.gradCalls + d /\ c.budget = ev.budget /\ c.spent = ev.spent
        /\ c.order = ev.order /\ c \in Archives
    BY <1>0, <2>3 DEF Archives
  <2>6. PICK b : b = Keep(c, x)
    OBVIOUS
  <2>7. k = IF knobs.joint /\ ~b.out THEN [b EXCEPT !.grads = @ \cup {x}] ELSE b
    BY <1>2, <2>4, <2>6 DEF Indexed
  <2>8. b \in Archives /\ b.out = (x \in Target)
    BY <2>1, <2>2, <2>3, <2>6, KeepCounts
  <2>9. b = [c EXCEPT !.order = Append(ev.order, x), !.spent = ev.spent + 1, !.out = x \in Target,
                      !.budget = IF x \in Target THEN ev.spent + 1 ELSE ev.budget]
    BY <2>5, <2>6 DEF Keep
  <2>10. /\ b.spent = ev.spent + 1 /\ b.gradCalls = ev.gradCalls + d
         /\ b.budget = IF x \in Target THEN ev.spent + 1 ELSE ev.budget
    BY <2>5, <2>9 DEF Archives
  <2>11. k.spent = b.spent /\ k.gradCalls = b.gradCalls /\ k.out = b.out /\ k.budget = b.budget
    <3>1. CASE knobs.joint /\ ~b.out
      <4>1. k = [b EXCEPT !.grads = @ \cup {x}]
        BY <2>7, <3>1
      <4>2. QED
        BY <2>8, <4>1 DEF Archives
    <3>2. CASE ~(knobs.joint /\ ~b.out)
      BY <2>7, <3>2
    <3>3. QED
      BY <3>1, <3>2
  <2>12. k.spent >= ev.spent
    BY <1>0, <2>10, <2>11
  <2>13. ~k.out => k.budget = ev.budget
    BY <2>8, <2>10, <2>11
  <2>14. ~knobs.joint => k.gradCalls = ev.gradCalls
    BY <1>0, <2>2, <2>10, <2>11
  <2>15. k.spent <= ev.spent + 1 /\ (k.out => k.spent = k.budget)
    <3>1. k.spent = ev.spent + 1
      BY <2>10, <2>11
    <3>2. ASSUME k.out PROVE k.spent = k.budget
      <4>1. x \in Target
        BY <2>8, <2>11, <3>2
      <4>2. QED
        BY <2>10, <2>11, <4>1
    <3>3. QED
      BY <1>0, <3>1, <3>2
  <2>16. QED
    BY <1>2, <2>8, <2>11, <2>12, <2>13, <2>14, <2>15
<1>3. QED
  BY <1>1, <1>2

\* A run begins with a limit the invariant knows.
LEMMA BeginRunLimit ==
  ASSUME NEW regime \in 0..2, NEW lambda, NEW a \in Nat, BeginRun(regime, lambda, a), knobs' = knobs, ev' = ev,
         ev.spent \in Nat, regime # 2 => a = 0, regime = 2 => a # 0 /\ knobs.strategy = "bipop"
  PROVE  phase' = "run" /\ LimitInv'
<1>1. /\ phase' = "run"
      /\ run' = [NoRun EXCEPT !.regime = regime, !.lambda = lambda, !.before = ev.spent,
                              !.limit = IF a > 0 THEN MinOf(knobs.budget, ev.spent + a) ELSE knobs.budget]
  BY DEF BeginRun
<1>2. /\ run'.regime = regime /\ run'.before = ev.spent
      /\ run'.limit = IF a > 0 THEN MinOf(knobs.budget, ev.spent + a) ELSE knobs.budget
  BY <1>1 DEF NoRun
<1>3. CASE regime # 2
  BY <1>1, <1>2, <1>3 DEF LimitInv
<1>4. CASE regime = 2
  <2>1. a \in Nat \ {0} /\ run'.limit = MinOf(knobs.budget, ev.spent + a)
    BY <1>2, <1>4
  <2>2. \E d \in Nat \ {0} : run'.limit = MinOf(knobs.budget, run'.before + d)
    BY <1>2, <2>1
  <2>3. \E d \in Nat \ {0} : run'.limit = MinOf(knobs'.budget, run'.before + d)
    BY <2>2
  <2>4. QED
    BY <1>1, <1>2, <1>4, <2>3 DEF LimitInv, MinOf
<1>5. QED
  BY <1>3, <1>4

\* The values of bipop's problem come without gradients.
NoJoint == \A r \in Runs : r.strategy = "bipop" => ~r.joint

LEMMA GoStep ==
  ASSUME CountsInv, GoInv, NoJoint, NextRestarts
  PROVE  GoInv' /\ (phase' = "over" /\ phase # "over" => Reason(ev'))
<1>1. /\ knobs \in Runs /\ ev \in Honest /\ ev \in Archives /\ (ev.out => phase \in {"over", "failed"})
      /\ ev.spent \in Nat /\ ev.budget \in Nat /\ knobs.budget \in Nat
  BY EvaluatorAssumption DEF CountsInv, EvInv, Honest, Archives
<1>2. PICK n \in Nat : /\ DOMAIN runs = 1..n /\ runs = [i \in 1..n |-> runs[i]]
                       /\ \A i \in 1..n : runs[i].evaluations \in Nat
  BY DEF GoInv
<1>3. CASE NextRun
  <2>1. knobs' = knobs /\ ev' = ev /\ runs' = runs /\ phase = "loop"
    BY <1>3 DEF NextRun
  <2>2. Of(1)' = Of(1)
    BY <2>1 DEF Of
  <2>3. CASE ev.spent >= ev.budget /\ phase' = "over"
    <3>1. Used(ev') + Cost > ev'.budget
      BY <1>1, <2>1, <2>3, UsedIs
    <3>2. GoInv'
      BY <1>2, <2>1, <2>3 DEF GoInv
    <3>3. QED
      BY <3>1, <3>2 DEF Reason
  <2>4. CASE Ipop \/ FirstRun \/ LargeRun \/ SmallRun
    <3>1. phase' = "run" /\ LimitInv'
      <4>1. CASE Ipop
        BY <1>1, <2>1, <4>1, BeginRunLimit DEF Ipop
      <4>2. CASE FirstRun
        BY <1>1, <2>1, <4>2, BeginRunLimit DEF FirstRun
      <4>3. CASE LargeRun
        BY <1>1, <2>1, <4>3, BeginRunLimit DEF LargeRun
      <4>4. CASE SmallRun
        <5>1. PICK lambda : BeginRun(2, lambda, MaxOf(1, runs[Max(Of(1))].evaluations \div 2))
          BY <4>4 DEF SmallRun
        <5>2. Of(1) \in SUBSET (1..n) /\ Of(1) # {}
          BY <1>2, <4>4 DEF SmallRun, LargeNext, Of
        <5>3. Max(Of(1)) \in 1..n
          BY <5>2, MaxIs
        <5>4. PICK w \in Nat : w = runs[Max(Of(1))].evaluations
          BY <1>2, <5>3
        <5>5. PICK a : a = MaxOf(1, w \div 2)
          OBVIOUS
        <5>6. a \in Nat /\ a # 0
          BY <5>5 DEF MaxOf
        <5>7. BeginRun(2, lambda, a) /\ knobs.strategy = "bipop" /\ 2 \in 0..2
          BY <4>4, <5>1, <5>4, <5>5 DEF SmallRun
        <5>8. QED
          BY <1>1, <2>1, <5>6, <5>7, BeginRunLimit
      <4>5. QED
        BY <2>4, <4>1, <4>2, <4>3, <4>4
    <3>2. QED
      BY <1>2, <2>1, <2>2, <3>1 DEF GoInv
  <2>5. QED
    BY <1>3, <2>3, <2>4 DEF NextRun
<1>4. ASSUME NEW x \in Points, Sample(x)
      PROVE  GoInv' /\ (phase' = "over" /\ phase # "over" => Reason(ev'))
  <2>1. /\ phase = "run" /\ ev' = Indexed(x, run.limit) /\ knobs' = knobs
        /\ CASE Outcome(x, run.limit) = "throws" -> phase' = "failed" /\ UNCHANGED restarts
             [] Outcome(x, run.limit) # "throws" /\ Returned(x, run.limit) ->
                  run' = [run EXCEPT !.sampled = @ + 1] /\ UNCHANGED <<phase, runs>>
             [] OTHER -> EndRun(ev', TRUE)
    BY <1>4 DEF Sample
  <2>2. PICK k : k = Indexed(x, run.limit)
    OBVIOUS
  <2>3. /\ k \in Honest /\ k.spent >= ev.spent
        /\ (Outcome(x, run.limit) # "fresh" => k = ev)
        /\ (~k.out => k.budget = ev.budget)
        /\ (~knobs.joint => k.gradCalls = ev.gradCalls)
        /\ (k.out => ~Returned(x, run.limit) /\ k.spent >= k.budget)
        /\ (Outcome(x, run.limit) = "fresh" /\ x \in Target => k.out)
    <3>1. ~ev.out
      BY <1>1, <2>1
    <3>2. QED
      BY <1>1, <2>2, <3>1, IndexedCounts, IndexedGoes
  <2>4. k \in Archives /\ k.spent \in Nat /\ k.budget \in Nat
    BY <2>3 DEF Honest, Archives
  <2>5. LimitInv /\ ~ev.out /\ ev.budget = knobs.budget /\ (~knobs.joint => ev.gradCalls = 0)
    BY <1>1, <2>1 DEF GoInv
  <2>6. (~k.out => k.budget = knobs.budget) /\ (~knobs.joint => k.gradCalls = 0)
    BY <2>3, <2>5
  <2>7. CASE Outcome(x, run.limit) = "throws"
    <3>1. phase' = "failed" /\ runs' = runs
      BY <2>1, <2>7 DEF restarts
    <3>2. QED
      BY <1>2, <2>1, <2>2, <2>6, <3>1 DEF GoInv
  <2>8. CASE Outcome(x, run.limit) # "throws" /\ Returned(x, run.limit)
    <3>1. run' = [run EXCEPT !.sampled = @ + 1] /\ phase' = phase /\ runs' = runs
      BY <2>1, <2>8
    <3>2. run'.regime = run.regime /\ run'.before = run.before /\ run'.limit = run.limit
      BY <3>1
    <3>3. LimitInv'
      <4>1. run'.before <= ev'.spent
        BY <2>1, <2>2, <2>3, <2>4, <2>5, <3>2, <1>1 DEF LimitInv
      <4>2. QED
        BY <2>1, <2>5, <3>2, <4>1 DEF LimitInv, MinOf
    <3>4. Of(1)' = Of(1)
      BY <3>1 DEF Of
    <3>5. QED
      BY <1>2, <2>1, <2>2, <2>6, <3>1, <3>3, <3>4 DEF GoInv
  <2>9. CASE Outcome(x, run.limit) # "throws" /\ ~Returned(x, run.limit)
    <3>1. EndRun(k, TRUE)
      BY <2>1, <2>2, <2>9
    <3>2. Short(k)
      <4>1. CASE Outcome(x, run.limit) = "fresh"
        <5>1. x \in Target
          BY <2>9, <4>1 DEF Returned
        <5>2. k.out
          BY <4>1, <5>1, <2>3
        <5>3. k.spent >= k.budget
          BY <2>3, <5>2
        <5>4. QED
          BY <1>1, <2>4, <5>3, UsedIs DEF Short
      <4>2. CASE Outcome(x, run.limit) # "fresh"
        <5>1. k = ev
          BY <2>3, <4>2
        <5>2. \/ Used(ev) + Cost > ev.budget
              \/ Used(ev) + Cost <= ev.budget /\ Used(ev) + Cost > run.limit
          BY <2>9, <4>2 DEF Outcome, Returned
        <5>3. ASSUME Used(ev) + Cost <= ev.budget, Used(ev) + Cost > run.limit
              PROVE  run.regime = 2 /\ ev.spent < ev.budget /\ ev.spent # run.before
          <6>1. run.regime = 2
            BY <1>1, <2>5, <5>3, UsedIs DEF LimitInv
          <6>2. ~knobs.joint
            BY <1>1, <2>5, <6>1 DEF LimitInv, NoJoint
          <6>3. Used(ev) = ev.spent /\ Cost = 1
            BY <1>1, <2>5, <6>2, UsedIs
          <6>4. PICK a \in Nat \ {0} : run.limit = MinOf(knobs.budget, run.before + a)
            BY <2>5, <6>1 DEF LimitInv
          <6>5. run.before \in Nat
            BY <2>5 DEF LimitInv
          <6>6. QED
            BY <1>1, <2>5, <5>3, <6>1, <6>3, <6>4, <6>5 DEF MinOf
        <5>4. QED
          BY <5>1, <5>2, <5>3 DEF Short
      <4>3. QED
        BY <4>1, <4>2
    <3>3. k.spent >= run.before
      BY <1>1, <2>3, <2>4, <2>5 DEF LimitInv
    <3>4. Gone(k)
      <4>1. PICK out \in BOOLEAN : out = TRUE
        OBVIOUS
      <4>2. EndRun(k, out) /\ (out => Short(k))
        BY <3>1, <3>2, <4>1
      <4>3. phase = "run" /\ LimitInv
        BY <2>1, <2>5
      <4>4. QED
        BY <2>4, <3>3, <4>1, <4>2, <4>3, EndRunGoes
    <3>5. GoInv'
      BY <2>1, <2>2, <2>6, <3>4 DEF GoInv, Gone
    <3>6. QED
      BY <2>1, <2>2, <3>4, <3>5 DEF Gone
  <2>10. QED
    BY <2>7, <2>8, <2>9
<1>5. CASE Tell
  <2>1. phase = "run" /\ knobs' = knobs /\ ev' = ev
    BY <1>5 DEF Tell
  <2>2. LimitInv
    BY <2>1 DEF GoInv
  <2>3. CASE EndRun(ev, FALSE)
    <3>1. ev.spent >= run.before
      BY <1>1, <2>2 DEF LimitInv
    <3>2. Gone(ev)
      <4>1. PICK out \in BOOLEAN : out = FALSE
        OBVIOUS
      <4>2. EndRun(ev, out) /\ (out => Short(ev))
        BY <2>3, <4>1
      <4>3. phase = "run" /\ LimitInv
        BY <2>1, <2>2
      <4>4. QED
        BY <1>1, <3>1, <4>1, <4>2, <4>3, EndRunGoes
    <3>3. GoInv'
      BY <2>1, <3>2 DEF GoInv, Gone
    <3>4. QED
      BY <2>1, <3>2, <3>3 DEF Gone
  <2>4. CASE run' = [run EXCEPT !.sampled = 0, !.generations = @ + 1] /\ UNCHANGED <<phase, runs>>
    <3>1. run'.regime = run.regime /\ run'.before = run.before /\ run'.limit = run.limit
      BY <2>4
    <3>2. LimitInv' /\ Of(1)' = Of(1)
      BY <2>1, <2>2, <2>4, <3>1 DEF LimitInv, MinOf, Of
    <3>3. QED
      BY <1>2, <2>1, <2>4, <3>2 DEF GoInv
  <2>5. QED
    BY <1>5, <2>3, <2>4 DEF Tell
<1>6. QED
  BY <1>3, <1>4, <1>5 DEF NextRestarts

\* A strategy by restarts, for any points, budgets, populations and numbers of runs, of a
\* problem that gives values alone where it is bipop's: over, it has a reason to be - no
\* evaluation is left, the large regime has had its runs, or a criterion came without an
\* evaluation (run_restarts, run_cma).
THEOREM RestartsHaveReasons == NoJoint => (Spec => RestartsGoOn)
<1> SUFFICES ASSUME NoJoint PROVE Spec => RestartsGoOn
  OBVIOUS
<1> DEFINE Going == knobs.strategy \in Restarting => GoInv
           Over == knobs.strategy \in Restarting /\ phase' = "over" /\ phase # "over" =>
             \/ Used(ev') + Cost > ev'.budget
             \/ Cardinality({i \in DOMAIN runs' : runs'[i].regime = 1}) = Large
             \/ Last(runs').evaluations = 0 /\ ~Last(runs').out
<1>1. Init => CountsInv /\ Going
  <2>1. SUFFICES ASSUME Init PROVE GoInv
    BY CountsBegin
  <2>2. phase = "loop" /\ ev = NewEvaluator /\ runs = <<>>
    BY <2>1 DEF Init, StartEvaluator, InitRestarts
  <2>3. ev.budget = knobs.budget /\ ev.gradCalls = 0
    BY <2>2 DEF NewEvaluator
  <2>4. PICK n \in Nat : n = 0
    OBVIOUS
  <2>5. DOMAIN runs = 1..n /\ runs = [i \in 1..n |-> runs[i]] /\ \A i \in 1..n : runs[i].evaluations \in Nat
    BY <2>2, <2>4
  <2>6. Cardinality(Of(1)) < Large
    <3>1. Of(1) = {}
      BY <2>4, <2>5 DEF Of
    <3>2. Cardinality(Of(1)) = 0
      BY <3>1, FS_EmptySet
    <3>3. QED
      BY <3>2, RestartsAssumption
  <2>7. QED
    BY <2>2, <2>3, <2>5, <2>6 DEF GoInv
<1>2. CountsInv /\ Going /\ [Next]_vars => CountsInv' /\ Going' /\ [Over]_restartVars
  <2>1. SUFFICES ASSUME CountsInv, Going, [Next]_vars PROVE CountsInv' /\ Going' /\ Over
    OBVIOUS
  <2>2. CountsInv'
    BY <2>1, CountsStep
  <2>3. CASE knobs.strategy \in Rounds /\ NextRounds
    <3>1. knobs' = knobs
      BY <2>3 DEF NextRounds, Draw, StartRound, Multistart, Mlsl, Walk, Tiktak, Halving, GlobalPhase,
         LocalPhase, Begin, Claim, Step, Finish, EndRound
    <3>2. knobs.strategy \notin Restarting
      BY <2>3 DEF Rounds, Restarting
    <3>3. QED
      BY <2>2, <3>1, <3>2
  <2>4. CASE knobs.strategy \in Restarting /\ NextRestarts
    <3>1. GoInv' /\ (phase' = "over" /\ phase # "over" => Reason(ev'))
      BY <2>1, <2>4, GoStep
    <3>2. QED
      BY <2>2, <3>1 DEF Reason
  <2>5. CASE UNCHANGED vars
    <3>1. UNCHANGED <<knobs, phase, ev, runs, run>>
      BY <2>5 DEF vars, evaluator, restarts
    <3>2. Going'
      BY <2>1, <3>1 DEF GoInv, LimitInv, MinOf, Of
    <3>3. QED
      BY <2>2, <3>1, <3>2
  <2>6. QED
    BY <2>1, <2>3, <2>4, <2>5 DEF Next, Ended
<1>3. QED
  BY <1>1, <1>2, PTL DEF Spec, RestartsGoOn

-----------------------------------------------------------------------------
(* What a round may spend.                                                 *)

\* What the starts of q are given, one after the other.
Shared(q) == FoldLeft(LAMBDA a, s : a + s.fresh, 0, q)

SharedTrace(n, q) ==
  \E r \in [0..n -> Nat] :
     /\ r[0] = 0 /\ r[n] = Shared(q)
     /\ \A i \in 1..n : r[i] = r[i - 1] + q[i].fresh

\* It is a sum.
LEMMA SharedFold ==
  ASSUME NEW n \in Nat, NEW q, DOMAIN q = 1..n, \A i \in 1..n : q[i].fresh \in Nat
  PROVE  SharedTrace(n, q)
<1>0. PICK A : A = Nat
  OBVIOUS
<1>1. PICK a \in A : a = 0
  BY <1>0
<1>2. PICK h : h = [p \in A \X (1..n) |-> p[1] + q[p[2]].fresh]
  OBVIOUS
<1>3. \A e \in A : \A i \in 1..n : h[<<e, i>>] = e + q[i].fresh
  BY <1>2
<1>4. h \in [A \X (1..n) -> A]
  BY <1>0, <1>1, <1>2
<1>5. PICK g \in FoldsOf(n, A, a, h) : TRUE
  BY <1>1, <1>4, FoldExists
<1>6. g \in [SUBSET (1..n) -> A] /\ g[{}] = a
  BY <1>5 DEF FoldsOf
<1>7. \A s \in SUBSET (1..n) : s # {} => g[s] = g[s \ {Max(s)}] + q[Max(s)].fresh
  <2>1. SUFFICES ASSUME NEW s \in SUBSET (1..n), s # {} PROVE g[s] = g[s \ {Max(s)}] + q[Max(s)].fresh
    OBVIOUS
  <2>2. Max(s) \in 1..n
    BY <2>1, MaxIs
  <2>3. g[s \ {Max(s)}] \in A
    BY <1>6
  <2>4. g[s] = h[<<g[s \ {Max(s)}], Max(s)>>]
    BY <1>5, <2>1 DEF FoldsOf
  <2>5. QED
    BY <1>3, <2>2, <2>3, <2>4
<1>8. g = [s \in SUBSET (1..n) |-> IF s = {} THEN a ELSE g[s \ {Max(s)}] + q[Max(s)].fresh]
  BY <1>6, <1>7
<1>9. PICK it : it = CHOOSE f : f = [s \in SUBSET (1..n) |->
                         IF s = {} THEN a ELSE f[s \ {Max(s)}] + q[Max(s)].fresh]
  OBVIOUS
<1>10. it = [s \in SUBSET (1..n) |-> IF s = {} THEN a ELSE it[s \ {Max(s)}] + q[Max(s)].fresh]
  BY <1>8, <1>9
<1>11. Shared(q) = it[1..n]
  BY <1>1, <1>9 DEF Shared, FoldLeft, MapThenFoldSet
<1>12. it[{}] = a /\ \A k \in 1..n : it[1..k] = it[1..(k - 1)] + q[k].fresh
  <2>1. it[{}] = a
    BY <1>10
  <2>2. ASSUME NEW k \in 1..n PROVE it[1..k] = it[1..(k - 1)] + q[k].fresh
    <3>1. 1..k \in SUBSET (1..n) /\ 1..k # {} /\ Max(1..k) = k /\ (1..k) \ {Max(1..k)} = 1..(k - 1)
      BY UpTo
    <3>2. it[1..k] = it[(1..k) \ {Max(1..k)}] + q[Max(1..k)].fresh
      BY <1>10, <3>1
    <3>3. QED
      BY <3>1, <3>2
  <2>3. QED
    BY <2>1, <2>2
<1>13. \A k \in 1..n : it[1..(k - 1)] \in A => it[1..k] = h[<<it[1..(k - 1)], k>>]
  BY <1>3, <1>12
<1>14. PICK r \in [0..n -> A] :
            r[0] = a /\ r[n] = it[1..n] /\ \A k \in 1..n : r[k] = h[<<r[k - 1], k>>]
  <2>1. Follows(n, A, a, h, it)
    BY <1>12, <1>13 DEF Follows
  <2>2. Reaches(n, A, a, h, it[1..n])
    BY <1>0, <1>1, <1>4, <2>1, StepByStep
  <2>3. QED
    BY <2>2 DEF Reaches
<1>15. \A k \in 1..n : k - 1 \in 0..n /\ r[k - 1] \in A
  BY <1>14
<1>16. \A k \in 1..n : r[k] = r[k - 1] + q[k].fresh
  BY <1>3, <1>14, <1>15
<1>17. QED
  BY <1>0, <1>1, <1>11, <1>14, <1>16 DEF SharedTrace

\* What a round's events make of the archive a its starts looked in: at most c is charged, and
\* the last point of the run closes the budget where it is.
Grown(a, e, c) ==
  /\ e \in Honest /\ Known(a) \subseteq Known(e)
  /\ e.spent >= a.spent /\ e.spent <= a.spent + c /\ Used(e) <= Used(a) + c
  /\ IF e.out THEN e.budget = e.spent ELSE e.budget = a.budget

\* What an event is charged.
Charge(event) == event.evals + GradCost * event.grads

\* At least its evaluations, and with a gradient that cost besides.
LEMMA ChargeIs ==
  ASSUME NEW event \in Events
  PROVE  /\ Charge(event) \in Nat /\ Charge(event) >= event.evals
         /\ event.grads > 0 => Charge(event) >= event.evals + GradCost
<1>1. GradCost \in Nat /\ event.evals \in Nat /\ event.grads \in Nat
  BY EvaluatorAssumption DEF Events
<1>2. PICK p \in Nat : p = GradCost * event.grads
  BY <1>1
<1>3. event.grads > 0 => p >= GradCost
  <2>1. SUFFICES ASSUME event.grads > 0 PROVE p >= GradCost
    OBVIOUS
  <2>2. PICK m \in Nat : event.grads = m + 1
    <3>1. event.grads - 1 \in Nat /\ event.grads = (event.grads - 1) + 1
      BY <1>1, <2>1
    <3>2. QED
      BY <3>1
  <2>3. PICK z \in Nat : z = GradCost * m
    BY <1>1
  <2>4. p = z + GradCost
    BY <1>1, <1>2, <2>2, <2>3
  <2>5. QED
    BY <1>1, <2>4
<1>4. Charge(event) = event.evals + p
  BY <1>2 DEF Charge
<1>5. QED
  BY <1>1, <1>3, <1>4

\* An event is charged at most what the view paid for it: its point, if new to the archive, and
\* its gradient, if new.
LEMMA AdoptGrows ==
  ASSUME NEW a \in Honest, NEW c \in Nat, NEW e, Grown(a, e, c), NEW event \in Events, knobs \in Runs,
         e.out \/ event.x \in Known(e) \/ event.evals # 0, NEW f, f = Adopt(e, event)
  PROVE  Grown(a, f, c + Charge(event)) /\ Known(e) \subseteq Known(f) /\ (f.out \/ event.x \in Known(f))
<1>0. /\ e \in Honest /\ Known(a) \subseteq Known(e)
      /\ e.spent >= a.spent /\ e.spent <= a.spent + c /\ Used(e) <= Used(a) + c
      /\ IF e.out THEN e.budget = e.spent ELSE e.budget = a.budget
  BY DEF Grown
<1>1. e \in Archives /\ a \in Archives /\ Counts(e)
  BY <1>0 DEF Honest
<1>2. /\ e.spent \in Nat /\ e.gradCalls \in Nat /\ e.budget \in Nat /\ a.spent \in Nat /\ a.budget \in Nat
      /\ event.x \in Points /\ event.evals \in Nat /\ event.grads \in Nat
  BY <1>1 DEF Archives, Events
<1>3. Used(e) \in Nat /\ Used(a) \in Nat
  BY <1>1, UsedIs
<1>4. PICK z \in Nat : z = Charge(event)
  BY ChargeIs
<1>5. GradCost \in Nat /\ z >= event.evals /\ (event.grads > 0 => z >= event.evals + GradCost)
  BY <1>4, ChargeIs, EvaluatorAssumption
<1>6. f \in Honest
  BY <1>0, AdoptCounts
<1>7. CASE e.out
  <2>1. f = e
    BY <1>7 DEF Adopt
  <2>2. Grown(a, e, c + z)
    <3>1. e.spent <= a.spent + (c + z) /\ Used(e) <= Used(a) + (c + z)
      BY <1>0, <1>2, <1>3
    <3>2. QED
      BY <1>0, <3>1 DEF Grown
  <2>3. QED
    BY <1>4, <1>7, <2>1, <2>2
<1>8. CASE ~e.out
  <2> DEFINE gradNew == event.grads > 0 /\ event.x \notin e.grads
  <2>1. PICK d \in {0, 1} : d = IF gradNew THEN 1 ELSE 0
    OBVIOUS
  <2>2. PICK h : h = [e EXCEPT !.gradCalls = @ + d]
    OBVIOUS
  <2>3. h = [e EXCEPT !.gradCalls = IF gradNew THEN @ + 1 ELSE @]
    BY <1>2, <2>1, <2>2
  <2>4. PICK k : k = IF event.x \in Known(e) THEN h ELSE Keep(h, event.x)
    OBVIOUS
  <2>5. f = IF gradNew /\ ~k.out THEN [k EXCEPT !.grads = @ \cup {event.x}] ELSE k
    BY <1>8, <2>3, <2>4 DEF Adopt
  <2>6. /\ h \in Archives /\ h.order = e.order /\ h.grads = e.grads /\ h.spent = e.spent
        /\ h.gradCalls = e.gradCalls + d /\ h.budget = e.budget /\ h.out = e.out
    <3>1. PICK g \in Nat : g = e.gradCalls + d
      BY <1>2, <2>1
    <3>2. h = [e EXCEPT !.gradCalls = g]
      BY <2>2, <3>1
    <3>3. QED
      BY <1>1, <3>1, <3>2 DEF Archives
  <2>7. PICK n \in {0, 1} : n = IF event.x \in Known(e) THEN 0 ELSE 1
    OBVIOUS
  <2>8. /\ k \in Archives /\ Known(k) = Known(e) \cup {event.x} /\ k.spent = e.spent + n
        /\ k.gradCalls = e.gradCalls + d
        /\ IF k.out THEN k.budget = k.spent ELSE k.budget = e.budget
    <3>1. CASE event.x \in Known(e)
      <4>1. k = h
        BY <2>4, <3>1
      <4>2. QED
        BY <1>2, <1>8, <2>6, <2>7, <3>1, <4>1 DEF Known
    <3>2. CASE event.x \notin Known(e)
      <4>1. k = Keep(h, event.x)
        BY <2>4, <3>2
      <4>2. /\ k \in Archives /\ Known(k) = Known(e) \cup {event.x}
            /\ k.out => k.spent = k.budget
            /\ k.out = (event.x \in Target)
        BY <1>0, <1>2, <1>8, <2>2, <3>2, <4>1, KeepCounts
      <4>3. k = [h EXCEPT !.order = Append(e.order, event.x), !.spent = e.spent + 1,
                          !.out = event.x \in Target,
                          !.budget = IF event.x \in Target THEN e.spent + 1 ELSE e.budget]
        BY <2>6, <4>1 DEF Keep
      <4>4. /\ k.spent = e.spent + 1 /\ k.gradCalls = e.gradCalls + d
            /\ k.budget = IF event.x \in Target THEN e.spent + 1 ELSE e.budget
        BY <2>6, <4>3 DEF Archives
      <4>5. QED
        BY <2>7, <3>2, <4>2, <4>4
    <3>3. QED
      BY <3>1, <3>2
  <2>9. /\ f.spent = k.spent /\ f.gradCalls = k.gradCalls /\ f.budget = k.budget /\ f.out = k.out
        /\ Known(f) = Known(k)
    <3>1. CASE gradNew /\ ~k.out
      <4>1. f = [k EXCEPT !.grads = @ \cup {event.x}]
        BY <2>5, <3>1
      <4>2. QED
        BY <2>8, <4>1 DEF Archives, Known
    <3>2. CASE ~(gradNew /\ ~k.out)
      BY <2>5, <3>2
    <3>3. QED
      BY <3>1, <3>2
  <2>10. n <= event.evals /\ (d = 1 => event.grads > 0)
    BY <1>2, <1>8, <2>1, <2>7
  <2>11. Used(f) <= Used(e) + z
    <3>1. PICK p \in Nat : p = GradCost * e.gradCalls
      BY <1>2, <1>5
    <3>2. GradCost * (e.gradCalls + d) = IF d = 1 THEN p + GradCost ELSE p
      BY <1>2, <1>5, <2>1, <3>1
    <3>3. Used(e) = e.spent + p /\ Used(f) = e.spent + n + (IF d = 1 THEN p + GradCost ELSE p)
      BY <2>8, <2>9, <3>1, <3>2 DEF Used
    <3>4. QED
      BY <1>2, <1>5, <2>1, <2>7, <2>10, <3>3
  <2>12. f.spent >= a.spent /\ f.spent <= a.spent + (c + z)
    BY <1>0, <1>2, <1>5, <2>7, <2>8, <2>9, <2>10
  <2>13. Used(f) \in Nat
    BY <1>6, UsedIs DEF Honest
  <2>14. Used(f) <= Used(a) + (c + z)
    BY <1>0, <1>3, <2>11, <2>13
  <2>15. Known(e) \subseteq Known(f) /\ event.x \in Known(f) /\ Known(a) \subseteq Known(f)
    BY <1>0, <2>8, <2>9
  <2>16. IF f.out THEN f.budget = f.spent ELSE f.budget = a.budget
    BY <1>0, <1>8, <2>8, <2>9
  <2>17. Grown(a, f, c + z)
    BY <1>6, <2>12, <2>14, <2>15, <2>16 DEF Grown
  <2>18. QED
    BY <1>4, <2>15, <2>17
<1>9. QED
  BY <1>7, <1>8

\* What a view has paid: each of its events in turn, a gradient alone only for a point the
\* archive has or the view evaluated before it.
PaidTrace(q, spent) ==
  \E p \in [0..Len(q) -> Nat] :
     /\ p[0] = 0 /\ p[Len(q)] = spent /\ \A i \in 1..Len(q) : p[i] = p[i - 1] + Charge(q[i])

Prior(a, q, i, x) == x \in Known(a) \/ \E h \in 1..i : q[h].x = x

Paid(a, v) ==
  /\ PaidTrace(v.events, v.spent)
  /\ \A i \in 1..Len(v.events) : v.events[i].evals # 0 \/ Prior(a, v.events, i - 1, v.events[i].x)
  /\ \A x \in v.own : Prior(a, v.events, Len(v.events), x)

\* What the first k events of q make of the archive.
Brought(a, e, c, q, k) == Grown(a, e, c) /\ (e.out \/ \A h \in 1..k : q[h].x \in Known(e))

\* A start's events brought into the archive: charged at most what its view has paid.
LEMMA AdoptedGrows ==
  ASSUME NEW a \in Honest, NEW c \in Nat, NEW e, Grown(a, e, c), knobs \in Runs, NEW v \in Views, Paid(a, v)
  PROVE  Grown(a, Adopted(e, v.events), c + v.spent)
<1>1. PICK q \in Seq(Events) : q = v.events
  BY DEF Views
<1>2. PICK n \in Nat : n = Len(q) /\ \A i \in 1..n : q[i] \in Events
  OBVIOUS
<1>3. PICK p \in [0..n -> Nat] : p[0] = 0 /\ p[n] = v.spent /\ \A i \in 1..n : p[i] = p[i - 1] + Charge(q[i])
  BY <1>1, <1>2 DEF Paid, PaidTrace
<1>4. \A i \in 1..n : q[i].evals # 0 \/ Prior(a, q, i - 1, q[i].x)
  BY <1>1, <1>2 DEF Paid
<1>5. e \in Honest /\ Known(a) \subseteq Known(e)
  BY DEF Grown
<1>6. PICK r \in [0..n -> Honest] :
            r[0] = e /\ r[n] = Adopted(e, q) /\ \A i \in 1..n : r[i] = Adopt(r[i - 1], q[i])
  <2>1. \A b \in Honest : \A w \in Events : Adopt(b, w) \in Honest
    BY AdoptCounts
  <2>2. \E r \in [0..Len(q) -> Honest] :
            /\ r[0] = e /\ r[Len(q)] = Adopted(e, q)
            /\ \A i \in 1..Len(q) : r[i] = Adopt(r[i - 1], q[i])
    <3>1. AdoptTrace(Honest, e, q)
      BY <1>5, <2>1, AdoptFold
    <3>2. QED
      BY <3>1 DEF AdoptTrace
  <2>3. QED
    BY <1>2, <2>2
<1>7. PICK T : T = {i \in 0..n : Brought(a, r[i], c + p[i], q, i)}
  OBVIOUS
<1>8. 0 \in T
  <2>1. c + p[0] = c /\ 0 \in 0..n
    BY <1>3
  <2>2. QED
    BY <1>6, <1>7, <2>1 DEF Brought
<1>9. ASSUME NEW k \in 1..n, k - 1 \in T PROVE k \in T
  <2>1. PICK b : b = r[k - 1]
    OBVIOUS
  <2>2. Grown(a, b, c + p[k - 1]) /\ (b.out \/ \A h \in 1..(k - 1) : q[h].x \in Known(b))
    BY <1>7, <1>9, <2>1 DEF Brought
  <2>3. q[k] \in Events /\ r[k] = Adopt(b, q[k])
    BY <1>2, <1>6, <2>1
  <2>4. p[k - 1] \in Nat /\ p[k] = p[k - 1] + Charge(q[k]) /\ Charge(q[k]) \in Nat
    BY <1>3, <2>3, ChargeIs
  <2>5. b.out \/ q[k].x \in Known(b) \/ q[k].evals # 0
    BY <1>4, <2>2 DEF Grown, Prior
  <2>6. PICK d \in Nat : d = c + p[k - 1]
    BY <2>4
  <2>7. Grown(a, r[k], d + Charge(q[k])) /\ Known(b) \subseteq Known(r[k]) /\ (r[k].out \/ q[k].x \in Known(r[k]))
    <3>1. PICK event \in Events : event = q[k]
      BY <2>3
    <3>2. PICK f : f = Adopt(b, event)
      OBVIOUS
    <3>3. Grown(a, b, d) /\ (b.out \/ event.x \in Known(b) \/ event.evals # 0)
      BY <2>2, <2>5, <2>6, <3>1
    <3>4. Grown(a, f, d + Charge(event)) /\ Known(b) \subseteq Known(f) /\ (f.out \/ event.x \in Known(f))
      BY <3>2, <3>3, AdoptGrows
    <3>5. QED
      BY <2>3, <3>1, <3>2, <3>4
  <2>8. d + Charge(q[k]) = c + p[k]
    BY <2>4, <2>6
  <2>9. r[k].out \/ \A h \in 1..k : q[h].x \in Known(r[k])
    <3>1. b.out => r[k].out
      BY <2>3 DEF Adopt
    <3>2. \A h \in 1..k : h \in 1..(k - 1) \/ h = k
      OBVIOUS
    <3>3. QED
      BY <2>2, <2>7, <3>1, <3>2
  <2>10. QED
    <3>1. Brought(a, r[k], c + p[k], q, k)
      BY <2>7, <2>8, <2>9 DEF Brought
    <3>2. QED
      BY <1>7, <3>1
<1>10. n \in T
  <2>1. n \in 0..n
    BY <1>2
  <2>2. \A k \in 0..n : k \in T
    BY <1>8, <1>9, Upwards
  <2>3. QED
    BY <2>1, <2>2
<1>11. Grown(a, r[n], c + p[n])
  BY <1>7, <1>10 DEF Brought
<1>12. QED
  BY <1>1, <1>3, <1>6, <1>11

\* So are all the starts', together at most what they were given.
LEMMA MergeGrows ==
  ASSUME NEW a \in Honest, ~a.out, knobs \in Runs, NEW n \in Nat, NEW q, DOMAIN q = 1..n,
         \A i \in 1..n : q[i].fresh \in Nat, NEW vs \in Seq(Views), Len(vs) = n,
         \A i \in 1..n : Paid(a, vs[i]) /\ vs[i].spent <= q[i].fresh
  PROVE  Grown(a, Merge(a, vs), Shared(q)) /\ Shared(q) \in Nat
<1>1. PICK s \in [0..n -> Nat] : s[0] = 0 /\ s[n] = Shared(q) /\ \A i \in 1..n : s[i] = s[i - 1] + q[i].fresh
  BY SharedFold DEF SharedTrace
<1>2. PICK r \in [0..n -> Honest] :
            r[0] = a /\ r[n] = Merge(a, vs) /\ \A i \in 1..n : r[i] = Adopted(r[i - 1], vs[i].events)
  <2>1. ASSUME NEW b \in Honest, NEW v \in Views PROVE Adopted(b, v.events) \in Honest
    <3>1. PICK w \in Seq(Events) : w = v.events
      BY DEF Views
    <3>2. \A e \in Honest : \A event \in Events : Adopt(e, event) \in Honest
      BY AdoptCounts
    <3>3. Adopted(b, w) \in Honest
      BY <3>1, <3>2, AdoptStays
    <3>4. QED
      BY <3>1, <3>3
  <2>2. \A b \in Honest : \A v \in Views : Adopted(b, v.events) \in Honest
    BY <2>1
  <2>3. \E r \in [0..Len(vs) -> Honest] :
            /\ r[0] = a /\ r[Len(vs)] = Merge(a, vs)
            /\ \A i \in 1..Len(vs) : r[i] = Adopted(r[i - 1], vs[i].events)
    <3>1. MergeTrace(Honest, a, vs)
      BY <2>2, MergeFold
    <3>2. QED
      BY <3>1 DEF MergeTrace
  <2>4. QED
    BY <2>3
<1>3. PICK T : T = {i \in 0..n : Grown(a, r[i], s[i])}
  OBVIOUS
<1>4. 0 \in T
  <2>1. a.spent \in Nat /\ Used(a) \in Nat /\ 0 \in 0..n
    BY UsedIs DEF Honest, Archives
  <2>2. Grown(a, a, 0)
    BY <2>1 DEF Grown
  <2>3. QED
    BY <1>1, <1>2, <1>3, <2>1, <2>2
<1>5. ASSUME NEW k \in 1..n, k - 1 \in T PROVE k \in T
  <2>1. k - 1 \in 0..n /\ k \in 0..n
    OBVIOUS
  <2>2. Grown(a, r[k - 1], s[k - 1]) /\ s[k - 1] \in Nat /\ s[k] = s[k - 1] + q[k].fresh /\ q[k].fresh \in Nat
    BY <1>1, <1>3, <1>5, <2>1
  <2>3. vs[k] \in Views /\ Paid(a, vs[k]) /\ vs[k].spent <= q[k].fresh
    OBVIOUS
  <2>4. r[k] = Adopted(r[k - 1], vs[k].events)
    BY <1>2
  <2>5. Grown(a, r[k], s[k - 1] + vs[k].spent)
    BY <2>2, <2>3, <2>4, AdoptedGrows
  <2>6. Grown(a, r[k], s[k])
    <3>1. r[k] \in Honest /\ vs[k].spent \in Nat
      BY <1>2, <2>1, <2>3 DEF Views
    <3>2. r[k].spent \in Nat /\ a.spent \in Nat /\ Used(a) \in Nat /\ Used(r[k]) \in Nat
      BY <3>1, UsedIs DEF Honest, Archives
    <3>3. r[k].spent <= a.spent + (s[k - 1] + vs[k].spent) /\ Used(r[k]) <= Used(a) + (s[k - 1] + vs[k].spent)
      BY <2>5 DEF Grown
    <3>4. s[k - 1] \in Nat /\ s[k] = s[k - 1] + q[k].fresh /\ q[k].fresh \in Nat /\ vs[k].spent <= q[k].fresh
      BY <2>2, <2>3
    <3>5. r[k].spent <= a.spent + s[k] /\ Used(r[k]) <= Used(a) + s[k]
      <4>1. \A x, y, u, w, z \in Nat : x <= y + (u + w) /\ w <= z => x <= y + (u + z)
        OBVIOUS
      <4>2. QED
        BY <3>1, <3>2, <3>3, <3>4, <4>1
    <3>6. QED
      BY <2>5, <3>5 DEF Grown
  <2>7. QED
    BY <1>3, <2>1, <2>6
<1>6. n \in T
  <2>1. n \in 0..n
    OBVIOUS
  <2>2. \A k \in 0..n : k \in T
    BY <1>4, <1>5, Upwards
  <2>3. QED
    BY <2>1, <2>2
<1>7. QED
  <2>1. Shared(q) \in Nat
    BY <1>1
  <2>2. QED
    BY <1>1, <1>2, <1>3, <1>6, <2>1

\* What is prior to an event is prior to a later one, also among more events.
LEMMA PriorStays ==
  ASSUME NEW a, NEW q \in Seq(Events), NEW event \in Events, NEW i \in 0..Len(q), NEW x, Prior(a, q, i, x)
  PROVE  /\ Prior(a, Append(q, event), i, x) /\ Prior(a, Append(q, event), Len(q) + 1, x)
<1>1. PICK n \in Nat : n = Len(q)
  OBVIOUS
<1>2. \A h \in 1..n : Append(q, event)[h] = q[h]
  BY <1>1
<1>3. \A h \in 1..i : h \in 1..n /\ h \in 1..(n + 1)
  BY <1>1
<1>4. CASE x \in Known(a)
  BY <1>4 DEF Prior
<1>5. CASE \E h \in 1..i : q[h].x = x
  <2>1. PICK h \in 1..i : q[h].x = x
    BY <1>5
  <2>2. Append(q, event)[h].x = x
    BY <1>2, <1>3, <2>1
  <2>3. QED
    BY <1>1, <1>3, <2>1, <2>2 DEF Prior
<1>6. QED
  BY <1>4, <1>5 DEF Prior

\* A call that costs is paid, and within what the start was given.
LEMMA CallingPays ==
  ASSUME NEW a, NEW v \in Views, Paid(a, v), NEW spec, spec.fresh \in Nat, v.spent <= spec.fresh,
         NEW x \in Points, NEW evals \in Nat, NEW grads \in Nat, evals # 0 \/ x \in v.own,
         NEW w, w = Calling(v, spec, x, evals, grads)
  PROVE  Paid(a, w) /\ w.spent <= spec.fresh /\ (w.state = "running" => x \in w.own)
<1>0. PICK event \in Events : event = [x |-> x, evals |-> evals, grads |-> grads]
  BY DEF Events
<1>1. PICK cost \in Nat : cost = Charge(event)
  BY ChargeIs
<1>2. cost = evals + GradCost * grads
  BY <1>0, <1>1 DEF Charge
<1>3. CASE ~Affordable(v, spec, cost) \/ x \in Throwing
  <2>1. w = [v EXCEPT !.state = "stopped"] \/ w = [v EXCEPT !.state = "failed"]
    BY <1>2, <1>3 DEF Calling
  <2>2. w.events = v.events /\ w.spent = v.spent /\ w.own = v.own /\ w.state # "running"
    BY <2>1 DEF Views
  <2>3. QED
    BY <2>2 DEF Paid
<1>4. CASE Affordable(v, spec, cost) /\ x \notin Throwing
  <2>1. w = [v EXCEPT !.spent = @ + cost, !.own = @ \cup {x},
                      !.grads = IF grads > 0 THEN @ \cup {x} ELSE @, !.events = Append(@, event)]
    BY <1>0, <1>2, <1>4 DEF Calling
  <2>2. PICK q \in Seq(Events) : q = v.events
    BY DEF Views
  <2>3. w.spent = v.spent + cost /\ w.own = v.own \cup {x} /\ w.events = Append(q, event)
    BY <2>1, <2>2 DEF Views
  <2>4. w.spent <= spec.fresh
    BY <1>4, <2>3 DEF Affordable
  <2>5. PICK n \in Nat : n = Len(q) /\ Len(w.events) = n + 1 /\ w.events[n + 1] = event
                         /\ \A i \in 1..n : w.events[i] = q[i]
    BY <2>3
  <2>6. PaidTrace(w.events, w.spent)
    <3>1. PICK p \in [0..n -> Nat] : p[0] = 0 /\ p[n] = v.spent /\ \A i \in 1..n : p[i] = p[i - 1] + Charge(q[i])
      BY <2>2, <2>5 DEF Paid, PaidTrace
    <3>2. PICK r : r = [i \in 0..(n + 1) |-> IF i = n + 1 THEN v.spent + cost ELSE p[i]]
      OBVIOUS
    <3>3. \A i \in 0..(n + 1) : i = n + 1 \/ i \in 0..n
      BY <2>5
    <3>4. v.spent + cost \in Nat
      BY <1>1 DEF Views
    <3>5. r \in [0..(n + 1) -> Nat]
      BY <3>1, <3>2, <3>3, <3>4
    <3>6. r[0] = 0 /\ r[n + 1] = w.spent /\ r[n] = v.spent
      BY <2>3, <2>5, <3>1, <3>2
    <3>7. ASSUME NEW i \in 1..(n + 1) PROVE r[i] = r[i - 1] + Charge(w.events[i])
      <4>1. CASE i = n + 1
        BY <1>1, <2>3, <2>5, <3>6, <4>1
      <4>2. CASE i # n + 1
        <5>1. i \in 1..n /\ i - 1 \in 0..n
          BY <2>5, <4>2
        <5>2. r[i] = p[i] /\ r[i - 1] = p[i - 1] /\ w.events[i] = q[i]
          BY <2>5, <3>2, <5>1
        <5>3. QED
          BY <3>1, <5>1, <5>2
      <4>3. QED
        BY <4>1, <4>2
    <3>8. QED
      BY <2>5, <3>5, <3>6, <3>7 DEF PaidTrace
  <2>7. \A y \in v.own : Prior(a, q, n, y)
    BY <2>2, <2>5 DEF Paid
  <2>8. \A y \in v.own : Prior(a, w.events, n, y) /\ Prior(a, w.events, n + 1, y)
    BY <2>3, <2>5, <2>7, PriorStays
  <2>9. Prior(a, w.events, n + 1, x)
    <3>1. n + 1 \in 1..(n + 1) /\ w.events[n + 1].x = x
      BY <1>0, <2>5
    <3>2. QED
      BY <3>1 DEF Prior
  <2>10. ASSUME NEW i \in 1..(n + 1)
         PROVE  w.events[i].evals # 0 \/ Prior(a, w.events, i - 1, w.events[i].x)
    <3>1. CASE i = n + 1
      <4>1. w.events[i].x = x /\ w.events[i].evals = evals /\ i - 1 = n
        BY <1>0, <2>5, <3>1
      <4>2. QED
        BY <2>8, <4>1
    <3>2. CASE i # n + 1
      <4>1. i \in 1..n /\ i - 1 \in 0..Len(q)
        BY <2>5, <3>2
      <4>2. q[i].evals # 0 \/ Prior(a, q, i - 1, q[i].x)
        BY <2>2, <2>5, <4>1 DEF Paid
      <4>3. Prior(a, q, i - 1, q[i].x) => Prior(a, w.events, i - 1, q[i].x)
        BY <2>3, <4>1, PriorStays
      <4>4. QED
        BY <2>5, <4>1, <4>2, <4>3
    <3>3. QED
      BY <3>1, <3>2
  <2>11. Paid(a, w)
    BY <2>3, <2>5, <2>6, <2>8, <2>9, <2>10 DEF Paid
  <2>12. QED
    BY <2>3, <2>4, <2>11
<1>5. QED
  BY <1>3, <1>4

\* A look into the archive costs nothing.
LEMMA LookPays ==
  ASSUME NEW a \in Archives, NEW v \in Views, Paid(a, v), NEW x \in Known(a), NEW w,
         w.events = v.events, w.spent = v.spent, w.own = v.own \cup {x}
  PROVE  Paid(a, w)
<1>1. Prior(a, v.events, Len(v.events), x)
  BY DEF Prior
<1>2. QED
  BY <1>1 DEF Paid

\* View::get, likewise.
LEMMA GetPays ==
  ASSUME NEW a \in Archives, NEW v \in Views, Paid(a, v), NEW spec, spec.fresh \in Nat, v.spent <= spec.fresh,
         NEW x \in Points, NEW kind, NEW w, w = Get(a, v, spec, x, kind)
  PROVE  Paid(a, w) /\ w.spent <= spec.fresh
<1>1. PICK u : u = Looked(a, v, spec, x, kind)
  OBVIOUS
<1>2. u \in Views /\ Paid(a, u) /\ u.spent <= spec.fresh /\ (u.state = "running" => x \in u.own)
  <2>1. CASE x \in v.own
    BY <1>1, <2>1 DEF Looked
  <2>2. CASE x \in Known(a) \ v.own
    <3>1. u = [v EXCEPT !.own = @ \cup {x}, !.grads = @ \cup (a.grads \cap {x})]
      BY <1>1, <2>2 DEF Looked
    <3>2. u \in Views /\ u.events = v.events /\ u.spent = v.spent /\ u.own = v.own \cup {x}
      BY <3>1 DEF Views, Archives
    <3>3. Paid(a, u)
      BY <2>2, <3>2, LookPays
    <3>4. QED
      BY <3>2, <3>3
  <2>3. CASE x \notin v.own /\ x \notin Known(a)
    <3>1. PICK n \in Nat : n = IF kind = "joint" THEN 1 ELSE 0
      OBVIOUS
    <3>2. u = Calling(v, spec, x, 1, n)
      BY <1>1, <2>3, <3>1 DEF Looked
    <3>3. u \in Views
      BY <3>1, <3>2, CallingViews
    <3>4. QED
      BY <3>1, <3>2, <3>3, CallingPays
  <2>4. QED
    BY <2>1, <2>2, <2>3
<1>3. CASE u.state = "running" /\ kind # "values" /\ x \notin u.grads
  <2>1. w = Calling(u, spec, x, 0, 1)
    BY <1>1, <1>3 DEF Get
  <2>2. QED
    BY <1>2, <1>3, <2>1, CallingPays
<1>4. CASE ~(u.state = "running" /\ kind # "values" /\ x \notin u.grads)
  <2>1. w = u
    BY <1>1, <1>4 DEF Get
  <2>2. QED
    BY <1>2, <2>1
<1>5. QED
  BY <1>3, <1>4

\* The inner solver's next call.
LEMMA AskPays ==
  ASSUME NEW a \in Archives, NEW v \in Views, Paid(a, v), NEW spec, spec.plan \in Seq(Calls),
         v.pos <= Len(spec.plan), spec.fresh \in Nat, v.spent <= spec.fresh, NEW w, w = Ask(a, v, spec)
  PROVE  Paid(a, w) /\ w.spent <= spec.fresh
<1>1. ASSUME NEW u \in Views, Paid(a, u), u.spent <= spec.fresh, NEW z, z = [u EXCEPT !.state = "stopped"]
      PROVE  Paid(a, z) /\ z.spent <= spec.fresh
  <2>1. z.events = u.events /\ z.spent = u.spent /\ z.own = u.own
    BY <1>1 DEF Views
  <2>2. QED
    BY <1>1, <2>1 DEF Paid
<1>2. PICK n \in Nat : n = Len(spec.plan) /\ \A i \in 1..n : spec.plan[i] \in Calls
  OBVIOUS
<1>3. PICK p \in Nat : p = v.pos
  BY DEF Views
<1>4. CASE p = n
  <2>1. w = [v EXCEPT !.state = "stopped"]
    BY <1>2, <1>3, <1>4 DEF Ask
  <2>2. QED
    BY <1>1, <2>1
<1>5. CASE p # n
  <2>1. p + 1 \in 1..n
    BY <1>2, <1>3, <1>5
  <2>2. PICK c \in Calls : c = spec.plan[v.pos + 1]
    BY <1>2, <1>3, <2>1
  <2>3. c.x \in Points /\ c.kind \in {"values", "grad", "joint"}
    BY <2>2 DEF Calls
  <2>4. PICK m \in Nat : m = v.asked + InnerCost(c.kind)
    <3>1. InnerCost(c.kind) \in Nat
      BY <2>3, RoundsAssumption DEF InnerCost
    <3>2. QED
      BY <3>1 DEF Views
  <2>5. PICK z \in Nat : z = p + 1
    BY <1>3
  <2>6. PICK u : u = [v EXCEPT !.pos = z, !.asked = m]
    OBVIOUS
  <2>7. u \in Views /\ u.events = v.events /\ u.spent = v.spent /\ u.own = v.own
    BY <2>4, <2>5, <2>6 DEF Views
  <2>8. Paid(a, u)
    BY <2>7 DEF Paid
  <2>9. PICK g : g = Get(a, u, spec, c.x, c.kind)
    OBVIOUS
  <2>10. g \in Views /\ Paid(a, g) /\ g.spent <= spec.fresh
    BY <2>3, <2>7, <2>8, <2>9, GetPays, GetViews
  <2>11. u = [v EXCEPT !.pos = @ + 1, !.asked = @ + InnerCost(c.kind)]
    BY <1>3, <2>4, <2>5, <2>6
  <2>12. w = CASE v.asked + InnerCost(c.kind) > spec.allowance -> [v EXCEPT !.state = "stopped"]
               [] g.state = "running" /\ c.kind # "grad" /\ c.x \in Target -> [g EXCEPT !.state = "stopped"]
               [] OTHER -> g
    BY <1>2, <1>3, <1>5, <2>2, <2>9, <2>11 DEF Ask
  <2>13. w = [v EXCEPT !.state = "stopped"] \/ w = [g EXCEPT !.state = "stopped"] \/ w = g
    BY <2>12
  <2>14. CASE w = [v EXCEPT !.state = "stopped"]
    BY <1>1, <2>14
  <2>15. CASE w = [g EXCEPT !.state = "stopped"]
    BY <1>1, <2>10, <2>15
  <2>16. QED
    BY <2>10, <2>13, <2>14, <2>15
<1>6. QED
  BY <1>4, <1>5

\* What is shared is at most b, where each start is given what b grows by at most.
LEMMA SharedWithin ==
  ASSUME NEW n \in Nat, NEW q, DOMAIN q = 1..n, \A i \in 1..n : q[i].fresh \in Nat,
         NEW b, \A i \in 0..n : b[i] \in Nat, \A i \in 1..n : b[i - 1] + q[i].fresh <= b[i]
  PROVE  Shared(q) \in Nat /\ Shared(q) <= b[n]
<1>1. PICK r \in [0..n -> Nat] : r[0] = 0 /\ r[n] = Shared(q) /\ \A i \in 1..n : r[i] = r[i - 1] + q[i].fresh
  BY SharedFold DEF SharedTrace
<1>2. PICK T : T = {i \in 0..n : r[i] <= b[i]}
  OBVIOUS
<1>3. 0 \in T
  <2>1. 0 \in 0..n
    OBVIOUS
  <2>2. QED
    BY <1>1, <1>2, <2>1
<1>4. ASSUME NEW k \in 1..n, k - 1 \in T PROVE k \in T
  <2>1. k \in 0..n /\ k - 1 \in 0..n
    OBVIOUS
  <2>2. r[k - 1] <= b[k - 1] /\ r[k] = r[k - 1] + q[k].fresh /\ b[k - 1] + q[k].fresh <= b[k]
    BY <1>1, <1>2, <1>4
  <2>3. r[k - 1] \in Nat /\ r[k] \in Nat /\ b[k - 1] \in Nat /\ b[k] \in Nat /\ q[k].fresh \in Nat
    BY <1>1, <2>1
  <2>4. r[k] <= b[k]
    <3>1. PICK u \in Nat : u = r[k - 1]
      BY <2>3
    <3>2. PICK v \in Nat : v = b[k - 1]
      BY <2>3
    <3>3. PICK f \in Nat : f = q[k].fresh
      BY <2>3
    <3>4. PICK z \in Nat : z = b[k]
      BY <2>3
    <3>5. u <= v /\ v + f <= z /\ r[k] = u + f
      BY <2>2, <3>1, <3>2, <3>3, <3>4
    <3>6. u + f <= z
      BY <3>5
    <3>7. QED
      BY <3>4, <3>5, <3>6
  <2>5. QED
    BY <1>2, <2>1, <2>4
<1>5. n \in T
  <2>1. n \in 0..n
    OBVIOUS
  <2>2. \A k \in 0..n : k \in T
    BY <1>3, <1>4, Upwards
  <2>3. QED
    BY <2>1, <2>2
<1>6. QED
  <2>1. n \in 0..n
    OBVIOUS
  <2>2. QED
    BY <1>1, <1>2, <1>5, <2>1

\* Equal parts of a number, and what is left over.
LEMMA PartsOf ==
  ASSUME NEW x \in Nat, NEW n \in Nat \ {0}
  PROVE  x \div n \in Nat /\ x % n \in 0..(n - 1) /\ x = n * (x \div n) + (x % n)
OBVIOUS

\* Another part more.
LEMMA TimesMore ==
  ASSUME NEW m \in Nat, NEW i \in Nat \ {0}
  PROVE  i * m \in Nat /\ (i - 1) * m \in Nat /\ i * m = (i - 1) * m + m
OBVIOUS

\* Starts that are given at most x.
Fits(q, x) == (\A k \in DOMAIN q : q[k].fresh \in Nat) /\ Shared(q) \in Nat /\ Shared(q) <= x

\* As many equal shares as there are, and then none.
LEMMA EachFits ==
  ASSUME NEW x \in Nat, NEW m \in Nat, NEW n \in Nat, NEW q, DOMAIN q = 1..n,
         \A k \in 1..n : q[k].fresh = MaxOf(0, MinOf(m, x - (k - 1) * m))
  PROVE  Fits(q, x)
<1>1. PICK b : b = [i \in 0..n |-> MinOf(i * m, x)]
  OBVIOUS
<1>2. \A i \in 0..n : i * m \in Nat
  OBVIOUS
<1>3. \A i \in 0..n : b[i] \in Nat /\ b[i] <= x
  BY <1>1, <1>2 DEF MinOf
<1>4. ASSUME NEW k \in 1..n PROVE q[k].fresh \in Nat /\ b[k - 1] + q[k].fresh <= b[k]
  <2>1. PICK p \in Nat : p = (k - 1) * m
    BY TimesMore
  <2>2. k * m = p + m
    BY <2>1, TimesMore
  <2>3. q[k].fresh = MaxOf(0, MinOf(m, x - p))
    BY <2>1
  <2>4. b[k - 1] = MinOf(p, x) /\ b[k] = MinOf(p + m, x)
    BY <1>1, <2>1, <2>2
  <2>5. QED
    BY <2>3, <2>4 DEF MinOf, MaxOf
<1>5. Shared(q) \in Nat /\ Shared(q) <= b[n]
  BY <1>3, <1>4, SharedWithin
<1>6. Shared(q) <= x
  BY <1>3, <1>5
<1>7. QED
  BY <1>4, <1>5, <1>6 DEF Fits

\* One start, or none.
LEMMA OneFits ==
  ASSUME NEW start, start.fresh \in Nat, NEW x \in Nat, start.fresh <= x
  PROVE  Fits(<<start>>, x)
<1>1. PICK q : q = <<start>>
  OBVIOUS
<1>2. PICK b : b = [i \in 0..1 |-> IF i = 1 THEN start.fresh ELSE 0]
  OBVIOUS
<1>3. DOMAIN q = 1..1 /\ \A i \in 1..1 : q[i] = start /\ i = 1
  BY <1>1
<1>4. b[0] = 0 /\ b[1] = start.fresh /\ \A i \in 0..1 : b[i] \in Nat
  BY <1>2
<1>5. \A i \in 1..1 : q[i].fresh \in Nat /\ b[i - 1] + q[i].fresh <= b[i]
  BY <1>3, <1>4
<1>6. Shared(q) \in Nat /\ Shared(q) <= b[1]
  BY <1>3, <1>4, <1>5, SharedWithin
<1>7. QED
  BY <1>1, <1>3, <1>4, <1>5, <1>6 DEF Fits

\* No start is given nothing.
LEMMA NoneFits ==
  ASSUME NEW x \in Nat
  PROVE  Fits(<<>>, x)
<1>1. PICK b : b = [i \in 0..0 |-> 0]
  OBVIOUS
<1>2. PICK q : q = <<>>
  OBVIOUS
<1>3. DOMAIN q = 1..0 /\ b[0] = 0 /\ \A i \in 0..0 : b[i] \in Nat
  BY <1>1, <1>2
<1>4. \A i \in 1..0 : q[i].fresh \in Nat /\ b[i - 1] + q[i].fresh <= b[i]
  OBVIOUS
<1>5. Shared(q) \in Nat /\ Shared(q) <= b[0]
  BY <1>3, <1>4, SharedWithin
<1>6. QED
  BY <1>2, <1>3, <1>4, <1>5 DEF Fits

\* search::starts gives at most what is left.
LEMMA StartsFit ==
  ASSUME Left(ev) \in Nat, NEW n \in Nat, NEW plan \in [1..n -> Plans], NEW cap \in Nat
  PROVE  Fits(Starts(plan, cap), Left(ev))
<1>1. PICK x \in Nat : x = Left(ev)
  OBVIOUS
<1>2. DOMAIN plan = 1..n /\ Len(plan) = n
  OBVIOUS
<1>3. PICK share : share = RestShares(cap, n)
  OBVIOUS
<1>4. PICK T : T = {0} \cup {k \in DOMAIN plan : share[k] > 0}
  OBVIOUS
<1>5. T \in SUBSET (0..n) /\ 0 \in T
  BY <1>2, <1>4
<1>6. PICK last \in 0..n : last = Max(T)
  BY <1>5, MaxUpTo
<1>7. Starts(plan, cap) = [k \in 1..last |-> Spec1(plan[k], share[k])]
  BY <1>2, <1>3, <1>4, <1>6 DEF Starts
<1>8. CASE last = 0
  <2>1. Starts(plan, cap) = <<>>
    BY <1>7, <1>8
  <2>2. QED
    BY <1>1, <2>1, NoneFits
<1>9. CASE last # 0
  <2>1. n \in Nat \ {0} /\ last \in Nat
    BY <1>6, <1>9
  <2>2. PICK m \in Nat : m = Each(cap, x, n)
    <3>1. x \div n \in Nat
      BY <2>1, PartsOf
    <3>2. QED
      BY <3>1 DEF Each, MinOf, MaxOf
  <2>3. share = [k \in 1..n |-> MaxOf(0, MinOf(m, x - (k - 1) * m))]
    BY <1>1, <1>3, <2>2 DEF RestShares
  <2>4. PICK q : q = Starts(plan, cap)
    OBVIOUS
  <2>5. DOMAIN q = 1..last /\ \A k \in 1..last : q[k].fresh = MaxOf(0, MinOf(m, x - (k - 1) * m))
    <3>1. \A k \in 1..last : k \in 1..n
      BY <1>6
    <3>2. QED
      BY <1>7, <2>3, <2>4, <3>1 DEF Spec1
  <2>6. Fits(q, x)
    BY <2>1, <2>2, <2>5, EachFits
  <2>7. QED
    BY <1>1, <2>4, <2>6
<1>10. QED
  BY <1>8, <1>9

\* So do multistart's shares,
LEMMA EvenFit ==
  ASSUME knobs.budget \in Nat, NEW n \in Nat \ {0}, NEW q, DOMAIN q = 1..n,
         \A k \in 1..n : q[k].fresh = EvenShares(n)[k]
  PROVE  Fits(q, knobs.budget)
<1>1. PICK x \in Nat : x = knobs.budget
  OBVIOUS
<1>2. PICK m \in Nat : m = x \div n
  BY PartsOf
<1>3. PICK s \in 0..(n - 1) : s = x % n
  BY PartsOf
<1>4. x = n * m + s
  BY <1>2, <1>3, PartsOf
<1>5. \A k \in 1..n : q[k].fresh = m + (IF k <= s THEN 1 ELSE 0)
  BY <1>1, <1>2, <1>3 DEF EvenShares
<1>6. PICK b : b = [i \in 0..n |-> i * m + MinOf(i, s)]
  OBVIOUS
<1>7. \A i \in 0..n : b[i] \in Nat
  <2>1. ASSUME NEW i \in 0..n PROVE b[i] \in Nat
    <3>1. PICK p \in Nat : p = i * m
      OBVIOUS
    <3>2. b[i] = p + MinOf(i, s)
      BY <1>6, <3>1
    <3>3. QED
      BY <3>2 DEF MinOf
  <2>2. QED
    BY <2>1
<1>8. ASSUME NEW k \in 1..n PROVE q[k].fresh \in Nat /\ b[k - 1] + q[k].fresh <= b[k]
  <2>1. PICK p \in Nat : p = (k - 1) * m
    BY TimesMore
  <2>2. k * m = p + m
    BY <2>1, TimesMore
  <2>3. b[k - 1] = p + MinOf(k - 1, s) /\ b[k] = p + m + MinOf(k, s)
    BY <1>6, <2>1, <2>2
  <2>4. q[k].fresh = m + (IF k <= s THEN 1 ELSE 0)
    BY <1>5
  <2>5. QED
    BY <2>3, <2>4 DEF MinOf
<1>9. Shared(q) \in Nat /\ Shared(q) <= b[n]
  BY <1>7, <1>8, SharedWithin
<1>10. b[n] = x
  <2>1. n \in 0..n /\ MinOf(n, s) = s
    BY DEF MinOf
  <2>2. QED
    BY <1>4, <1>6, <2>1
<1>11. QED
  BY <1>1, <1>8, <1>9, <1>10 DEF Fits

\* ... and halving's arms.
LEMMA ArmsFit ==
  ASSUME NEW x \in Nat, NEW n \in Nat \ {0}, NEW f \in Nat, f <= x \div n, NEW q, DOMAIN q = 1..n,
         \A k \in 1..n : q[k].fresh = f
  PROVE  Fits(q, x)
<1>1. PICK b : b = [i \in 0..n |-> i * f]
  OBVIOUS
<1>2. \A i \in 0..n : b[i] \in Nat
  BY <1>1
<1>3. ASSUME NEW k \in 1..n PROVE q[k].fresh \in Nat /\ b[k - 1] + q[k].fresh <= b[k]
  <2>1. b[k - 1] = (k - 1) * f /\ b[k] = k * f
    BY <1>1
  <2>2. QED
    BY <2>1, TimesMore
<1>4. Shared(q) \in Nat /\ Shared(q) <= b[n]
  BY <1>2, <1>3, SharedWithin
<1>5. b[n] <= x
  <2>1. PICK m \in Nat : m = x \div n /\ n * m <= x
    <3>1. \A u, v, w \in Nat : u = v + w => v <= u
      OBVIOUS
    <3>2. n * (x \div n) \in Nat /\ x % n \in Nat
      BY PartsOf
    <3>3. QED
      BY <3>1, <3>2, PartsOf
  <2>2. n * f <= n * m
    BY <2>1
  <2>3. b[n] = n * f /\ n * f \in Nat /\ n * m \in Nat
    BY <1>1, <2>1
  <2>4. QED
    BY <2>1, <2>2, <2>3
<1>6. QED
  <2>1. b[n] \in Nat
    BY <1>2
  <2>2. Shared(q) <= x
    BY <1>4, <1>5, <2>1
  <2>3. QED
    BY <1>3, <1>4, <2>2 DEF Fits

\* Powers of two: one of the subsets of 1..n for each of its numbers.
LEMMA PowerIs ==
  ASSUME NEW n \in Nat
  PROVE  2^n \in Nat /\ 2^n >= n
<1>1. PICK S : S = 1..n
  OBVIOUS
<1>2. IsFiniteSet(S) /\ Cardinality(S) = n
  BY <1>1, FS_Interval
<1>3. IsFiniteSet(SUBSET S) /\ Cardinality(SUBSET S) = 2^n
  BY <1>2, FS_SUBSET
<1>4. PICK f : f = [x \in S |-> {x}]
  OBVIOUS
<1>5. f \in Injection(S, SUBSET S)
  BY <1>4 DEF Injection, IsInjective
<1>6. Cardinality(S) <= Cardinality(SUBSET S)
  BY <1>3, <1>5, FS_Injection
<1>7. Cardinality(SUBSET S) \in Nat
  BY <1>3, FS_CardinalityType
<1>8. QED
  BY <1>2, <1>3, <1>6, <1>7

\* Halving has a number of stages, no more than its arms.
LEMMA CeilingIs ==
  ASSUME NEW n \in Nat \ {0}
  PROVE  Ceil2(n) \in 1..n
<1>1. PICK T : T = {r \in 1..n : 2^r >= n}
  OBVIOUS
<1>2. T \in SUBSET Nat /\ n \in T
  BY <1>1, PowerIs
<1>3. PICK r \in T : \A q \in T : r <= q
  BY <1>2, LeastIs
<1>4. r \in 1..n /\ 2^r >= n
  BY <1>1, <1>3
<1>5. ASSUME NEW q \in 1..(r - 1) PROVE 2^q < n
  <2>1. q \in 1..n /\ ~(r <= q)
    BY <1>4, <1>5
  <2>2. ~(2^q >= n)
    BY <1>1, <1>3, <2>1
  <2>3. 2^q \in Nat
    BY <2>1, PowerIs
  <2>4. QED
    BY <2>2, <2>3
<1>6. QED
  BY <1>4, <1>5 DEF Ceil2

\* Each view of a round has paid for what it has, within what its start was given.
PaysInv == \A k \in DOMAIN views : Paid(ev, views[k]) /\ views[k].spent <= specs[k].fresh

\* What is left is never less than nothing, and a round's starts share no more than it.
BudgetInv ==
  /\ ev.spent <= ev.budget /\ (~ev.out => ev.budget = knobs.budget)
  /\ knobs.strategy = "multistart" => drawn = 0 /\ (phase = "loop" => ev.spent = 0)
  /\ knobs.strategy = "tiktak" =>
        stage \in {"first", "step"} /\ turn \in Nat /\ (phase \in {"loop", "round"} => turn < Searches)
  /\ phase = "round" => Fits(specs, Left(ev)) /\ PaysInv

\* What is left is a number, and in the strategy's loop what the run's budget leaves.
LEMMA LeftIs ==
  ASSUME EvInv, BudgetInv
  PROVE  /\ Left(ev) \in Nat /\ ev.spent \in Nat /\ ev.budget \in Nat /\ knobs.budget \in Nat \ {0}
         /\ knobs.starts \in Nat \ {0} /\ knobs.cap \in Nat /\ knobs \in Runs
         /\ phase = "loop" => Left(ev) = knobs.budget - ev.spent
<1>1. ev \in Archives /\ knobs \in Runs
  BY DEF EvInv, Honest
<1>2. ev.spent \in Nat /\ ev.budget \in Nat
  BY <1>1 DEF Archives
<1>3. knobs.budget \in Nat \ {0} /\ knobs.starts \in Nat \ {0} /\ knobs.cap \in Nat
  BY <1>1, EvaluatorAssumption
<1>4. Left(ev) \in Nat
  BY <1>2 DEF BudgetInv, Left
<1>5. phase = "loop" => Left(ev) = knobs.budget - ev.spent
  BY DEF EvInv, BudgetInv, Left
<1>6. QED
  BY <1>1, <1>2, <1>3, <1>4, <1>5

\* A start that begins has paid nothing.
LEMMA NothingPaid ==
  ASSUME NEW a, NEW v, v.events = <<>>, v.spent = 0, v.own = {}
  PROVE  Paid(a, v)
<1>1. PICK q : q = v.events
  OBVIOUS
<1>2. PICK n \in Nat : n = 0 /\ Len(q) = n
  BY <1>1
<1>3. PICK p : p = [i \in 0..n |-> 0]
  OBVIOUS
<1>4. p \in [0..n -> Nat] /\ p[0] = 0 /\ p[n] = 0
  BY <1>2, <1>3
<1>5. \A i \in 1..n : p[i] = p[i - 1] + Charge(q[i])
  BY <1>2
<1>6. PaidTrace(q, 0)
  BY <1>2, <1>4, <1>5 DEF PaidTrace
<1>7. \A i \in 1..n : q[i].evals # 0 \/ Prior(a, q, i - 1, q[i].x)
  BY <1>2
<1>8. QED
  BY <1>1, <1>2, <1>6, <1>7 DEF Paid

\* ... whether a thread has taken it or not.
LEMMA BegunPaid ==
  ASSUME NEW a, NEW spec
  PROVE  Paid(a, NewView) /\ NewView.spent = 0 /\ Paid(a, Begun(spec)) /\ Begun(spec).spent = 0
<1>1. NewView.events = <<>> /\ NewView.spent = 0 /\ NewView.own = {}
  BY DEF NewView
<1>2. Begun(spec).events = <<>> /\ Begun(spec).spent = 0 /\ Begun(spec).own = {}
  BY DEF Begun, NewView
<1>3. QED
  BY <1>1, <1>2, NothingPaid

\* A round begins with starts that fit what is left.
LEMMA BeginFits ==
  ASSUME BudgetInv, NEW given, Begin(given), Fits(given, Left(ev))
  PROVE  BudgetInv'
<1>1. /\ phase = "loop" /\ phase' = "round" /\ specs' = given /\ views' = [k \in DOMAIN given |-> NewView]
      /\ UNCHANGED <<knobs, ev, drawn, turn, stage>>
  BY DEF Begin
<1>2. Fits(specs', Left(ev'))
  BY <1>1
<1>3. PaysInv'
  <2>1. \A k \in DOMAIN given : given[k].fresh \in Nat
    BY DEF Fits
  <2>2. ASSUME NEW k \in DOMAIN views'
        PROVE  Paid(ev', views'[k]) /\ views'[k].spent <= specs'[k].fresh
    <3>1. k \in DOMAIN given /\ views'[k] = NewView /\ specs'[k].fresh \in Nat
      BY <1>1, <2>1, <2>2
    <3>2. QED
      BY <3>1, BegunPaid
  <2>3. QED
    BY <2>2 DEF PaysInv
<1>4. QED
  BY <1>1, <1>2, <1>3 DEF BudgetInv

\* Every way a round starts shares at most what is left.
LEMMA StartRoundFits ==
  ASSUME CountsInv, BudgetInv, StartRound
  PROVE  BudgetInv'
<1>0. /\ EvInv /\ ArmsInv /\ phase = "loop"
      /\ Left(ev) \in Nat /\ ev.spent \in Nat /\ ev.budget \in Nat /\ knobs.budget \in Nat \ {0}
      /\ knobs.starts \in Nat \ {0} /\ knobs.cap \in Nat /\ knobs \in Runs
      /\ Left(ev) = knobs.budget - ev.spent
  <2>1. EvInv /\ ArmsInv /\ phase = "loop"
    BY DEF CountsInv, StartRound, Multistart, Mlsl, Walk, Tiktak, Halving, GlobalPhase, LocalPhase, Begin
  <2>2. QED
    BY <2>1, LeftIs
<1>1. PICK x \in Nat : x = Left(ev)
  BY <1>0
<1>2. CASE Multistart
  <2>1. PICK plan \in [1..knobs.starts -> Plans] :
          Begin([k \in DOMAIN plan |-> Spec1(plan[k], EvenShares(knobs.starts)[k])])
    BY <1>2 DEF Multistart
  <2>2. PICK given : given = [k \in DOMAIN plan |-> Spec1(plan[k], EvenShares(knobs.starts)[k])]
    OBVIOUS
  <2>3. DOMAIN given = 1..knobs.starts /\ \A k \in 1..knobs.starts : given[k].fresh = EvenShares(knobs.starts)[k]
    BY <2>1, <2>2 DEF Spec1
  <2>4. Left(ev) = knobs.budget
    <3>1. ev.spent = 0
      BY <1>0, <1>2 DEF Multistart, BudgetInv
    <3>2. QED
      BY <1>0, <3>1
  <2>5. Fits(given, knobs.budget)
    BY <1>0, <2>3, EvenFit
  <2>6. QED
    BY <2>1, <2>2, <2>4, <2>5, BeginFits
<1>3. CASE Mlsl
  <2>1. PICK n \in 0..knobs.starts : \E plan \in [1..n -> Plans] : Begin(Starts(plan, knobs.cap))
    BY <1>3 DEF Mlsl
  <2>2. PICK plan \in [1..n -> Plans] : Begin(Starts(plan, knobs.cap))
    BY <2>1
  <2>3. n \in Nat
    BY <2>1
  <2>4. QED
    BY <1>0, <2>2, <2>3, StartsFit, BeginFits
<1>4. CASE Walk
  <2>1. PICK plan \in Plans : Begin(Starts(<<plan>>, knobs.cap))
    BY <1>4 DEF Walk
  <2>2. <<plan>> \in [1..1 -> Plans]
    BY <2>1
  <2>3. QED
    BY <1>0, <2>1, <2>2, StartsFit, BeginFits
<1>5. CASE Tiktak
  <2>1. PICK plan \in Plans :
          Begin(IF Left(ev) <= 0 THEN <<>>
                ELSE <<Spec1(plan, Each(knobs.cap, Left(ev), Searches - turn))>>)
    BY <1>5 DEF Tiktak
  <2>2. PICK start : start = Spec1(plan, Each(knobs.cap, x, Searches - turn))
    OBVIOUS
  <2>3. CASE x <= 0
    <3>1. Begin(<<>>)
      BY <1>1, <2>1, <2>3
    <3>2. QED
      BY <1>0, <3>1, NoneFits, BeginFits
  <2>4. CASE ~(x <= 0)
    <3>1. Begin(<<start>>)
      BY <1>1, <2>1, <2>2, <2>4
    <3>2. PICK d \in Nat \ {0} : d = Searches - turn
      <4>1. Searches \in Nat /\ turn \in Nat /\ turn < Searches
        BY <1>0, <1>5, RoundsAssumption DEF Tiktak, BudgetInv
      <4>2. QED
        BY <4>1
    <3>3. PICK m \in Nat : m = x \div d /\ m <= x
      <4>1. PICK m \in Nat : m = x \div d
        BY PartsOf
      <4>2. PICK r \in Nat : r = x % d
        BY PartsOf
      <4>3. x = d * m + r
        BY <4>1, <4>2, PartsOf
      <4>4. d * m >= m
        OBVIOUS
      <4>5. QED
        BY <4>1, <4>2, <4>3, <4>4
    <3>4. start.fresh = IF knobs.cap > 0 THEN MinOf(knobs.cap, x) ELSE MaxOf(1, m)
      BY <2>2, <3>2, <3>3 DEF Spec1, Each
    <3>5. start.fresh \in Nat /\ start.fresh <= x
      BY <1>0, <2>4, <3>3, <3>4 DEF MinOf, MaxOf
    <3>6. QED
      BY <1>1, <3>1, <3>5, OneFits, BeginFits
  <2>5. QED
    BY <2>3, <2>4
<1>6. CASE Halving
  <2> DEFINE more == knobs.budget \div (Len(arms) * Ceil2(knobs.starts))
             fresh == MinOf(more, Left(ev) \div Len(arms))
             grown == [a \in DOMAIN arms |-> [arms[a] EXCEPT !.allowance = @ + more]]
             given == [a \in DOMAIN arms |-> [Spec1(grown[a].plan, grown[a].allowance)
                                                EXCEPT !.fresh = fresh]]
  <2>1. \/ Begin(<<>>)
        \/ Begin(given) /\ ~(fresh <= 0)
    BY <1>6 DEF Halving
  <2> HIDE DEF more, fresh
  <2>2. PICK n \in Nat : DOMAIN arms = 1..n /\ arms = [a \in 1..n |-> arms[a]]
    BY <1>0 DEF ArmsInv
  <2>3. Len(arms) = n
    <3>1. arms \in [1..n -> {arms[a] : a \in 1..n}]
      BY <2>2
    <3>2. QED
      BY <3>1
  <2>4. CASE Begin(<<>>)
    BY <1>0, <2>4, NoneFits, BeginFits
  <2>5. CASE Begin(given) /\ ~(fresh <= 0) /\ n = 0
    <3>1. given = <<>>
      BY <2>2, <2>5
    <3>2. QED
      <4> HIDE DEF given
      <4>1. QED
        BY <1>0, <2>5, <3>1, NoneFits, BeginFits
  <2>6. CASE Begin(given) /\ ~(fresh <= 0) /\ n # 0
    <3>1. PICK c \in Nat \ {0} : c = Ceil2(knobs.starts)
      <4>1. Ceil2(knobs.starts) \in 1..knobs.starts
        BY <1>0, CeilingIs
      <4>2. QED
        BY <1>0, <4>1
    <3>2. n * c \in Nat \ {0}
      BY <2>6
    <3>3. more \in Nat
      <4>1. more = knobs.budget \div (n * c)
        BY <2>3, <3>1 DEF more
      <4>2. QED
        BY <1>0, <3>2, <4>1, PartsOf
    <3>4. x \div n \in Nat
      BY <2>6, PartsOf
    <3>5. fresh \in Nat /\ fresh <= x \div n
      <4>1. fresh = MinOf(more, x \div n)
        BY <1>1, <2>3 DEF fresh
      <4>2. QED
        BY <3>3, <3>4, <4>1 DEF MinOf
    <3>6. DOMAIN given = 1..n /\ \A k \in 1..n : given[k].fresh = fresh
      BY <2>2 DEF Spec1
    <3>7. Fits(given, x)
      <4> HIDE DEF given
      <4>1. QED
        BY <2>6, <3>5, <3>6, ArmsFit
    <3>8. QED
      <4> HIDE DEF given
      <4>1. QED
        BY <1>1, <2>6, <3>7, BeginFits
  <2>7. QED
    BY <2>1, <2>4, <2>5, <2>6
<1>7. CASE GlobalPhase
  <2> DEFINE fresh == MinOf(Every, Left(ev))
             allowance == arms[1].allowance + fresh
             start == [Spec1(arms[1].plan, allowance) EXCEPT !.fresh = fresh]
  <2>1. Begin(<<start>>)
    BY <1>7 DEF GlobalPhase
  <2>2. start.fresh = fresh
    BY DEF Spec1
  <2>3. fresh \in Nat /\ fresh <= x
    <3>1. Every \in Nat
      BY RoundsAssumption
    <3>2. QED
      BY <1>1, <3>1 DEF MinOf
  <2> HIDE DEF start, fresh
  <2>4. QED
    BY <1>1, <2>1, <2>2, <2>3, OneFits, BeginFits
<1>8. CASE LocalPhase
  <2>1. PICK n \in 0..knobs.starts : \E plan \in [1..n -> Plans] :
          LET part == MaxOf(1, LocalPart \div MaxOf(1, n))
          IN  Begin(Starts(plan, IF knobs.cap > 0 THEN MinOf(knobs.cap, part) ELSE part))
    BY <1>8 DEF LocalPhase
  <2>2. n \in Nat
    BY <2>1
  <2>3. PICK part : part = MaxOf(1, LocalPart \div MaxOf(1, n))
    OBVIOUS
  <2>4. part \in Nat
    <3>1. MaxOf(1, n) \in Nat \ {0} /\ LocalPart \in Nat
      BY <2>2, RoundsAssumption DEF MaxOf
    <3>2. LocalPart \div MaxOf(1, n) \in Nat
      BY <3>1, PartsOf
    <3>3. QED
      BY <2>3, <3>2 DEF MaxOf
  <2>5. PICK plan \in [1..n -> Plans] : Begin(Starts(plan, IF knobs.cap > 0 THEN MinOf(knobs.cap, part) ELSE part))
    BY <2>1, <2>3
  <2>6. PICK cap \in Nat : cap = IF knobs.cap > 0 THEN MinOf(knobs.cap, part) ELSE part
    BY <1>0, <2>4 DEF MinOf
  <2>7. QED
    BY <1>0, <2>2, <2>5, <2>6, StartsFit, BeginFits
<1>9. QED
  BY <1>2, <1>3, <1>4, <1>5, <1>6, <1>7, <1>8 DEF StartRound

\* A view replaced by one that has paid, within its start's share.
LEMMA PaysSet ==
  ASSUME PaysInv, DOMAIN views = DOMAIN specs, NEW k, NEW w, specs' = specs, ev' = ev,
         views' = [views EXCEPT ![k] = w],
         k \in DOMAIN views => Paid(ev, w) /\ w.spent <= specs[k].fresh
  PROVE  PaysInv'
<1>1. ASSUME NEW i \in DOMAIN views' PROVE Paid(ev', views'[i]) /\ views'[i].spent <= specs'[i].fresh
  <2>1. i \in DOMAIN views /\ views'[i] = IF i = k THEN w ELSE views[i]
    BY <1>1
  <2>2. CASE i = k
    BY <2>1, <2>2
  <2>3. CASE i # k
    <3>1. views'[i] = views[i] /\ Paid(ev, views[i]) /\ views[i].spent <= specs[i].fresh
      BY <2>1, <2>3 DEF PaysInv
    <3>2. QED
      BY <3>1
  <2>4. QED
    BY <2>2, <2>3
<1>2. QED
  BY <1>1 DEF PaysInv

\* A point the strategy draws is charged no more than what is left.
LEMMA DrawFits ==
  ASSUME CountsInv, BudgetInv, NEW x \in Points, Draw(x)
  PROVE  BudgetInv'
<1>1. /\ phase = "loop" /\ ev' = Indexed(x, knobs.budget)
      /\ UNCHANGED <<knobs, turn, stage, specs, views>>
      /\ phase' = CASE Outcome(x, knobs.budget) = "throws" -> "failed"
                    [] Outcome(x, knobs.budget) # "throws" /\ Returned(x, knobs.budget) -> phase
                    [] OTHER -> "over"
  BY DEF Draw, loop, roundState
<1>2. phase' \in {"loop", "failed", "over"}
  BY <1>1
<1>3. ev \in Honest /\ ~ev.out /\ knobs \in Runs /\ ev \in Archives
  BY <1>1 DEF CountsInv, EvInv, Honest
<1>4. PICK k : k = Indexed(x, knobs.budget)
  OBVIOUS
<1>5. /\ k.spent >= ev.spent /\ (Outcome(x, knobs.budget) # "fresh" => k = ev)
      /\ (~k.out => k.budget = ev.budget)
      /\ k.spent <= ev.spent + 1 /\ (k.out => k.spent = k.budget)
  BY <1>3, <1>4, IndexedGoes
<1>6. k \in Archives
  BY <1>3, <1>4, IndexedCounts DEF Honest
<1>7. ev.spent \in Nat /\ ev.budget \in Nat /\ k.spent \in Nat /\ k.budget \in Nat
  BY <1>3, <1>6 DEF Archives
<1>8. ev.spent <= ev.budget /\ ev.budget = knobs.budget
  BY <1>3 DEF BudgetInv
<1>9. Outcome(x, knobs.budget) = "fresh" => ev.spent + 1 <= ev.budget
  <2>1. SUFFICES ASSUME Outcome(x, knobs.budget) = "fresh" PROVE ev.spent + 1 <= ev.budget
    OBVIOUS
  <2>2. Used(ev) \in Nat /\ Used(ev) >= ev.spent /\ Cost \in Nat \ {0}
    BY <1>3, UsedIs
  <2>3. ~(Used(ev) + Cost > ev.budget)
    BY <2>1 DEF Outcome
  <2>4. QED
    BY <1>7, <2>2, <2>3
<1>10. k.spent <= k.budget
  <2>1. CASE Outcome(x, knobs.budget) # "fresh"
    BY <1>5, <1>8, <2>1
  <2>2. CASE Outcome(x, knobs.budget) = "fresh" /\ k.out
    BY <1>5, <1>7, <2>2
  <2>3. CASE Outcome(x, knobs.budget) = "fresh" /\ ~k.out
    <3>1. k.budget = ev.budget /\ k.spent <= ev.spent + 1 /\ ev.spent + 1 <= ev.budget
      BY <1>5, <1>9, <2>3
    <3>2. QED
      BY <1>7, <3>1
  <2>4. QED
    BY <2>1, <2>2, <2>3
<1>11. ev'.spent <= ev'.budget /\ (~ev'.out => ev'.budget = knobs'.budget)
  BY <1>1, <1>4, <1>5, <1>8, <1>10
<1>12. knobs'.strategy # "multistart"
  <2>1. SUFFICES ASSUME knobs.strategy = "multistart" PROVE FALSE
    BY <1>1
  <2>2. drawn = 0 /\ ToDraw = 0
    BY <2>1 DEF BudgetInv, ToDraw
  <2>3. QED
    BY <2>2 DEF Draw
<1>13. knobs'.strategy = "tiktak" =>
          stage' \in {"first", "step"} /\ turn' \in Nat /\ (phase' \in {"loop", "round"} => turn' < Searches)
  BY <1>1, <1>2 DEF BudgetInv
<1>14. QED
  BY <1>2, <1>11, <1>12, <1>13 DEF BudgetInv

\* A round adds at most what its starts were given.
LEMMA EndGrows ==
  ASSUME CountsInv, BudgetInv, EndRound
  PROVE  /\ Fits(specs, Left(ev)) /\ Left(ev) \in Nat /\ ev \in Honest /\ ev' \in Honest /\ knobs \in Runs
         /\ ~ev.out /\ (Throws(views) => ev' = ev)
         /\ ~Throws(views) => Grown(ev, ev', Shared(specs))
<1>1. phase = "round" /\ ev' = (IF Throws(views) THEN ev ELSE Merge(ev, views))
  BY DEF EndRound
<1>2. EvInv /\ StartsInv
  BY DEF CountsInv
<1>3. ev \in Honest /\ knobs \in Runs /\ ~ev.out
  BY <1>1, <1>2 DEF EvInv
<1>4. Left(ev) \in Nat
  BY <1>2, LeftIs
<1>5. Fits(specs, Left(ev)) /\ PaysInv
  BY <1>1 DEF BudgetInv
<1>6. PICK n \in Nat : Given(n, specs) /\ views \in Seq(Views) /\ Len(views) = n
  BY <1>2 DEF StartsInv
<1>7. DOMAIN specs = 1..n /\ DOMAIN views = 1..n
  BY <1>6 DEF Given
<1>8. \A i \in 1..n : specs[i].fresh \in Nat
  BY <1>5, <1>7 DEF Fits
<1>9. \A i \in 1..n : Paid(ev, views[i]) /\ views[i].spent <= specs[i].fresh
  BY <1>5, <1>7 DEF PaysInv
<1>10. Grown(ev, Merge(ev, views), Shared(specs))
  BY <1>3, <1>6, <1>7, <1>8, <1>9, MergeGrows
<1>11. ev' \in Honest
  BY <1>1, <1>3, <1>10 DEF Grown
<1>12. QED
  BY <1>1, <1>3, <1>4, <1>5, <1>10, <1>11

\* After it, what is left is not less than nothing.
LEMMA EndFits ==
  ASSUME CountsInv, BudgetInv, EndRound
  PROVE  BudgetInv'
<1>1. /\ Fits(specs, Left(ev)) /\ Left(ev) \in Nat /\ ev \in Honest /\ ev' \in Honest /\ knobs \in Runs
      /\ ~ev.out /\ (Throws(views) => ev' = ev)
      /\ ~Throws(views) => Grown(ev, ev', Shared(specs))
  BY EndGrows
<1>2. phase = "round" /\ knobs' = knobs /\ (drawn' = IF knobs.strategy = "mlsl" THEN 0 ELSE drawn)
  BY DEF EndRound
<1>3. PICK s \in Stages(ev') :
         /\ phase' = CASE Throws(views) -> "failed"
                       [] ~Throws(views) /\ ~ev'.out /\ GoesOn(ev', s.stage) -> "loop"
                       [] OTHER -> "over"
         /\ stage' = s.stage /\ turn' = s.turn
  BY DEF EndRound
<1>4. phase' \in {"failed", "loop", "over"} /\ (phase' = "loop" => GoesOn(ev', s.stage))
  BY <1>3
<1>5. ev.spent \in Nat /\ ev.budget \in Nat /\ ev'.spent \in Nat /\ ev'.budget \in Nat
  BY <1>1 DEF Honest, Archives
<1>6. ev.spent <= ev.budget /\ ev.budget = knobs.budget
  BY <1>1 DEF BudgetInv
<1>7. PICK c \in Nat : c = Shared(specs) /\ c <= ev.budget - ev.spent
  BY <1>1 DEF Fits, Left
<1>8. ev'.spent <= ev'.budget /\ (~ev'.out => ev'.budget = knobs'.budget)
  <2>1. CASE Throws(views)
    BY <1>1, <1>2, <1>6, <2>1
  <2>2. CASE ~Throws(views)
    <3>1. ev'.spent <= ev.spent + c /\ IF ev'.out THEN ev'.budget = ev'.spent ELSE ev'.budget = ev.budget
      BY <1>1, <1>7, <2>2 DEF Grown
    <3>2. ~ev'.out => ev'.budget = knobs'.budget
      BY <1>2, <1>6, <3>1
    <3>3. CASE ev'.out
      BY <1>5, <3>1, <3>3
    <3>4. CASE ~ev'.out
      <4>1. ev'.spent <= ev.spent + c /\ ev'.budget = ev.budget
        BY <3>1, <3>4
      <4>2. QED
        BY <1>5, <1>7, <3>2, <4>1
    <3>5. QED
      BY <3>2, <3>3, <3>4
  <2>3. QED
    BY <2>1, <2>2
<1>9. knobs'.strategy = "multistart" => drawn' = 0 /\ (phase' = "loop" => ev'.spent = 0)
  <2>1. SUFFICES ASSUME knobs.strategy = "multistart" PROVE drawn' = 0 /\ phase' # "loop"
    BY <1>2
  <2>2. drawn' = 0
    BY <1>2, <2>1 DEF BudgetInv
  <2>3. ~GoesOn(ev', s.stage)
    BY <2>1 DEF GoesOn, Walks
  <2>4. QED
    BY <1>4, <2>2, <2>3
<1>10. knobs'.strategy = "tiktak" =>
          stage' \in {"first", "step"} /\ turn' \in Nat /\ (phase' \in {"loop", "round"} => turn' < Searches)
  <2>1. SUFFICES ASSUME knobs.strategy = "tiktak"
                 PROVE  stage' \in {"first", "step"} /\ turn' \in Nat /\ (phase' = "loop" => turn' < Searches)
    BY <1>2, <1>4
  <2>2. stage \in {"first", "step"} /\ turn \in Nat
    BY <2>1 DEF BudgetInv
  <2>3. s = Stage("step", turn + 1)
    BY <1>3, <2>1, <2>2 DEF Stages
  <2>4. stage' = "step" /\ turn' = turn + 1
    BY <1>3, <2>3 DEF Stage
  <2>5. phase' = "loop" => turn + 1 < Searches
    <3>1. ASSUME phase' = "loop" PROVE turn + 1 < Searches
      BY <1>4, <2>1, <3>1 DEF GoesOn, Walks
    <3>2. QED
      BY <3>1
  <2>6. QED
    BY <2>2, <2>4, <2>5
<1>11. QED
  BY <1>4, <1>8, <1>9, <1>10 DEF BudgetInv

\* Every step of the rounds keeps the budget.
LEMMA RoundsFit ==
  ASSUME CountsInv, BudgetInv, NextRounds
  PROVE  BudgetInv'
<1>0. EvInv /\ StartsInv
  BY DEF CountsInv
<1>1. PICK n \in Nat : /\ Given(n, specs) /\ views \in Seq(Views) /\ Len(views) = n
                       /\ \A i \in 1..n : views[i].pos <= Len(specs[i].plan)
  BY <1>0 DEF StartsInv
<1>2. DOMAIN specs = 1..n /\ DOMAIN views = 1..n
  BY <1>1 DEF Given
<1>3. ASSUME NEW x \in Points, Draw(x) PROVE BudgetInv'
  BY <1>3, DrawFits
<1>4. CASE StartRound
  BY <1>4, StartRoundFits
<1>5. ASSUME NEW t \in AllThreads, Claim(t) PROVE BudgetInv'
  <2>1. /\ phase = "round" /\ views' = [views EXCEPT ![next] = Begun(specs[next])]
        /\ UNCHANGED <<knobs, phase, ev, drawn, turn, stage, specs>>
    BY <1>5 DEF Claim, loop
  <2>2. Fits(specs, Left(ev)) /\ PaysInv
    BY <2>1 DEF BudgetInv
  <2>3. next \in DOMAIN views => Paid(ev, Begun(specs[next])) /\ Begun(specs[next]).spent <= specs[next].fresh
    <3>1. next \in DOMAIN views => specs[next].fresh \in Nat
      BY <1>2, <2>2 DEF Fits
    <3>2. QED
      BY <3>1, BegunPaid
  <2>4. PaysInv'
    BY <1>2, <2>1, <2>2, <2>3, PaysSet
  <2>5. QED
    BY <2>1, <2>2, <2>4 DEF BudgetInv
<1>6. ASSUME NEW t \in AllThreads, Step(t) PROVE BudgetInv'
  <2>1. PICK k : k = at[t]
    OBVIOUS
  <2>2. PICK w : w = Ask(ev, views[k], specs[k])
    OBVIOUS
  <2>3. /\ phase = "round" /\ views' = [views EXCEPT ![k] = w]
        /\ UNCHANGED <<knobs, phase, ev, drawn, turn, stage, specs>>
    BY <1>6, <2>1, <2>2 DEF Step, loop
  <2>4. Fits(specs, Left(ev)) /\ PaysInv
    BY <2>3 DEF BudgetInv
  <2>5. ASSUME k \in DOMAIN views PROVE Paid(ev, w) /\ w.spent <= specs[k].fresh
    <3>1. k \in 1..n /\ views[k] \in Views /\ specs[k].plan \in Plans
      BY <1>1, <1>2, <2>5 DEF Given
    <3>2. specs[k].plan \in Seq(Calls) /\ views[k].pos <= Len(specs[k].plan)
      BY <1>1, <3>1, RoundsAssumption
    <3>3. ev \in Archives
      BY <1>0 DEF EvInv, Honest
    <3>4. specs[k].fresh \in Nat
      BY <1>2, <2>4, <3>1 DEF Fits
    <3>5. Paid(ev, views[k]) /\ views[k].spent <= specs[k].fresh
      BY <2>4, <2>5 DEF PaysInv
    <3>6. QED
      BY <2>2, <3>1, <3>2, <3>3, <3>4, <3>5, AskPays
  <2>6. PaysInv'
    BY <1>2, <2>3, <2>4, <2>5, PaysSet
  <2>7. QED
    BY <2>3, <2>4, <2>6 DEF BudgetInv
<1>7. ASSUME NEW t \in AllThreads, Finish(t) PROVE BudgetInv'
  <2>1. UNCHANGED <<knobs, phase, ev, drawn, turn, stage, specs, views>>
    BY <1>7 DEF Finish, loop
  <2>2. QED
    BY <2>1 DEF BudgetInv, PaysInv
<1>8. CASE EndRound
  BY <1>8, EndFits
<1>9. QED
  BY <1>3, <1>4, <1>5, <1>6, <1>7, <1>8 DEF NextRounds

\* STRAT-6: what a round adds to what the run has spent is at most what its starts were given,
\* and they were given at most what was left (strategy.hpp: View::charge, search::starts).
THEOREM RoundsStayWithin == Spec => RoundWithinGiven
<1> DEFINE Budgeted == knobs.strategy \in Rounds => BudgetInv
           Within1 == phase = "round" /\ phase' # "round" =>
             Used(ev') - Used(ev) <= Shared(specs) /\ Shared(specs) <= Left(ev)
<1>1. Init => CountsInv /\ Budgeted
  <2>1. SUFFICES ASSUME Init PROVE BudgetInv
    BY CountsBegin
  <2>2. phase = "loop" /\ ev = NewEvaluator /\ drawn = 0 /\ turn = 0 /\ knobs \in Runs
        /\ (stage = IF knobs.strategy = "memetic" THEN "global" ELSE "first")
    BY <2>1 DEF Init, StartEvaluator, InitRounds
  <2>3. ev.spent = 0 /\ ev.budget = knobs.budget /\ knobs.budget \in Nat \ {0}
    BY <2>2, EvaluatorAssumption DEF NewEvaluator
  <2>4. 0 < Searches
    BY RoundsAssumption
  <2>5. QED
    BY <2>2, <2>3, <2>4 DEF BudgetInv
<1>2. CountsInv /\ Budgeted /\ [Next]_vars => CountsInv' /\ Budgeted' /\ [Within1]_roundVars
  <2>1. SUFFICES ASSUME CountsInv, Budgeted, [Next]_vars PROVE CountsInv' /\ Budgeted' /\ Within1
    OBVIOUS
  <2>2. CountsInv'
    BY <2>1, CountsStep
  <2>3. CASE knobs.strategy \in Rounds /\ NextRounds
    <3>1. BudgetInv /\ BudgetInv'
      BY <2>1, <2>3, RoundsFit
    <3>2. ASSUME phase = "round", phase' # "round"
          PROVE  Used(ev') - Used(ev) <= Shared(specs) /\ Shared(specs) <= Left(ev)
      <4>1. EndRound
        <5>1. \A x \in Points : Draw(x) => phase = "loop"
          BY DEF Draw
        <5>2. StartRound => phase = "loop"
          BY DEF StartRound, Multistart, Mlsl, Walk, Tiktak, Halving, GlobalPhase, LocalPhase, Begin
        <5>3. \A t \in AllThreads : Claim(t) \/ Step(t) \/ Finish(t) => phase' = phase
          BY DEF Claim, Step, Finish
        <5>4. QED
          BY <2>3, <3>2, <5>1, <5>2, <5>3 DEF NextRounds
      <4>2. /\ Fits(specs, Left(ev)) /\ Left(ev) \in Nat /\ ev \in Honest /\ ev' \in Honest /\ knobs \in Runs
            /\ (Throws(views) => ev' = ev) /\ (~Throws(views) => Grown(ev, ev', Shared(specs)))
        BY <2>1, <3>1, <4>1, EndGrows
      <4>3. PICK c \in Nat : c = Shared(specs) /\ c <= Left(ev)
        BY <4>2 DEF Fits
      <4>4. Used(ev') <= Used(ev) + c
        <5>1. CASE Throws(views)
          <6>1. Used(ev) \in Nat
            BY <4>2, UsedIs DEF Honest
          <6>2. QED
            BY <4>2, <5>1, <6>1
        <5>2. CASE ~Throws(views)
          BY <4>2, <4>3, <5>2 DEF Grown
        <5>3. QED
          BY <5>1, <5>2
      <4>5. knobs' = knobs
        BY <4>1 DEF EndRound
      <4>6. PICK u \in Nat : u = Used(ev)
        BY <4>2, UsedIs DEF Honest
      <4>7. PICK w \in Nat : w = Used(ev')
        BY <4>2, UsedIs DEF Honest
      <4>8. w - u <= c
        BY <4>4, <4>6, <4>7
      <4>9. QED
        BY <4>3, <4>6, <4>7, <4>8
    <3>3. QED
      BY <2>2, <3>1, <3>2
  <2>4. CASE knobs.strategy \in Restarting /\ NextRestarts
    <3>1. knobs' = knobs
      BY <2>4 DEF NextRestarts, NextRun, Sample, Tell
    <3>2. phase # "round"
      BY <2>4 DEF NextRestarts, NextRun, Sample, Tell
    <3>3. knobs.strategy \notin Rounds
      BY <2>4 DEF Rounds, Restarting
    <3>4. QED
      BY <2>2, <3>1, <3>2, <3>3
  <2>5. CASE UNCHANGED vars
    <3>1. UNCHANGED <<knobs, phase, ev, drawn, turn, stage, specs, views>>
      BY <2>5 DEF vars, evaluator, rounds, loop, roundState
    <3>2. Budgeted'
      BY <2>1, <3>1 DEF BudgetInv, PaysInv
    <3>3. QED
      BY <2>2, <3>1, <3>2
  <2>6. QED
    BY <2>1, <2>3, <2>4, <2>5 DEF Next, Ended
<1>3. QED
  <2>1. [Within1]_roundVars => [phase = "round" /\ phase' # "round" =>
           LET given == FoldLeft(LAMBDA a, s : a + s.fresh, 0, specs)
           IN  Used(ev') - Used(ev) <= given /\ given <= Left(ev)]_roundVars
    BY DEF Shared
  <2> HIDE DEF Within1, Budgeted
  <2>2. QED
    BY <1>1, <1>2, <2>1, PTL DEF Spec, RoundWithinGiven
=============================================================================
