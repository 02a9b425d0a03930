------------------------ MODULE SegmentStoreProofs ------------------------
(***************************************************************************)
(* What TLC checks of the store on two runners and two runs, proved for    *)
(* any runs, runners, threads, segment sizes, crashes and full disks.      *)
(***************************************************************************)
EXTENDS SegmentStore, WellFoundedInduction, TLAPS

-----------------------------------------------------------------------------
(* A data file: records one after the other, the last maybe half there.    *)

Shape(f) ==
    \A j \in 0..Len(f) :
        /\ 2 * j + 1 <= Len(f) => \E r \in Records : f[2 * j + 1] = <<r, 1>>
        /\ 2 * j + 2 <= Len(f) => f[2 * j + 2] = <<f[2 * j + 1][1], 2>>

\* Record r is whole in the file, with j before it.
Holds(f, j, r) == 2 * j + 2 <= Len(f) /\ f[2 * j + 1] = <<r, 1>>

Even(n) == \E j \in 0..n : n = 2 * j

\* A line that is not cut names a record by its place, where the file reaches it.
LineTrue(f, l) ==
    ~l.torn => \E j \in 0..l.at :
                  /\ l.at = 2 * j
                  /\ 2 * j + 2 <= Len(f) => l = Line(f[2 * j + 1][1], 2 * j)

LinesTrue(f, ix) == \A i \in 1..Len(ix) : LineTrue(f, ix[i])

LinesWithin(f, ix) == \A i \in 1..Len(ix) : ~ix[i].torn => ix[i].at + 2 <= Len(f)

LEMMA Half == ASSUME NEW n \in Nat PROVE \E j \in 0..n : 2 * j <= n /\ n < 2 * j + 2
<1>1. n \div 2 \in 0..n /\ 2 * (n \div 2) <= n /\ n < 2 * (n \div 2) + 2
  OBVIOUS
<1>2. QED
  BY <1>1

LEMMA RecordIsNotNone == NoRecord \notin Records
BY KeysAssumption DEF NoRecord, Records

LEMMA WholeIff ==
  ASSUME NEW f \in Seq(Cells), Shape(f), NEW j \in Nat
  PROVE  WholeAt(f, 2 * j) <=> 2 * j + 2 <= Len(f)
<1>1. CASE 2 * j + 2 <= Len(f)
  <2>1. j \in 0..Len(f) /\ 2 * j + 1 <= Len(f)
    BY <1>1
  <2>2. PICK r \in Records : f[2 * j + 1] = <<r, 1>>
    BY <2>1 DEF Shape
  <2>3. f[2 * j + 2] = <<f[2 * j + 1][1], 2>>
    BY <1>1, <2>1 DEF Shape
  <2>4. QED
    BY <1>1, <2>2, <2>3, RecordIsNotNone DEF WholeAt
<1>2. CASE ~(2 * j + 2 <= Len(f))
  BY <1>2 DEF WholeAt
<1>3. QED
  BY <1>1, <1>2

LEMMA CountIs ==
  ASSUME NEW f \in Seq(Cells), Shape(f), NEW n \in Nat, 2 * n <= Len(f), Len(f) < 2 * n + 2
  PROVE  Count(f) = n
<1>1. n \in 0..Len(f)
  OBVIOUS
<1>2. Scanned(f, n)
  <2>1. ASSUME NEW i \in 0..Len(f), i < n PROVE WholeAt(f, 2 * i)
    BY <2>1, WholeIff
  <2>2. ~WholeAt(f, 2 * n)
    BY WholeIff
  <2>3. QED
    BY <2>1, <2>2 DEF Scanned
<1>3. ASSUME NEW m \in 0..Len(f), Scanned(f, m) PROVE m = n
  <2>1. CASE m < n
    BY <2>1, <1>3, WholeIff DEF Scanned
  <2>2. CASE n < m
    BY <2>2, <1>1, <1>3, WholeIff DEF Scanned
  <2>3. QED
    BY <2>1, <2>2
<1>4. QED
  BY <1>1, <1>2, <1>3 DEF Count

\* The readers' account of a file does not depend on its index.
LEMMA CountTyped ==
  ASSUME NEW f \in Seq(Cells), Shape(f)
  PROVE  Count(f) \in 0..Len(f) /\ 2 * Count(f) <= Len(f) /\ Len(f) < 2 * Count(f) + 2
<1>0. Len(f) \in Nat
  OBVIOUS
<1>1. PICK j \in 0..Len(f) : 2 * j <= Len(f) /\ Len(f) < 2 * j + 2
  BY <1>0, Half
<1>2. QED
  BY <1>1, CountIs

LEMMA ListedIs ==
  ASSUME NEW f \in Seq(Cells), Shape(f), NEW ix \in Seq(Lines), Listed(f, ix)
  PROVE  Len(ix) = Count(f)
<1>1. ~(2 * Len(ix) + 2 <= Len(f)) /\ 2 * Len(ix) <= Len(f)
  BY WholeIff DEF Listed
<1>2. QED
  BY <1>1, CountIs

LEMMA EndIs ==
  ASSUME NEW f \in Seq(Cells), Shape(f), NEW ix \in Seq(Lines)
  PROVE  EntriesEnd(f, ix) = 2 * Count(f)
BY ListedIs DEF EntriesEnd

LEMMA EntriesAre ==
  ASSUME NEW f \in Seq(Cells), Shape(f), NEW ix \in Seq(Lines), LinesTrue(f, ix)
  PROVE  FileEntries(f, ix) = Account(f)
<1>1. SUFFICES ASSUME Listed(f, ix) PROVE ix = Account(f)
  BY DEF FileEntries
<1>2. Len(ix) = Count(f) /\ Count(f) \in Nat
  BY <1>1, ListedIs, CountTyped
<1>3. ASSUME NEW i \in 1..Len(ix) PROVE ix[i] = Line(RecordAt(f, 2 * (i - 1)), 2 * (i - 1))
  <2>1. ~ix[i].torn /\ ix[i].at = 2 * (i - 1) /\ 2 * Len(ix) <= Len(f)
    BY <1>1 DEF Listed
  <2>2. PICK j \in 0..ix[i].at : ix[i].at = 2 * j /\ (2 * j + 2 <= Len(f) => ix[i] = Line(f[2 * j + 1][1], 2 * j))
    BY <2>1 DEF LinesTrue, LineTrue
  <2>3. j = i - 1 /\ 2 * j + 2 <= Len(f)
    BY <2>1, <2>2
  <2>4. QED
    BY <2>2, <2>3 DEF RecordAt
<1>4. QED
  BY <1>2, <1>3 DEF Account

\* What is left of a file keeps its shape, and what lines say of it.
LEMMA Prefix ==
  ASSUME NEW f \in Seq(Cells), Shape(f), NEW g \in Seq(Cells), Len(g) <= Len(f),
         \A i \in 1..Len(g) : g[i] = f[i]
  PROVE  /\ Shape(g)
         /\ \A ix \in Seq(Lines) : LinesTrue(f, ix) => LinesTrue(g, ix)
<1>1. Shape(g)
  <2>1. SUFFICES ASSUME NEW j \in 0..Len(g)
                 PROVE  /\ 2 * j + 1 <= Len(g) => \E r \in Records : g[2 * j + 1] = <<r, 1>>
                        /\ 2 * j + 2 <= Len(g) => g[2 * j + 2] = <<g[2 * j + 1][1], 2>>
    BY DEF Shape
  <2>2. j \in 0..Len(f)
    OBVIOUS
  <2>3. QED
    BY <2>2 DEF Shape
<1>2. ASSUME NEW ix \in Seq(Lines), LinesTrue(f, ix), NEW i \in 1..Len(ix) PROVE LineTrue(g, ix[i])
  <2>1. LineTrue(f, ix[i])
    BY <1>2 DEF LinesTrue
  <2>2. SUFFICES ASSUME ~ix[i].torn
                 PROVE  \E j \in 0..ix[i].at : /\ ix[i].at = 2 * j
                                               /\ 2 * j + 2 <= Len(g) => ix[i] = Line(g[2 * j + 1][1], 2 * j)
    BY DEF LineTrue
  <2>3. PICK j \in 0..ix[i].at : /\ ix[i].at = 2 * j
                                 /\ 2 * j + 2 <= Len(f) => ix[i] = Line(f[2 * j + 1][1], 2 * j)
    BY <2>1, <2>2 DEF LineTrue
  <2>4. 2 * j + 2 <= Len(g) => g[2 * j + 1] = f[2 * j + 1]
    OBVIOUS
  <2>5. QED
    BY <2>3, <2>4
<1>3. QED
  BY <1>1, <1>2 DEF LinesTrue

\* A record is appended, in two parts.
LEMMA Grown ==
  ASSUME NEW f \in Seq(Cells), Shape(f), NEW c \in Cells,
         \/ Even(Len(f)) /\ \E r \in Records : c = <<r, 1>>
         \/ \E j \in 0..Len(f) : Len(f) = 2 * j + 1 /\ c = <<f[2 * j + 1][1], 2>>
  PROVE  Shape(Append(f, c))
<1> DEFINE g == Append(f, c)
<1>1. Len(g) = Len(f) + 1 /\ g[Len(f) + 1] = c /\ \A i \in 1..Len(f) : g[i] = f[i]
  OBVIOUS
<1>2. SUFFICES ASSUME NEW j \in 0..Len(g)
               PROVE  /\ 2 * j + 1 <= Len(g) => \E r \in Records : g[2 * j + 1] = <<r, 1>>
                      /\ 2 * j + 2 <= Len(g) => g[2 * j + 2] = <<g[2 * j + 1][1], 2>>
  BY DEF Shape
<1>3. CASE 2 * j + 2 <= Len(f)
  <2>1. j \in 0..Len(f) /\ g[2 * j + 1] = f[2 * j + 1] /\ g[2 * j + 2] = f[2 * j + 2]
    BY <1>1, <1>3
  <2>2. QED
    BY <1>3, <2>1 DEF Shape
<1>4. CASE 2 * j + 1 = Len(f)
  <2>1. j \in 0..Len(f) /\ g[2 * j + 1] = f[2 * j + 1] /\ g[2 * j + 2] = c
    BY <1>1, <1>4
  <2>2. \E r \in Records : f[2 * j + 1] = <<r, 1>>
    BY <1>4, <2>1 DEF Shape
  <2>3. c = <<f[2 * j + 1][1], 2>>
    BY <1>4 DEF Even
  <2>4. QED
    BY <2>1, <2>2, <2>3
<1>5. CASE 2 * j = Len(f)
  <2>1. \E r \in Records : c = <<r, 1>>
    BY <1>5 DEF Even
  <2>2. g[2 * j + 1] = c /\ ~(2 * j + 2 <= Len(g))
    BY <1>1, <1>5
  <2>3. QED
    BY <2>1, <2>2
<1>6. CASE 2 * j > Len(f)
  BY <1>1, <1>6
<1>7. QED
  BY <1>3, <1>4, <1>5, <1>6

LEMMA GrownLines ==
  ASSUME NEW f \in Seq(Cells), NEW c \in Cells, NEW ix \in Seq(Lines),
         LinesTrue(f, ix), LinesWithin(f, ix)
  PROVE  LinesTrue(Append(f, c), ix) /\ LinesWithin(Append(f, c), ix)
<1> DEFINE g == Append(f, c)
<1>1. Len(g) = Len(f) + 1 /\ \A i \in 1..Len(f) : g[i] = f[i]
  OBVIOUS
<1>2. ASSUME NEW i \in 1..Len(ix), ~ix[i].torn
      PROVE  LineTrue(g, ix[i]) /\ ix[i].at + 2 <= Len(g)
  <2>1. PICK j \in 0..ix[i].at : /\ ix[i].at = 2 * j
                                 /\ 2 * j + 2 <= Len(f) => ix[i] = Line(f[2 * j + 1][1], 2 * j)
    BY <1>2 DEF LinesTrue, LineTrue
  <2>2. 2 * j + 2 <= Len(f) /\ j \in Nat
    BY <1>2, <2>1 DEF LinesWithin, Lines
  <2>3. ix[i] = Line(g[2 * j + 1][1], 2 * j)
    BY <1>1, <2>1, <2>2
  <2>4. QED
    BY <1>1, <2>1, <2>2, <2>3 DEF LineTrue
<1>3. QED
  BY <1>2 DEF LinesTrue, LinesWithin, LineTrue

\* A line appended, whatever end the last one has: no other is new, unless cut.
LEMMA AppendLineIs ==
  ASSUME NEW ix \in Seq(Lines), NEW l \in Lines
  PROVE  /\ AppendLine(ix, l) \in Seq(Lines)
         /\ \A i \in 1..Len(AppendLine(ix, l)) :
               LET m == AppendLine(ix, l)[i] IN m.torn \/ m = l \/ \E k \in 1..Len(ix) : m = ix[k]
<1> DEFINE e == [TornLine EXCEPT !.eol = TRUE]
           h == AppendLine(ix, l)
<1>1. e \in Lines /\ e.torn
  BY DEF TornLine, Lines, Statuses
<1>2. CASE Len(ix) > 0 /\ ~ix[Len(ix)].eol
  <2>1. h = [ix EXCEPT ![Len(ix)] = e] /\ Len(ix) \in 1..Len(ix)
    BY <1>2 DEF AppendLine
  <2>2. h \in [1..Len(ix) -> Lines] /\ DOMAIN h = 1..Len(ix)
    BY <1>1, <2>1
  <2>3. h \in Seq(Lines) /\ Len(h) = Len(ix)
    BY <2>2
  <2>4. \A i \in 1..Len(h) : h[i] = e \/ h[i] = ix[i]
    BY <2>1, <2>3
  <2>5. QED
    BY <1>1, <2>3, <2>4
<1>3. CASE ~(Len(ix) > 0 /\ ~ix[Len(ix)].eol)
  <2>1. h = Append(ix, l)
    BY <1>3 DEF AppendLine
  <2>2. h \in Seq(Lines) /\ \A i \in 1..Len(h) : h[i] = l \/ (i \in 1..Len(ix) /\ h[i] = ix[i])
    BY <2>1
  <2>3. QED
    BY <2>2
<1>4. QED
  BY <1>2, <1>3

\* The data's own account of itself is true.
LEMMA AccountTrue ==
  ASSUME NEW f \in Seq(Cells), Shape(f)
  PROVE  Account(f) \in Seq(Lines) /\ Len(Account(f)) = Count(f) /\ LinesTrue(f, Account(f))
<1> DEFINE a == Account(f)
<1>1. Count(f) \in Nat /\ 2 * Count(f) <= Len(f)
  BY CountTyped
<1>2. ASSUME NEW i \in 1..Count(f) PROVE a[i] \in Lines /\ LineTrue(f, a[i])
  <2>1. i - 1 \in 0..Len(f) /\ 2 * (i - 1) + 1 <= Len(f)
    BY <1>1
  <2>2. PICK r \in Records : f[2 * (i - 1) + 1] = <<r, 1>>
    BY <2>1 DEF Shape
  <2>3. a[i] = Line(r, 2 * (i - 1)) /\ a[i] = Line(f[2 * (i - 1) + 1][1], 2 * (i - 1))
    BY <2>2, <1>1 DEF Account, RecordAt
  <2>4. a[i] \in Lines /\ a[i].at = 2 * (i - 1)
    BY <2>1, <2>3 DEF Line, Lines, Records
  <2>5. i - 1 \in 0..a[i].at
    BY <2>1, <2>4
  <2>6. QED
    BY <2>3, <2>4, <2>5 DEF LineTrue
<1>3. QED
  BY <1>1, <1>2 DEF Account, LinesTrue

\* Cut where its last whole record ends, a file reads as before.
LEMMA CutAccount ==
  ASSUME NEW f \in Seq(Cells), Shape(f)
  PROVE  LET g == Resized(f, 2 * Count(f))
         IN  /\ g \in Seq(Cells) /\ Len(g) = 2 * Count(f)
             /\ \A i \in 1..Len(g) : g[i] = f[i]
             /\ Count(g) = Count(f) /\ Account(g) = Account(f)
<1> DEFINE g == Resized(f, 2 * Count(f))
<1>1. Count(f) \in Nat /\ 2 * Count(f) <= Len(f)
  BY CountTyped
<1>2. g \in Seq(Cells) /\ Len(g) = 2 * Count(f) /\ \A i \in 1..Len(g) : g[i] = f[i]
  <2>1. g = [i \in 1..(2 * Count(f)) |-> f[i]]
    BY <1>1 DEF Resized
  <2>2. \A i \in 1..(2 * Count(f)) : f[i] \in Cells
    BY <1>1
  <2>3. g \in [1..(2 * Count(f)) -> Cells] /\ 2 * Count(f) \in Nat
    BY <1>1, <2>1, <2>2
  <2>4. g \in Seq(Cells) /\ Len(g) = 2 * Count(f)
    BY <2>3
  <2>5. QED
    BY <2>1, <2>4
<1> HIDE DEF g
<1>3. Shape(g) /\ Count(g) = Count(f)
  <2>1. Len(g) <= Len(f)
    BY <1>1, <1>2
  <2>2. Shape(g)
    BY <1>2, <2>1, Prefix
  <2>3. QED
    BY <1>1, <1>2, <2>2, CountIs
<1>4. ASSUME NEW i \in 1..Count(f) PROVE RecordAt(g, 2 * (i - 1)) = RecordAt(f, 2 * (i - 1))
  <2>1. 2 * (i - 1) + 1 \in 1..Len(g)
    BY <1>1, <1>2
  <2>2. QED
    BY <1>2, <2>1 DEF RecordAt
<1>5. Account(g) = Account(f)
  BY <1>3, <1>4 DEF Account
<1>6. QED
  BY <1>2, <1>3, <1>5 DEF g

-----------------------------------------------------------------------------
(* The inductive invariant.                                                *)

\* The files are whole up to their end, and so is what their lines say; an
\* index cut within a key may lie.
FilesInv ==
    \A s \in Segments : /\ Shape(raw[s])
                        /\ "key" \notin TornLines => LinesTrue(raw[s], idx[s])

\* A runner that runs no pool has no open segment, and one that repairs is alone.
RunnersInv ==
    \A p \in Runners :
        /\ rpc[p] # "run" => \A t \in Threads : wpc[<<p, t>>] = "idle" /\ wseg[<<p, t>>] = 0
        /\ Repairs(p) => \A q \in Runners : q # p => rpc[q] = "off"

\* What a repair read of its segment is still there.
RepairInv ==
    \A p \in Runners :
        /\ rpc[p] = "cut" => /\ rview[p].end = 2 * Count(raw[rseg[p]])
                             /\ rview[p].rebuild => rview[p].account = Account(raw[rseg[p]])
        /\ rpc[p] \in {"truncate", "rewrite"} => rview[p].account = Account(raw[rseg[p]])
        /\ rpc[p] = "rewrite" => idx[rseg[p]] = <<>>

\* An open segment ends where its thread believes, and its lines within it.
WriterInv(w) ==
    LET f == raw[wseg[w]]
        n == Len(f)
    IN /\ LinesWithin(f, idx[wseg[w]])
       /\ wpc[w] = "idle" /\ todo[w[1]] # {} => Even(n)
       /\ wpc[w] = "index" => f = <<>>
       /\ wpc[w] = "tell" => Even(n)
       /\ wpc[w] = "append" => n = wat[w] /\ Even(n)
       /\ wpc[w] = "half" => n = wat[w] + 1 /\ Even(wat[w]) /\ f[n] = <<wrec[w], 1>>
       /\ wpc[w] \in {"whole", "synced"} =>
             /\ n = wat[w] + 2 /\ Even(wat[w])
             /\ f[n - 1] = <<wrec[w], 1>> /\ f[n] = <<wrec[w], 2>>
       /\ wpc[w] = "synced" => synced[wseg[w]] = n

WritersInv == \A w \in Writers : wseg[w] # 0 => WriterInv(w)

\* The i-th record of a segment.
Rec(s, i) == RecordAt(raw[s], 2 * (i - 1))

\* A record append() returned for is on the disk for good.
AckedInv == \A r \in acked : \E s \in Segments : \E i \in 1..Count(raw[s]) :
                Rec(s, i) = r /\ 2 * i <= synced[s]

StoreInv == TypeOK /\ FilesInv /\ RunnersInv /\ RepairInv /\ WritersInv /\ AckedInv

-----------------------------------------------------------------------------
(* Types.                                                                  *)

LEMMA SeqExcept ==
  ASSUME NEW S, NEW q \in Seq(S), NEW i \in 1..Len(q), NEW x \in S
  PROVE  /\ [q EXCEPT ![i] = x] \in Seq(S)
         /\ Len([q EXCEPT ![i] = x]) = Len(q)
         /\ [q EXCEPT ![i] = x][i] = x
         /\ \A j \in 1..Len(q) : j # i => [q EXCEPT ![i] = x][j] = q[j]
<1>1. [q EXCEPT ![i] = x] \in [1..Len(q) -> S] /\ Len(q) \in Nat
  OBVIOUS
<1>2. QED
  BY <1>1

LEMMA SeqAppend ==
  ASSUME NEW S, NEW q \in Seq(S), NEW x \in S
  PROVE  /\ Append(q, x) \in Seq(S) /\ Len(Append(q, x)) = Len(q) + 1
         /\ Append(q, x)[Len(q) + 1] = x
         /\ \A j \in 1..Len(q) : Append(q, x)[j] = q[j]
OBVIOUS

\* Zeros may follow, where the file is shorter by now.
LEMMA ResizedTyped ==
  ASSUME NEW f \in Seq(Cells), NEW n \in Nat
  PROVE  Resized(f, n) \in Seq(Cells) /\ Len(Resized(f, n)) = n
<1>1. <<NoRecord, 1>> \in Cells
  BY DEF Cells
<1>2. Resized(f, n) \in [1..n -> Cells]
  BY <1>1 DEF Resized
<1>3. QED
  BY <1>2

LEMMA OverwrittenTyped ==
  ASSUME NEW ix \in Seq(Lines), NEW text \in Seq(Lines)
  PROVE  Overwritten(ix, text) \in Seq(Lines)
<1>1. [TornLine EXCEPT !.eol = TRUE] \in Lines
  BY DEF TornLine, Lines, Statuses
<1>2. QED
  BY <1>1 DEF Overwritten

LEMMA SettingTyped ==
  ASSUME setting \in Settings
  PROVE  /\ JobsOf \in [Runners -> SUBSET Keys] /\ SegLimit \in Nat
         /\ Overlap \in {"none", "beating", "any"} /\ FullDisk \in BOOLEAN /\ MaxCrashes \in Nat
BY StoreAssumption DEF JobsOf, SegLimit, Overlap, FullDisk, MaxCrashes

\* A segment there is has files of its type.
LEMMA SegmentTyped ==
  ASSUME FileTypes, NEW s \in Segments
  PROVE  /\ raw[s] \in Seq(Cells) /\ idx[s] \in Seq(Lines)
         /\ synced[s] \in Nat /\ stamp[s] \in Nat /\ synced[s] <= Len(raw[s]) /\ s \in Nat
BY DEF FileTypes, Segments

LEMMA SameFiles == FileTypes /\ UNCHANGED files => FileTypes'
BY DEF FileTypes, files, Segments

LEMMA SameWriterTypes ==
  ASSUME WriterTypes, UNCHANGED writers, Len(raw') = Len(raw),
         \A q \in Runners : rpc[q] = "run" => rpc'[q] = "run"
  PROVE  WriterTypes'
<1>1. \A w \in Writers : w[1] \in Runners
  BY DEF Writers
<1>2. QED
  BY <1>1 DEF WriterTypes, writers, Writers

LEMMA SameRunnerTypes == RunnerTypes /\ UNCHANGED <<raw, rpc, rtime, repairs, todo>> => RunnerTypes'
BY DEF RunnerTypes, repairs, Repairs

LEMMA TypesStart ==
  ASSUME TypeOK, UNCHANGED setting, NEW p \in Runners, Start(p)
  PROVE  TypeOK'
<1>1. FileTypes'
  BY SameFiles DEF TypeOK, Start
<1>2. /\ clock \in Nat /\ launches \in Nat /\ clock' = clock + 1 /\ launches' = launches + 1
      /\ rtime' = [rtime EXCEPT ![p] = clock']
  BY DEF TypeOK, Start
<1>3. clock' \in Nat /\ launches' \in Nat
  BY <1>2
<1>4. Len(raw) \in Nat /\ (raw # <<>> => Len(raw) > 0)
  <2>1. raw \in Seq(Seq(Cells))
    BY DEF TypeOK, FileTypes
  <2>2. QED
    BY <2>1
<1>5. RunnerTypes'
  <2>1. \/ /\ rpc' = [rpc EXCEPT ![p] = "list"] /\ UNCHANGED <<rseg, rlast>>
        \/ /\ rpc' = [rpc EXCEPT ![p] = "repair"] /\ raw # <<>>
           /\ rseg' = [rseg EXCEPT ![p] = 1] /\ rlast' = [rlast EXCEPT ![p] = Len(raw)]
    BY DEF Start
  <2>2. UNCHANGED <<raw, rview, todo>>
    BY DEF Start, files
  <2>3. rpc' \in [Runners -> {"off", "repair", "cut", "truncate", "rewrite", "list", "run"}]
    BY <2>1 DEF TypeOK, RunnerTypes
  <2>4. rtime' \in [Runners -> Nat]
    BY <1>2, <1>3 DEF TypeOK, RunnerTypes
  <2>5. rseg' \in [Runners -> Nat]
    BY <2>1 DEF TypeOK, RunnerTypes
  <2>6. rlast' \in [Runners -> 0..Len(raw)']
    <3>1. rlast \in [Runners -> 0..Len(raw)]
      BY DEF TypeOK, RunnerTypes
    <3>3. rlast' \in [Runners -> 0..Len(raw)]
      BY <2>1, <1>4, <3>1
    <3>2. QED
      BY <2>2, <3>3
  <2>7. ASSUME NEW q \in Runners, Repairs(q)' PROVE rseg'[q] \in 1..rlast'[q]
    BY <2>1, <2>7, <1>4 DEF TypeOK, RunnerTypes, Repairs
  <2>8. QED
    BY <2>2, <2>3, <2>4, <2>5, <2>6, <2>7 DEF TypeOK, RunnerTypes
<1>6. \A q \in Runners : rpc[q] = "run" => rpc'[q] = "run"
  BY DEF TypeOK, RunnerTypes, Start
<1>7. WriterTypes'
  BY <1>6, SameWriterTypes DEF TypeOK, Start, files
<1>8. QED
  BY <1>1, <1>3, <1>5, <1>7 DEF TypeOK, Start, history

\* A step of the repair, which changes the two files of its segment at most.
LEMMA TypesRepair ==
  ASSUME TypeOK, UNCHANGED setting, NEW p \in Runners, Repairs(p),
         FileTypes', Len(raw') = Len(raw),
         \/ Onward(p)
         \/ \E place \in {"cut", "truncate", "rewrite"} : Remain(p, place),
         rview' \in [Runners -> [end : Nat, rebuild : BOOLEAN, account : Seq(Lines)]],
         UNCHANGED <<beat, clock, rtime, todo, writers, history, counters>>
  PROVE  TypeOK'
<1>1. rseg[p] \in 1..rlast[p] /\ rlast[p] \in 0..Len(raw) /\ Len(raw) \in Nat
  BY DEF TypeOK, RunnerTypes, FileTypes
<1>2. RunnerTypes'
  <2>1. rpc' \in [Runners -> {"off", "repair", "cut", "truncate", "rewrite", "list", "run"}]
    BY DEF TypeOK, RunnerTypes, Onward, Remain
  <2>0. \/ /\ rseg[p] < rlast[p] /\ rseg' = [rseg EXCEPT ![p] = rseg[p] + 1] /\ UNCHANGED rlast
        \/ /\ rpc' = [rpc EXCEPT ![p] = "list"]
           /\ rseg' = [rseg EXCEPT ![p] = 0] /\ rlast' = [rlast EXCEPT ![p] = 0]
        \/ UNCHANGED <<rseg, rlast>>
    BY DEF Onward, Remain
  <2>6. rseg \in [Runners -> Nat] /\ rlast \in [Runners -> 0..Len(raw)]
    BY DEF TypeOK, RunnerTypes
  <2>2. rseg' \in [Runners -> Nat]
    BY <2>0, <2>6, <1>1
  <2>3. rlast' \in [Runners -> 0..Len(raw)']
    <3>1. rlast' \in [Runners -> 0..Len(raw)]
      BY <2>0, <2>6, <1>1
    <3>2. QED
      BY <3>1
  <2>4. ASSUME NEW q \in Runners, Repairs(q)' PROVE rseg'[q] \in 1..rlast'[q]
    <3>1. CASE q = p
      BY <3>1, <2>0, <2>4, <1>1 DEF TypeOK, RunnerTypes, Repairs
    <3>2. CASE q # p
      <4>1. Repairs(q)
        BY <3>2, <2>4 DEF TypeOK, RunnerTypes, Repairs, Onward, Remain
      <4>2. rseg'[q] = rseg[q] /\ rlast'[q] = rlast[q]
        BY <3>2, <2>0 DEF TypeOK, RunnerTypes
      <4>3. QED
        BY <4>1, <4>2 DEF TypeOK, RunnerTypes
    <3>3. QED
      BY <3>1, <3>2
  <2>5. QED
    BY <2>1, <2>2, <2>3, <2>4 DEF TypeOK, RunnerTypes
<1>3. \A q \in Runners : rpc[q] = "run" => rpc'[q] = "run"
  BY DEF Onward, Remain, Repairs, TypeOK, RunnerTypes
<1>4. WriterTypes'
  BY <1>3, SameWriterTypes DEF TypeOK
<1>5. QED
  BY <1>2, <1>4 DEF TypeOK, history, counters

LEMMA TypesRead ==
  ASSUME TypeOK, FilesInv, UNCHANGED setting, NEW p \in Runners, RepairRead(p)
  PROVE  TypeOK'
<1> DEFINE s == rseg[p]
<1>1. rpc[p] = "repair" /\ Repairs(p) /\ s \in Segments
  BY DEF RepairRead, TypeOK, RunnerTypes, FileTypes, Repairs, Segments
<1>2. raw[s] \in Seq(Cells) /\ idx[s] \in Seq(Lines) /\ Shape(raw[s])
  BY <1>1, SegmentTyped DEF TypeOK, FilesInv
<1>3. EntriesEnd(raw[s], idx[s]) \in Nat /\ Account(raw[s]) \in Seq(Lines)
  BY <1>2, EndIs, CountTyped, AccountTrue
<1> DEFINE seen == [end |-> EntriesEnd(raw[s], idx[s]), rebuild |-> ~Listed(raw[s], idx[s]),
                    account |-> IF Listed(raw[s], idx[s]) THEN <<>> ELSE Account(raw[s])]
<1>4. seen \in [end : Nat, rebuild : BOOLEAN, account : Seq(Lines)]
  BY <1>3 DEF Listed
<1>5. rview' = [rview EXCEPT ![p] = seen] \/ rview' = rview
  BY DEF RepairRead
<1>6. rview' \in [Runners -> [end : Nat, rebuild : BOOLEAN, account : Seq(Lines)]]
  BY <1>4, <1>5 DEF TypeOK, RunnerTypes
<1>7. FileTypes' /\ Len(raw') = Len(raw)
  BY SameFiles DEF TypeOK, RepairRead, files
<1>8. Onward(p) \/ \E place \in {"cut", "truncate", "rewrite"} : Remain(p, place)
  BY DEF RepairRead
<1>9. QED
  BY <1>1, <1>6, <1>7, <1>8, TypesRepair DEF RepairRead

\* Only the files of segment s change.
Replaced(s, f, ix, n) ==
    /\ raw' = [raw EXCEPT ![s] = f] /\ idx' = [idx EXCEPT ![s] = ix]
    /\ synced' = [synced EXCEPT ![s] = n] /\ UNCHANGED stamp

LEMMA Replacing ==
  ASSUME FileTypes, NEW s \in Segments, NEW f \in Seq(Cells), NEW ix \in Seq(Lines),
         NEW n \in 0..Len(f), Replaced(s, f, ix, n)
  PROVE  /\ FileTypes' /\ Segments' = Segments /\ Len(raw') = Len(raw)
         /\ raw'[s] = f /\ idx'[s] = ix /\ synced'[s] = n
         /\ \A t \in Segments : t # s => /\ raw'[t] = raw[t] /\ idx'[t] = idx[t]
                                         /\ synced'[t] = synced[t]
<1>1. /\ raw \in Seq(Seq(Cells)) /\ s \in 1..Len(raw)
      /\ idx \in Seq(Seq(Lines)) /\ s \in 1..Len(idx)
      /\ synced \in Seq(Nat) /\ s \in 1..Len(synced) /\ n \in Nat
      /\ Len(idx) = Len(raw) /\ Len(synced) = Len(raw) /\ Len(stamp) = Len(raw)
  BY DEF FileTypes, Segments
<1>2. /\ raw' \in Seq(Seq(Cells)) /\ Len(raw') = Len(raw) /\ raw'[s] = f
      /\ \A t \in 1..Len(raw) : t # s => raw'[t] = raw[t]
  BY <1>1, SeqExcept DEF Replaced
<1>3. /\ idx' \in Seq(Seq(Lines)) /\ Len(idx') = Len(idx) /\ idx'[s] = ix
      /\ \A t \in 1..Len(idx) : t # s => idx'[t] = idx[t]
  BY <1>1, SeqExcept DEF Replaced
<1>4. /\ synced' \in Seq(Nat) /\ Len(synced') = Len(synced) /\ synced'[s] = n
      /\ \A t \in 1..Len(synced) : t # s => synced'[t] = synced[t]
  BY <1>1, SeqExcept DEF Replaced
<1>5. Segments' = Segments /\ Segments = 1..Len(raw)
  BY <1>2 DEF Segments
<1>6. \A t \in Segments : synced'[t] <= Len(raw'[t])
  <2>1. TAKE t \in Segments
  <2>2. CASE t = s
    BY <2>2, <1>2, <1>4
  <2>3. CASE t # s
    BY <2>3, <1>1, <1>2, <1>4, <1>5 DEF FileTypes
  <2>4. QED
    BY <2>2, <2>3
<1>7. FileTypes'
  BY <1>1, <1>2, <1>3, <1>4, <1>5, <1>6 DEF FileTypes, Replaced
<1>8. QED
  BY <1>1, <1>2, <1>3, <1>4, <1>5, <1>7

LEMMA KeptCell == ASSUME NEW S, NEW q \in Seq(S), NEW i \in 1..Len(q)
                  PROVE  [q EXCEPT ![i] = q[i]] = q
<1>1. q \in [1..Len(q) -> S]
  OBVIOUS
<1>2. QED
  BY <1>1

\* What the steps that change a segment do to it, action by action.
LEMMA ReplacedBy ==
  ASSUME FileTypes, NEW s \in Segments
  PROVE  /\ \A f : raw' = [raw EXCEPT ![s] = f] /\ UNCHANGED <<idx, synced, stamp>>
                     => Replaced(s, f, idx[s], synced[s])
         /\ \A ix : idx' = [idx EXCEPT ![s] = ix] /\ UNCHANGED <<raw, synced, stamp>>
                     => Replaced(s, raw[s], ix, synced[s])
         /\ \A n : synced' = [synced EXCEPT ![s] = n] /\ UNCHANGED <<raw, idx, stamp>>
                     => Replaced(s, raw[s], idx[s], n)
         /\ \A f, n : /\ raw' = [raw EXCEPT ![s] = f] /\ synced' = [synced EXCEPT ![s] = n]
                      /\ UNCHANGED <<idx, stamp>>
                     => Replaced(s, f, idx[s], n)
<1>1. /\ raw \in Seq(Seq(Cells)) /\ s \in 1..Len(raw)
      /\ idx \in Seq(Seq(Lines)) /\ s \in 1..Len(idx)
      /\ synced \in Seq(Nat) /\ s \in 1..Len(synced)
  BY DEF FileTypes, Segments
<1>2. /\ [raw EXCEPT ![s] = raw[s]] = raw /\ [idx EXCEPT ![s] = idx[s]] = idx
      /\ [synced EXCEPT ![s] = synced[s]] = synced
  BY <1>1, KeptCell
<1>3. QED
  BY <1>2 DEF Replaced

LEMMA RepairsAt == ASSUME TypeOK, NEW p \in Runners, Repairs(p) PROVE rseg[p] \in Segments
BY DEF TypeOK, RunnerTypes, FileTypes, Segments

\* Where the end of a whole record is, the file is cut.
LEMMA CutIs ==
  ASSUME TypeOK, FilesInv, RepairInv, NEW p \in Runners, RepairCut(p)
  PROVE  LET s == rseg[p]
             n == 2 * Count(raw[s])
         IN  /\ s \in Segments /\ rpc[p] = "cut"
             /\ n \in 0..Len(raw[s]) /\ Resized(raw[s], n) \in Seq(Cells)
             /\ Len(Resized(raw[s], n)) = n
             /\ Replaced(s, Resized(raw[s], n), idx[s], IF synced[s] < n THEN synced[s] ELSE n)
<1> DEFINE s == rseg[p]
           n == 2 * Count(raw[s])
<1>1. s \in Segments /\ rpc[p] = "cut" /\ rview[p].end = n
  <2>1. rpc[p] = "cut" /\ Repairs(p)
    BY DEF RepairCut, Repairs
  <2>2. QED
    BY <2>1, RepairsAt DEF RepairInv
<1>2. raw[s] \in Seq(Cells) /\ Shape(raw[s])
  BY <1>1, SegmentTyped DEF TypeOK, FilesInv
<1>3. n \in 0..Len(raw[s])
  BY <1>2, CountTyped
<1>4. /\ raw' = [raw EXCEPT ![s] = Resized(raw[s], n)]
      /\ synced' = [synced EXCEPT ![s] = IF synced[s] < n THEN synced[s] ELSE n]
      /\ UNCHANGED <<idx, stamp>>
  <2>1. /\ raw' = [raw EXCEPT ![s] = Resized(@, n)]
        /\ synced' = [synced EXCEPT ![s] = IF @ < n THEN @ ELSE n]
        /\ UNCHANGED <<idx, stamp>>
    BY <1>1 DEF RepairCut
  <2>2. QED
    BY <2>1
<1>5. Resized(raw[s], n) \in Seq(Cells) /\ Len(Resized(raw[s], n)) = n
  BY <1>2, <1>3, ResizedTyped
<1>6. QED
  BY <1>1, <1>3, <1>4, <1>5, ReplacedBy DEF TypeOK

LEMMA TruncateIs ==
  ASSUME TypeOK, NEW p \in Runners, RepairTruncate(p)
  PROVE  /\ rseg[p] \in Segments /\ rpc[p] = "truncate"
         /\ Replaced(rseg[p], raw[rseg[p]], <<>>, synced[rseg[p]])
<1>1. rseg[p] \in Segments /\ rpc[p] = "truncate"
  BY RepairsAt DEF RepairTruncate, Repairs
<1>2. QED
  BY <1>1, ReplacedBy DEF RepairTruncate, TypeOK

LEMMA RewriteIs ==
  ASSUME TypeOK, FilesInv, RepairInv, NEW p \in Runners, RepairRewrite(p)
  PROVE  /\ rseg[p] \in Segments /\ rpc[p] = "rewrite"
         /\ Account(raw[rseg[p]]) \in Seq(Lines)
         /\ Replaced(rseg[p], raw[rseg[p]], Account(raw[rseg[p]]), synced[rseg[p]])
<1> DEFINE s == rseg[p]
           a == Account(raw[s])
<1>1. s \in Segments /\ rpc[p] = "rewrite" /\ idx[s] = <<>> /\ rview[p].account = a
  <2>1. rpc[p] = "rewrite" /\ Repairs(p)
    BY DEF RepairRewrite, Repairs
  <2>2. QED
    BY <2>1, RepairsAt DEF RepairInv
<1>2. a \in Seq(Lines)
  BY <1>1, SegmentTyped, AccountTrue DEF TypeOK, FilesInv
<1>3. Overwritten(<<>>, a) = a
  <2>1. Len(<<>>) = 0 /\ Len(a) \in Nat
    BY <1>2
  <2>2. QED
    BY <2>1 DEF Overwritten
<1>4. idx' = [idx EXCEPT ![s] = a] /\ UNCHANGED <<raw, synced, stamp>>
  BY <1>1, <1>3 DEF RepairRewrite
<1>5. QED
  BY <1>1, <1>2, <1>4, ReplacedBy DEF TypeOK

LEMMA TypesMend ==
  ASSUME TypeOK, FilesInv, RepairInv, UNCHANGED setting, NEW p \in Runners,
         RepairCut(p) \/ RepairTruncate(p) \/ RepairRewrite(p)
  PROVE  TypeOK'
<1>1. NoView \in [end : Nat, rebuild : BOOLEAN, account : Seq(Lines)]
  BY DEF NoView
<1>2. rview' \in [Runners -> [end : Nat, rebuild : BOOLEAN, account : Seq(Lines)]]
  <2>1. rview' = [rview EXCEPT ![p] = NoView] \/ rview' = rview
    BY DEF RepairCut, RepairTruncate, RepairRewrite, repairs
  <2>2. QED
    BY <1>1, <2>1 DEF TypeOK, RunnerTypes
<1>3. Onward(p) \/ \E place \in {"cut", "truncate", "rewrite"} : Remain(p, place)
  BY DEF RepairCut, RepairTruncate, RepairRewrite, Remain, repairs
<1>4. FileTypes' /\ Len(raw') = Len(raw)
  <2>1. CASE RepairCut(p)
    <3>1. rseg[p] \in Segments /\ idx[rseg[p]] \in Seq(Lines) /\ synced[rseg[p]] \in Nat
      BY <2>1, CutIs, SegmentTyped DEF TypeOK
    <3>2. QED
      BY <2>1, <3>1, CutIs, Replacing DEF TypeOK
  <2>2. CASE RepairTruncate(p)
    <3>1. rseg[p] \in Segments /\ raw[rseg[p]] \in Seq(Cells) /\ <<>> \in Seq(Lines)
          /\ synced[rseg[p]] \in 0..Len(raw[rseg[p]])
      BY <2>2, TruncateIs, SegmentTyped DEF TypeOK
    <3>2. QED
      BY <2>2, <3>1, TruncateIs, Replacing DEF TypeOK
  <2>3. CASE RepairRewrite(p)
    <3>1. rseg[p] \in Segments /\ raw[rseg[p]] \in Seq(Cells)
          /\ synced[rseg[p]] \in 0..Len(raw[rseg[p]])
      BY <2>3, RewriteIs, SegmentTyped DEF TypeOK
    <3>2. QED
      BY <2>3, <3>1, RewriteIs, Replacing DEF TypeOK
  <2>4. QED
    BY <2>1, <2>2, <2>3
<1>5. Repairs(p) /\ UNCHANGED <<beat, clock, rtime, todo, writers, history, counters>>
  BY DEF RepairCut, RepairTruncate, RepairRewrite, Repairs
<1>6. QED
  BY <1>2, <1>3, <1>4, <1>5, TypesRepair

LEMMA WriterAt ==
  ASSUME TypeOK, NEW w \in Writers
  PROVE  /\ w[1] \in Runners /\ w[2] \in Threads /\ w = <<w[1], w[2]>>
         /\ wpc[w] \notin {"idle", "create"} => wseg[w] \in Segments
         /\ wseg[w] # 0 => wseg[w] \in Segments
         /\ wpc[w] # "idle" => rpc[w[1]] = "run" /\ wrec[w] \in Records
BY DEF Writers, TypeOK, FileTypes, WriterTypes, Segments

\* Only thread w moves, and its new state is of its type.
OnlyWriter(w) ==
    /\ wpc' = [wpc EXCEPT ![w] = wpc'[w]] /\ wrec' = [wrec EXCEPT ![w] = wrec'[w]]
    /\ wseg' = [wseg EXCEPT ![w] = wseg'[w]] /\ wat' = [wat EXCEPT ![w] = wat'[w]]
    /\ wcount' = [wcount EXCEPT ![w] = wcount'[w]]

WriterTyped(w) ==
    /\ wpc'[w] \in {"idle", "create", "index", "tell", "append", "half", "whole", "synced"}
    /\ wrec'[w] \in Records \cup {NoRecord} /\ wat'[w] \in Nat /\ wcount'[w] \in Nat
    /\ wpc'[w] # "idle" => rpc[w[1]] = "run" /\ wrec'[w] \in Records
    /\ wseg'[w] \in 0..Len(raw')
    /\ wpc'[w] \notin {"idle", "create"} => wseg'[w] # 0
    /\ wseg'[w] # 0 => \A v \in Writers : v # w => wseg[v] # wseg'[w]

LEMMA TypesWriter ==
  ASSUME TypeOK, UNCHANGED setting, NEW w \in Writers, OnlyWriter(w), WriterTyped(w),
         UNCHANGED <<beat, clock, rpc, rtime, repairs, counters>>,
         FileTypes', Len(raw) <= Len(raw'),
         todo' \in [Runners -> SUBSET Keys], born' \in Nat, acked' \subseteq Records
  PROVE  TypeOK'
<1>1. Len(raw) \in Nat /\ Len(raw') \in Nat
  BY DEF TypeOK, FileTypes
<1>2. RunnerTypes'
  BY <1>1 DEF TypeOK, RunnerTypes, repairs, Repairs
<1>3. /\ wpc' \in [Writers -> {"idle", "create", "index", "tell", "append", "half", "whole", "synced"}]
      /\ wrec' \in [Writers -> Records \cup {NoRecord}]
      /\ wat' \in [Writers -> Nat] /\ wcount' \in [Writers -> Nat]
  BY DEF OnlyWriter, WriterTyped, TypeOK, WriterTypes
<1>4. wseg' \in [Writers -> 0..Len(raw')]
  <2>1. wseg \in [Writers -> 0..Len(raw)]
    BY DEF TypeOK, WriterTypes
  <2>2. QED
    BY <1>1, <2>1 DEF OnlyWriter, WriterTyped
<1>5. \A v \in Writers : v # w => wpc'[v] = wpc[v] /\ wrec'[v] = wrec[v] /\ wseg'[v] = wseg[v]
  BY DEF OnlyWriter, TypeOK, WriterTypes
<1>6. ASSUME NEW v \in Writers
      PROVE  /\ wpc'[v] # "idle" => rpc'[v[1]] = "run" /\ wrec'[v] \in Records
             /\ wpc'[v] \notin {"idle", "create"} => wseg'[v] # 0
  BY <1>5 DEF WriterTyped, TypeOK, WriterTypes
<1>7. ASSUME NEW v \in Writers, NEW u \in Writers, wseg'[v] = wseg'[u], v # u PROVE wseg'[v] = 0
  BY <1>5, <1>7 DEF WriterTyped, TypeOK, WriterTypes
<1>8. WriterTypes'
  BY <1>3, <1>4, <1>6, <1>7 DEF WriterTypes, Writers
<1>9. QED
  BY <1>2, <1>8 DEF TypeOK, counters

\* Which files a thread's step changes.
LEMMA WritesTo ==
  ASSUME TypeOK, NEW w \in Writers, wpc[w] \notin {"idle", "create"}
  PROVE  LET s == wseg[w]
         IN /\ s \in Segments
            /\ CreateIdx(w) => Replaced(s, raw[s], <<>>, synced[s])
            /\ \A part \in {1, 2} : /\ <<wrec[w], part>> \in Cells
                                    /\ \A from, to : WriteCell(w, from, to, part) =>
                                          Replaced(s, Append(raw[s], <<wrec[w], part>>), idx[s], synced[s])
            /\ Sync(w) => Replaced(s, raw[s], idx[s], Len(raw[s]))
            /\ WriteLine(w) => \E ix \in LineWritten(w) : Replaced(s, raw[s], ix, synced[s])
<1> DEFINE s == wseg[w]
<1>1. s \in Segments /\ wrec[w] \in Records
  BY WriterAt
<1>2. \A part \in {1, 2} : <<wrec[w], part>> \in Cells
  BY <1>1 DEF Cells
<1>3. CreateIdx(w) => Replaced(s, raw[s], <<>>, synced[s])
  BY <1>1, ReplacedBy DEF CreateIdx, TypeOK
<1>4. ASSUME NEW part \in {1, 2}, NEW from, NEW to, WriteCell(w, from, to, part)
      PROVE  Replaced(s, Append(raw[s], <<wrec[w], part>>), idx[s], synced[s])
  <2>1. raw' = [raw EXCEPT ![s] = Append(@, <<wrec[w], part>>)] /\ UNCHANGED <<idx, synced, stamp>>
    BY <1>4 DEF WriteCell
  <2>2. raw' = [raw EXCEPT ![s] = Append(raw[s], <<wrec[w], part>>)]
    BY <2>1
  <2>3. QED
    BY <1>1, <2>1, <2>2, ReplacedBy DEF TypeOK
<1>5. Sync(w) => Replaced(s, raw[s], idx[s], Len(raw[s]))
  BY <1>1, ReplacedBy DEF Sync, TypeOK
<1>6. WriteLine(w) => \E ix \in LineWritten(w) : Replaced(s, raw[s], ix, synced[s])
  BY <1>1, ReplacedBy DEF WriteLine, TypeOK
<1>7. QED
  BY <1>1, <1>2, <1>3, <1>4, <1>5, <1>6

LEMMA LineWrittenIs ==
  ASSUME TypeOK, NEW w \in Writers, wpc[w] = "synced", NEW ix \in LineWritten(w)
  PROVE  /\ ix \in Seq(Lines)
         /\ \A i \in 1..Len(ix) : \/ ix[i].torn \/ ix[i] = Line(wrec[w], wat[w])
                                  \/ \E k \in 1..Len(idx[wseg[w]]) : ix[i] = idx[wseg[w]][k]
<1> DEFINE old == idx[wseg[w]]
           l == Line(wrec[w], wat[w])
<1>1. wrec[w] \in Records /\ wat[w] \in Nat /\ old \in Seq(Lines)
  BY WriterAt, SegmentTyped DEF TypeOK, WriterTypes
<1>2. l \in Lines /\ TornLine \in Lines /\ TornLine.torn
  BY <1>1 DEF Line, TornLine, Lines, Records, Statuses
<1>3. ix \in {AppendLine(old, l), old, AppendLine(old, TornLine)}
  BY DEF LineWritten
<1>4. CASE ix = old
  BY <1>1, <1>4
<1>5. CASE ix = AppendLine(old, l)
  BY <1>1, <1>2, <1>5, AppendLineIs
<1>6. CASE ix = AppendLine(old, TornLine)
  BY <1>1, <1>2, <1>6, AppendLineIs
<1>7. QED
  BY <1>3, <1>4, <1>5, <1>6

LEMMA WriterMoves ==
  ASSUME TypeOK, NEW w \in Writers, Take(w) \/ Appending(w) \/ WriteFails(w)
  PROVE  OnlyWriter(w) /\ UNCHANGED <<beat, clock, rpc, rtime, repairs, counters>>
<1>1. /\ wpc = [wpc EXCEPT ![w] = wpc[w]] /\ wrec = [wrec EXCEPT ![w] = wrec[w]]
      /\ wseg = [wseg EXCEPT ![w] = wseg[w]] /\ wat = [wat EXCEPT ![w] = wat[w]]
      /\ wcount = [wcount EXCEPT ![w] = wcount[w]]
  BY DEF TypeOK, WriterTypes
<1>2. /\ \A x : wpc' = [wpc EXCEPT ![w] = x] => wpc'[w] = x
      /\ \A x : wrec' = [wrec EXCEPT ![w] = x] => wrec'[w] = x
      /\ \A x : wseg' = [wseg EXCEPT ![w] = x] => wseg'[w] = x
      /\ \A x : wat' = [wat EXCEPT ![w] = x] => wat'[w] = x
      /\ \A x : wcount' = [wcount EXCEPT ![w] = x] => wcount'[w] = x
  BY DEF TypeOK, WriterTypes
<1>3. CASE Take(w)
  BY <1>1, <1>2, <1>3 DEF Take, Goto, OnlyWriter
<1>4. CASE CreateRaw(w)
  BY <1>1, <1>2, <1>4 DEF CreateRaw, Goto, OnlyWriter, others
<1>5. CASE CreateIdx(w)
  BY <1>1, <1>2, <1>5 DEF CreateIdx, Goto, OnlyWriter, others
<1>6. CASE TellEnd(w)
  BY <1>1, <1>2, <1>6 DEF TellEnd, Goto, OnlyWriter, others
<1>7. CASE WriteHead(w) \/ WriteRest(w)
  BY <1>1, <1>2, <1>7 DEF WriteHead, WriteRest, WriteCell, Goto, OnlyWriter, others
<1>8. CASE Sync(w)
  BY <1>1, <1>2, <1>8 DEF Sync, Goto, OnlyWriter, others
<1>9. CASE WriteLine(w)
  BY <1>1, <1>2, <1>9 DEF WriteLine, Goto, OnlyWriter
<1>10. CASE WriteFails(w)
  BY <1>1, <1>2, <1>10 DEF WriteFails, Goto, OnlyWriter, others
<1>11. QED
  BY <1>3, <1>4, <1>5, <1>6, <1>7, <1>8, <1>9, <1>10 DEF Appending

LEMMA TypesTake ==
  ASSUME TypeOK, UNCHANGED setting, NEW w \in Writers, Take(w)
  PROVE  TypeOK'
<1>1. OnlyWriter(w) /\ UNCHANGED <<beat, clock, rpc, rtime, repairs, counters>>
  BY WriterMoves
<1>2. FileTypes' /\ raw' = raw /\ Len(raw) \in Nat
  BY SameFiles DEF Take, TypeOK, files, FileTypes
<1>3. born \in Nat /\ born' = born + 1 /\ acked' = acked /\ acked \subseteq Records
  BY DEF Take, TypeOK
<1>4. PICK k \in todo[w[1]], st \in Statuses :
            /\ todo' = [todo EXCEPT ![w[1]] = @ \ {k}]
            /\ wrec' = [wrec EXCEPT ![w] = [key |-> k, status |-> st, id |-> born + 1]]
  BY DEF Take
<1>5. w[1] \in Runners /\ todo \in [Runners -> SUBSET Keys]
  BY WriterAt DEF TypeOK, RunnerTypes
<1>6. todo' \in [Runners -> SUBSET Keys] /\ k \in Keys
  BY <1>4, <1>5
<1>7. [key |-> k, status |-> st, id |-> born + 1] \in Records
  BY <1>3, <1>6 DEF Records
<1>8. wrec'[w] \in Records
  BY <1>4, <1>7 DEF TypeOK, WriterTypes
<1>9. WriterTyped(w)
  <2>1. /\ wpc'[w] = IF NeedsSegment(w) THEN "create" ELSE "tell"
        /\ wseg' = wseg /\ wat' = wat /\ wcount' = wcount /\ rpc[w[1]] = "run"
    BY DEF Take, Goto, TypeOK, WriterTypes
  <2>2. wpc'[w] = "tell" => wseg'[w] # 0
    BY <2>1 DEF NeedsSegment
  <2>3. /\ wseg[w] \in 0..Len(raw) /\ wat[w] \in Nat /\ wcount[w] \in Nat
        /\ \A v \in Writers : wseg[v] = wseg[w] => v = w \/ wseg[v] = 0
    BY DEF TypeOK, WriterTypes
  <2>4. QED
    BY <1>2, <1>8, <2>1, <2>2, <2>3 DEF WriterTyped
<1>10. QED
  BY <1>1, <1>2, <1>3, <1>6, <1>9, TypesWriter

LEMMA TypesAppending ==
  ASSUME TypeOK, UNCHANGED setting, NEW w \in Writers, Appending(w)
  PROVE  TypeOK'
<1> DEFINE s == wseg[w]
<1>1. OnlyWriter(w) /\ UNCHANGED <<beat, clock, rpc, rtime, repairs, counters>>
  BY WriterMoves
<1>2. todo' \in [Runners -> SUBSET Keys] /\ born' \in Nat
  BY DEF Appending, CreateRaw, CreateIdx, TellEnd, WriteHead, WriteRest, WriteCell, Sync, WriteLine,
         others, history, TypeOK, RunnerTypes
<1>3. wpc[w] # "idle" /\ rpc[w[1]] = "run" /\ wrec[w] \in Records
  <2>1. wpc[w] # "idle"
    BY DEF Appending, CreateRaw, CreateIdx, TellEnd, WriteHead, WriteRest, WriteCell, Sync, WriteLine, At
  <2>2. QED
    BY <2>1, WriterAt
<1>4. acked' \subseteq Records
  BY <1>3 DEF Appending, CreateRaw, CreateIdx, TellEnd, WriteHead, WriteRest, WriteCell, Sync, WriteLine,
         others, history, TypeOK
<1>5. /\ Len(raw) \in Nat /\ s \in 0..Len(raw) /\ wat[w] \in Nat /\ wcount[w] \in Nat
      /\ \A v \in Writers : wseg[v] \in 0..Len(raw) /\ (wseg[v] = s => v = w \/ wseg[v] = 0)
      /\ wpc[w] \notin {"idle", "create"} => s # 0
  BY DEF TypeOK, WriterTypes, FileTypes
<1>6. CASE CreateRaw(w)
  <2>1. /\ raw' = Append(raw, <<>>) /\ idx' = Append(idx, NoIndex)
        /\ synced' = Append(synced, 0) /\ stamp' = Append(stamp, rtime[w[1]])
    BY <1>6 DEF CreateRaw
  <2>2. <<>> \in Seq(Cells) /\ NoIndex \in Seq(Lines) /\ rtime[w[1]] \in Nat
    <3>1. TornLine \in Lines
      BY DEF TornLine, Lines, Statuses
    <3>2. QED
      BY <3>1, WriterAt DEF NoIndex, TypeOK, RunnerTypes
  <2>3. /\ raw \in Seq(Seq(Cells)) /\ idx \in Seq(Seq(Lines)) /\ synced \in Seq(Nat) /\ stamp \in Seq(Nat)
        /\ Len(idx) = Len(raw) /\ Len(synced) = Len(raw) /\ Len(stamp) = Len(raw)
    BY DEF TypeOK, FileTypes
  <2>4. /\ raw' \in Seq(Seq(Cells)) /\ Len(raw') = Len(raw) + 1 /\ raw'[Len(raw) + 1] = <<>>
        /\ \A t \in 1..Len(raw) : raw'[t] = raw[t]
    BY <2>1, <2>2, <2>3, SeqAppend
  <2>5. /\ idx' \in Seq(Seq(Lines)) /\ Len(idx') = Len(raw) + 1
    BY <2>1, <2>2, <2>3, SeqAppend
  <2>6. /\ synced' \in Seq(Nat) /\ Len(synced') = Len(raw) + 1 /\ synced'[Len(raw) + 1] = 0
        /\ \A t \in 1..Len(raw) : synced'[t] = synced[t]
    BY <2>1, <2>2, <2>3, SeqAppend
  <2>7. stamp' \in Seq(Nat) /\ Len(stamp') = Len(raw) + 1
    BY <2>1, <2>2, <2>3, SeqAppend
  <2>8. ASSUME NEW t \in Segments' PROVE synced'[t] <= Len(raw'[t])
    <3>1. CASE t = Len(raw) + 1
      BY <3>1, <2>4, <2>6
    <3>2. CASE t # Len(raw) + 1
      <4>1. t \in Segments
        BY <1>5, <2>4, <3>2 DEF Segments
      <4>2. QED
        BY <4>1, <2>4, <2>6, SegmentTyped DEF TypeOK, Segments
    <3>3. QED
      BY <3>1, <3>2
  <2>9. FileTypes' /\ Len(raw) <= Len(raw')
    <3>1. Len(raw) <= Len(raw') /\ Len(idx') = Len(raw') /\ Len(synced') = Len(raw') /\ Len(stamp') = Len(raw')
      BY <1>5, <2>4, <2>5, <2>6, <2>7
    <3>2. QED
      BY <2>4, <2>5, <2>6, <2>7, <2>8, <3>1 DEF FileTypes
  <2>10. wpc'[w] = "index" /\ wseg'[w] = Len(raw) + 1 /\ UNCHANGED <<wrec, wat, wcount>>
    BY <1>6 DEF CreateRaw, Goto, TypeOK, WriterTypes
  <2>11. WriterTyped(w)
    BY <1>3, <1>5, <2>4, <2>10 DEF WriterTyped
  <2>12. QED
    BY <1>1, <1>2, <1>4, <2>9, <2>11, TypesWriter
<1>7. ASSUME ~CreateRaw(w), s \in Segments, wpc[w] \notin {"idle", "create"}
      PROVE  FileTypes' /\ Len(raw') = Len(raw)
  <2>1. raw[s] \in Seq(Cells) /\ idx[s] \in Seq(Lines) /\ synced[s] \in 0..Len(raw[s]) /\ <<>> \in Seq(Lines)
    BY <1>7, SegmentTyped DEF TypeOK
  <2>2. CASE CreateIdx(w)
    BY <1>7, <2>1, <2>2, WritesTo, Replacing DEF TypeOK
  <2>3. CASE TellEnd(w)
    BY <2>3, SameFiles DEF TellEnd, TypeOK, files
  <2>4. CASE WriteHead(w) \/ WriteRest(w)
    <3>1. PICK part \in {1, 2} : Replaced(s, Append(raw[s], <<wrec[w], part>>), idx[s], synced[s])
      BY <1>7, <2>4, WritesTo DEF WriteHead, WriteRest
    <3>2. /\ Append(raw[s], <<wrec[w], part>>) \in Seq(Cells)
          /\ synced[s] \in 0..Len(Append(raw[s], <<wrec[w], part>>))
      <4>1. <<wrec[w], part>> \in Cells
        BY <1>7, WritesTo
      <4>2. Len(Append(raw[s], <<wrec[w], part>>)) = Len(raw[s]) + 1
        BY <2>1, <4>1
      <4>3. QED
        BY <2>1, <4>1, <4>2
    <3>3. QED
      BY <1>7, <2>1, <3>1, <3>2, Replacing DEF TypeOK
  <2>5. CASE Sync(w)
    <3>1. Len(raw[s]) \in 0..Len(raw[s])
      BY <2>1
    <3>2. QED
      BY <1>7, <2>1, <2>5, <3>1, WritesTo, Replacing DEF TypeOK
  <2>6. CASE WriteLine(w)
    <3>1. PICK ix \in LineWritten(w) : Replaced(s, raw[s], ix, synced[s])
      BY <1>7, <2>6, WritesTo
    <3>2. ix \in Seq(Lines)
      BY <2>6, LineWrittenIs DEF WriteLine, At
    <3>3. QED
      BY <1>7, <2>1, <3>1, <3>2, Replacing DEF TypeOK
  <2>7. QED
    BY <1>7, <2>2, <2>3, <2>4, <2>5, <2>6 DEF Appending
<1>8. CASE ~CreateRaw(w)
  <2>1. wpc[w] \notin {"idle", "create"} /\ s \in Segments
    <3>1. wpc[w] \notin {"idle", "create"}
      BY <1>8 DEF Appending, CreateIdx, TellEnd, WriteHead, WriteRest, WriteCell, Sync, WriteLine, At
    <3>2. QED
      BY <3>1, WriterAt
  <2>2. FileTypes' /\ Len(raw') = Len(raw)
    BY <1>7, <1>8, <2>1
  <2>3. /\ wseg' = wseg
        /\ wpc'[w] \in {"idle", "tell", "append", "half", "whole", "synced"}
        /\ wpc'[w] # "idle" => wrec' = wrec
        /\ wrec'[w] \in Records \cup {NoRecord}
        /\ wcount'[w] \in Nat
    BY <1>3, <1>5, <1>8 DEF Appending, CreateIdx, TellEnd, WriteHead, WriteRest, WriteCell, Sync, WriteLine,
         Goto, TypeOK, WriterTypes
  <2>4. wat'[w] \in Nat
    <3>1. Len(raw[s]) \in Nat
      BY <2>1, SegmentTyped DEF TypeOK
    <3>2. QED
      BY <1>5, <1>8, <3>1 DEF Appending, CreateIdx, TellEnd, WriteHead, WriteRest, WriteCell, Sync, WriteLine,
         TypeOK, WriterTypes
  <2>5. WriterTyped(w)
    BY <1>3, <1>5, <2>1, <2>2, <2>3, <2>4 DEF WriterTyped
  <2>6. Len(raw) <= Len(raw')
    BY <1>5, <2>2
  <2>7. QED
    BY <1>1, <1>2, <1>4, <2>2, <2>5, <2>6, TypesWriter
<1>9. QED
  BY <1>6, <1>8

LEMMA TypesFails ==
  ASSUME TypeOK, UNCHANGED setting, NEW w \in Writers, WriteFails(w)
  PROVE  TypeOK'
<1>1. OnlyWriter(w) /\ UNCHANGED <<beat, clock, rpc, rtime, repairs, counters>>
  BY WriterMoves
<1>2. FileTypes' /\ raw' = raw /\ Len(raw) \in Nat
  BY SameFiles DEF WriteFails, TypeOK, files, FileTypes
<1>3. todo' \in [Runners -> SUBSET Keys] /\ born' \in Nat /\ acked' \subseteq Records
  BY DEF WriteFails, others, history, TypeOK, RunnerTypes
<1>4. /\ wpc'[w] = "idle" /\ wrec'[w] = NoRecord /\ wat'[w] = 0 /\ wseg' = wseg /\ wcount' = wcount
      /\ wseg[w] \in 0..Len(raw) /\ wcount[w] \in Nat
      /\ \A v \in Writers : wseg[v] = wseg[w] => v = w \/ wseg[v] = 0
  BY DEF WriteFails, Goto, TypeOK, WriterTypes
<1>5. WriterTyped(w)
  BY <1>2, <1>4 DEF WriterTyped
<1>6. QED
  BY <1>1, <1>2, <1>3, <1>5, TypesWriter

LEMMA TypesGone ==
  ASSUME TypeOK, NEW p \in Runners, NoThreads(p), Len(raw') = Len(raw),
         \A q \in Runners : rpc[q] = "run" => q = p \/ rpc'[q] = "run"
  PROVE  WriterTypes'
<1>1. \A w \in Writers : w[1] \in Runners /\ wseg[w] \in 0..Len(raw)
  BY DEF TypeOK, WriterTypes, Writers
<1>2. 0 \in 0..Len(raw)
  BY DEF TypeOK, FileTypes
<1>3. /\ wpc' \in [Writers -> {"idle", "create", "index", "tell", "append", "half", "whole", "synced"}]
      /\ wrec' \in [Writers -> Records \cup {NoRecord}]
      /\ wat' \in [Writers -> Nat] /\ wcount' \in [Writers -> Nat] /\ wseg' \in [Writers -> 0..Len(raw')]
  BY <1>1, <1>2 DEF NoThreads, Gone, TypeOK, WriterTypes
<1>4. \A w \in Writers : /\ w[1] = p => wpc'[w] = "idle" /\ wseg'[w] = 0
                         /\ w[1] # p => wpc'[w] = wpc[w] /\ wseg'[w] = wseg[w] /\ wrec'[w] = wrec[w]
  BY DEF NoThreads, Gone
<1>5. ASSUME NEW w \in Writers
      PROVE  /\ wpc'[w] # "idle" => rpc'[w[1]] = "run" /\ wrec'[w] \in Records
             /\ wpc'[w] \notin {"idle", "create"} => wseg'[w] # 0
  BY <1>1, <1>4 DEF TypeOK, WriterTypes
<1>6. ASSUME NEW v \in Writers, NEW w \in Writers, wseg'[v] = wseg'[w], v # w PROVE wseg'[v] = 0
  <2>1. wseg[v] = wseg[w] => wseg[v] = 0
    BY <1>6 DEF TypeOK, WriterTypes
  <2>2. QED
    BY <1>4, <1>6, <2>1
<1>7. QED
  BY <1>3, <1>5, <1>6 DEF WriterTypes, Writers

LEMMA TypesRunner ==
  ASSUME TypeOK, UNCHANGED setting, NEW p \in Runners, List(p) \/ Beat(p) \/ EndRun(p) \/ Kill(p)
  PROVE  TypeOK'
<1>1. FileTypes' /\ raw' = raw
  BY SameFiles DEF List, Beat, EndRun, Kill, TypeOK, files
<1>2. /\ clock' \in Nat /\ born' \in Nat /\ launches' \in Nat /\ crashes' \in Nat /\ acked' \subseteq Records
      /\ beat' \in [state : {"none", "running", "finished"}, by : Runners, fresh : BOOLEAN]
  <2>1. \/ beat' = beat \/ beat' = [state |-> "running", by |-> p, fresh |-> TRUE]
        \/ beat' = [state |-> "finished", by |-> p, fresh |-> FALSE]
    BY DEF List, Beat, EndRun, Kill
  <2>2. beat' \in [state : {"none", "running", "finished"}, by : Runners, fresh : BOOLEAN]
    <3>1. beat \in [state : {"none", "running", "finished"}, by : Runners, fresh : BOOLEAN]
      BY DEF TypeOK
    <3>2. /\ [state |-> "running", by |-> p, fresh |-> TRUE]
               \in [state : {"none", "running", "finished"}, by : Runners, fresh : BOOLEAN]
          /\ [state |-> "finished", by |-> p, fresh |-> FALSE]
               \in [state : {"none", "running", "finished"}, by : Runners, fresh : BOOLEAN]
      OBVIOUS
    <3>3. QED
      BY <2>1, <3>1, <3>2
  <2>3. /\ clock' = clock /\ born' = born /\ launches' = launches /\ acked' = acked
        /\ crashes' = crashes \/ crashes' = crashes + 1
    BY DEF List, Beat, EndRun, Kill, history, counters
  <2>4. QED
    BY <2>2, <2>3 DEF TypeOK
<1>3. WriterTypes'
  <2>1. CASE List(p) \/ Beat(p)
    <3>1. UNCHANGED writers /\ \A q \in Runners : rpc[q] = "run" => rpc'[q] = "run"
      BY <2>1 DEF List, Beat, TypeOK, RunnerTypes
    <3>2. QED
      BY <1>1, <3>1, SameWriterTypes DEF TypeOK
  <2>2. CASE EndRun(p) \/ Kill(p)
    <3>1. NoThreads(p) /\ \A q \in Runners : rpc[q] = "run" => q = p \/ rpc'[q] = "run"
      BY <2>2 DEF EndRun, Kill, TypeOK, RunnerTypes
    <3>2. QED
      BY <1>1, <3>1, TypesGone
  <2>3. QED
    BY <2>1, <2>2
<1>4. RunnerTypes'
  <2>1. rpc' \in [Runners -> {"off", "repair", "cut", "truncate", "rewrite", "list", "run"}]
    BY DEF List, Beat, EndRun, Kill, TypeOK, RunnerTypes
  <2>2. todo' \in [Runners -> SUBSET Keys]
    <3>1. JobsOf[p] \in SUBSET Keys
      BY SettingTyped DEF TypeOK
    <3>2. {k \in JobsOf[p] : StatusOf(k) # "done"} \in SUBSET Keys
      BY <3>1
    <3>3. QED
      BY <3>2 DEF List, Beat, EndRun, Kill, TypeOK, RunnerTypes
  <2>3. /\ rtime' = rtime
        /\ \/ UNCHANGED <<rseg, rlast, rview>>
           \/ /\ rseg' = [rseg EXCEPT ![p] = 0] /\ rlast' = [rlast EXCEPT ![p] = 0]
              /\ rview' = [rview EXCEPT ![p] = NoView] /\ rpc' = [rpc EXCEPT ![p] = "off"]
    BY DEF List, Beat, EndRun, Kill, repairs
  <2>4. /\ rseg \in [Runners -> Nat] /\ rlast \in [Runners -> 0..Len(raw)] /\ Len(raw) \in Nat
        /\ rview \in [Runners -> [end : Nat, rebuild : BOOLEAN, account : Seq(Lines)]]
        /\ rtime \in [Runners -> Nat]
    BY DEF TypeOK, RunnerTypes, FileTypes
  <2>5. rseg' \in [Runners -> Nat] /\ rlast' \in [Runners -> 0..Len(raw)]
    <3>1. rseg' = rseg \/ rseg' = [rseg EXCEPT ![p] = 0]
      BY <2>3
    <3>2. rlast' = rlast \/ rlast' = [rlast EXCEPT ![p] = 0]
      BY <2>3
    <3>3. 0 \in 0..Len(raw)
      BY <2>4
    <3>4. rseg' \in [Runners -> Nat]
      <4>1. rseg \in [Runners -> Nat] /\ 0 \in Nat
        BY <2>4
      <4>2. QED
        BY <3>1, <4>1
    <3>5. rlast' \in [Runners -> 0..Len(raw)]
      BY <2>4, <3>2, <3>3
    <3>6. QED
      BY <3>4, <3>5
  <2>6. rview' \in [Runners -> [end : Nat, rebuild : BOOLEAN, account : Seq(Lines)]]
    <3>1. NoView \in [end : Nat, rebuild : BOOLEAN, account : Seq(Lines)]
      BY DEF NoView
    <3>2. rview' = rview \/ rview' = [rview EXCEPT ![p] = NoView]
      BY <2>3
    <3>3. QED
      BY <2>4, <3>1, <3>2
  <2>7. ASSUME NEW q \in Runners, Repairs(q)' PROVE rseg'[q] \in 1..rlast'[q]
    <3>1. Repairs(q)
      BY <2>7 DEF Repairs, List, Beat, EndRun, Kill, TypeOK, RunnerTypes
    <3>2. q # p \/ UNCHANGED <<rseg, rlast>>
      BY <2>7, <2>3 DEF Repairs, TypeOK, RunnerTypes
    <3>3. rseg'[q] = rseg[q] /\ rlast'[q] = rlast[q]
      BY <2>3, <2>4, <3>2
    <3>4. QED
      BY <3>1, <3>3 DEF TypeOK, RunnerTypes
  <2>8. QED
    BY <1>1, <2>1, <2>2, <2>3, <2>4, <2>5, <2>6, <2>7 DEF RunnerTypes
<1>5. QED
  BY <1>1, <1>2, <1>3, <1>4 DEF TypeOK

\* What a power loss leaves of each file is the start of it, and what was synced.
LEMMA LossIs ==
  ASSUME TypeOK, PowerLoss
  PROVE  /\ FileTypes' /\ Len(raw') = Len(raw) /\ Segments' = Segments
         /\ \A s \in Segments :
               /\ synced[s] <= Len(raw'[s]) /\ Len(raw'[s]) <= Len(raw[s])
               /\ \A i \in 1..Len(raw'[s]) : raw'[s][i] = raw[s][i]
               /\ synced'[s] = Len(raw'[s])
               /\ "key" \notin TornLines =>
                     \A i \in 1..Len(idx'[s]) : \/ idx'[s][i].torn
                                                \/ \E k \in 1..Len(idx[s]) : idx'[s][i] = idx[s][k]
<1>1. /\ Len(raw) \in Nat /\ Segments = 1..Len(raw)
      /\ stamp \in Seq(Nat) /\ Len(stamp) = Len(raw) /\ stamp' = stamp
  BY DEF TypeOK, FileTypes, Segments, PowerLoss
<1>2. ASSUME NEW s \in Segments, NEW g \in LeftOfRaw(s)
      PROVE  /\ g \in Seq(Cells) /\ synced[s] <= Len(g) /\ Len(g) <= Len(raw[s])
             /\ \A i \in 1..Len(g) : g[i] = raw[s][i]
  <2>1. raw[s] \in Seq(Cells) /\ synced[s] \in Nat /\ synced[s] <= Len(raw[s])
    BY SegmentTyped DEF TypeOK
  <2>2. PICK n \in synced[s]..Len(raw[s]) : g = SubSeq(raw[s], 1, n)
    BY <1>2 DEF LeftOfRaw
  <2>3. n \in Nat /\ n <= Len(raw[s]) /\ synced[s] <= n
    BY <2>1, <2>2
  <2>4. g \in Seq(Cells) /\ Len(g) = n /\ \A i \in 1..n : g[i] = raw[s][i]
    BY <2>1, <2>2, <2>3
  <2>5. QED
    BY <2>3, <2>4
<1>3. ASSUME NEW s \in Segments, NEW h \in LeftOfIdx(s)
      PROVE  /\ h \in Seq(Lines)
             /\ "key" \notin TornLines => \A i \in 1..Len(h) : h[i].torn \/ \E k \in 1..Len(idx[s]) : h[i] = idx[s][k]
  <2>1. idx[s] \in Seq(Lines) /\ TornLine \in Lines /\ TornLine.torn
    BY SegmentTyped DEF TypeOK, TornLine, Lines, Statuses
  <2>2. PICK n \in 0..Len(idx[s]) :
           \/ h = SubSeq(idx[s], 1, n)
           \/ h = Append(SubSeq(idx[s], 1, n), TornLine)
           \/ /\ "key" \in TornLines /\ n < Len(idx[s])
              /\ h = Append(SubSeq(idx[s], 1, n), KeyCutLine(idx[s][n + 1]))
    BY <1>3 DEF LeftOfIdx
  <2> DEFINE c == SubSeq(idx[s], 1, n)
  <2>3. c \in Seq(Lines) /\ Len(c) = n /\ \A i \in 1..n : c[i] = idx[s][i] /\ i \in 1..Len(idx[s])
    BY <2>1
  <2> HIDE DEF c
  <2>4. CASE h = c
    BY <2>3, <2>4
  <2>5. CASE h = Append(c, TornLine)
    <3>1. h \in Seq(Lines) /\ Len(h) = n + 1 /\ h[n + 1] = TornLine /\ \A i \in 1..n : h[i] = c[i]
      BY <2>1, <2>3, <2>5, SeqAppend
    <3>2. QED
      BY <2>1, <2>3, <3>1
  <2>6. CASE /\ "key" \in TornLines /\ n < Len(idx[s])
             /\ h = Append(c, KeyCutLine(idx[s][n + 1]))
    <3>1. idx[s][n + 1] \in Lines
      BY <2>1, <2>6
    <3>2. KeyCutLine(idx[s][n + 1]) \in Lines
      BY <3>1 DEF KeyCutLine, Lines
    <3>3. QED
      BY <2>3, <2>6, <3>2, SeqAppend
  <2>7. QED
    BY <2>2, <2>4, <2>5, <2>6 DEF c
<1>4. /\ raw' \in [Segments -> UNION {LeftOfRaw(s) : s \in Segments}]
      /\ idx' \in [Segments -> UNION {LeftOfIdx(s) : s \in Segments}]
      /\ \A s \in Segments : raw'[s] \in LeftOfRaw(s) /\ idx'[s] \in LeftOfIdx(s)
      /\ synced' = [s \in Segments |-> Len(raw'[s])]
  BY DEF PowerLoss
<1>5. raw' \in Seq(Seq(Cells)) /\ Len(raw') = Len(raw)
  <2>1. raw' \in [1..Len(raw) -> Seq(Cells)]
    BY <1>1, <1>2, <1>4
  <2>2. QED
    BY <1>1, <2>1
<1>6. idx' \in Seq(Seq(Lines)) /\ Len(idx') = Len(raw)
  <2>1. idx' \in [1..Len(raw) -> Seq(Lines)]
    BY <1>1, <1>3, <1>4
  <2>2. QED
    BY <1>1, <2>1
<1>7. synced' \in Seq(Nat) /\ Len(synced') = Len(raw)
  <2>1. \A s \in Segments : Len(raw'[s]) \in Nat
    BY <1>2, <1>4
  <2>2. synced' \in [1..Len(raw) -> Nat]
    BY <1>1, <1>4, <2>1
  <2>3. QED
    BY <1>1, <2>2
<1>8. Segments' = Segments
  BY <1>1, <1>5 DEF Segments
<1>9. \A s \in Segments : synced'[s] = Len(raw'[s]) /\ Len(raw'[s]) \in Nat
  BY <1>2, <1>4
<1>10. FileTypes'
  <2>1. \A s \in Segments' : synced'[s] <= Len(raw'[s])
    BY <1>8, <1>9
  <2>2. stamp' \in Seq(Nat) /\ Len(stamp') = Len(raw')
    BY <1>1, <1>5
  <2>3. Len(idx') = Len(raw') /\ Len(synced') = Len(raw')
    BY <1>5, <1>6, <1>7
  <2>4. QED
    BY <1>5, <1>6, <1>7, <2>1, <2>2, <2>3 DEF FileTypes
<1>11. QED
  BY <1>2, <1>3, <1>4, <1>5, <1>8, <1>9, <1>10

LEMMA TypesLoss ==
  ASSUME TypeOK, UNCHANGED setting, PowerLoss
  PROVE  TypeOK'
<1>1. FileTypes' /\ Len(raw') = Len(raw) /\ Len(raw) \in Nat
  BY LossIs DEF TypeOK, FileTypes
<1>2. NoView \in [end : Nat, rebuild : BOOLEAN, account : Seq(Lines)] /\ 0 \in 0..Len(raw')
  BY <1>1 DEF NoView
<1>3. /\ rpc' = [p \in Runners |-> "off"] /\ todo' = [p \in Runners |-> {}]
      /\ rseg' = [p \in Runners |-> 0] /\ rlast' = [p \in Runners |-> 0]
      /\ rview' = [p \in Runners |-> NoView] /\ rtime' = rtime
  BY DEF PowerLoss
<1>4. RunnerTypes'
  BY <1>2, <1>3 DEF RunnerTypes, Repairs, TypeOK
<1>5. /\ wpc' = [w \in Writers |-> "idle"] /\ wrec' = [w \in Writers |-> NoRecord]
      /\ wseg' = [w \in Writers |-> 0] /\ wat' = [w \in Writers |-> 0] /\ wcount' = [w \in Writers |-> 0]
  BY DEF PowerLoss
<1>6. WriterTypes'
  BY <1>2, <1>5 DEF WriterTypes, Writers
<1>7. QED
  BY <1>1, <1>4, <1>6 DEF PowerLoss, TypeOK, history

LEMMA TypesRest ==
  ASSUME TypeOK, UNCHANGED setting, Stale \/ UNCHANGED vars
  PROVE  TypeOK'
<1>1. /\ UNCHANGED <<files, clock, rpc, rtime, repairs, todo, writers, history, counters>>
      /\ beat' = beat \/ beat' = [beat EXCEPT !.fresh = FALSE]
  BY DEF Stale, vars
<1>2. beat \in [state : {"none", "running", "finished"}, by : Runners, fresh : BOOLEAN]
  BY DEF TypeOK
<1>3. beat' \in [state : {"none", "running", "finished"}, by : Runners, fresh : BOOLEAN]
  BY <1>1, <1>2
<1>4. FileTypes'
  BY <1>1, SameFiles DEF TypeOK
<1>5. RunnerTypes'
  BY <1>1, SameRunnerTypes DEF TypeOK, files
<1>6. WriterTypes'
  BY <1>1, SameWriterTypes DEF TypeOK, files
<1>7. QED
  BY <1>1, <1>3, <1>4, <1>5, <1>6 DEF TypeOK, history, counters

\* Every step leaves the types as they are.
LEMMA TypesStep ==
  ASSUME TypeOK, FilesInv, RepairInv, [Next]_<<setting, vars>>
  PROVE  TypeOK'
<1>1. UNCHANGED setting
  BY DEF Next
<1>2. CASE \E p \in Runners : Start(p) \/ Repairing(p) \/ List(p) \/ Beat(p) \/ EndRun(p) \/ Kill(p)
  BY <1>1, <1>2, TypesStart, TypesRead, TypesMend, TypesRunner DEF Repairing
<1>3. CASE \E w \in Writers : Take(w) \/ Appending(w) \/ WriteFails(w)
  BY <1>1, <1>3, TypesTake, TypesAppending, TypesFails
<1>4. CASE PowerLoss
  BY <1>1, <1>4, TypesLoss
<1>5. CASE Stale \/ Over \/ UNCHANGED vars
  BY <1>1, <1>5, TypesRest DEF Over
<1>6. QED
  BY <1>2, <1>3, <1>4, <1>5 DEF Next

-----------------------------------------------------------------------------
(* The files stay whole up to their end.                                   *)

LEMMA FilesReplaced ==
  ASSUME TypeOK, FilesInv, UNCHANGED setting, NEW s \in Segments, NEW f \in Seq(Cells), NEW ix \in Seq(Lines),
         NEW n \in 0..Len(f), Replaced(s, f, ix, n),
         Shape(f), "key" \notin TornLines => LinesTrue(f, ix)
  PROVE  FilesInv'
<1>1. /\ Segments' = Segments /\ raw'[s] = f /\ idx'[s] = ix
      /\ \A t \in Segments : t # s => raw'[t] = raw[t] /\ idx'[t] = idx[t]
  BY Replacing DEF TypeOK
<1>2. TornLines' = TornLines
  BY DEF TornLines
<1>3. QED
  BY <1>1, <1>2 DEF FilesInv

LEMMA SegmentInv ==
  ASSUME TypeOK, FilesInv, NEW s \in Segments
  PROVE  /\ raw[s] \in Seq(Cells) /\ idx[s] \in Seq(Lines) /\ synced[s] \in 0..Len(raw[s])
         /\ Shape(raw[s]) /\ ("key" \notin TornLines => LinesTrue(raw[s], idx[s]))
         /\ Len(raw[s]) \in 0..Len(raw[s])
<1>1. raw[s] \in Seq(Cells) /\ idx[s] \in Seq(Lines) /\ synced[s] \in 0..Len(raw[s])
  BY SegmentTyped DEF TypeOK
<1>2. QED
  BY <1>1 DEF FilesInv

LEMMA FilesMend ==
  ASSUME TypeOK, FilesInv, RepairInv, UNCHANGED setting, NEW p \in Runners,
         RepairCut(p) \/ RepairTruncate(p) \/ RepairRewrite(p)
  PROVE  FilesInv'
<1> DEFINE s == rseg[p]
<1>1. CASE RepairCut(p)
  <2> DEFINE n == 2 * Count(raw[s])
             g == Resized(raw[s], n)
             m == IF synced[s] < n THEN synced[s] ELSE n
  <2>1. s \in Segments /\ n \in 0..Len(raw[s]) /\ g \in Seq(Cells) /\ Len(g) = n /\ Replaced(s, g, idx[s], m)
    BY <1>1, CutIs
  <2>2. /\ raw[s] \in Seq(Cells) /\ idx[s] \in Seq(Lines) /\ synced[s] \in 0..Len(raw[s]) /\ Shape(raw[s])
        /\ "key" \notin TornLines => LinesTrue(raw[s], idx[s])
    BY <2>1, SegmentInv
  <2>3. m \in 0..Len(g)
    BY <2>1, <2>2
  <2>4. \A i \in 1..Len(g) : g[i] = raw[s][i]
    BY <2>2, CutAccount
  <2> HIDE DEF g, m, n
  <2>5. Shape(g) /\ ("key" \notin TornLines => LinesTrue(g, idx[s]))
    BY <2>1, <2>2, <2>4, Prefix
  <2>6. QED
    BY <2>1, <2>2, <2>3, <2>5, FilesReplaced
<1>2. CASE RepairTruncate(p)
  <2>1. s \in Segments /\ Replaced(s, raw[s], <<>>, synced[s])
    BY <1>2, TruncateIs
  <2>2. LinesTrue(raw[s], <<>>) /\ <<>> \in Seq(Lines)
    BY DEF LinesTrue
  <2>3. QED
    BY <2>1, <2>2, SegmentInv, FilesReplaced
<1>3. CASE RepairRewrite(p)
  <2>1. s \in Segments /\ Account(raw[s]) \in Seq(Lines) /\ Replaced(s, raw[s], Account(raw[s]), synced[s])
    BY <1>3, RewriteIs
  <2>2. LinesTrue(raw[s], Account(raw[s]))
    BY <2>1, SegmentInv, AccountTrue
  <2>3. QED
    BY <2>1, <2>2, SegmentInv, FilesReplaced
<1>4. QED
  BY <1>1, <1>2, <1>3

\* What a thread in the middle of its record has in its segment.
LEMMA OpenSegment ==
  ASSUME TypeOK, FilesInv, WritersInv, NEW w \in Writers, wpc[w] \notin {"idle", "create"}
  PROVE  /\ wseg[w] \in Segments /\ WriterInv(w) /\ wrec[w] \in Records /\ wat[w] \in Nat
         /\ raw[wseg[w]] \in Seq(Cells) /\ idx[wseg[w]] \in Seq(Lines)
         /\ synced[wseg[w]] \in 0..Len(raw[wseg[w]]) /\ Shape(raw[wseg[w]])
         /\ "key" \notin TornLines => LinesTrue(raw[wseg[w]], idx[wseg[w]])
         /\ Len(raw[wseg[w]]) \in 0..Len(raw[wseg[w]])
<1>1. wseg[w] # 0 /\ wseg[w] \in Segments /\ wrec[w] \in Records /\ wat[w] \in Nat
  BY WriterAt DEF TypeOK, WriterTypes
<1>2. WriterInv(w)
  BY <1>1 DEF WritersInv
<1>3. QED
  BY <1>1, <1>2, SegmentInv

\* A part of the record goes where it belongs.
LEMMA CellFits ==
  ASSUME TypeOK, FilesInv, WritersInv, NEW w \in Writers,
         WriteHead(w) \/ WriteRest(w)
  PROVE  \E part \in {1, 2} :
            LET s == wseg[w]
                g == Append(raw[s], <<wrec[w], part>>)
            IN /\ Replaced(s, g, idx[s], synced[s])
               /\ <<wrec[w], part>> \in Cells
               /\ g \in Seq(Cells) /\ synced[s] \in 0..Len(g) /\ Shape(g)
               /\ wpc[w] = IF part = 1 THEN "append" ELSE "half"
               /\ Len(g) = wat[w] + part /\ Even(wat[w]) /\ g[wat[w] + 1] = <<wrec[w], 1>>
               /\ g[Len(g)] = <<wrec[w], part>>
               /\ \A i \in 1..Len(raw[s]) : g[i] = raw[s][i]
<1> DEFINE s == wseg[w]
           f == raw[s]
<1>1. PICK part \in {1, 2} : /\ wpc[w] = IF part = 1 THEN "append" ELSE "half"
                             /\ part = 1 => WriteHead(w)
                             /\ part = 2 => WriteRest(w)
  BY DEF WriteHead, WriteRest, WriteCell, At
<1>2. /\ s \in Segments /\ WriterInv(w) /\ wrec[w] \in Records /\ wat[w] \in Nat
      /\ f \in Seq(Cells) /\ synced[s] \in 0..Len(f) /\ Shape(f)
  BY <1>1, OpenSegment
<1> DEFINE g == Append(f, <<wrec[w], part>>)
<1>3. Replaced(s, g, idx[s], synced[s]) /\ <<wrec[w], part>> \in Cells
  BY <1>1, WritesTo DEF WriteHead, WriteRest
<1>4. /\ g \in Seq(Cells) /\ Len(g) = Len(f) + 1 /\ g[Len(f) + 1] = <<wrec[w], part>>
      /\ \A i \in 1..Len(f) : g[i] = f[i]
  BY <1>2, <1>3, SeqAppend
<1>5. Len(f) \in Nat /\ synced[s] \in 0..Len(g)
  BY <1>2, <1>4
<1>6. CASE part = 1
  <2>1. Len(f) = wat[w] /\ Even(Len(f))
    BY <1>1, <1>2, <1>6 DEF WriterInv
  <2>2. Shape(g)
    BY <1>2, <1>3, <1>6, <2>1, Grown
  <2>3. QED
    BY <1>1, <1>3, <1>4, <1>5, <1>6, <2>1, <2>2
<1>7. CASE part = 2
  <2>1. Len(f) = wat[w] + 1 /\ Even(wat[w]) /\ f[wat[w] + 1] = <<wrec[w], 1>>
    BY <1>1, <1>2, <1>7 DEF WriterInv
  <2>2. PICK j \in 0..wat[w] : wat[w] = 2 * j
    BY <2>1 DEF Even
  <2>3. j \in 0..Len(f) /\ Len(f) = 2 * j + 1 /\ <<wrec[w], part>> = <<f[2 * j + 1][1], 2>>
    BY <1>7, <2>1, <2>2
  <2>4. Shape(g)
    BY <1>2, <1>3, <2>3, Grown
  <2>5. /\ Len(g) = wat[w] + part /\ g[wat[w] + 1] = <<wrec[w], 1>>
        /\ g[Len(g)] = <<wrec[w], part>>
    BY <1>2, <1>4, <1>7, <2>1
  <2>6. QED
    BY <1>1, <1>3, <1>4, <1>5, <1>7, <2>1, <2>4, <2>5
<1>8. QED
  BY <1>6, <1>7

\* The new line tells the truth, whatever the disk leaves of it.
LEMMA LineFits ==
  ASSUME TypeOK, FilesInv, WritersInv, NEW w \in Writers, WriteLine(w)
  PROVE  \E ix \in Seq(Lines) :
            LET s == wseg[w]
            IN /\ Replaced(s, raw[s], ix, synced[s])
               /\ "key" \notin TornLines => LinesTrue(raw[s], ix)
               /\ LinesWithin(raw[s], ix)
<1> DEFINE s == wseg[w]
           l == Line(wrec[w], wat[w])
<1>1. wpc[w] = "synced"
  BY DEF WriteLine, At
<1>2. PICK ix \in LineWritten(w) : Replaced(s, raw[s], ix, synced[s])
  BY <1>1, WritesTo
<1>3. ix \in Seq(Lines)
  BY <1>1, LineWrittenIs
<1>4. /\ WriterInv(w) /\ wrec[w] \in Records /\ wat[w] \in Nat
      /\ raw[s] \in Seq(Cells) /\ idx[s] \in Seq(Lines)
      /\ "key" \notin TornLines => LinesTrue(raw[s], idx[s])
  BY <1>1, OpenSegment
<1>5. /\ Len(raw[s]) = wat[w] + 2 /\ Even(wat[w]) /\ raw[s][wat[w] + 1] = <<wrec[w], 1>>
      /\ LinesWithin(raw[s], idx[s])
  <2>1. Len(raw[s]) = wat[w] + 2 /\ Even(wat[w]) /\ raw[s][Len(raw[s]) - 1] = <<wrec[w], 1>>
    BY <1>1, <1>4 DEF WriterInv
  <2>2. Len(raw[s]) - 1 = wat[w] + 1
    BY <1>4, <2>1
  <2>3. QED
    BY <1>4, <2>1, <2>2 DEF WriterInv
<1>6. l.at = wat[w] /\ ~l.torn /\ LineTrue(raw[s], l)
  <2>1. PICK j \in 0..wat[w] : wat[w] = 2 * j
    BY <1>5 DEF Even
  <2>2. raw[s][2 * j + 1][1] = wrec[w]
    BY <1>5, <2>1
  <2>3. l.at = 2 * j /\ j \in 0..l.at /\ l = Line(raw[s][2 * j + 1][1], 2 * j)
    BY <2>1, <2>2 DEF Line
  <2>4. QED
    BY <2>1, <2>3 DEF LineTrue, Line
<1>7. ASSUME NEW i \in 1..Len(ix)
      PROVE  /\ "key" \notin TornLines => LineTrue(raw[s], ix[i])
             /\ ~ix[i].torn => ix[i].at + 2 <= Len(raw[s])
  <2>1. CASE ix[i].torn
    BY <2>1 DEF LineTrue
  <2>2. CASE ix[i] = l
    BY <1>4, <1>5, <1>6, <2>2
  <2>3. CASE \E k \in 1..Len(idx[s]) : ix[i] = idx[s][k]
    BY <1>4, <1>5, <2>3 DEF LinesTrue, LinesWithin
  <2>4. QED
    BY <1>1, <2>1, <2>2, <2>3, LineWrittenIs
<1>8. QED
  BY <1>2, <1>3, <1>7 DEF LinesTrue, LinesWithin

LEMMA FilesAppending ==
  ASSUME TypeOK, FilesInv, WritersInv, UNCHANGED setting, NEW w \in Writers, Appending(w)
  PROVE  FilesInv'
<1> DEFINE s == wseg[w]
<1>1. CASE CreateRaw(w)
  <2>1. raw' = Append(raw, <<>>) /\ idx' = Append(idx, NoIndex) /\ TornLines' = TornLines
    BY <1>1 DEF CreateRaw, TornLines
  <2>2. raw \in Seq(Seq(Cells)) /\ idx \in Seq(Seq(Lines)) /\ Len(idx) = Len(raw) /\ Len(raw) \in Nat
    BY DEF TypeOK, FileTypes
  <2>3. /\ raw'[Len(raw) + 1] = <<>> /\ idx'[Len(raw) + 1] = NoIndex /\ Segments' = 1..(Len(raw) + 1)
        /\ \A t \in Segments : raw'[t] = raw[t] /\ idx'[t] = idx[t]
    BY <2>1, <2>2 DEF Segments
  <2>4. Shape(<<>>) /\ LinesTrue(<<>>, NoIndex)
    BY DEF Shape, LinesTrue, LineTrue, NoIndex, TornLine
  <2>5. QED
    BY <2>1, <2>2, <2>3, <2>4 DEF FilesInv, Segments
<1>2. CASE CreateIdx(w)
  <2>1. wpc[w] \notin {"idle", "create"}
    BY <1>2 DEF CreateIdx, At
  <2>2. s \in Segments /\ Replaced(s, raw[s], <<>>, synced[s])
    BY <1>2, <2>1, WritesTo
  <2>3. LinesTrue(raw[s], <<>>) /\ <<>> \in Seq(Lines)
    BY DEF LinesTrue
  <2>4. QED
    BY <2>2, <2>3, SegmentInv, FilesReplaced
<1>3. CASE TellEnd(w)
  BY <1>3 DEF TellEnd, files, FilesInv, Segments, TornLines
<1>4. CASE WriteHead(w) \/ WriteRest(w)
  <2>1. wpc[w] \notin {"idle", "create"}
    BY <1>4 DEF WriteHead, WriteRest, WriteCell, At
  <2>2. PICK part \in {1, 2} :
            LET g == Append(raw[s], <<wrec[w], part>>)
            IN /\ Replaced(s, g, idx[s], synced[s]) /\ <<wrec[w], part>> \in Cells
               /\ g \in Seq(Cells) /\ synced[s] \in 0..Len(g) /\ Shape(g)
    BY <1>4, CellFits
  <2>3. /\ s \in Segments /\ WriterInv(w) /\ raw[s] \in Seq(Cells) /\ idx[s] \in Seq(Lines)
        /\ "key" \notin TornLines => LinesTrue(raw[s], idx[s])
    BY <2>1, OpenSegment
  <2>4. "key" \notin TornLines => LinesTrue(Append(raw[s], <<wrec[w], part>>), idx[s])
    BY <2>2, <2>3, GrownLines DEF WriterInv
  <2>5. QED
    BY <2>2, <2>3, <2>4, FilesReplaced
<1>5. CASE Sync(w)
  <2>1. wpc[w] \notin {"idle", "create"}
    BY <1>5 DEF Sync, At
  <2>2. s \in Segments /\ Replaced(s, raw[s], idx[s], Len(raw[s]))
    BY <1>5, <2>1, WritesTo
  <2>3. QED
    BY <2>2, SegmentInv, FilesReplaced
<1>6. CASE WriteLine(w)
  <2>1. s \in Segments
    BY <1>6, OpenSegment DEF WriteLine, At
  <2>2. QED
    BY <1>6, <2>1, LineFits, SegmentInv, FilesReplaced
<1>7. QED
  BY <1>1, <1>2, <1>3, <1>4, <1>5, <1>6 DEF Appending

LEMMA FilesStep ==
  ASSUME TypeOK, FilesInv, RepairInv, WritersInv, [Next]_<<setting, vars>>
  PROVE  FilesInv'
<1>0. UNCHANGED setting
  BY DEF Next
<1>1. CASE UNCHANGED files
  BY <1>0, <1>1 DEF files, FilesInv, Segments, TornLines
<1>2. CASE \E p \in Runners : RepairCut(p) \/ RepairTruncate(p) \/ RepairRewrite(p)
  BY <1>0, <1>2, FilesMend
<1>3. CASE \E w \in Writers : Appending(w)
  BY <1>0, <1>3, FilesAppending
<1>4. CASE PowerLoss
  <2>1. TornLines' = TornLines /\ Segments' = Segments
    BY <1>0, <1>4, LossIs DEF TornLines
  <2>2. ASSUME NEW s \in Segments
        PROVE  Shape(raw'[s]) /\ ("key" \notin TornLines => LinesTrue(raw'[s], idx'[s]))
    <3>1. /\ raw[s] \in Seq(Cells) /\ idx[s] \in Seq(Lines) /\ Shape(raw[s])
          /\ "key" \notin TornLines => LinesTrue(raw[s], idx[s])
      BY SegmentInv
    <3>2. raw'[s] \in Seq(Cells)
      BY <1>4, <2>1, LossIs DEF FileTypes, Segments
    <3>3. /\ Len(raw'[s]) <= Len(raw[s]) /\ \A i \in 1..Len(raw'[s]) : raw'[s][i] = raw[s][i]
      BY <1>4, LossIs
    <3>4. Shape(raw'[s]) /\ (LinesTrue(raw[s], idx[s]) => LinesTrue(raw'[s], idx[s]))
      BY <3>1, <3>2, <3>3, Prefix
    <3>5. ASSUME "key" \notin TornLines, NEW i \in 1..Len(idx'[s]) PROVE LineTrue(raw'[s], idx'[s][i])
      <4>1. CASE idx'[s][i].torn
        BY <4>1 DEF LineTrue
      <4>2. CASE \E k \in 1..Len(idx[s]) : idx'[s][i] = idx[s][k]
        BY <3>1, <3>4, <3>5, <4>2 DEF LinesTrue
      <4>3. QED
        BY <1>4, <3>5, <4>1, <4>2, LossIs
    <3>6. QED
      BY <3>4, <3>5 DEF LinesTrue
  <2>3. QED
    BY <2>1, <2>2 DEF FilesInv
<1>5. QED
  <2>1. ASSUME NEW p \in Runners, Start(p) \/ RepairRead(p) \/ List(p) \/ Beat(p) \/ EndRun(p) \/ Kill(p)
        PROVE  UNCHANGED files
    BY <2>1 DEF Start, RepairRead, List, Beat, EndRun, Kill
  <2>2. ASSUME NEW w \in Writers, Take(w) \/ WriteFails(w) PROVE UNCHANGED files
    BY <2>2 DEF Take, WriteFails
  <2>3. Stale \/ Over \/ UNCHANGED vars => UNCHANGED files
    BY DEF Stale, Over, vars
  <2>4. QED
    BY <1>1, <1>2, <1>3, <1>4, <2>1, <2>2, <2>3 DEF Next, Repairing

-----------------------------------------------------------------------------
(* Who repairs is alone, and reads what is there.                          *)

LEMMA RunnersStep ==
  ASSUME TypeOK, RunnersInv, \A s \in Settings : s.overlap # "any", [Next]_<<setting, vars>>
  PROVE  RunnersInv'
<1>1. Overlap # "any" /\ Overlap \in {"none", "beating", "any"}
  BY SettingTyped DEF TypeOK, Overlap
<1>2. CASE UNCHANGED <<rpc, wpc, wseg>>
  BY <1>2 DEF RunnersInv, Repairs
<1>3. ASSUME NEW p \in Runners, Start(p) PROVE RunnersInv'
  <2>1. UNCHANGED <<wpc, wseg>> /\ rpc[p] = "off" /\ MayStart
    BY <1>3 DEF Start, writers
  <2>2. rpc' = [rpc EXCEPT ![p] = "list"] \/ (~Alive /\ rpc' = [rpc EXCEPT ![p] = "repair"])
    BY <1>3 DEF Start
  <2>3. ~Alive => \A q \in Runners : rpc[q] = "off"
    BY <1>1, <2>1 DEF MayStart, Alive
  <2>4. \A q \in Runners : ~Repairs(q)
    BY <1>1, <2>1 DEF MayStart, Repairs
  <2>5. \A q \in Runners : rpc'[q] = IF q = p THEN rpc'[p] ELSE rpc[q]
    BY <2>2 DEF TypeOK, RunnerTypes
  <2>6. rpc'[p] = "list" \/ (rpc'[p] = "repair" /\ \A q \in Runners : rpc[q] = "off")
    BY <2>2, <2>3 DEF TypeOK, RunnerTypes
  <2>7. \A q \in Runners : rpc'[q] # "run" => rpc[q] # "run"
    BY <2>1, <2>5
  <2>8. \A q \in Runners : Repairs(q)' => q = p /\ rpc'[p] = "repair"
    BY <2>4, <2>5, <2>6 DEF Repairs
  <2>9. QED
    BY <2>1, <2>5, <2>6, <2>7, <2>8 DEF RunnersInv
<1>4. ASSUME NEW p \in Runners, Repairing(p) PROVE RunnersInv'
  <2>1. UNCHANGED <<wpc, wseg>> /\ Repairs(p)
    BY <1>4 DEF Repairing, RepairRead, RepairCut, RepairTruncate, RepairRewrite, writers, Repairs
  <2>2. \A q \in Runners : q # p => rpc'[q] = rpc[q]
    BY <1>4 DEF Repairing, RepairRead, RepairCut, RepairTruncate, RepairRewrite, Onward, Remain,
         TypeOK, RunnerTypes
  <2>3. QED
    BY <2>1, <2>2 DEF RunnersInv, Repairs
<1>5. ASSUME NEW p \in Runners, List(p) PROVE RunnersInv'
  <2>1. UNCHANGED <<wpc, wseg>> /\ rpc[p] = "list"
    BY <1>5 DEF List, writers
  <2>2. \A q \in Runners : rpc'[q] = IF q = p THEN rpc'[p] ELSE rpc[q]
    BY <1>5 DEF List, TypeOK, RunnerTypes
  <2>3. rpc'[p] \in {"off", "run"}
    BY <1>5 DEF List, TypeOK, RunnerTypes
  <2>4. \A q \in Runners : rpc'[q] # "run" => rpc[q] # "run"
    BY <2>1, <2>2
  <2>5. \A q \in Runners : Repairs(q)' => Repairs(q) /\ q # p
    BY <2>2, <2>3 DEF Repairs
  <2>6. ASSUME NEW q \in Runners, Repairs(q)', NEW r \in Runners, r # q PROVE rpc'[r] = "off"
    <3>1. r # p
      BY <2>1, <2>5, <2>6 DEF RunnersInv
    <3>2. QED
      BY <2>2, <2>5, <2>6, <3>1 DEF RunnersInv
  <2>7. QED
    BY <2>1, <2>4, <2>6 DEF RunnersInv
<1>6. ASSUME NEW p \in Runners, EndRun(p) \/ Kill(p) PROVE RunnersInv'
  <2>1. NoThreads(p) /\ rpc' = [rpc EXCEPT ![p] = "off"]
    BY <1>6 DEF EndRun, Kill
  <2>2. \A q \in Runners, t \in Threads :
            /\ wpc'[<<q, t>>] = "idle" \/ wpc'[<<q, t>>] = wpc[<<q, t>>]
            /\ wseg'[<<q, t>>] = 0 \/ wseg'[<<q, t>>] = wseg[<<q, t>>]
            /\ q = p => wpc'[<<q, t>>] = "idle" /\ wseg'[<<q, t>>] = 0
    BY <2>1 DEF NoThreads, Gone, Writers
  <2>3. \A q \in Runners : rpc'[q] = IF q = p THEN "off" ELSE rpc[q]
    BY <2>1 DEF TypeOK, RunnerTypes
  <2>4. ASSUME NEW q \in Runners, rpc'[q] # "run", NEW t \in Threads
        PROVE  wpc'[<<q, t>>] = "idle" /\ wseg'[<<q, t>>] = 0
    BY <2>2, <2>3, <2>4 DEF RunnersInv
  <2>5. \A q \in Runners : Repairs(q)' => Repairs(q)
    BY <2>3 DEF Repairs
  <2>6. ASSUME NEW q \in Runners, Repairs(q)', NEW r \in Runners, r # q PROVE rpc'[r] = "off"
    BY <2>3, <2>5, <2>6 DEF RunnersInv
  <2>7. QED
    BY <2>4, <2>6 DEF RunnersInv
<1>7. ASSUME NEW w \in Writers, Take(w) \/ Appending(w) \/ WriteFails(w) PROVE RunnersInv'
  <2>1. OnlyWriter(w) /\ UNCHANGED rpc
    BY <1>7, WriterMoves
  <2>2. wpc[w] # "idle" \/ rpc[w[1]] = "run"
    BY <1>7 DEF Take, Appending, CreateRaw, CreateIdx, TellEnd, WriteHead, WriteRest, WriteCell, Sync,
         WriteLine, At, WriteFails
  <2>3. rpc[w[1]] = "run"
    BY <2>2, WriterAt
  <2>4. \A v \in Writers : v # w => wpc'[v] = wpc[v] /\ wseg'[v] = wseg[v]
    BY <2>1 DEF OnlyWriter, TypeOK, WriterTypes
  <2>5. \A q \in Runners, t \in Threads : rpc[q] # "run" => <<q, t>> \in Writers /\ <<q, t>> # w
    BY <2>3, WriterAt DEF Writers
  <2>6. QED
    BY <2>1, <2>4, <2>5 DEF RunnersInv, Repairs
<1>8. CASE PowerLoss
  <2>1. \A q \in Runners : rpc'[q] = "off"
    BY <1>8 DEF PowerLoss
  <2>2. \A q \in Runners, t \in Threads : wpc'[<<q, t>>] = "idle" /\ wseg'[<<q, t>>] = 0
    BY <1>8 DEF PowerLoss, Writers
  <2>3. QED
    BY <2>1, <2>2 DEF RunnersInv, Repairs
<1>9. QED
  <2>1. ASSUME NEW p \in Runners, Beat(p) PROVE UNCHANGED <<rpc, wpc, wseg>>
    BY <2>1 DEF Beat, writers
  <2>2. Stale \/ Over \/ UNCHANGED vars => UNCHANGED <<rpc, wpc, wseg>>
    BY DEF Stale, Over, vars, writers
  <2>3. QED
    BY <1>2, <1>3, <1>4, <1>5, <1>6, <1>7, <1>8, <2>1, <2>2 DEF Next

\* While one repairs, no other thread has a segment open.
LEMMA RepairsQuietly ==
  ASSUME TypeOK, RunnersInv, NEW p \in Runners, Repairs(p), NEW w \in Writers
  PROVE  wseg[w] = 0 /\ wpc[w] = "idle"
<1>1. rpc[w[1]] # "run"
  BY WriterAt DEF RunnersInv, Repairs
<1>2. QED
  BY <1>1, WriterAt DEF RunnersInv

LEMMA RepairStep ==
  ASSUME TypeOK, FilesInv, RunnersInv, RepairInv, RunnersInv', TypeOK', [Next]_<<setting, vars>>
  PROVE  RepairInv'
<1>1. CASE UNCHANGED <<files, rpc, repairs>>
  BY <1>1 DEF RepairInv, files, repairs
<1>2. ASSUME NEW p \in Runners, Start(p) \/ List(p) \/ EndRun(p) PROVE RepairInv'
  <2>1. UNCHANGED files /\ UNCHANGED rview
    BY <1>2 DEF Start, List, EndRun, repairs
  <2>2. \A q \in Runners : rpc'[q] \in {"cut", "truncate", "rewrite"} => rpc'[q] = rpc[q] /\ rseg'[q] = rseg[q]
    BY <1>2 DEF Start, List, EndRun, repairs, TypeOK, RunnerTypes
  <2>3. QED
    BY <2>1, <2>2 DEF RepairInv, files
<1>3. ASSUME NEW p \in Runners, Kill(p) PROVE RepairInv'
  <2>1. UNCHANGED files
    BY <1>3 DEF Kill
  <2>2. \A q \in Runners : \/ rpc'[q] = "off"
                           \/ rpc'[q] = rpc[q] /\ rseg'[q] = rseg[q] /\ rview'[q] = rview[q]
    BY <1>3 DEF Kill, TypeOK, RunnerTypes
  <2>3. QED
    BY <2>1, <2>2 DEF RepairInv, files
<1>4. ASSUME NEW p \in Runners, Repairing(p) PROVE RepairInv'
  <2> DEFINE s == rseg[p]
  <2>1. Repairs(p) /\ s \in Segments
    BY <1>4, RepairsAt DEF Repairing, RepairRead, RepairCut, RepairTruncate, RepairRewrite, Repairs
  <2>2. \A q \in Runners : q # p => rpc'[q] = "off"
    <3>1. \A q \in Runners : q # p => rpc'[q] = rpc[q]
      BY <1>4 DEF Repairing, RepairRead, RepairCut, RepairTruncate, RepairRewrite, Onward, Remain,
           TypeOK, RunnerTypes
    <3>2. QED
      BY <2>1, <3>1 DEF RunnersInv
  <2>3. /\ raw[s] \in Seq(Cells) /\ idx[s] \in Seq(Lines) /\ synced[s] \in 0..Len(raw[s]) /\ Shape(raw[s])
    BY <2>1, SegmentInv
  <2>4. SUFFICES
           /\ rpc'[p] = "cut" => /\ rview'[p].end = 2 * Count(raw'[rseg'[p]])
                                 /\ rview'[p].rebuild => rview'[p].account = Account(raw'[rseg'[p]])
           /\ rpc'[p] \in {"truncate", "rewrite"} => rview'[p].account = Account(raw'[rseg'[p]])
           /\ rpc'[p] = "rewrite" => idx'[rseg'[p]] = <<>>
    BY <2>2 DEF RepairInv
  <2>5. Onward(p) => rpc'[p] \in {"repair", "list"}
    BY DEF Onward, TypeOK, RunnerTypes
  <2>6. \A place : Remain(p, place) => rpc'[p] = place /\ rseg' = rseg
    BY DEF Remain, TypeOK, RunnerTypes
  <2>7. CASE RepairRead(p)
    <3>1. UNCHANGED files
      BY <2>7 DEF RepairRead
    <3>2. \/ Onward(p)
          \/ /\ Remain(p, "cut") \/ (Remain(p, "truncate") /\ ~Listed(raw[s], idx[s]))
             /\ rview' = [rview EXCEPT ![p] =
                    [end |-> EntriesEnd(raw[s], idx[s]), rebuild |-> ~Listed(raw[s], idx[s]),
                     account |-> IF Listed(raw[s], idx[s]) THEN <<>> ELSE Account(raw[s])]]
      BY <2>7 DEF RepairRead
    <3>3. CASE Onward(p)
      BY <2>5, <3>3
    <3>4. CASE ~Onward(p)
      <4>1. /\ rview'[p].end = EntriesEnd(raw[s], idx[s]) /\ rview'[p].rebuild = (~Listed(raw[s], idx[s]))
            /\ rview'[p].account = IF Listed(raw[s], idx[s]) THEN <<>> ELSE Account(raw[s])
        <5>1. rview \in [Runners -> [end : Nat, rebuild : BOOLEAN, account : Seq(Lines)]]
          BY DEF TypeOK, RunnerTypes
        <5>2. \A v : rview' = [rview EXCEPT ![p] = v] => rview'[p] = v
          BY <5>1
        <5>3. rview'[p] = [end |-> EntriesEnd(raw[s], idx[s]), rebuild |-> ~Listed(raw[s], idx[s]),
                           account |-> IF Listed(raw[s], idx[s]) THEN <<>> ELSE Account(raw[s])]
          BY <3>2, <3>4, <5>2
        <5>4. QED
          BY <5>3
      <4>2. rseg'[p] = s /\ rpc'[p] \in {"cut", "truncate"} /\ (rpc'[p] = "truncate" => ~Listed(raw[s], idx[s]))
        BY <2>6, <3>2, <3>4
      <4>3. EntriesEnd(raw[s], idx[s]) = 2 * Count(raw[s])
        BY <2>3, EndIs
      <4>4. QED
        BY <3>1, <4>1, <4>2, <4>3 DEF files
    <3>5. QED
      BY <3>3, <3>4
  <2>8. CASE RepairCut(p)
    <3> DEFINE n == 2 * Count(raw[s])
               g == Resized(raw[s], n)
    <3>1. /\ n \in 0..Len(raw[s]) /\ g \in Seq(Cells) /\ Len(g) = n /\ rpc[p] = "cut"
          /\ Replaced(s, g, idx[s], IF synced[s] < n THEN synced[s] ELSE n)
      BY <2>8, CutIs
    <3>2. (IF synced[s] < n THEN synced[s] ELSE n) \in 0..Len(g)
      BY <2>3, <3>1
    <3> HIDE DEF g, n
    <3>3. raw'[s] = g
      BY <2>1, <2>3, <3>1, <3>2, Replacing DEF TypeOK
    <3>4. Account(g) = Account(raw[s])
      BY <2>3, CutAccount DEF g, n
    <3>5. Onward(p) \/ (Remain(p, "truncate") /\ rview' = rview /\ rview[p].rebuild)
      BY <2>8 DEF RepairCut
    <3>6. QED
      BY <2>5, <2>6, <3>1, <3>3, <3>4, <3>5 DEF RepairInv
  <2>9. CASE RepairTruncate(p)
    <3>1. rpc'[p] = "rewrite" /\ rseg' = rseg /\ rview' = rview /\ raw' = raw /\ rpc[p] = "truncate"
      BY <2>9 DEF RepairTruncate, repairs, TypeOK, RunnerTypes
    <3>2. idx \in Seq(Seq(Lines)) /\ s \in 1..Len(idx) /\ <<>> \in Seq(Lines)
      BY <2>1 DEF TypeOK, FileTypes, Segments
    <3>3. idx'[s] = <<>>
      BY <2>9, <3>2, SeqExcept DEF RepairTruncate
    <3>4. QED
      BY <3>1, <3>3 DEF RepairInv
  <2>10. CASE RepairRewrite(p)
    BY <2>5, <2>10 DEF RepairRewrite
  <2>11. QED
    BY <1>4, <2>7, <2>8, <2>9, <2>10 DEF Repairing
<1>5. ASSUME NEW w \in Writers, Take(w) \/ Appending(w) \/ WriteFails(w) PROVE RepairInv'
  <2>1. UNCHANGED <<rpc, repairs>>
    BY <1>5, WriterMoves
  <2>2. wpc[w] # "idle" \/ rpc[w[1]] = "run"
    BY <1>5 DEF Take, Appending, CreateRaw, CreateIdx, TellEnd, WriteHead, WriteRest, WriteCell, Sync,
         WriteLine, At, WriteFails
  <2>3. \A q \in Runners : ~Repairs(q)
    BY <2>2, RepairsQuietly, WriterAt DEF RunnersInv, Repairs
  <2>4. QED
    BY <2>1, <2>3 DEF RepairInv, Repairs
<1>6. CASE PowerLoss
  BY <1>6 DEF PowerLoss, RepairInv
<1>7. QED
  <2>1. ASSUME NEW p \in Runners, Beat(p) PROVE UNCHANGED <<files, rpc, repairs>>
    BY <2>1 DEF Beat
  <2>2. Stale \/ Over \/ UNCHANGED vars => UNCHANGED <<files, rpc, repairs>>
    BY DEF Stale, Over, vars
  <2>3. QED
    BY <1>1, <1>2, <1>3, <1>4, <1>5, <1>6, <2>1, <2>2 DEF Next

-----------------------------------------------------------------------------
(* A thread finds its segment as it left it.                               *)

\* A thread's state and segment are as before, and no more is left to do.
LEMMA SameWriter ==
  ASSUME NEW v \in Writers, WriterInv(v),
         wpc'[v] = wpc[v], wrec'[v] = wrec[v], wseg'[v] = wseg[v], wat'[v] = wat[v],
         raw'[wseg[v]] = raw[wseg[v]], idx'[wseg[v]] = idx[wseg[v]], synced'[wseg[v]] = synced[wseg[v]],
         todo'[v[1]] # {} => todo[v[1]] # {}
  PROVE  WriterInv(v)'
BY DEF WriterInv

LEMMA OtherWriters ==
  ASSUME TypeOK, WritersInv, NEW w \in Writers, OnlyWriter(w),
         \A s \in Segments : s # wseg[w] => raw'[s] = raw[s] /\ idx'[s] = idx[s] /\ synced'[s] = synced[s],
         \A q \in Runners : todo'[q] \subseteq todo[q],
         wseg'[w] # 0 => WriterInv(w)'
  PROVE  WritersInv'
<1>1. ASSUME NEW v \in Writers, v # w, wseg'[v] # 0 PROVE WriterInv(v)'
  <2>1. wpc'[v] = wpc[v] /\ wrec'[v] = wrec[v] /\ wseg'[v] = wseg[v] /\ wat'[v] = wat[v]
    BY <1>1 DEF OnlyWriter, TypeOK, WriterTypes
  <2>2. WriterInv(v) /\ wseg[v] \in Segments /\ v[1] \in Runners
    BY <1>1, <2>1, WriterAt DEF WritersInv
  <2>3. wseg[v] # wseg[w]
    BY <1>1, <2>1 DEF TypeOK, WriterTypes
  <2>4. todo'[v[1]] # {} => todo[v[1]] # {}
    BY <2>2
  <2>5. QED
    BY <2>1, <2>2, <2>3, <2>4, SameWriter
<1>2. QED
  BY <1>1 DEF WritersInv

LEMMA WritersAppending ==
  ASSUME TypeOK, FilesInv, WritersInv, TypeOK', NEW w \in Writers, Appending(w)
  PROVE  WritersInv'
<1> DEFINE s == wseg[w]
<1>1. OnlyWriter(w) /\ s \in 0..Len(raw) /\ Len(raw) \in Nat
  BY WriterMoves DEF TypeOK, WriterTypes, FileTypes
<1>2. \A q \in Runners : todo'[q] \subseteq todo[q]
  BY DEF Appending, CreateRaw, CreateIdx, TellEnd, WriteHead, WriteRest, WriteCell, Sync, WriteLine
<1>3. ASSUME s \in Segments, NEW f \in Seq(Cells), NEW ix \in Seq(Lines), NEW n \in 0..Len(f), Replaced(s, f, ix, n)
      PROVE  /\ raw'[s] = f /\ idx'[s] = ix /\ synced'[s] = n
             /\ \A t \in Segments : t # s => raw'[t] = raw[t] /\ idx'[t] = idx[t] /\ synced'[t] = synced[t]
  BY <1>3, Replacing DEF TypeOK
<1>4. /\ \A x : wpc' = [wpc EXCEPT ![w] = x] => wpc'[w] = x
      /\ \A x : wat' = [wat EXCEPT ![w] = x] => wat'[w] = x
      /\ \A x : wseg' = [wseg EXCEPT ![w] = x] => wseg'[w] = x
  BY DEF TypeOK, WriterTypes
<1>5. CASE CreateRaw(w)
  <2>1. /\ raw' = Append(raw, <<>>) /\ idx' = Append(idx, NoIndex) /\ synced' = Append(synced, 0)
        /\ wpc'[w] = "index" /\ wseg'[w] = Len(raw) + 1
    BY <1>4, <1>5 DEF CreateRaw, Goto
  <2>2. /\ raw \in Seq(Seq(Cells)) /\ idx \in Seq(Seq(Lines)) /\ synced \in Seq(Nat)
        /\ Len(idx) = Len(raw) /\ Len(synced) = Len(raw)
    BY DEF TypeOK, FileTypes
  <2>3. /\ raw'[Len(raw) + 1] = <<>> /\ idx'[Len(raw) + 1] = NoIndex
        /\ \A t \in Segments : raw'[t] = raw[t] /\ idx'[t] = idx[t] /\ synced'[t] = synced[t]
    BY <2>1, <2>2 DEF Segments
  <2>4. LinesWithin(<<>>, NoIndex)
    BY DEF LinesWithin, NoIndex, TornLine
  <2>5. WriterInv(w)'
    BY <2>1, <2>3, <2>4 DEF WriterInv
  <2>6. QED
    BY <1>1, <1>2, <2>3, <2>5, OtherWriters
<1>6. ASSUME ~CreateRaw(w)
      PROVE  /\ s \in Segments /\ WriterInv(w) /\ wpc[w] \notin {"idle", "create"} /\ wseg' = wseg
             /\ raw[s] \in Seq(Cells) /\ idx[s] \in Seq(Lines) /\ synced[s] \in 0..Len(raw[s])
             /\ Len(raw[s]) \in 0..Len(raw[s]) /\ wat[w] \in Nat
  <2>1. wpc[w] \notin {"idle", "create"} /\ wseg' = wseg
    BY <1>6 DEF Appending, CreateIdx, TellEnd, WriteHead, WriteRest, WriteCell, Sync, WriteLine, At
  <2>2. QED
    BY <2>1, OpenSegment
<1>7. CASE CreateIdx(w)
  <2>0. ~CreateRaw(w)
    BY <1>7 DEF CreateIdx, CreateRaw, At
  <2>1. Replaced(s, raw[s], <<>>, synced[s]) /\ <<>> \in Seq(Lines)
    <3>1. wpc[w] \notin {"idle", "create"}
      BY <1>6, <2>0
    <3>2. Replaced(s, raw[s], <<>>, synced[s])
      BY <1>7, <3>1, WritesTo
    <3>3. QED
      BY <3>2
  <2>2. raw'[s] = raw[s] /\ idx'[s] = <<>> /\ \A t \in Segments : t # s =>
            raw'[t] = raw[t] /\ idx'[t] = idx[t] /\ synced'[t] = synced[t]
    BY <1>3, <1>6, <2>0, <2>1
  <2>3. raw[s] = <<>> /\ wpc'[w] = "tell"
    BY <1>4, <1>6, <1>7, <2>0 DEF CreateIdx, Goto, At, WriterInv
  <2>4. LinesWithin(<<>>, <<>>) /\ Even(0) /\ Len(<<>>) = 0
    BY DEF LinesWithin, Even
  <2>5. WriterInv(w)'
    BY <1>6, <2>0, <2>2, <2>3, <2>4 DEF WriterInv
  <2>6. QED
    BY <1>1, <1>2, <2>2, <2>5, OtherWriters
<1>8. CASE TellEnd(w)
  <2>0. ~CreateRaw(w)
    BY <1>8 DEF TellEnd, CreateRaw, At
  <2>1. UNCHANGED <<raw, idx, synced>> /\ wpc'[w] = "append" /\ wat'[w] = Len(raw[s]) /\ wpc[w] = "tell"
    BY <1>4, <1>8 DEF TellEnd, Goto, At, files
  <2>2. WriterInv(w)'
    BY <1>6, <2>0, <2>1 DEF WriterInv
  <2>3. QED
    BY <1>1, <1>2, <2>1, <2>2, OtherWriters
<1>9. CASE WriteHead(w) \/ WriteRest(w)
  <2>0. ~CreateRaw(w)
    BY <1>9 DEF WriteHead, WriteRest, WriteCell, CreateRaw, At
  <2>1. PICK part \in {1, 2} :
            LET g == Append(raw[s], <<wrec[w], part>>)
            IN /\ Replaced(s, g, idx[s], synced[s])
               /\ <<wrec[w], part>> \in Cells
               /\ g \in Seq(Cells) /\ synced[s] \in 0..Len(g)
               /\ wpc[w] = IF part = 1 THEN "append" ELSE "half"
               /\ Len(g) = wat[w] + part /\ Even(wat[w]) /\ g[wat[w] + 1] = <<wrec[w], 1>>
               /\ g[Len(g)] = <<wrec[w], part>>
    BY <1>9, CellFits
  <2> DEFINE g == Append(raw[s], <<wrec[w], part>>)
  <2>2. /\ Replaced(s, g, idx[s], synced[s]) /\ <<wrec[w], part>> \in Cells
        /\ g \in Seq(Cells) /\ synced[s] \in 0..Len(g)
        /\ Len(g) = wat[w] + part /\ Even(wat[w]) /\ g[wat[w] + 1] = <<wrec[w], 1>>
        /\ g[Len(g)] = <<wrec[w], part>>
    BY <2>1
  <2>3. LinesWithin(g, idx[s])
    <3>1. LinesWithin(raw[s], idx[s])
      BY <1>6, <2>0 DEF WriterInv
    <3>2. Len(g) = Len(raw[s]) + 1
      BY <1>6, <2>0, <2>2, SeqAppend
    <3>3. ASSUME NEW i \in 1..Len(idx[s]), ~idx[s][i].torn PROVE idx[s][i].at + 2 <= Len(g)
      <4>1. idx[s][i] \in Lines
        BY <1>6, <2>0
      <4>2. idx[s][i].at \in Nat
        BY <4>1 DEF Lines
      <4>3. QED
        BY <1>6, <2>0, <3>1, <3>2, <3>3, <4>2 DEF LinesWithin
    <3>4. QED
      BY <3>3 DEF LinesWithin
  <2>4. wpc'[w] = (IF part = 1 THEN "half" ELSE "whole") /\ wrec' = wrec /\ wat' = wat
    BY <1>4, <1>9, <2>1 DEF WriteHead, WriteRest, WriteCell, Goto, At
  <2> HIDE DEF g
  <2>5. raw'[s] = g /\ idx'[s] = idx[s] /\ \A t \in Segments : t # s =>
            raw'[t] = raw[t] /\ idx'[t] = idx[t] /\ synced'[t] = synced[t]
    BY <1>3, <1>6, <2>0, <2>2
  <2>6. WriterInv(w)'
    <3>1. CASE part = 1
      BY <1>6, <2>0, <2>2, <2>3, <2>4, <2>5, <3>1 DEF WriterInv
    <3>2. CASE part = 2
      <4>1. Len(g) - 1 = wat[w] + 1
        BY <1>6, <2>0, <2>2, <3>2
      <4>2. QED
        BY <1>6, <2>0, <2>2, <2>3, <2>4, <2>5, <3>2, <4>1 DEF WriterInv
    <3>3. QED
      BY <3>1, <3>2
  <2>7. QED
    BY <1>1, <1>2, <2>5, <2>6, OtherWriters
<1>10. CASE Sync(w)
  <2>0. ~CreateRaw(w)
    BY <1>10 DEF Sync, CreateRaw, At
  <2>1. Replaced(s, raw[s], idx[s], Len(raw[s]))
    BY <1>6, <1>10, <2>0, WritesTo
  <2>2. raw'[s] = raw[s] /\ idx'[s] = idx[s] /\ synced'[s] = Len(raw[s]) /\ \A t \in Segments : t # s =>
            raw'[t] = raw[t] /\ idx'[t] = idx[t] /\ synced'[t] = synced[t]
    BY <1>3, <1>6, <2>0, <2>1
  <2>3. wpc[w] = "whole" /\ wpc'[w] = "synced" /\ UNCHANGED <<wrec, wat>>
    BY <1>4, <1>10 DEF Sync, Goto, At
  <2>4. WriterInv(w)'
    BY <1>6, <2>0, <2>2, <2>3 DEF WriterInv
  <2>5. QED
    BY <1>1, <1>2, <2>2, <2>4, OtherWriters
<1>11. CASE WriteLine(w)
  <2>0. ~CreateRaw(w)
    BY <1>11 DEF WriteLine, CreateRaw, At
  <2>1. PICK ix \in Seq(Lines) : Replaced(s, raw[s], ix, synced[s]) /\ LinesWithin(raw[s], ix)
    BY <1>11, LineFits
  <2>2. raw'[s] = raw[s] /\ idx'[s] = ix /\ \A t \in Segments : t # s =>
            raw'[t] = raw[t] /\ idx'[t] = idx[t] /\ synced'[t] = synced[t]
    BY <1>3, <1>6, <2>0, <2>1
  <2>3. wpc[w] = "synced" /\ wpc'[w] = "idle"
    BY <1>4, <1>11 DEF WriteLine, Goto, At
  <2>4. Even(Len(raw[s]))
    <3>1. Len(raw[s]) = wat[w] + 2 /\ Even(wat[w])
      BY <1>6, <2>0, <2>3 DEF WriterInv
    <3>2. PICK j \in 0..wat[w] : wat[w] = 2 * j
      BY <3>1 DEF Even
    <3>3. j + 1 \in 0..Len(raw[s]) /\ Len(raw[s]) = 2 * (j + 1)
      BY <1>6, <2>0, <3>1, <3>2
    <3>4. QED
      BY <3>3 DEF Even
  <2>5. WriterInv(w)'
    BY <1>6, <2>0, <2>1, <2>2, <2>3, <2>4 DEF WriterInv
  <2>6. QED
    BY <1>1, <1>2, <2>2, <2>5, OtherWriters
<1>12. QED
  BY <1>5, <1>7, <1>8, <1>9, <1>10, <1>11 DEF Appending

LEMMA WritersStep ==
  ASSUME TypeOK, FilesInv, RunnersInv, WritersInv, TypeOK', [Next]_<<setting, vars>>
  PROVE  WritersInv'
<1>1. CASE UNCHANGED <<files, writers, todo>>
  BY <1>1 DEF WritersInv, WriterInv, files, writers
<1>2. ASSUME NEW p \in Runners, Repairing(p) PROVE WritersInv'
  <2>1. Repairs(p) /\ wseg' = wseg
    BY <1>2 DEF Repairing, RepairRead, RepairCut, RepairTruncate, RepairRewrite, Repairs, writers
  <2>2. QED
    BY <2>1, RepairsQuietly DEF WritersInv
<1>3. ASSUME NEW p \in Runners, List(p) \/ EndRun(p) \/ Kill(p) PROVE WritersInv'
  <2>1. UNCHANGED files
    BY <1>3 DEF List, EndRun, Kill
  <2>2. ASSUME NEW w \in Writers, w[1] = p PROVE wseg'[w] = 0
    <3>1. CASE List(p)
      <4>1. wseg' = wseg /\ rpc[p] # "run"
        BY <3>1 DEF List, writers
      <4>2. QED
        BY <2>2, <4>1, WriterAt DEF RunnersInv
    <3>2. CASE EndRun(p) \/ Kill(p)
      BY <2>2, <3>2 DEF EndRun, Kill, NoThreads, Gone
    <3>3. QED
      BY <1>3, <3>1, <3>2
  <2>3. ASSUME NEW w \in Writers, w[1] # p
        PROVE  /\ wpc'[w] = wpc[w] /\ wrec'[w] = wrec[w] /\ wseg'[w] = wseg[w] /\ wat'[w] = wat[w]
               /\ todo'[w[1]] = todo[w[1]]
    <3>1. todo \in [Runners -> SUBSET Keys] /\ w[1] \in Runners
      BY WriterAt DEF TypeOK, RunnerTypes
    <3>2. todo'[w[1]] = todo[w[1]]
      BY <1>3, <2>3, <3>1 DEF List, EndRun, Kill
    <3>3. QED
      BY <1>3, <2>3, <3>2 DEF List, EndRun, Kill, NoThreads, Gone, writers
  <2>4. ASSUME NEW w \in Writers, wseg'[w] # 0 PROVE WriterInv(w)'
    <3>1. w[1] # p /\ WriterInv(w)
      BY <2>2, <2>3, <2>4 DEF WritersInv
    <3>2. QED
      BY <2>1, <2>3, <3>1, SameWriter DEF files
  <2>5. QED
    BY <2>4 DEF WritersInv
<1>4. ASSUME NEW w \in Writers, Take(w) \/ WriteFails(w) PROVE WritersInv'
  <2>1. OnlyWriter(w) /\ UNCHANGED files /\ wseg' = wseg
    BY <1>4, WriterMoves DEF Take, WriteFails
  <2>2. w[1] \in Runners /\ todo \in [Runners -> SUBSET Keys]
    BY WriterAt DEF TypeOK, RunnerTypes
  <2>3. \A q \in Runners : todo'[q] \subseteq todo[q]
    <3>1. \/ \E k : todo' = [todo EXCEPT ![w[1]] = @ \ {k}]
          \/ todo' = [todo EXCEPT ![w[1]] = {}]
      BY <1>4 DEF Take, WriteFails
    <3>2. QED
      BY <2>2, <3>1
  <2>4. ASSUME wseg'[w] # 0 PROVE WriterInv(w)'
    <3>1. WriterInv(w)
      BY <2>1, <2>4 DEF WritersInv
    <3>2. CASE Take(w)
      <4>1. wpc[w] = "idle" /\ todo[w[1]] # {} /\ wpc'[w] \in {"create", "tell"}
        BY <3>2 DEF Take, At, Goto, TypeOK, WriterTypes
      <4>2. LinesWithin(raw[wseg[w]], idx[wseg[w]]) /\ Even(Len(raw[wseg[w]]))
        BY <3>1, <4>1 DEF WriterInv
      <4>3. QED
        BY <2>1, <4>1, <4>2 DEF WriterInv, files
    <3>3. CASE WriteFails(w)
      <4>1. todo'[w[1]] = {} /\ wpc'[w] = "idle"
        BY <2>2, <3>3 DEF WriteFails, Goto, TypeOK, WriterTypes
      <4>2. QED
        BY <2>1, <3>1, <4>1 DEF WriterInv, files
    <3>4. QED
      BY <1>4, <3>2, <3>3
  <2>5. QED
    BY <2>1, <2>3, <2>4, OtherWriters DEF files
<1>5. ASSUME NEW w \in Writers, Appending(w) PROVE WritersInv'
  BY <1>5, WritersAppending
<1>6. CASE PowerLoss
  BY <1>6 DEF PowerLoss, WritersInv
<1>7. QED
  <2>1. ASSUME NEW p \in Runners, Start(p) \/ Beat(p) PROVE UNCHANGED <<files, writers, todo>>
    BY <2>1 DEF Start, Beat
  <2>2. Stale \/ Over \/ UNCHANGED vars => UNCHANGED <<files, writers, todo>>
    BY DEF Stale, Over, vars
  <2>3. QED
    BY <1>1, <1>2, <1>3, <1>4, <1>5, <1>6, <2>1, <2>2 DEF Next

-----------------------------------------------------------------------------
(* What a step does to the records of a segment.                           *)

\* A cell that two files share is the same record of both, where both reach it.
LEMMA SameRecord ==
  ASSUME NEW f \in Seq(Cells), Shape(f), NEW g \in Seq(Cells), Shape(g),
         NEW i \in 1..Count(f), 2 * i <= Len(g), g[2 * i - 1] = f[2 * i - 1]
  PROVE  i \in 1..Count(g) /\ RecordAt(g, 2 * (i - 1)) = RecordAt(f, 2 * (i - 1))
<1>1. Count(f) \in Nat /\ Count(g) \in Nat /\ Len(g) < 2 * Count(g) + 2
  BY CountTyped
<1>2. i \in 1..Count(g) /\ 2 * (i - 1) + 1 = 2 * i - 1
  BY <1>1
<1>3. QED
  BY <1>2 DEF RecordAt

\* The segment is what it was, cut or synced, with all that was on the disk.
CutOrSame(s) ==
    /\ Len(raw'[s]) <= Len(raw[s])
    /\ \A k \in 1..Len(raw'[s]) : raw'[s][k] = raw[s][k]
    /\ \A i \in 1..Count(raw[s]) : 2 * i <= synced[s] => 2 * i <= synced'[s]

\* Thread w appended a part of its record to the segment.
ExtendedBy(s, w) ==
    /\ s = wseg[w] /\ synced'[s] = synced[s]
    /\ \E part \in {1, 2} :
          /\ raw'[s] = Append(raw[s], <<wrec[w], part>>) /\ <<wrec[w], part>> \in Cells
          /\ part = 2 => WriteRest(w)
          /\ Len(raw[s]) + 1 = wat[w] + part /\ Even(wat[w]) /\ raw'[s][wat[w] + 1] = <<wrec[w], 1>>

LEMMA SegmentChange ==
  ASSUME StoreInv, [Next]_<<setting, vars>>
  PROVE  /\ Len(raw) <= Len(raw')
         /\ \A s \in Segments : CutOrSame(s) \/ \E w \in Writers : ExtendedBy(s, w)
         /\ \A s \in Segments' : s \in Segments \/ raw'[s] = <<>>
<1>0. /\ Len(raw) \in Nat
      /\ \A s \in Segments : raw[s] \in Seq(Cells) /\ synced[s] \in Nat /\ synced[s] <= Len(raw[s]) /\ Shape(raw[s])
  BY SegmentTyped DEF StoreInv, TypeOK, FileTypes, FilesInv
<1>1. \A s \in Segments : raw'[s] = raw[s] /\ synced'[s] = synced[s] => CutOrSame(s)
  BY <1>0 DEF CutOrSame
<1>2. CASE UNCHANGED <<raw, synced>>
  BY <1>0, <1>1, <1>2 DEF Segments
<1>3. ASSUME NEW s \in Segments, NEW f \in Seq(Cells), NEW ix \in Seq(Lines), NEW n \in 0..Len(f),
             Replaced(s, f, ix, n), CutOrSame(s) \/ \E w \in Writers : ExtendedBy(s, w)
      PROVE  /\ Len(raw) <= Len(raw')
             /\ \A t \in Segments : CutOrSame(t) \/ \E w \in Writers : ExtendedBy(t, w)
             /\ \A t \in Segments' : t \in Segments \/ raw'[t] = <<>>
  <2>1. /\ Segments' = Segments /\ Len(raw') = Len(raw)
        /\ \A t \in Segments : t # s => raw'[t] = raw[t] /\ synced'[t] = synced[t]
    BY <1>3, Replacing DEF StoreInv, TypeOK
  <2>2. QED
    BY <1>0, <1>1, <1>3, <2>1
<1>4. ASSUME NEW p \in Runners, RepairCut(p)
      PROVE  /\ Len(raw) <= Len(raw')
             /\ \A t \in Segments : CutOrSame(t) \/ \E w \in Writers : ExtendedBy(t, w)
             /\ \A t \in Segments' : t \in Segments \/ raw'[t] = <<>>
  <2> DEFINE s == rseg[p]
             n == 2 * Count(raw[s])
             g == Resized(raw[s], n)
             m == IF synced[s] < n THEN synced[s] ELSE n
  <2>1. s \in Segments /\ n \in 0..Len(raw[s]) /\ g \in Seq(Cells) /\ Len(g) = n /\ Replaced(s, g, idx[s], m)
    BY <1>4, CutIs DEF StoreInv
  <2>2. idx[s] \in Seq(Lines) /\ synced[s] \in Nat /\ raw[s] \in Seq(Cells) /\ Shape(raw[s]) /\ Count(raw[s]) \in Nat
    BY <1>0, <2>1, SegmentTyped, CountTyped DEF StoreInv, TypeOK
  <2>3. \A i \in 1..Len(g) : g[i] = raw[s][i]
    BY <2>2, CutAccount
  <2>4. m \in 0..Len(g)
    BY <2>1, <2>2
  <2>5. \A i \in 1..Count(raw[s]) : 2 * i <= synced[s] => 2 * i <= m
    BY <2>2
  <2> HIDE DEF m, g
  <2>6. raw'[s] = g /\ synced'[s] = m
    BY <2>1, <2>2, <2>4, Replacing DEF StoreInv, TypeOK
  <2>7. CutOrSame(s)
    BY <2>1, <2>3, <2>5, <2>6 DEF CutOrSame
  <2>8. QED
    BY <1>3, <2>1, <2>2, <2>4, <2>7
<1>5. ASSUME NEW w \in Writers, CreateRaw(w)
      PROVE  /\ Len(raw) <= Len(raw')
             /\ \A t \in Segments : CutOrSame(t) \/ \E v \in Writers : ExtendedBy(t, v)
             /\ \A t \in Segments' : t \in Segments \/ raw'[t] = <<>>
  <2>1. raw' = Append(raw, <<>>) /\ synced' = Append(synced, 0)
    BY <1>5 DEF CreateRaw
  <2>2. raw \in Seq(Seq(Cells)) /\ synced \in Seq(Nat) /\ Len(synced) = Len(raw)
    BY DEF StoreInv, TypeOK, FileTypes
  <2>3. /\ Len(raw') = Len(raw) + 1 /\ raw'[Len(raw) + 1] = <<>>
        /\ \A t \in Segments : raw'[t] = raw[t] /\ synced'[t] = synced[t]
    BY <2>1, <2>2 DEF Segments
  <2>4. \A t \in Segments' : t \in Segments \/ t = Len(raw) + 1
    BY <1>0, <2>3 DEF Segments
  <2>5. QED
    BY <1>0, <1>1, <2>3, <2>4
<1>6. ASSUME NEW w \in Writers, WriteHead(w) \/ WriteRest(w)
      PROVE  /\ Len(raw) <= Len(raw')
             /\ \A t \in Segments : CutOrSame(t) \/ \E v \in Writers : ExtendedBy(t, v)
             /\ \A t \in Segments' : t \in Segments \/ raw'[t] = <<>>
  <2> DEFINE s == wseg[w]
  <2>1. wpc[w] \in {"append", "half"}
    BY <1>6 DEF WriteHead, WriteRest, WriteCell, At
  <2>2. s \in Segments /\ raw[s] \in Seq(Cells) /\ idx[s] \in Seq(Lines)
    BY <2>1, OpenSegment DEF StoreInv
  <2>3. PICK part \in {1, 2} :
            LET g == Append(raw[s], <<wrec[w], part>>)
            IN /\ Replaced(s, g, idx[s], synced[s]) /\ <<wrec[w], part>> \in Cells
               /\ g \in Seq(Cells) /\ synced[s] \in 0..Len(g)
               /\ wpc[w] = IF part = 1 THEN "append" ELSE "half"
               /\ Len(g) = wat[w] + part /\ Even(wat[w]) /\ g[wat[w] + 1] = <<wrec[w], 1>>
    BY <1>6, CellFits DEF StoreInv
  <2> DEFINE g == Append(raw[s], <<wrec[w], part>>)
  <2>4. /\ Replaced(s, g, idx[s], synced[s]) /\ <<wrec[w], part>> \in Cells
        /\ g \in Seq(Cells) /\ synced[s] \in 0..Len(g)
        /\ Len(g) = wat[w] + part /\ Even(wat[w]) /\ g[wat[w] + 1] = <<wrec[w], 1>>
    BY <2>3
  <2>5. Len(g) = Len(raw[s]) + 1
    BY <2>2, <2>4, SeqAppend
  <2>6. part = 2 => WriteRest(w)
    BY <1>6, <2>3 DEF WriteHead, WriteCell, At
  <2>7. raw'[s] = g /\ synced'[s] = synced[s]
    BY <2>2, <2>4, Replacing DEF StoreInv, TypeOK
  <2>8. ExtendedBy(s, w)
    BY <2>4, <2>5, <2>6, <2>7 DEF ExtendedBy
  <2>9. QED
    BY <1>3, <2>2, <2>4, <2>8
<1>7. ASSUME NEW w \in Writers, Sync(w)
      PROVE  /\ Len(raw) <= Len(raw')
             /\ \A t \in Segments : CutOrSame(t) \/ \E v \in Writers : ExtendedBy(t, v)
             /\ \A t \in Segments' : t \in Segments \/ raw'[t] = <<>>
  <2> DEFINE s == wseg[w]
  <2>1. wpc[w] = "whole" /\ raw' = raw
    BY <1>7 DEF Sync, At
  <2>2. s \in Segments /\ raw[s] \in Seq(Cells) /\ idx[s] \in Seq(Lines) /\ Len(raw[s]) \in 0..Len(raw[s])
    BY <2>1, OpenSegment DEF StoreInv
  <2>3. Replaced(s, raw[s], idx[s], Len(raw[s]))
    BY <1>7, <2>1, WritesTo DEF StoreInv
  <2>4. synced'[s] = Len(raw[s]) /\ raw'[s] = raw[s]
    BY <2>2, <2>3, Replacing DEF StoreInv, TypeOK
  <2>5. CutOrSame(s)
    BY <1>0, <2>2, <2>4 DEF CutOrSame
  <2>6. QED
    BY <1>3, <2>2, <2>3, <2>5
<1>8. CASE PowerLoss
  <2>1. Segments' = Segments /\ Len(raw') = Len(raw)
    BY <1>8, LossIs DEF StoreInv
  <2>2. ASSUME NEW s \in Segments PROVE CutOrSame(s)
    <3>1. /\ synced[s] <= Len(raw'[s]) /\ Len(raw'[s]) <= Len(raw[s])
          /\ \A i \in 1..Len(raw'[s]) : raw'[s][i] = raw[s][i] /\ synced'[s] = Len(raw'[s])
          /\ synced'[s] = Len(raw'[s])
      BY <1>8, LossIs DEF StoreInv
    <3>2. Len(raw'[s]) \in Nat /\ Count(raw[s]) \in Nat /\ synced[s] \in Nat
      <4>1. FileTypes' /\ s \in Segments'
        BY <1>8, <2>1, LossIs DEF StoreInv
      <4>2. raw'[s] \in Seq(Cells)
        BY <4>1 DEF FileTypes, Segments
      <4>3. QED
        BY <1>0, <4>2, CountTyped
    <3>3. QED
      BY <3>1, <3>2 DEF CutOrSame
  <2>3. QED
    BY <1>0, <2>1, <2>2
<1>9. QED
  <2>1. ASSUME NEW p \in Runners, \/ Start(p) \/ RepairRead(p) \/ RepairTruncate(p) \/ RepairRewrite(p)
                                  \/ List(p) \/ Beat(p) \/ EndRun(p) \/ Kill(p)
        PROVE  UNCHANGED <<raw, synced>>
    BY <2>1 DEF Start, RepairRead, RepairTruncate, RepairRewrite, List, Beat, EndRun, Kill, files
  <2>2. ASSUME NEW w \in Writers, \/ Take(w) \/ WriteFails(w) \/ CreateIdx(w) \/ TellEnd(w) \/ WriteLine(w)
        PROVE  UNCHANGED <<raw, synced>>
    BY <2>2 DEF Take, WriteFails, CreateIdx, TellEnd, WriteLine, files
  <2>3. Stale \/ Over \/ UNCHANGED vars => UNCHANGED <<raw, synced>>
    BY DEF Stale, Over, vars, files
  <2>4. QED
    BY <1>2, <1>4, <1>5, <1>6, <1>7, <1>8, <2>1, <2>2, <2>3 DEF Next, Repairing, Appending

\* What is on the disk for good stays there.
LEMMA StepKeeps ==
  ASSUME StoreInv, TypeOK', FilesInv', [Next]_<<setting, vars>>,
         NEW s \in Segments, NEW i \in 1..Count(raw[s]), 2 * i <= synced[s]
  PROVE  /\ s \in Segments' /\ i \in 1..Count(raw'[s]) /\ 2 * i <= synced'[s]
         /\ RecordAt(raw'[s], 2 * (i - 1)) = Rec(s, i)
<1>1. Len(raw) \in Nat /\ Len(raw') \in Nat /\ Len(raw) <= Len(raw')
  BY SegmentChange DEF StoreInv, TypeOK, FileTypes
<1>2. s \in Segments'
  BY <1>1 DEF Segments
<1>3. /\ raw[s] \in Seq(Cells) /\ Shape(raw[s]) /\ synced[s] \in Nat
      /\ Count(raw[s]) \in Nat /\ 2 * Count(raw[s]) <= Len(raw[s])
  BY SegmentInv, SegmentTyped, CountTyped DEF StoreInv, TypeOK
<1>4. raw'[s] \in Seq(Cells) /\ Shape(raw'[s]) /\ synced'[s] \in Nat /\ synced'[s] <= Len(raw'[s])
  <2>1. raw'[s] \in Seq(Cells) /\ synced'[s] \in Nat /\ synced'[s] <= Len(raw'[s])
    <3>1. /\ raw' \in Seq(Seq(Cells)) /\ synced' \in Seq(Nat) /\ Len(synced') = Len(raw')
          /\ \A t \in Segments' : synced'[t] <= Len(raw'[t])
      BY DEF TypeOK, FileTypes
    <3>2. s \in 1..Len(raw') /\ s \in 1..Len(synced')
      BY <1>2, <3>1 DEF Segments
    <3>3. QED
      BY <1>2, <3>1, <3>2
  <2>2. QED
    BY <1>2, <2>1 DEF FilesInv
<1>5. 2 * i <= synced'[s] /\ raw'[s][2 * i - 1] = raw[s][2 * i - 1]
  <2>1. CASE CutOrSame(s)
    <3>1. 2 * i <= synced'[s]
      BY <2>1 DEF CutOrSame
    <3>2. 2 * i - 1 \in 1..Len(raw'[s])
      BY <1>3, <1>4, <3>1
    <3>3. QED
      BY <2>1, <3>1, <3>2 DEF CutOrSame
  <2>2. CASE \E w \in Writers : ExtendedBy(s, w)
    <3>1. PICK w \in Writers, part \in {1, 2} :
             /\ synced'[s] = synced[s] /\ raw'[s] = Append(raw[s], <<wrec[w], part>>)
             /\ <<wrec[w], part>> \in Cells
      BY <2>2 DEF ExtendedBy
    <3>2. 2 * i - 1 \in 1..Len(raw[s])
      BY <1>3
    <3>3. QED
      BY <1>3, <3>1, <3>2, SeqAppend
  <2>3. QED
    BY <2>1, <2>2, SegmentChange
<1>6. 2 * i <= Len(raw'[s])
  BY <1>3, <1>4, <1>5
<1>7. QED
  BY <1>2, <1>3, <1>4, <1>5, <1>6, SameRecord DEF Rec

\* An even length that is reached ends a record.
LEMMA SecondHalf ==
  ASSUME NEW n \in Nat, NEW i \in Nat, NEW j \in Nat, NEW part \in {1, 2},
         n + 1 = 2 * j + part, 2 * i <= n + 1, 2 * i > n
  PROVE  part = 2 /\ i = j + 1
OBVIOUS

\* A record is whole after a step if it was before, or a thread has just made it so.
LEMMA StepAdds ==
  ASSUME StoreInv, TypeOK', FilesInv', [Next]_<<setting, vars>>,
         NEW s \in Segments', NEW i \in 1..Count(raw'[s])
  PROVE  /\ s \in Segments
         /\ \/ i \in 1..Count(raw[s]) /\ RecordAt(raw'[s], 2 * (i - 1)) = Rec(s, i)
            \/ \E w \in Writers : /\ WriteRest(w) /\ s = wseg[w] /\ i = Count(raw[s]) + 1
                                  /\ RecordAt(raw'[s], 2 * (i - 1)) = wrec[w]
<1>1. raw'[s] \in Seq(Cells) /\ Shape(raw'[s])
  BY DEF TypeOK, FileTypes, Segments, FilesInv
<1>2. Count(raw'[s]) \in Nat /\ 2 * Count(raw'[s]) <= Len(raw'[s])
  BY <1>1, CountTyped
<1>3. s \in Segments
  <2>1. CASE raw'[s] = <<>>
    BY <1>2, <2>1
  <2>2. QED
    BY <2>1, SegmentChange
<1>4. /\ raw[s] \in Seq(Cells) /\ Shape(raw[s]) /\ Count(raw[s]) \in Nat
      /\ 2 * Count(raw[s]) <= Len(raw[s]) /\ Len(raw[s]) < 2 * Count(raw[s]) + 2
  BY <1>3, SegmentInv, CountTyped DEF StoreInv
<1>5. CASE CutOrSame(s)
  <2>1. 2 * i - 1 \in 1..Len(raw'[s]) /\ 2 * i <= Len(raw[s])
    BY <1>2, <1>4, <1>5 DEF CutOrSame
  <2>2. raw[s][2 * i - 1] = raw'[s][2 * i - 1]
    BY <1>5, <2>1 DEF CutOrSame
  <2>3. QED
    BY <1>1, <1>3, <1>4, <2>1, <2>2, SameRecord DEF Rec
<1>6. ASSUME NEW w \in Writers, ExtendedBy(s, w)
      PROVE  \/ i \in 1..Count(raw[s]) /\ RecordAt(raw'[s], 2 * (i - 1)) = Rec(s, i)
             \/ /\ WriteRest(w) /\ s = wseg[w] /\ i = Count(raw[s]) + 1
                /\ RecordAt(raw'[s], 2 * (i - 1)) = wrec[w]
  <2>1. PICK part \in {1, 2} :
           /\ raw'[s] = Append(raw[s], <<wrec[w], part>>) /\ <<wrec[w], part>> \in Cells
           /\ part = 2 => WriteRest(w)
           /\ Len(raw[s]) + 1 = wat[w] + part /\ Even(wat[w]) /\ raw'[s][wat[w] + 1] = <<wrec[w], 1>>
    BY <1>6 DEF ExtendedBy
  <2>2. Len(raw'[s]) = Len(raw[s]) + 1 /\ \A k \in 1..Len(raw[s]) : raw'[s][k] = raw[s][k]
    BY <1>4, <2>1, SeqAppend
  <2>3. CASE 2 * i <= Len(raw[s])
    <3>1. 2 * i - 1 \in 1..Len(raw[s]) /\ raw[s][2 * i - 1] = raw'[s][2 * i - 1]
      BY <1>2, <1>4, <2>2, <2>3
    <3>2. QED
      BY <1>1, <1>4, <2>3, <3>1, SameRecord DEF Rec
  <2>4. CASE 2 * i > Len(raw[s])
    <3>1. wat[w] \in Nat /\ s = wseg[w]
      BY <1>6 DEF ExtendedBy, StoreInv, TypeOK, WriterTypes
    <3>2. PICK j \in 0..wat[w] : wat[w] = 2 * j
      BY <2>1 DEF Even
    <3>3. part = 2 /\ i = j + 1
      <4>1. Len(raw[s]) \in Nat /\ i \in Nat /\ j \in Nat /\ part \in {1, 2}
        BY <1>2, <1>4, <2>1, <3>1
      <4>2. Len(raw[s]) + 1 = 2 * j + part
        BY <2>1, <3>2
      <4>3. 2 * i <= Len(raw[s]) + 1 /\ 2 * i > Len(raw[s])
        BY <1>2, <2>2, <2>4, <4>1
      <4>4. QED
        BY <4>1, <4>2, <4>3, SecondHalf
    <3>4. i = Count(raw[s]) + 1 /\ 2 * (i - 1) + 1 = wat[w] + 1
      BY <1>4, <2>1, <3>1, <3>2, <3>3
    <3>5. QED
      BY <2>1, <3>1, <3>3, <3>4 DEF RecordAt
  <2>5. QED
    BY <1>2, <1>4, <2>3, <2>4
<1>7. QED
  BY <1>3, <1>5, <1>6, SegmentChange

\* A thread that has written and synced its record has it on the disk.
LEMMA JustWritten ==
  ASSUME StoreInv, NEW w \in Writers, wpc[w] = "synced"
  PROVE  \E s \in Segments : \E i \in 1..Count(raw[s]) : Rec(s, i) = wrec[w] /\ 2 * i <= synced[s]
<1> DEFINE s == wseg[w]
<1>1. /\ s \in Segments /\ WriterInv(w) /\ wat[w] \in Nat /\ raw[s] \in Seq(Cells) /\ Shape(raw[s])
      /\ Len(raw[s]) \in Nat
  BY OpenSegment DEF StoreInv
<1>2. /\ Len(raw[s]) = wat[w] + 2 /\ Even(wat[w]) /\ raw[s][Len(raw[s]) - 1] = <<wrec[w], 1>>
      /\ synced[s] = Len(raw[s])
  BY <1>1 DEF WriterInv
<1>3. PICK j \in 0..wat[w] : wat[w] = 2 * j
  BY <1>2 DEF Even
<1>4. Count(raw[s]) \in Nat /\ Len(raw[s]) < 2 * Count(raw[s]) + 2
  BY <1>1, CountTyped
<1>5. /\ j + 1 \in 1..Count(raw[s]) /\ 2 * (j + 1) <= synced[s]
      /\ 2 * ((j + 1) - 1) + 1 = Len(raw[s]) - 1
  BY <1>1, <1>2, <1>3, <1>4
<1>6. Rec(s, j + 1) = wrec[w]
  BY <1>2, <1>5 DEF Rec, RecordAt
<1>7. QED
  BY <1>1, <1>5, <1>6

\* Which records append() has returned for.
LEMMA AckedBy ==
  ASSUME StoreInv, [Next]_<<setting, vars>>
  PROVE  \/ acked' = acked
         \/ \E w \in Writers : wpc[w] = "synced" /\ acked' = acked \cup {wrec[w]} /\ UNCHANGED <<raw, synced>>
<1>1. ASSUME NEW p \in Runners, Start(p) \/ Repairing(p) \/ List(p) \/ Beat(p) \/ EndRun(p) \/ Kill(p)
      PROVE  acked' = acked
  BY <1>1 DEF Start, Repairing, RepairRead, RepairCut, RepairTruncate, RepairRewrite, List, Beat, EndRun,
       Kill, history
<1>2. ASSUME NEW w \in Writers, \/ Take(w) \/ WriteFails(w) \/ CreateRaw(w) \/ CreateIdx(w) \/ TellEnd(w)
                                \/ WriteHead(w) \/ WriteRest(w) \/ Sync(w)
      PROVE  acked' = acked
  BY <1>2 DEF Take, WriteFails, CreateRaw, CreateIdx, TellEnd, WriteHead, WriteRest, WriteCell, Sync,
       others, history
<1>3. ASSUME NEW w \in Writers, WriteLine(w)
      PROVE  wpc[w] = "synced" /\ acked' = acked \cup {wrec[w]} /\ UNCHANGED <<raw, synced>>
  BY <1>3 DEF WriteLine, At
<1>4. PowerLoss \/ Stale \/ Over \/ UNCHANGED vars => acked' = acked
  BY DEF PowerLoss, Stale, Over, vars, history
<1>5. QED
  BY <1>1, <1>2, <1>3, <1>4 DEF Next, Appending

LEMMA AckedStep ==
  ASSUME StoreInv, TypeOK', FilesInv', [Next]_<<setting, vars>>
  PROVE  AckedInv'
<1>1. ASSUME NEW r \in acked',
             NEW s \in Segments, NEW i \in 1..Count(raw[s]), Rec(s, i) = r, 2 * i <= synced[s]
      PROVE  \E t \in Segments' : \E j \in 1..Count(raw'[t]) :
                RecordAt(raw'[t], 2 * (j - 1)) = r /\ 2 * j <= synced'[t]
  BY <1>1, StepKeeps
<1>2. ASSUME NEW r \in acked'
      PROVE  \E s \in Segments : \E i \in 1..Count(raw[s]) : Rec(s, i) = r /\ 2 * i <= synced[s]
  <2>1. CASE r \in acked
    BY <2>1 DEF StoreInv, AckedInv
  <2>2. CASE \E w \in Writers : wpc[w] = "synced" /\ r = wrec[w]
    BY <2>2, JustWritten
  <2>3. QED
    BY <2>1, <2>2, AckedBy
<1>3. QED
  BY <1>1, <1>2 DEF AckedInv, Rec

-----------------------------------------------------------------------------
(* The theorems.                                                           *)

LEMMA StoreInit == Init => StoreInv
<1> SUFFICES ASSUME Init PROVE StoreInv
  OBVIOUS
<1>1. Segments = {} /\ raw = <<>> /\ idx = <<>> /\ synced = <<>> /\ stamp = <<>>
  BY DEF Init, Segments
<1>2. FileTypes
  BY <1>1 DEF FileTypes
<1>3. NoView \in [end : Nat, rebuild : BOOLEAN, account : Seq(Lines)]
  BY DEF NoView
<1>4. RunnerTypes
  BY <1>1, <1>3 DEF Init, RunnerTypes, Repairs
<1>5. WriterTypes
  BY <1>1 DEF Init, WriterTypes, Writers
<1>6. (CHOOSE p \in Runners : TRUE) \in Runners
  BY StoreAssumption
<1>7. TypeOK
  BY <1>2, <1>4, <1>5, <1>6 DEF Init, TypeOK
<1>8. RunnersInv
  BY DEF Init, RunnersInv, Repairs, Writers
<1>9. FilesInv /\ RepairInv /\ WritersInv /\ AckedInv
  BY <1>1 DEF Init, FilesInv, RepairInv, WritersInv, AckedInv
<1>10. QED
  BY <1>7, <1>8, <1>9 DEF StoreInv

LEMMA StoreStep ==
  ASSUME StoreInv, \A s \in Settings : s.overlap # "any", [Next]_<<setting, vars>>
  PROVE  StoreInv'
<1>1. TypeOK'
  BY TypesStep DEF StoreInv
<1>2. FilesInv'
  BY FilesStep DEF StoreInv
<1>3. RunnersInv'
  BY RunnersStep DEF StoreInv
<1>4. RepairInv'
  BY <1>1, <1>3, RepairStep DEF StoreInv
<1>5. WritersInv'
  BY <1>1, WritersStep DEF StoreInv
<1>6. AckedInv'
  BY <1>1, <1>2, AckedStep
<1>7. QED
  BY <1>1, <1>2, <1>3, <1>4, <1>5, <1>6 DEF StoreInv

\* The invariant of the store, where runners are started as the runner's own
\* heartbeat makes it safe (run_campaign).
THEOREM StoreInvariant ==
  ASSUME \A s \in Settings : s.overlap # "any"
  PROVE  Spec => []StoreInv
<1>1. StoreInv /\ [Next]_<<setting, vars>> => StoreInv'
  BY StoreStep
<1>2. QED
  BY <1>1, StoreInit, PTL DEF Spec

\* The types.
THEOREM StoreTypes ==
  ASSUME \A s \in Settings : s.overlap # "any"
  PROVE  Spec => []TypeOK
<1>1. StoreInv => TypeOK
  BY DEF StoreInv
<1>2. QED
  BY <1>1, StoreInvariant, PTL

\* No crash, repair or failed write takes away a record append() returned for
\* (append_record, repair_store).
THEOREM RecordsAreKept ==
  ASSUME \A s \in Settings : s.overlap # "any"
  PROVE  Spec => []RecordsKept
<1>1. StoreInv => RecordsKept
  BY DEF StoreInv, AckedInv, RecordsKept, Rec
<1>2. QED
  BY <1>1, StoreInvariant, PTL

\* What the readers are told of a segment is what its data holds (read_idx),
\* where no index line is cut within its key.
THEOREM IndexIsTruthful ==
  ASSUME \A s \in Settings : s.overlap # "any" /\ "key" \notin s.torn
  PROVE  Spec => []IndexTruthful
<1>1. StoreInv => IndexTruthful
  <2>1. SUFFICES ASSUME StoreInv, NEW s \in Segments, NEW i \in 1..Len(Entries(s))
                 PROVE  /\ WholeAt(raw[s], 2 * (i - 1))
                        /\ Entries(s)[i] = Line(RecordAt(raw[s], 2 * (i - 1)), 2 * (i - 1))
    BY DEF IndexTruthful
  <2>2. "key" \notin TornLines
    <3>1. setting \in Settings
      BY <2>1 DEF StoreInv, TypeOK
    <3>2. QED
      BY <3>1 DEF TornLines
  <2>3. /\ raw[s] \in Seq(Cells) /\ idx[s] \in Seq(Lines) /\ Shape(raw[s]) /\ LinesTrue(raw[s], idx[s])
    BY <2>1, <2>2, SegmentInv DEF StoreInv
  <2>4. Entries(s) = Account(raw[s]) /\ Len(Account(raw[s])) = Count(raw[s])
    BY <2>3, EntriesAre, AccountTrue DEF Entries
  <2>5. Count(raw[s]) \in Nat /\ 2 * Count(raw[s]) <= Len(raw[s])
    BY <2>3, CountTyped
  <2>6. i \in 1..Count(raw[s]) /\ i - 1 \in Nat /\ 2 * (i - 1) + 2 <= Len(raw[s])
    BY <2>4, <2>5
  <2>7. QED
    BY <2>3, <2>4, <2>6, WholeIff DEF Account
<1>2. Spec => []StoreInv
  BY StoreInvariant
<1>3. QED
  BY <1>1, <1>2, PTL

\* The records on the disk for good only grow, and a run counts as recorded
\* only once its record is among them: the store does what RunStore promises.
THEOREM StoreImplementsRunStore ==
  ASSUME \A s \in Settings : s.overlap # "any"
  PROVE  Spec => ImplementsRunStore
<1>1. Init => Promised!Init
  <2>1. SUFFICES ASSUME Init PROVE Kept = {} /\ acked = {}
    BY DEF Promised!Init
  <2>2. raw = <<>> /\ acked = {}
    BY <2>1 DEF Init
  <2>3. Segments = {}
    BY <2>2 DEF Segments
  <2>4. Kept = {}
    BY <2>3 DEF Kept
  <2>5. QED
    BY <2>2, <2>4
<1>2. ASSUME StoreInv, StoreInv', [Next]_<<setting, vars>> PROVE [Promised!Next]_<<Kept, acked>>
  <2>1. \A r : r \in Kept <=> \E s \in Segments : \E i \in 1..Count(raw[s]) : Rec(s, i) = r /\ 2 * i <= synced[s]
    BY DEF Kept, Rec
  <2>2. \A r : r \in Kept' <=> \E s \in Segments' : \E i \in 1..Count(raw'[s]) :
                                  RecordAt(raw'[s], 2 * (i - 1)) = r /\ 2 * i <= synced'[s]
    BY DEF Kept
  <2>3. CASE acked' = acked
    <3>1. \A r \in Kept : r \in Kept'
      BY <1>2, <2>1, <2>2, StepKeeps DEF StoreInv
    <3>2. QED
      BY <2>3, <3>1 DEF Promised!Next, Promised!Keep
  <2>4. CASE \E w \in Writers : wpc[w] = "synced" /\ acked' = acked \cup {wrec[w]} /\ UNCHANGED <<raw, synced>>
    <3>1. PICK w \in Writers : wpc[w] = "synced" /\ acked' = acked \cup {wrec[w]} /\ UNCHANGED <<raw, synced>>
      BY <2>4
    <3>2. wrec[w] \in Kept
      BY <1>2, <2>1, <3>1, JustWritten
    <3>3. Kept' = Kept
      BY <3>1 DEF Kept, Segments
    <3>4. QED
      BY <3>1, <3>2, <3>3 DEF Promised!Next, Promised!CountRun
  <2>5. QED
    BY <1>2, <2>3, <2>4, AckedBy
<1>3. QED
  BY <1>1, <1>2, StoreInvariant, PTL DEF Spec, ImplementsRunStore, Promised!Spec

-----------------------------------------------------------------------------
(* What the readers were told.                                             *)

\* The first of the files is where the second begins.
Begins(f, g, n) == n <= Len(g) /\ \A k \in 1..n : g[k] = f[k]

LEMMA BeginsAppended ==
  ASSUME NEW f \in Seq(Cells), NEW c \in Cells, NEW n \in Nat, n <= Len(f)
  PROVE  Begins(f, Append(f, c), n)
BY SeqAppend DEF Begins

\* Whole records stay where they are, in every step but a power loss.
LEMMA WholeStays ==
  ASSUME StoreInv, StoreInv', [Next]_<<setting, vars>>, ~PowerLoss, NEW s \in Segments
  PROVE  s \in Segments' /\ Begins(raw[s], raw'[s], 2 * Count(raw[s]))
<1>0. /\ Len(raw) \in Nat /\ \A t \in Segments : /\ raw[t] \in Seq(Cells) /\ Count(raw[t]) \in Nat
                                                 /\ 2 * Count(raw[t]) <= Len(raw[t])
  BY SegmentInv, CountTyped DEF StoreInv, TypeOK, FileTypes
<1>1. \A t \in Segments : raw'[t] = raw[t] => Begins(raw[t], raw'[t], 2 * Count(raw[t]))
  BY <1>0 DEF Begins
<1>2. s \in Segments'
  <2>1. Len(raw) <= Len(raw') /\ Len(raw') \in Nat
    BY SegmentChange DEF StoreInv, TypeOK, FileTypes
  <2>2. QED
    BY <1>0, <2>1 DEF Segments
<1>3. CASE UNCHANGED raw
  BY <1>1, <1>2, <1>3
<1>4. ASSUME NEW p \in Runners, RepairCut(p) PROVE Begins(raw[s], raw'[s], 2 * Count(raw[s]))
  <2> DEFINE t == rseg[p]
             n == 2 * Count(raw[t])
             g == Resized(raw[t], n)
             m == IF synced[t] < n THEN synced[t] ELSE n
  <2>1. t \in Segments /\ n \in 0..Len(raw[t]) /\ g \in Seq(Cells) /\ Len(g) = n /\ Replaced(t, g, idx[t], m)
    BY <1>4, CutIs DEF StoreInv
  <2>2. idx[t] \in Seq(Lines) /\ synced[t] \in Nat /\ raw[t] \in Seq(Cells) /\ Shape(raw[t])
    BY <2>1, SegmentTyped, SegmentInv DEF StoreInv, TypeOK
  <2>3. \A i \in 1..Len(g) : g[i] = raw[t][i]
    BY <2>2, CutAccount
  <2>4. m \in 0..Len(g)
    BY <2>1, <2>2
  <2> HIDE DEF m, g
  <2>5. raw'[t] = g /\ \A u \in Segments : u # t => raw'[u] = raw[u]
    BY <2>1, <2>2, <2>4, Replacing DEF StoreInv, TypeOK
  <2>6. Begins(raw[t], raw'[t], n)
    BY <2>1, <2>3, <2>5 DEF Begins
  <2>7. QED
    BY <1>1, <2>5, <2>6
<1>5. ASSUME NEW w \in Writers, CreateRaw(w) PROVE Begins(raw[s], raw'[s], 2 * Count(raw[s]))
  <2>1. raw' = Append(raw, <<>>) /\ raw \in Seq(Seq(Cells))
    BY <1>5 DEF CreateRaw, StoreInv, TypeOK, FileTypes
  <2>2. raw'[s] = raw[s]
    BY <2>1 DEF Segments
  <2>3. QED
    BY <1>1, <2>2
<1>6. ASSUME NEW w \in Writers, WriteHead(w) \/ WriteRest(w)
      PROVE  Begins(raw[s], raw'[s], 2 * Count(raw[s]))
  <2> DEFINE t == wseg[w]
  <2>1. wpc[w] \in {"append", "half"}
    BY <1>6 DEF WriteHead, WriteRest, WriteCell, At
  <2>2. t \in Segments /\ raw[t] \in Seq(Cells) /\ idx[t] \in Seq(Lines)
    BY <2>1, OpenSegment DEF StoreInv
  <2>3. PICK part \in {1, 2} :
            LET g == Append(raw[t], <<wrec[w], part>>)
            IN /\ Replaced(t, g, idx[t], synced[t]) /\ <<wrec[w], part>> \in Cells
               /\ g \in Seq(Cells) /\ synced[t] \in 0..Len(g)
    BY <1>6, CellFits DEF StoreInv
  <2> DEFINE c == <<wrec[w], part>>
             g == Append(raw[t], c)
  <2>4. Replaced(t, g, idx[t], synced[t]) /\ g \in Seq(Cells) /\ synced[t] \in 0..Len(g) /\ c \in Cells
    BY <2>3
  <2> HIDE DEF c
  <2>5. Begins(raw[t], g, 2 * Count(raw[t]))
    <3>1. 2 * Count(raw[t]) \in Nat /\ 2 * Count(raw[t]) <= Len(raw[t])
      BY <1>0, <2>2
    <3>2. QED
      BY <2>2, <2>4, <3>1, BeginsAppended
  <2> HIDE DEF g
  <2>6. raw'[t] = g /\ \A u \in Segments : u # t => raw'[u] = raw[u]
    BY <2>2, <2>4, Replacing DEF StoreInv, TypeOK
  <2>7. QED
    BY <1>1, <2>5, <2>6
<1>7. QED
  <2>1. ASSUME NEW p \in Runners, \/ Start(p) \/ RepairRead(p) \/ RepairTruncate(p) \/ RepairRewrite(p)
                                  \/ List(p) \/ Beat(p) \/ EndRun(p) \/ Kill(p)
        PROVE  UNCHANGED raw
    BY <2>1 DEF Start, RepairRead, RepairTruncate, RepairRewrite, List, Beat, EndRun, Kill, files
  <2>2. ASSUME NEW w \in Writers, \/ Take(w) \/ WriteFails(w) \/ CreateIdx(w) \/ TellEnd(w)
                                  \/ Sync(w) \/ WriteLine(w)
        PROVE  UNCHANGED raw
    BY <2>2 DEF Take, WriteFails, CreateIdx, TellEnd, Sync, WriteLine, files
  <2>3. Stale \/ Over \/ UNCHANGED vars => UNCHANGED raw
    BY DEF Stale, Over, vars, files
  <2>4. QED
    BY <1>2, <1>3, <1>4, <1>5, <1>6, <2>1, <2>2, <2>3 DEF Next, Repairing, Appending

LEMMA PrefixBy ==
  ASSUME NEW S, NEW q \in Seq(S), NEW r \in Seq(S), Begins(q, r, Len(q))
  PROVE  IsPrefix(q, r)
<1>1. Len(q) \in Nat /\ Len(q) <= Len(r) /\ \A i \in 1..Len(q) : r[i] = q[i]
  BY DEF Begins
<1>2. SubSeq(q, 1, Len(q)) = SubSeq(r, 1, Len(q))
  BY <1>1
<1>3. QED
  BY <1>1, <1>2 DEF IsPrefix

\* The account of a file that begins with the whole records of another begins
\* with the account of that one.
LEMMA AccountGrows ==
  ASSUME NEW f \in Seq(Cells), Shape(f), NEW g \in Seq(Cells), Shape(g),
         Begins(f, g, 2 * Count(f))
  PROVE  /\ IsPrefix(Account(f), Account(g))
         /\ IsPrefix(SubSeq(f, 1, 2 * Count(f)), g)
<1>1. /\ Count(f) \in Nat /\ 2 * Count(f) <= Len(f) /\ Account(f) \in Seq(Lines)
      /\ Len(Account(f)) = Count(f)
      /\ Count(g) \in Nat /\ Account(g) \in Seq(Lines) /\ Len(Account(g)) = Count(g)
  BY CountTyped, AccountTrue
<1>2. ASSUME NEW i \in 1..Count(f)
      PROVE  i \in 1..Count(g) /\ Account(g)[i] = Account(f)[i]
  <2>1. 2 * i <= Len(g) /\ g[2 * i - 1] = f[2 * i - 1]
    BY <1>1 DEF Begins
  <2>2. i \in 1..Count(g) /\ RecordAt(g, 2 * (i - 1)) = RecordAt(f, 2 * (i - 1))
    BY <2>1, SameRecord
  <2>3. QED
    BY <2>2 DEF Account
<1>3. Begins(Account(f), Account(g), Len(Account(f)))
  <2>1. Count(f) <= Count(g)
    <3>1. CASE Count(f) = 0
      BY <1>1, <3>1
    <3>2. CASE Count(f) # 0
      <4>1. Count(f) \in 1..Count(f)
        BY <1>1, <3>2
      <4>2. Count(f) \in 1..Count(g)
        BY <1>2, <4>1
      <4>3. QED
        BY <4>2
    <3>3. QED
      BY <3>1, <3>2
  <2>2. QED
    BY <1>1, <1>2, <2>1 DEF Begins
<1>4. IsPrefix(Account(f), Account(g))
  BY <1>1, <1>3, PrefixBy
<1>5. IsPrefix(SubSeq(f, 1, 2 * Count(f)), g)
  <2> DEFINE h == SubSeq(f, 1, 2 * Count(f))
  <2>1. h \in Seq(Cells) /\ Len(h) = 2 * Count(f) /\ \A k \in 1..(2 * Count(f)) : h[k] = f[k]
    BY <1>1
  <2> HIDE DEF h
  <2>2. Begins(h, g, Len(h))
    BY <2>1 DEF Begins
  <2>3. IsPrefix(h, g)
    BY <2>1, <2>2, PrefixBy
  <2>4. QED
    BY <2>3 DEF h
<1>6. QED
  BY <1>4, <1>5

\* What a reader was told of a segment it is told again, beside any runner and
\* any repair and after any kill: a power loss alone takes entries back
\* (file_entries, repair_store), where no index line is cut within its key.
THEOREM ListingsGrow ==
  ASSUME \A s \in Settings : s.overlap # "any" /\ "key" \notin s.torn
  PROVE  Spec => ListingGrows
<1>1. ASSUME StoreInv, StoreInv', [Next]_<<setting, vars>>, ~PowerLoss, NEW s \in Segments
      PROVE  /\ IsPrefix(Entries(s), Entries(s)')
             /\ IsPrefix(SubSeq(raw[s], 1, 2 * Len(Entries(s))), raw'[s])
  <2>1. "key" \notin TornLines /\ "key" \notin TornLines'
    BY <1>1 DEF StoreInv, TypeOK, TornLines
  <2>2. s \in Segments' /\ Begins(raw[s], raw'[s], 2 * Count(raw[s]))
    BY <1>1, WholeStays
  <2>3. raw[s] \in Seq(Cells) /\ idx[s] \in Seq(Lines) /\ Shape(raw[s]) /\ LinesTrue(raw[s], idx[s])
    BY <1>1, <2>1, SegmentInv DEF StoreInv
  <2>4. /\ raw'[s] \in Seq(Cells) /\ idx'[s] \in Seq(Lines) /\ Shape(raw'[s])
        /\ LinesTrue(raw'[s], idx'[s])
    <3>1. raw'[s] \in Seq(Cells) /\ idx'[s] \in Seq(Lines)
      BY <1>1, <2>2 DEF StoreInv, TypeOK, FileTypes, Segments
    <3>2. Shape(raw'[s]) /\ LinesTrue(raw'[s], idx'[s])
      BY <1>1, <2>1, <2>2 DEF StoreInv, FilesInv
    <3>3. QED
      BY <3>1, <3>2
  <2>5. Entries(s) = Account(raw[s]) /\ Entries(s)' = Account(raw'[s]) /\ Len(Entries(s)) = Count(raw[s])
    BY <2>3, <2>4, EntriesAre, AccountTrue DEF Entries
  <2>6. QED
    BY <2>2, <2>3, <2>4, <2>5, AccountGrows
<1>2. StoreInv /\ StoreInv' /\ [Next]_<<setting, vars>> =>
          [~PowerLoss =>
              \A s \in Segments :
                  /\ IsPrefix(Entries(s), Entries(s)')
                  /\ IsPrefix(SubSeq(raw[s], 1, 2 * Len(Entries(s))), raw'[s])]_<<raw, idx>>
  BY <1>1
<1>3. Spec => []StoreInv
  BY StoreInvariant
<1>4. QED
  BY <1>2, <1>3, PTL DEF Spec, ListingGrows

-----------------------------------------------------------------------------
(* The order of the runs of one key.  Here no line is cut within its key,  *)
(* and runners that may overlap have different jobs.                       *)

Orderly == \A s \in Settings :
    /\ s.overlap # "any" /\ "key" \notin s.torn
    /\ s.overlap = "none" \/ \A p, q \in Runners : p # q => s.jobs[p] \cap s.jobs[q] = {}

AloneInv == Overlap = "none" => \A p, q \in Runners : rpc[p] # "off" /\ rpc[q] # "off" => p = q

\* The segments' names follow the clock.
TimesInv ==
    /\ \A s \in Segments : stamp[s] <= clock /\ \A i \in 1..Count(raw[s]) : Rec(s, i).id <= born
    /\ \A p \in Runners : rtime[p] <= clock
    /\ \A w \in Writers : wseg[w] # 0 => stamp[wseg[w]] = rtime[w[1]]

Sooner(s, i, t, j) ==
    stamp[s] < stamp[t] /\ Rec(s, i).id < Rec(t, j).id /\ Rec(s, i).status = "failed"

\* Of two records of a key one failed before the other's runner was started.
OrderInv ==
    \A s, t \in Segments : \A i \in 1..Count(raw[s]), j \in 1..Count(raw[t]) :
        Rec(s, i).key = Rec(t, j).key => \/ s = t /\ i = j
                                         \/ Sooner(s, i, t, j) \/ Sooner(t, j, s, i)

\* All records of key k failed, before the time given and with smaller ids.
Outdated(k, time, id) ==
    \A s \in Segments : \A i \in 1..Count(raw[s]) :
        Rec(s, i).key = k => stamp[s] < time /\ Rec(s, i).id < id /\ Rec(s, i).status = "failed"

\* The record a thread carries is the only one of its key on its way, and later
\* than those that are there.
CarriedInv ==
    \A w \in Writers : wpc[w] # "idle" =>
        /\ wrec[w].key \in JobsOf[w[1]] /\ wrec[w].key \notin todo[w[1]] /\ wrec[w].id <= born
        /\ \A v \in Writers : v # w /\ wpc[v] # "idle" => wrec[v].key # wrec[w].key
        /\ wpc[w] \notin {"whole", "synced"} => Outdated(wrec[w].key, rtime[w[1]], wrec[w].id)

\* What a runner has yet to do has failed so far, and before it was started.
TodoInv ==
    \A p \in Runners :
        /\ todo[p] \subseteq JobsOf[p]
        /\ \A k \in JobsOf[p], s \in Segments : \A i \in 1..Count(raw[s]) : Rec(s, i).key = k =>
              /\ rpc[p] \notin {"off", "run"} => stamp[s] < rtime[p]
              /\ rpc[p] = "run" /\ k \in todo[p] => stamp[s] < rtime[p] /\ Rec(s, i).status = "failed"

RunsInv == AloneInv /\ TimesInv /\ OrderInv /\ CarriedInv /\ TodoInv

LEMMA LeastNat == ASSUME NEW T \in SUBSET Nat, T # {} PROVE \E m \in T : \A n \in T : m <= n
<1>1. PICK m \in T : \A n \in T : ~(<<n, m>> \in OpToRel(<, Nat))
  BY NatLessThanWellFounded, WFMin
<1>2. \A n \in T : ~(n < m)
  BY <1>1 DEF OpToRel
<1>3. QED
  BY <1>2

\* Two runners that are up have different jobs.
LEMMA JobsApart ==
  ASSUME Orderly, TypeOK, AloneInv, NEW p \in Runners, NEW q \in Runners, p # q,
         rpc[p] # "off", rpc[q] # "off"
  PROVE  JobsOf[p] \cap JobsOf[q] = {}
<1>1. setting \in Settings /\ Overlap # "none"
  BY DEF TypeOK, AloneInv
<1>2. QED
  BY <1>1 DEF Orderly, JobsOf, Overlap

LEMMA RecTyped ==
  ASSUME TypeOK, FilesInv, NEW s \in Segments, NEW i \in 1..Count(raw[s])
  PROVE  Rec(s, i) \in Records
<1>1. raw[s] \in Seq(Cells) /\ Shape(raw[s])
  BY SegmentInv
<1>2. Count(raw[s]) \in Nat /\ 2 * Count(raw[s]) <= Len(raw[s])
  BY <1>1, CountTyped
<1>3. i - 1 \in 0..Len(raw[s]) /\ 2 * (i - 1) + 1 <= Len(raw[s])
  BY <1>2
<1>4. QED
  BY <1>1, <1>3 DEF Shape, Rec, RecordAt

\* The readers' places of a key are its whole records.
LEMMA PlacesAre ==
  ASSUME Orderly, TypeOK, FilesInv, NEW k
  PROVE  /\ \A s \in Segments : Entries(s) = Account(raw[s])
         /\ \A e : e \in Places(k) <=> \E s \in Segments : \E i \in 1..Count(raw[s]) :
                                          e = <<s, i>> /\ Rec(s, i).key = k
<1>1. "key" \notin TornLines
  <2>1. setting \in Settings
    BY DEF TypeOK
  <2>2. QED
    BY <2>1 DEF Orderly, TornLines
<1>2. ASSUME NEW s \in Segments
      PROVE  /\ Entries(s) = Account(raw[s]) /\ Len(Entries(s)) = Count(raw[s])
             /\ \A i \in 1..Count(raw[s]) : Entries(s)[i].key = Rec(s, i).key
  <2>1. /\ raw[s] \in Seq(Cells) /\ idx[s] \in Seq(Lines) /\ Shape(raw[s]) /\ LinesTrue(raw[s], idx[s])
    BY <1>1, SegmentInv
  <2>2. Entries(s) = Account(raw[s]) /\ Len(Account(raw[s])) = Count(raw[s])
    BY <2>1, EntriesAre, AccountTrue DEF Entries
  <2>3. \A i \in 1..Count(raw[s]) : Account(raw[s])[i].key = Rec(s, i).key
    BY DEF Account, Rec, Line
  <2>4. QED
    BY <2>2, <2>3
<1>3. QED
  BY <1>2 DEF Places

\* The readers' answer for a key is the last of its records.
LEMMA WinnerIs ==
  ASSUME Orderly, TypeOK, FilesInv, TimesInv, OrderInv, NEW k, Places(k) # {}
  PROVE  /\ Winner(k) \in Places(k)
         /\ \A f \in Places(k) : f = Winner(k) \/ Sooner(f[1], f[2], Winner(k)[1], Winner(k)[2])
<1>1. \A f \in Places(k) : /\ f[1] \in Segments /\ f[2] \in 1..Count(raw[f[1]]) /\ f = <<f[1], f[2]>>
                           /\ Rec(f[1], f[2]).key = k
  BY PlacesAre
<1>2. \A f \in Places(k) : stamp[f[1]] \in Nat /\ stamp[f[1]] <= clock /\ clock \in Nat
  BY <1>1, SegmentTyped DEF TypeOK, TimesInv
<1>3. \A e, f \in Places(k) : \/ e = f \/ Sooner(e[1], e[2], f[1], f[2]) \/ Sooner(f[1], f[2], e[1], e[2])
  BY <1>1 DEF OrderInv
<1>4. \E e \in Places(k) : \A f \in Places(k) : f = e \/ Later(e, f)
  <2> DEFINE T == {clock - stamp[f[1]] : f \in Places(k)}
  <2>1. T \in SUBSET Nat /\ T # {}
    BY <1>2
  <2>2. PICK m \in T : \A n \in T : m <= n
    BY <2>1, LeastNat
  <2>3. PICK e \in Places(k) : m = clock - stamp[e[1]]
    OBVIOUS
  <2>4. \A f \in Places(k) : clock - stamp[e[1]] <= clock - stamp[f[1]]
    BY <2>2, <2>3
  <2>5. \A f \in Places(k) : ~(stamp[e[1]] < stamp[f[1]])
    BY <1>2, <2>4
  <2>6. \A f \in Places(k) : f = e \/ stamp[f[1]] < stamp[e[1]]
    BY <1>3, <2>5 DEF Sooner
  <2>7. QED
    BY <2>6 DEF Later, NameBefore
<1>5. Winner(k) \in Places(k) /\ \A f \in Places(k) : f = Winner(k) \/ Later(Winner(k), f)
  BY <1>4 DEF Winner
<1>6. ASSUME NEW f \in Places(k), f # Winner(k) PROVE Sooner(f[1], f[2], Winner(k)[1], Winner(k)[2])
  <2>1. Later(Winner(k), f) /\ stamp[f[1]] \in Nat /\ stamp[Winner(k)[1]] \in Nat
    BY <1>2, <1>5, <1>6
  <2>2. ~(stamp[Winner(k)[1]] < stamp[f[1]])
    BY <2>1 DEF Later, NameBefore
  <2>3. QED
    BY <1>3, <1>5, <1>6, <2>2 DEF Sooner
<1>7. QED
  BY <1>5, <1>6

\* A key the readers do not call done has failed each time so far.
LEMMA NotDone ==
  ASSUME Orderly, TypeOK, FilesInv, TimesInv, OrderInv, NEW k, StatusOf(k) # "done",
         NEW s \in Segments, NEW i \in 1..Count(raw[s]), Rec(s, i).key = k
  PROVE  Rec(s, i).status = "failed"
<1>1. <<s, i>> \in Places(k) /\ Places(k) # {}
  BY PlacesAre
<1> DEFINE e == Winner(k)
<1>2. /\ e \in Places(k)
      /\ <<s, i>> = e \/ Sooner(s, i, e[1], e[2])
  BY <1>1, WinnerIs
<1>3. e[1] \in Segments /\ e[2] \in 1..Count(raw[e[1]])
  BY <1>2, PlacesAre
<1>4. WinningLine(k).status = Rec(e[1], e[2]).status
  <2>1. Entries(e[1]) = Account(raw[e[1]])
    BY <1>3, PlacesAre
  <2>2. QED
    BY <1>3, <2>1 DEF WinningLine, Account, Line, Rec
<1>5. CASE <<s, i>> = e
  <2>1. Rec(s, i).status # "done"
    BY <1>1, <1>4, <1>5 DEF StatusOf
  <2>2. Rec(s, i) \in Records
    BY RecTyped
  <2>3. QED
    BY <2>1, <2>2 DEF Records, Statuses
<1>6. QED
  BY <1>2, <1>5 DEF Sooner

\* How a runner moves: it starts, lists, is gone, or stays as it is.
LEMMA RunnerMoves ==
  ASSUME StoreInv, [Next]_<<setting, vars>>, NEW q \in Runners
  PROVE  \/ Start(q)
         \/ List(q)
         \/ ~Start(q) /\ rpc[q] # "off" /\ rpc'[q] = "off" /\ rtime'[q] = rtime[q]
                      /\ todo'[q] \subseteq todo[q] /\ \A w \in Writers : w[1] = q => wpc'[w] = "idle"
         \/ /\ (rpc'[q] = rpc[q] \/ {rpc[q], rpc'[q]} \cap {"off", "run"} = {})
            /\ rtime'[q] = rtime[q] /\ todo'[q] \subseteq todo[q]
<1>0. /\ rpc \in [Runners -> {"off", "repair", "cut", "truncate", "rewrite", "list", "run"}]
      /\ rtime \in [Runners -> Nat] /\ todo \in [Runners -> SUBSET Keys]
  BY DEF StoreInv, TypeOK, RunnerTypes
<1>1. CASE UNCHANGED <<rpc, rtime, todo>>
  BY <1>1
<1>2. ASSUME NEW p \in Runners, Start(p) \/ List(p), p # q
      PROVE  rpc'[q] = rpc[q] /\ rtime'[q] = rtime[q] /\ todo'[q] = todo[q]
  BY <1>0, <1>2 DEF Start, List
<1>3. ASSUME NEW p \in Runners, Repairing(p)
      PROVE  /\ rpc'[q] = rpc[q] \/ {rpc[q], rpc'[q]} \cap {"off", "run"} = {}
             /\ rtime'[q] = rtime[q] /\ todo'[q] = todo[q]
  <2>1. rpc[p] \notin {"off", "run"} /\ rtime' = rtime /\ todo' = todo
    BY <1>3 DEF Repairing, RepairRead, RepairCut, RepairTruncate, RepairRewrite
  <2>2. \E x \in {"repair", "cut", "truncate", "rewrite", "list"} : rpc' = [rpc EXCEPT ![p] = x]
    BY <1>3 DEF Repairing, RepairRead, RepairCut, RepairTruncate, RepairRewrite, Onward, Remain
  <2>3. QED
    BY <1>0, <2>1, <2>2
<1>4. ASSUME NEW p \in Runners, EndRun(p) \/ Kill(p)
      PROVE  \/ p = q /\ rpc[q] # "off" /\ rpc'[q] = "off" /\ rtime'[q] = rtime[q]
                /\ todo'[q] \subseteq todo[q] /\ \A w \in Writers : w[1] = q => wpc'[w] = "idle"
             \/ rpc'[q] = rpc[q] /\ rtime'[q] = rtime[q] /\ todo'[q] = todo[q]
  <2>1. /\ rpc[p] # "off" /\ rpc' = [rpc EXCEPT ![p] = "off"] /\ rtime' = rtime /\ NoThreads(p)
        /\ todo' = todo \/ todo' = [todo EXCEPT ![p] = {}]
    BY <1>4 DEF EndRun, Kill
  <2>2. \A w \in Writers : w[1] = p => wpc'[w] = "idle"
    BY <2>1 DEF NoThreads, Gone
  <2>3. QED
    BY <1>0, <2>1, <2>2
<1>5. ASSUME NEW w \in Writers, Take(w) \/ WriteFails(w)
      PROVE  rpc'[q] = rpc[q] /\ rtime'[q] = rtime[q] /\ todo'[q] \subseteq todo[q]
  <2>1. /\ UNCHANGED <<rpc, rtime>>
        /\ (\E k : todo' = [todo EXCEPT ![w[1]] = @ \ {k}]) \/ todo' = [todo EXCEPT ![w[1]] = {}]
    BY <1>5, WriterMoves DEF Take, WriteFails, StoreInv
  <2>2. QED
    BY <1>0, <2>1
<1>6. ASSUME NEW w \in Writers, Appending(w) PROVE UNCHANGED <<rpc, rtime, todo>>
  BY <1>6 DEF Appending, CreateRaw, CreateIdx, TellEnd, WriteHead, WriteRest, WriteCell, Sync, WriteLine, others
<1>7. CASE PowerLoss
  <2>1. rpc'[q] = "off" /\ rtime' = rtime /\ todo'[q] = {} /\ \A w \in Writers : wpc'[w] = "idle"
    BY <1>7 DEF PowerLoss
  <2>2. QED
    BY <2>1 DEF Start
<1>8. Stale \/ Over \/ UNCHANGED vars => UNCHANGED <<rpc, rtime, todo>>
  BY DEF Stale, Over, vars
<1>9. ASSUME NEW p \in Runners, Beat(p) PROVE UNCHANGED <<rpc, rtime, todo>>
  BY <1>9 DEF Beat
<1>10. QED
  BY <1>1, <1>2, <1>3, <1>4, <1>5, <1>6, <1>7, <1>8, <1>9 DEF Next, Start

LEMMA AloneStep ==
  ASSUME StoreInv, AloneInv, [Next]_<<setting, vars>>
  PROVE  AloneInv'
<1>1. Overlap' = Overlap
  BY DEF Next, Overlap
<1>2. ASSUME NEW q \in Runners, rpc[q] = "off", rpc'[q] # "off" PROVE Start(q)
  BY <1>2, RunnerMoves DEF List
<1>3. ASSUME NEW q \in Runners, Start(q), Overlap = "none", NEW p \in Runners, p # q PROVE rpc'[p] = "off"
  BY <1>3 DEF Start, MayStart, StoreInv, TypeOK, RunnerTypes
<1>4. QED
  BY <1>1, <1>2, <1>3 DEF AloneInv

\* Names do not change, and the clock and the ids go on.
LEMMA NamesStay ==
  ASSUME StoreInv, [Next]_<<setting, vars>>
  PROVE  /\ \A s \in Segments : stamp'[s] = stamp[s]
         /\ clock \in Nat /\ born \in Nat /\ clock <= clock' /\ born <= born' /\ clock' \in Nat
         /\ JobsOf' = JobsOf
<1>1. clock \in Nat /\ born \in Nat /\ stamp \in Seq(Nat) /\ Len(stamp) = Len(raw)
  BY DEF StoreInv, TypeOK, FileTypes
<1>2. JobsOf' = JobsOf
  BY DEF Next, JobsOf
<1>3. ASSUME NEW p \in Runners, Start(p) \/ Repairing(p) \/ List(p) \/ Beat(p) \/ EndRun(p) \/ Kill(p)
      PROVE  stamp' = stamp /\ born' = born /\ (clock' = clock \/ clock' = clock + 1)
  BY <1>3 DEF Start, Repairing, RepairRead, RepairCut, RepairTruncate, RepairRewrite, List, Beat, EndRun,
       Kill, files, history
<1>4. ASSUME NEW w \in Writers, Take(w) \/ WriteFails(w) \/ (Appending(w) /\ ~CreateRaw(w))
      PROVE  stamp' = stamp /\ clock' = clock /\ (born' = born \/ born' = born + 1)
  BY <1>4 DEF Take, WriteFails, Appending, CreateIdx, TellEnd, WriteHead, WriteRest, WriteCell, Sync,
       WriteLine, files, others, history
<1>5. ASSUME NEW w \in Writers, CreateRaw(w)
      PROVE  /\ \A s \in Segments : stamp'[s] = stamp[s]
             /\ clock' = clock /\ born' = born
  <2>1. stamp' = Append(stamp, rtime[w[1]]) /\ clock' = clock /\ born' = born
    BY <1>5 DEF CreateRaw, others, history
  <2>2. QED
    BY <1>1, <2>1 DEF Segments
<1>6. PowerLoss \/ Stale \/ Over \/ UNCHANGED vars => stamp' = stamp /\ clock' = clock /\ born' = born
  BY DEF PowerLoss, Stale, Over, vars, files, history
<1>7. \/ stamp' = stamp /\ (clock' = clock \/ clock' = clock + 1) /\ (born' = born \/ born' = born + 1)
      \/ (\A s \in Segments : stamp'[s] = stamp[s]) /\ clock' = clock /\ born' = born
  BY <1>3, <1>4, <1>5, <1>6 DEF Next
<1>8. QED
  BY <1>1, <1>2, <1>7

\* The record a thread has just made whole is its own, and no other's.
LEMMA OneWrites ==
  ASSUME StoreInv, NEW w \in Writers, WriteRest(w)
  PROVE  /\ wpc[w] = "half" /\ rpc[w[1]] = "run" /\ wrec[w] \in Records
         /\ wseg[w] \in Segments /\ w[1] \in Runners
         /\ \A v \in Writers : /\ WriteRest(v) => v = w
                               /\ wrec'[v] = wrec[v]
                               /\ v # w => wpc'[v] = wpc[v]
         /\ wpc'[w] = "whole" /\ UNCHANGED <<rpc, rtime, todo, born, wseg>>
<1>1. /\ wpc[w] = "half" /\ wpc' = [wpc EXCEPT ![w] = "whole"] /\ wrec' = wrec /\ wseg' = wseg
      /\ UNCHANGED <<rpc, rtime, todo, born>>
  BY DEF WriteRest, WriteCell, At, Goto, others, history
<1>2. wpc'[w] = "whole" /\ \A v \in Writers : v # w => wpc'[v] = wpc[v]
  BY <1>1 DEF StoreInv, TypeOK, WriterTypes
<1>3. ASSUME NEW v \in Writers, WriteRest(v) PROVE v = w
  <2>1. wpc[v] = "half" /\ wpc'[v] = "whole"
    BY <1>3 DEF WriteRest, WriteCell, At, Goto, StoreInv, TypeOK, WriterTypes
  <2>2. QED
    BY <1>2, <2>1
<1>4. QED
  BY <1>1, <1>2, <1>3, WriterAt DEF StoreInv

LEMMA TimesStep ==
  ASSUME StoreInv, StoreInv', TimesInv, CarriedInv, [Next]_<<setting, vars>>
  PROVE  TimesInv'
<1>1. ASSUME NEW s \in Segments' PROVE stamp'[s] <= clock'
  <2>1. CASE s \in Segments
    BY <2>1, NamesStay, SegmentTyped DEF TimesInv, StoreInv, TypeOK
  <2>2. CASE s \notin Segments
    <3>1. raw' # raw /\ Len(raw) \in Nat /\ Len(raw) <= Len(raw') /\ Len(raw') \in Nat
      BY <2>2, SegmentChange DEF Segments, StoreInv, TypeOK, FileTypes
    <3>2. PICK w \in Writers : CreateRaw(w)
      <4>1. Len(raw') # Len(raw)
        BY <2>2, <3>1 DEF Segments
      <4>2. ASSUME NEW p \in Runners, RepairCut(p) PROVE Len(raw') = Len(raw)
        BY <4>2 DEF RepairCut, StoreInv, TypeOK, FileTypes
      <4>3. ASSUME NEW p \in Runners, \/ Start(p) \/ RepairRead(p) \/ RepairTruncate(p) \/ RepairRewrite(p)
                                      \/ List(p) \/ Beat(p) \/ EndRun(p) \/ Kill(p)
            PROVE  UNCHANGED raw
        BY <4>3 DEF Start, RepairRead, RepairTruncate, RepairRewrite, List, Beat, EndRun, Kill, files
      <4>4. ASSUME NEW w \in Writers, \/ Take(w) \/ WriteFails(w) \/ CreateIdx(w) \/ TellEnd(w) \/ WriteLine(w)
                                      \/ Sync(w)
            PROVE  UNCHANGED raw
        BY <4>4 DEF Take, WriteFails, CreateIdx, TellEnd, WriteLine, Sync, files
      <4>5. ASSUME NEW w \in Writers, WriteHead(w) \/ WriteRest(w) PROVE Len(raw') = Len(raw)
        BY <4>5 DEF WriteHead, WriteRest, WriteCell, StoreInv, TypeOK, FileTypes
      <4>6. PowerLoss => Len(raw') = Len(raw)
        BY LossIs DEF StoreInv
      <4>7. Stale \/ Over \/ UNCHANGED vars => UNCHANGED raw
        BY DEF Stale, Over, vars, files
      <4>8. QED
        BY <3>1, <4>1, <4>2, <4>3, <4>4, <4>5, <4>6, <4>7 DEF Next, Repairing, Appending
    <3>3. /\ raw' = Append(raw, <<>>) /\ stamp' = Append(stamp, rtime[w[1]]) /\ clock' = clock
      BY <3>2 DEF CreateRaw, others
    <3>4. s = Len(raw) + 1 /\ stamp'[s] = rtime[w[1]]
      BY <2>2, <3>1, <3>3 DEF Segments, StoreInv, TypeOK, FileTypes
    <3>5. QED
      BY <3>3, <3>4, WriterAt DEF TimesInv, StoreInv
  <2>3. QED
    BY <2>1, <2>2
<1>2. ASSUME NEW s \in Segments', NEW i \in 1..Count(raw'[s]) PROVE RecordAt(raw'[s], 2 * (i - 1)).id <= born'
  <2>1. CASE s \in Segments /\ i \in 1..Count(raw[s]) /\ RecordAt(raw'[s], 2 * (i - 1)) = Rec(s, i)
    <3>1. Rec(s, i) \in Records /\ Rec(s, i).id <= born
      BY <2>1, RecTyped DEF TimesInv, StoreInv
    <3>2. Rec(s, i).id \in Nat
      BY <3>1 DEF Records
    <3>3. QED
      BY <2>1, <3>1, <3>2, NamesStay DEF StoreInv, TypeOK
  <2>2. CASE \E w \in Writers : WriteRest(w) /\ RecordAt(raw'[s], 2 * (i - 1)) = wrec[w]
    BY <2>2, OneWrites DEF CarriedInv
  <2>3. QED
    BY <2>1, <2>2, StepAdds DEF StoreInv
<1>3. ASSUME NEW p \in Runners PROVE rtime'[p] <= clock'
  <2>1. CASE Start(p)
    <3>1. rtime' = [rtime EXCEPT ![p] = clock'] /\ rtime \in [Runners -> Nat]
      BY <2>1 DEF Start, StoreInv, TypeOK, RunnerTypes
    <3>2. rtime'[p] = clock' /\ clock' \in Nat
      BY <3>1, NamesStay
    <3>3. QED
      BY <3>2
  <2>2. CASE ~Start(p)
    <3>1. rtime'[p] = rtime[p] /\ rtime[p] \in Nat
      BY <2>2, RunnerMoves DEF List, StoreInv, TypeOK, RunnerTypes
    <3>2. QED
      BY <3>1, NamesStay DEF TimesInv
  <2>3. QED
    BY <2>1, <2>2
<1>4. ASSUME NEW w \in Writers, wseg'[w] # 0 PROVE stamp'[wseg'[w]] = rtime'[w[1]]
  <2>1. w[1] \in Runners
    BY WriterAt DEF StoreInv
  <2>2. CASE wseg'[w] = wseg[w]
    <3>1. wseg[w] \in Segments /\ stamp[wseg[w]] = rtime[w[1]] /\ rpc[w[1]] = "run"
      BY <1>4, <2>1, <2>2, WriterAt DEF TimesInv, StoreInv, RunnersInv
    <3>2. ~Start(w[1])
      BY <3>1 DEF Start
    <3>3. rtime'[w[1]] = rtime[w[1]]
      BY <2>1, <3>2, RunnerMoves DEF List
    <3>4. QED
      BY <2>2, <3>1, <3>3, NamesStay
  <2>3. CASE wseg'[w] # wseg[w]
    <3>1. CreateRaw(w)
      <4>1. ASSUME NEW p \in Runners, Start(p) \/ Repairing(p) \/ List(p) \/ Beat(p) PROVE wseg' = wseg
        BY <4>1 DEF Start, Repairing, RepairRead, RepairCut, RepairTruncate, RepairRewrite, List, Beat, writers
      <4>2. ASSUME NEW p \in Runners, EndRun(p) \/ Kill(p) PROVE wseg'[w] = 0 \/ wseg'[w] = wseg[w]
        BY <4>2 DEF EndRun, Kill, NoThreads, Gone
      <4>3. ASSUME NEW v \in Writers, Take(v) \/ WriteFails(v) \/ (Appending(v) /\ ~CreateRaw(v)) PROVE wseg' = wseg
        BY <4>3 DEF Take, WriteFails, Appending, CreateIdx, TellEnd, WriteHead, WriteRest, WriteCell, Sync, WriteLine
      <4>4. ASSUME NEW v \in Writers, CreateRaw(v), v # w PROVE wseg'[w] = wseg[w]
        BY <4>4 DEF CreateRaw, StoreInv, TypeOK, WriterTypes
      <4>5. PowerLoss => wseg'[w] = 0
        BY DEF PowerLoss
      <4>6. Stale \/ Over \/ UNCHANGED vars => wseg' = wseg
        BY DEF Stale, Over, vars, writers
      <4>7. QED
        BY <1>4, <2>3, <4>1, <4>2, <4>3, <4>4, <4>5, <4>6 DEF Next
    <3>2. /\ wseg'[w] = Len(raw) + 1 /\ stamp' = Append(stamp, rtime[w[1]]) /\ rtime' = rtime
          /\ stamp \in Seq(Nat) /\ Len(stamp) = Len(raw)
      BY <3>1 DEF CreateRaw, others, StoreInv, TypeOK, WriterTypes, FileTypes
    <3>3. QED
      BY <3>2
  <2>4. QED
    BY <2>2, <2>3
<1>5. QED
  BY <1>1, <1>2, <1>3, <1>4 DEF TimesInv, Rec

\* A record that a step adds is later than all of its key.
LEMMA NewIsLater ==
  ASSUME StoreInv, TimesInv, CarriedInv, [Next]_<<setting, vars>>, NEW w \in Writers, WriteRest(w),
         NEW s \in Segments, NEW i \in 1..Count(raw[s]), Rec(s, i).key = wrec[w].key
  PROVE  /\ stamp'[s] < stamp'[wseg[w]] /\ Rec(s, i).id < wrec[w].id /\ Rec(s, i).status = "failed"
<1>1. wpc[w] = "half" /\ wseg[w] \in Segments
  BY OneWrites
<1>2. Outdated(wrec[w].key, rtime[w[1]], wrec[w].id)
  BY <1>1 DEF CarriedInv
<1>3. wseg[w] # 0
  BY <1>1 DEF Segments
<1>4. stamp[wseg[w]] = rtime[w[1]]
  BY <1>3 DEF TimesInv
<1>5. QED
  BY <1>1, <1>2, <1>4, NamesStay DEF Outdated

LEMMA OrderStep ==
  ASSUME StoreInv, StoreInv', TimesInv, OrderInv, CarriedInv, [Next]_<<setting, vars>>
  PROVE  OrderInv'
<1> DEFINE New(s, i) == RecordAt(raw'[s], 2 * (i - 1))
           Before(s, i, t, j) == stamp'[s] < stamp'[t] /\ New(s, i).id < New(t, j).id /\ New(s, i).status = "failed"
           Old(s, i) == s \in Segments /\ i \in 1..Count(raw[s]) /\ New(s, i) = Rec(s, i)
           Fresh(s, i) == \E w \in Writers : WriteRest(w) /\ s = wseg[w] /\ i = Count(raw[s]) + 1
                                                /\ New(s, i) = wrec[w]
<1>1. SUFFICES ASSUME NEW s \in Segments', NEW t \in Segments',
                      NEW i \in 1..Count(raw'[s]), NEW j \in 1..Count(raw'[t]), New(s, i).key = New(t, j).key
               PROVE  (s = t /\ i = j) \/ Before(s, i, t, j) \/ Before(t, j, s, i)
  BY DEF OrderInv, Sooner, Rec
<1>2. (Old(s, i) \/ Fresh(s, i)) /\ (Old(t, j) \/ Fresh(t, j))
  BY StepAdds DEF StoreInv
<1>3. CASE Old(s, i) /\ Old(t, j)
  <2>1. stamp'[s] = stamp[s] /\ stamp'[t] = stamp[t]
    BY <1>3, NamesStay
  <2>2. (s = t /\ i = j) \/ Sooner(s, i, t, j) \/ Sooner(t, j, s, i)
    BY <1>1, <1>3 DEF OrderInv
  <2>3. QED
    BY <1>3, <2>1, <2>2 DEF Sooner
<1>4. CASE Old(s, i) /\ Fresh(t, j)
  BY <1>1, <1>4, NewIsLater
<1>5. CASE Fresh(s, i) /\ Old(t, j)
  BY <1>1, <1>5, NewIsLater
<1>6. CASE Fresh(s, i) /\ Fresh(t, j)
  BY <1>6, OneWrites
<1>7. QED
  BY <1>2, <1>3, <1>4, <1>5, <1>6

\* What is outdated stays so until a thread adds a record of the key.
LEMMA OutdatedStays ==
  ASSUME StoreInv, StoreInv', [Next]_<<setting, vars>>, NEW k, NEW time, NEW id, Outdated(k, time, id),
         \A w \in Writers : WriteRest(w) => wrec[w].key # k
  PROVE  Outdated(k, time, id)'
<1>1. ASSUME NEW s \in Segments', NEW i \in 1..Count(raw'[s]), RecordAt(raw'[s], 2 * (i - 1)).key = k
      PROVE  /\ stamp'[s] < time /\ RecordAt(raw'[s], 2 * (i - 1)).id < id
             /\ RecordAt(raw'[s], 2 * (i - 1)).status = "failed"
  <2>1. /\ s \in Segments /\ i \in 1..Count(raw[s])
        /\ RecordAt(raw'[s], 2 * (i - 1)) = Rec(s, i)
    BY <1>1, StepAdds DEF StoreInv
  <2>2. QED
    BY <1>1, <2>1, NamesStay DEF Outdated
<1>2. QED
  BY <1>1 DEF Outdated, Rec

\* How a thread that carries a record after a step came to it.
LEMMA ThreadMoves ==
  ASSUME StoreInv, [Next]_<<setting, vars>>, NEW w \in Writers, wpc'[w] # "idle"
  PROVE  \/ Take(w)
         \/ /\ wpc[w] # "idle" /\ wrec'[w] = wrec[w] /\ rpc[w[1]] = "run"
            /\ wpc'[w] \notin {"whole", "synced"} => wpc[w] \notin {"whole", "synced"} /\ ~WriteRest(w)
<1>0. /\ wpc \in [Writers -> {"idle", "create", "index", "tell", "append", "half", "whole", "synced"}]
      /\ wrec \in [Writers -> Records \cup {NoRecord}]
      /\ wpc[w] # "idle" => rpc[w[1]] = "run"
  BY DEF StoreInv, TypeOK, WriterTypes
<1> DEFINE Stays == wpc'[w] = wpc[w] /\ wrec'[w] = wrec[w]
<1>1. ASSUME NEW v \in Writers, WriteRest(v) PROVE wpc' = [wpc EXCEPT ![v] = "whole"]
  BY <1>1 DEF WriteRest, WriteCell, Goto
<1>2. Stays => wpc[w] # "idle" /\ (wpc'[w] \notin {"whole", "synced"} =>
                                     wpc[w] \notin {"whole", "synced"} /\ ~WriteRest(w))
  BY <1>0, <1>1
<1>3. ASSUME NEW p \in Runners, Start(p) \/ Repairing(p) \/ List(p) \/ Beat(p) PROVE Stays
  BY <1>3 DEF Start, Repairing, RepairRead, RepairCut, RepairTruncate, RepairRewrite, List, Beat, writers
<1>4. ASSUME NEW p \in Runners, EndRun(p) \/ Kill(p) PROVE Stays
  <2>1. wpc' = Gone(p, wpc, "idle") /\ wrec' = Gone(p, wrec, NoRecord)
    BY <1>4 DEF EndRun, Kill, NoThreads
  <2>2. QED
    BY <2>1 DEF Gone
<1>5. ASSUME NEW v \in Writers, Take(v) \/ Appending(v) \/ WriteFails(v), v # w PROVE Stays
  <2>1. OnlyWriter(v)
    BY <1>5, WriterMoves DEF StoreInv
  <2>2. QED
    BY <1>0, <1>5, <2>1 DEF OnlyWriter
<1>6. CASE Appending(w)
  <2>1. CASE \/ CreateRaw(w) /\ wpc' = [wpc EXCEPT ![w] = "index"] /\ wpc[w] = "create" /\ wrec' = wrec
             \/ CreateIdx(w) /\ wpc' = [wpc EXCEPT ![w] = "tell"] /\ wpc[w] = "index" /\ wrec' = wrec
             \/ TellEnd(w) /\ wpc' = [wpc EXCEPT ![w] = "append"] /\ wpc[w] = "tell" /\ wrec' = wrec
             \/ WriteHead(w) /\ wpc' = [wpc EXCEPT ![w] = "half"] /\ wpc[w] = "append" /\ wrec' = wrec
             \/ WriteRest(w) /\ wpc' = [wpc EXCEPT ![w] = "whole"] /\ wpc[w] = "half" /\ wrec' = wrec
             \/ Sync(w) /\ wpc' = [wpc EXCEPT ![w] = "synced"] /\ wpc[w] = "whole" /\ wrec' = wrec
    BY <1>0, <1>1, <2>1
  <2>2. ~WriteLine(w)
    BY <1>0 DEF WriteLine, Goto
  <2>3. QED
    BY <1>6, <2>1, <2>2 DEF Appending, CreateRaw, CreateIdx, TellEnd, WriteHead, WriteRest, WriteCell, Sync, At, Goto
<1>7. ~WriteFails(w) /\ ~PowerLoss
  BY <1>0 DEF WriteFails, Goto, PowerLoss
<1>8. Stale \/ Over \/ UNCHANGED vars => Stays
  BY DEF Stale, Over, vars, writers
<1>9. QED
  BY <1>0, <1>2, <1>3, <1>4, <1>5, <1>6, <1>7, <1>8 DEF Next

\* What a runner that runs its list has, it keeps.
LEMMA RunnerKeeps ==
  ASSUME StoreInv, [Next]_<<setting, vars>>, NEW p \in Runners, rpc[p] = "run"
  PROVE  rtime'[p] = rtime[p] /\ todo'[p] \subseteq todo[p]
BY RunnerMoves DEF Start, List

\* The record a thread takes up.
LEMMA TakeIs ==
  ASSUME StoreInv, TimesInv, TodoInv, NEW w \in Writers, Take(w)
  PROVE  /\ rpc[w[1]] = "run" /\ UNCHANGED <<files, rtime>> /\ born' = born + 1
         /\ wrec'[w].key \in todo[w[1]] /\ wrec'[w].key \in JobsOf[w[1]] /\ wrec'[w].key \notin todo'[w[1]]
         /\ wrec'[w].id = born + 1 /\ wpc[w] = "idle"
         /\ Outdated(wrec'[w].key, rtime[w[1]], born + 1)
         /\ \A v \in Writers : Take(v) => v = w
<1>0. /\ w[1] \in Runners /\ todo \in [Runners -> SUBSET Keys] /\ wrec \in [Writers -> Records \cup {NoRecord}]
      /\ born \in Nat
  BY WriterAt DEF StoreInv, TypeOK, RunnerTypes, WriterTypes
<1>1. PICK k \in todo[w[1]] : /\ todo' = [todo EXCEPT ![w[1]] = todo[w[1]] \ {k}]
                              /\ \E st \in Statuses : wrec' = [wrec EXCEPT ![w] = [key |-> k, status |-> st, id |-> born + 1]]
  BY DEF Take
<1>2. /\ rpc[w[1]] = "run" /\ UNCHANGED <<files, rtime>> /\ born' = born + 1 /\ wpc[w] = "idle"
  BY DEF Take, At
<1>3. wrec'[w].key = k /\ wrec'[w].id = born + 1 /\ todo'[w[1]] = todo[w[1]] \ {k}
  BY <1>0, <1>1
<1>4. k \in JobsOf[w[1]]
  BY <1>0, <1>1 DEF TodoInv
<1>5. ASSUME NEW s \in Segments, NEW i \in 1..Count(raw[s]), Rec(s, i).key = k
      PROVE  stamp[s] < rtime[w[1]] /\ Rec(s, i).id < born + 1 /\ Rec(s, i).status = "failed"
  <2>1. Rec(s, i) \in Records /\ Rec(s, i).id <= born
    BY RecTyped DEF TimesInv, StoreInv
  <2>2. Rec(s, i).id \in Nat
    BY <2>1 DEF Records
  <2>3. stamp[s] < rtime[w[1]] /\ Rec(s, i).status = "failed"
    BY <1>0, <1>1, <1>2, <1>4, <1>5 DEF TodoInv
  <2>4. QED
    BY <1>0, <2>1, <2>2, <2>3
<1>6. Outdated(k, rtime[w[1]], born + 1)
  BY <1>5 DEF Outdated
<1>7. ASSUME NEW v \in Writers, Take(v) PROVE v = w
  <2>1. wpc[v] = "idle" /\ wpc'[v] # "idle"
    BY <1>7 DEF Take, At, Goto, StoreInv, TypeOK, WriterTypes
  <2>2. wpc' = [wpc EXCEPT ![w] = wpc'[w]]
    BY WriterMoves DEF OnlyWriter, StoreInv
  <2>3. QED
    BY <2>1, <2>2 DEF StoreInv, TypeOK, WriterTypes
<1>8. QED
  BY <1>1, <1>2, <1>3, <1>4, <1>6, <1>7

LEMMA CarriedStep ==
  ASSUME Orderly, StoreInv, StoreInv', AloneInv, TimesInv, CarriedInv, TodoInv, [Next]_<<setting, vars>>
  PROVE  CarriedInv'
<1> SUFFICES ASSUME NEW w \in Writers, wpc'[w] # "idle"
             PROVE  /\ wrec'[w].key \in JobsOf'[w[1]] /\ wrec'[w].key \notin todo'[w[1]] /\ wrec'[w].id <= born'
                    /\ \A v \in Writers : v # w /\ wpc'[v] # "idle" => wrec'[v].key # wrec'[w].key
                    /\ wpc'[w] \notin {"whole", "synced"} => Outdated(wrec[w].key, rtime[w[1]], wrec[w].id)'
  BY DEF CarriedInv, Writers
<1>1. \A v \in Writers : v[1] \in Runners
  BY WriterAt DEF StoreInv
<1> DEFINE Goes(v) == wpc[v] # "idle" /\ wrec'[v] = wrec[v] /\ rpc[v[1]] = "run"
<1>2. \A v \in Writers : wpc'[v] # "idle" => Take(v) \/ Goes(v)
  BY ThreadMoves
<1>3. ASSUME NEW u \in Writers, NEW v \in Writers, Take(u), Goes(v)
      PROVE  wrec'[u].key # wrec'[v].key
  <2>1. /\ rpc[u[1]] = "run" /\ wrec'[u].key \in todo[u[1]] /\ wrec'[u].key \in JobsOf[u[1]]
    BY <1>3, TakeIs
  <2>2. /\ rpc[v[1]] = "run" /\ wrec'[v].key \in JobsOf[v[1]] /\ wrec'[v].key \notin todo[v[1]]
    BY <1>3 DEF CarriedInv
  <2>3. CASE u[1] = v[1]
    BY <2>1, <2>2, <2>3
  <2>4. CASE u[1] # v[1]
    <3>1. JobsOf[u[1]] \cap JobsOf[v[1]] = {}
      BY <1>1, <2>1, <2>2, <2>4, JobsApart DEF StoreInv
    <3>2. QED
      BY <2>1, <2>2, <3>1
  <2>5. QED
    BY <2>3, <2>4
<1>4. ASSUME NEW v \in Writers, v # w, wpc'[v] # "idle" PROVE wrec'[v].key # wrec'[w].key
  <2>1. ~(Take(v) /\ Take(w))
    BY <1>4, TakeIs
  <2>2. CASE Goes(v) /\ Goes(w)
    BY <1>4, <2>2 DEF CarriedInv
  <2>3. QED
    BY <1>2, <1>3, <1>4, <2>1, <2>2
<1>5. CASE Take(w)
  <2>1. /\ UNCHANGED <<files, rtime>> /\ born' = born + 1 /\ born \in Nat
        /\ wrec'[w].key \in JobsOf[w[1]] /\ wrec'[w].key \notin todo'[w[1]] /\ wrec'[w].id = born + 1
        /\ Outdated(wrec'[w].key, rtime[w[1]], born + 1)
    BY <1>5, TakeIs DEF StoreInv, TypeOK
  <2>2. Outdated(wrec[w].key, rtime[w[1]], wrec[w].id)'
    BY <2>1 DEF Outdated, files, Segments, Rec
  <2>3. QED
    BY <1>4, <2>1, <2>2, NamesStay
<1>6. CASE Goes(w)
  <2>1. /\ wrec[w].key \in JobsOf[w[1]] /\ wrec[w].key \notin todo[w[1]] /\ wrec[w].id <= born
        /\ wrec[w] \in Records
    BY <1>6, WriterAt DEF CarriedInv, StoreInv
  <2>2. wrec[w].id <= born'
    <3>1. wrec[w].id \in Nat
      BY <2>1 DEF Records
    <3>2. born \in Nat /\ born' \in Nat /\ born <= born'
      BY NamesStay DEF StoreInv, TypeOK
    <3>3. QED
      BY <2>1, <3>1, <3>2
  <2>3. rtime'[w[1]] = rtime[w[1]] /\ todo'[w[1]] \subseteq todo[w[1]]
    BY <1>1, <1>6, RunnerKeeps
  <2>4. ASSUME wpc'[w] \notin {"whole", "synced"} PROVE Outdated(wrec[w].key, rtime[w[1]], wrec[w].id)'
    <3>1. ~Take(w)
      BY <1>6 DEF Take, At
    <3>2. wpc[w] \notin {"whole", "synced"} /\ ~WriteRest(w)
      BY <2>4, <3>1, ThreadMoves
    <3>3. PICK k, time, id : k = wrec[w].key /\ time = rtime[w[1]] /\ id = wrec[w].id
      OBVIOUS
    <3>4. Outdated(k, time, id)
      BY <1>6, <3>2, <3>3 DEF CarriedInv
    <3>5. \A v \in Writers : WriteRest(v) => wrec[v].key # k
      BY <1>6, <3>2, <3>3, OneWrites DEF CarriedInv
    <3>6. Outdated(k, time, id)'
      BY <3>4, <3>5, OutdatedStays
    <3>7. k = wrec'[w].key /\ time = rtime'[w[1]] /\ id = wrec'[w].id
      BY <1>6, <2>3, <3>3
    <3>8. QED
      BY <3>6, <3>7 DEF Outdated
  <2>5. QED
    BY <1>4, <1>6, <2>1, <2>2, <2>3, <2>4, NamesStay
<1>7. QED
  BY <1>2, <1>5, <1>6

LEMMA TodoStep ==
  ASSUME Orderly, StoreInv, StoreInv', AloneInv, TimesInv, OrderInv, CarriedInv, TodoInv,
         [Next]_<<setting, vars>>, NEW p \in Runners
  PROVE  /\ todo'[p] \subseteq JobsOf'[p]
         /\ \A k \in JobsOf'[p], s \in Segments' : \A i \in 1..Count(raw'[s]) :
               RecordAt(raw'[s], 2 * (i - 1)).key = k =>
                  /\ rpc'[p] \notin {"off", "run"} => stamp'[s] < rtime'[p]
                  /\ rpc'[p] = "run" /\ k \in todo'[p] =>
                        stamp'[s] < rtime'[p] /\ RecordAt(raw'[s], 2 * (i - 1)).status = "failed"
<1>1. JobsOf' = JobsOf
  BY NamesStay
<1>2. todo'[p] \subseteq JobsOf[p]
  <2>1. todo'[p] \subseteq todo[p] \/ todo'[p] \subseteq JobsOf[p]
    <3>1. todo \in [Runners -> SUBSET Keys]
      BY DEF StoreInv, TypeOK, RunnerTypes
    <3>2. List(p) => todo'[p] \subseteq JobsOf[p]
      BY <3>1 DEF List
    <3>3. Start(p) => todo' = todo
      BY DEF Start
    <3>4. QED
      BY <3>2, <3>3, RunnerMoves
  <2>2. QED
    BY <2>1 DEF TodoInv
<1>3. SUFFICES ASSUME NEW k \in JobsOf[p], NEW s \in Segments', NEW i \in 1..Count(raw'[s]),
                      RecordAt(raw'[s], 2 * (i - 1)).key = k
               PROVE  /\ rpc'[p] \notin {"off", "run"} => stamp'[s] < rtime'[p]
                      /\ rpc'[p] = "run" /\ k \in todo'[p] =>
                            stamp'[s] < rtime'[p] /\ RecordAt(raw'[s], 2 * (i - 1)).status = "failed"
  BY <1>1, <1>2
<1>4. \/ /\ s \in Segments /\ i \in 1..Count(raw[s]) /\ RecordAt(raw'[s], 2 * (i - 1)) = Rec(s, i)
      \/ \E w \in Writers : WriteRest(w) /\ wrec[w].key = k
  BY <1>3, StepAdds DEF StoreInv
<1>5. CASE s \in Segments /\ i \in 1..Count(raw[s]) /\ RecordAt(raw'[s], 2 * (i - 1)) = Rec(s, i)
  <2>1. stamp'[s] = stamp[s] /\ Rec(s, i).key = k
    BY <1>3, <1>5, NamesStay
  <2>2. CASE Start(p)
    <3>1. /\ clock' = clock + 1 /\ rtime' = [rtime EXCEPT ![p] = clock'] /\ rtime \in [Runners -> Nat]
          /\ clock \in Nat /\ rpc'[p] # "run"
      BY <2>2 DEF Start, StoreInv, TypeOK, RunnerTypes
    <3>2. stamp[s] <= clock /\ stamp[s] \in Nat
      BY <1>5, SegmentTyped DEF TimesInv, StoreInv, TypeOK
    <3>3. stamp[s] < rtime'[p]
      BY <3>1, <3>2
    <3>4. QED
      BY <2>1, <3>1, <3>3
  <2>3. CASE List(p)
    <3>1. /\ rpc[p] = "list" /\ rtime' = rtime /\ rpc'[p] \in {"off", "run"}
          /\ k \in todo'[p] => StatusOf(k) # "done"
      BY <2>3 DEF List, StoreInv, TypeOK, RunnerTypes
    <3>2. stamp[s] < rtime[p]
      BY <1>5, <2>1, <3>1 DEF TodoInv
    <3>3. k \in todo'[p] => Rec(s, i).status = "failed"
      BY <1>5, <2>1, <3>1, NotDone DEF StoreInv
    <3>4. QED
      BY <1>5, <2>1, <3>1, <3>2, <3>3
  <2>4. CASE rpc'[p] = "off"
    BY <2>4
  <2>5. CASE /\ rpc'[p] = rpc[p] \/ {rpc[p], rpc'[p]} \cap {"off", "run"} = {}
             /\ rtime'[p] = rtime[p] /\ todo'[p] \subseteq todo[p]
    BY <1>5, <2>1, <2>5 DEF TodoInv
  <2>6. QED
    BY <2>2, <2>3, <2>4, <2>5, RunnerMoves
<1>6. ASSUME NEW w \in Writers, WriteRest(w), wrec[w].key = k
      PROVE  /\ rpc'[p] \in {"off", "run"}
             /\ rpc'[p] = "run" => k \notin todo'[p]
  <2>1. /\ w[1] \in Runners /\ rpc[w[1]] = "run" /\ UNCHANGED <<rpc, todo>>
        /\ k \in JobsOf[w[1]] /\ k \notin todo[w[1]]
    BY <1>6, OneWrites DEF CarriedInv
  <2>2. CASE w[1] = p
    BY <2>1, <2>2
  <2>3. CASE w[1] # p /\ rpc[p] # "off"
    <3>1. JobsOf[w[1]] \cap JobsOf[p] = {}
      BY <2>1, <2>3, JobsApart DEF StoreInv
    <3>2. QED
      BY <1>3, <2>1, <3>1
  <2>4. QED
    BY <2>1, <2>2, <2>3
<1>7. QED
  BY <1>4, <1>5, <1>6

LEMMA RunsInit == Init => RunsInv
<1> SUFFICES ASSUME Init PROVE RunsInv
  OBVIOUS
<1>1. Segments = {}
  BY DEF Init, Segments
<1>2. AloneInv
  BY DEF Init, AloneInv
<1>3. TimesInv
  BY <1>1 DEF Init, TimesInv, Writers
<1>4. OrderInv
  BY <1>1 DEF OrderInv
<1>5. CarriedInv
  BY DEF Init, CarriedInv
<1>6. TodoInv
  BY <1>1 DEF Init, TodoInv
<1>7. QED
  BY <1>2, <1>3, <1>4, <1>5, <1>6 DEF RunsInv

LEMMA RunsStep ==
  ASSUME Orderly, StoreInv, StoreInv', RunsInv, [Next]_<<setting, vars>>
  PROVE  RunsInv'
<1>1. AloneInv' /\ TimesInv' /\ OrderInv' /\ CarriedInv'
  BY AloneStep, TimesStep, OrderStep, CarriedStep DEF RunsInv
<1>2. TodoInv'
  <2>1. ASSUME NEW p \in Runners
        PROVE  /\ todo'[p] \subseteq JobsOf'[p]
               /\ \A k \in JobsOf'[p], s \in Segments' : \A i \in 1..Count(raw'[s]) :
                     RecordAt(raw'[s], 2 * (i - 1)).key = k =>
                        /\ rpc'[p] \notin {"off", "run"} => stamp'[s] < rtime'[p]
                        /\ rpc'[p] = "run" /\ k \in todo'[p] =>
                              stamp'[s] < rtime'[p] /\ RecordAt(raw'[s], 2 * (i - 1)).status = "failed"
    BY TodoStep DEF RunsInv
  <2>2. QED
    BY <2>1 DEF TodoInv, Rec
<1>3. QED
  BY <1>1, <1>2 DEF RunsInv

\* A record append() returned for has a place the readers find it at.
LEMMA AckedPlace ==
  ASSUME Orderly, StoreInv, NEW r \in acked
  PROVE  \E f \in Places(r.key) : /\ f[1] \in Segments /\ f[2] \in 1..Count(raw[f[1]])
                                  /\ Rec(f[1], f[2]) = r
<1>1. \E s \in Segments : \E i \in 1..Count(raw[s]) : Rec(s, i) = r
  BY DEF StoreInv, AckedInv
<1>2. ASSUME NEW s \in Segments, NEW i \in 1..Count(raw[s]), Rec(s, i) = r
      PROVE  <<s, i>> \in Places(r.key)
  BY <1>2, PlacesAre DEF StoreInv
<1>3. QED
  BY <1>1, <1>2

LEMMA LatestNow == ASSUME Orderly, StoreInv, RunsInv PROVE LatestWins
<1> SUFFICES ASSUME NEW r \in acked PROVE Places(r.key) # {} /\ Stored(r.key).id >= r.id
  BY DEF LatestWins
<1>1. PICK f \in Places(r.key) : f[1] \in Segments /\ f[2] \in 1..Count(raw[f[1]]) /\ Rec(f[1], f[2]) = r
  BY AckedPlace
<1> DEFINE e == Winner(r.key)
<1>2. e \in Places(r.key) /\ (f = e \/ Sooner(f[1], f[2], e[1], e[2]))
  BY <1>1, WinnerIs DEF StoreInv, RunsInv
<1>3. e[1] \in Segments /\ e[2] \in 1..Count(raw[e[1]])
  BY <1>2, PlacesAre DEF StoreInv
<1>4. Stored(r.key) = Rec(e[1], e[2])
  <2>1. Entries(e[1]) = Account(raw[e[1]])
    BY <1>3, PlacesAre DEF StoreInv
  <2>2. WinningLine(r.key).at = 2 * (e[2] - 1)
    BY <1>3, <2>1 DEF WinningLine, Account, Line
  <2>3. QED
    BY <2>2 DEF Stored, Rec
<1>5. r.id \in Nat /\ Rec(e[1], e[2]).id \in Nat
  BY <1>1, <1>3, RecTyped DEF StoreInv, Records
<1>6. r.id <= Rec(e[1], e[2]).id
  BY <1>1, <1>2, <1>5 DEF Sooner
<1>7. QED
  BY <1>2, <1>4, <1>5, <1>6

LEMMA DoneNow == ASSUME Orderly, StoreInv, RunsInv PROVE DoneNotRedone
<1> SUFFICES ASSUME NEW q \in acked, NEW r \in acked, q.key = r.key, q.id < r.id PROVE q.status = "failed"
  BY DEF DoneNotRedone
<1>1. /\ \E s \in Segments : \E i \in 1..Count(raw[s]) : Rec(s, i) = q
      /\ \E t \in Segments : \E j \in 1..Count(raw[t]) : Rec(t, j) = r
  BY DEF StoreInv, AckedInv
<1>2. q.id \in Nat /\ r.id \in Nat
  BY DEF StoreInv, TypeOK, Records
<1>3. ASSUME NEW s \in Segments, NEW i \in 1..Count(raw[s]), Rec(s, i) = q,
             NEW t \in Segments, NEW j \in 1..Count(raw[t]), Rec(t, j) = r
      PROVE  q.status = "failed"
  <2>1. Sooner(s, i, t, j) \/ Sooner(t, j, s, i)
    BY <1>2, <1>3 DEF RunsInv, OrderInv
  <2>2. QED
    BY <1>2, <1>3, <2>1 DEF Sooner
<1>4. QED
  BY <1>1, <1>3

\* Where no index line is cut within a key and runners that may overlap have
\* different jobs, the runs of a key follow each other: each failed before the
\* next one's runner was started (List, Start, Take of run_campaign).
THEOREM RunsInOrder == ASSUME Orderly PROVE Spec => [](StoreInv /\ RunsInv)
<1>1. \A s \in Settings : s.overlap # "any"
  BY DEF Orderly
<1>2. Spec => []StoreInv
  BY <1>1, StoreInvariant
<1>3. Init => RunsInv
  BY RunsInit
<1>4. StoreInv /\ StoreInv' /\ RunsInv /\ [Next]_<<setting, vars>> => RunsInv'
  BY RunsStep
<1>5. QED
  BY <1>2, <1>3, <1>4, PTL DEF Spec

\* The store never answers for a key with a record older than one append() has
\* returned for: a run done again is read as its later record (store_index).
THEOREM LatestRunWins == ASSUME Orderly PROVE Spec => []LatestWins
<1>1. Spec => [](StoreInv /\ RunsInv)
  BY RunsInOrder
<1>2. StoreInv /\ RunsInv => LatestWins
  BY LatestNow
<1>3. QED
  BY <1>1, <1>2, PTL

\* A finished run is never run again: only failed ones have later records (the
\* todo list of run_campaign).
THEOREM NoRunRedone == ASSUME Orderly PROVE Spec => []DoneNotRedone
<1>1. Spec => [](StoreInv /\ RunsInv)
  BY RunsInOrder
<1>2. StoreInv /\ RunsInv => DoneNotRedone
  BY DoneNow
<1>3. QED
  BY <1>1, <1>2, PTL
=============================================================================
