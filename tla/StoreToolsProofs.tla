-------------------------- MODULE StoreToolsProofs --------------------------
(***************************************************************************)
(* That compact and merge, killed anywhere and run again, leave the store  *)
(* answering with every run's last record, for any keys, families, parts,  *)
(* numbers of records, tools and kills, while no runner appends beside a   *)
(* tool.                                                                   *)
(***************************************************************************)
EXTENDS StoreTools, SequenceTheorems, TLAPS

-----------------------------------------------------------------------------
(* The inductive invariant.                                                *)

Segment == [there : BOOLEAN, recs : Seq(Records)]

\* A pack of family f: each of its runs under its own key.
PackOf(f, p) ==
    DOMAIN p \subseteq KeysOf(f) /\ \A k \in DOMAIN p : p[k] \in Records /\ p[k].key = k

OwnRecord(k, r) == r = NoRecord \/ (r \in Records /\ r.key = k)

FileTypes ==
    /\ segs \in Seq(Segment) /\ \A s \in DOMAIN segs : ~segs[s].there => segs[s].recs = <<>>
    /\ DOMAIN pack = Families /\ \A f \in Families : PackOf(f, pack[f])
    /\ DOMAIN older = Families /\ \A f \in Families : PackOf(f, older[f])
    /\ DOMAIN latest = Keys /\ \A k \in Keys : OwnRecord(k, latest[k])

ToolTypes ==
    /\ tpc \in {"off", "packing", "removing", "compacted", "merging", "merged", "refused"}
    /\ remove \in BOOLEAN
    /\ left \subseteq Families /\ family \in (Families \ left) \cup {"none"}
    /\ tpc # "packing" => family = "none"
    /\ listed \subseteq 1..Len(segs)
    /\ parts \subseteq Records /\ have \subseteq parts
    /\ live \in 0..Len(segs) /\ into \in 0..Len(segs)
    /\ born \in Nat /\ tools \in 0..MaxTools /\ kills \in 0..MaxKills

\* What is appended is appended to the newest segment, and while a tool runs
\* by nobody but the tool.
AppendInv ==
    /\ live # 0 => live = Len(segs) /\ tpc = "off"
    /\ into # 0 => into = Len(segs) /\ tpc \in {"merging", "merged"}

\* What the packs say of a run that no segment has.
Packed(k) ==
    LET f == FamilyOf[k]
    IN  IF k \in DOMAIN older[f] THEN older[f][k]
        ELSE IF k \in DOMAIN pack[f] THEN pack[f][k]
        ELSE NoRecord

\* Segment s has a record of run k at place i, ...
Has(k, s, i) ==
    s \in 1..Len(segs) /\ i \in 1..Len(segs[s].recs) /\ segs[s].recs[i].key = k

\* ... and none of the run's comes after it.
Newest(k, s, i) ==
    /\ Has(k, s, i)
    /\ \A t \in 1..Len(segs) : \A j \in 1..Len(segs[t].recs) :
          Has(k, t, j) => t < s \/ (t = s /\ j <= i)

InSegments(k) ==
    \E s \in 1..Len(segs) : \E i \in 1..Len(segs[s].recs) :
        Newest(k, s, i) /\ segs[s].recs[i] = latest[k]

InNone(k) == \A s \in 1..Len(segs) : \A i \in 1..Len(segs[s].recs) : ~Has(k, s, i)

\* The last place of a run's records holds its latest one; where no segment has
\* it the packs do, and no pack of before has a run that was never recorded.
LatestInv ==
    \A k \in Keys :
        /\ InSegments(k) \/ (InNone(k) /\ Packed(k) = latest[k])
        /\ k \in DOMAIN older[FamilyOf[k]] => latest[k] # NoRecord

Compacting == tpc \in {"packing", "removing", "compacted"}

\* The index compact took is still the store's, and the families it is through
\* with have all their runs in the pack and nothing in a pack of before.
CompactInv ==
    Compacting =>
        /\ \A k \in Keys : idx[k].rec = latest[k] /\ (idx[k] = NoPlace <=> latest[k] = NoRecord)
        /\ \A k \in Keys : FamilyOf[k] \in left \/ latest[k] = NoRecord \/
              (k \in DOMAIN pack[FamilyOf[k]] /\ pack[FamilyOf[k]][k] = latest[k])
        /\ \A f \in Families : f \in left \/ f = family \/ DOMAIN older[f] = {}
        /\ tpc # "packing" => left = {}
        /\ tpc = "removing" => listed = Segments(1..Len(segs))
        /\ tpc = "compacted" /\ remove => Segments(1..Len(segs)) = {}

\* A merge has of its parts' runs those it does not still have to copy.
MergeInv ==
    tpc \in {"merging", "merged"} =>
        /\ \A q, r \in parts : q.key = r.key => q = r
        /\ \A r \in parts \ have : latest[r.key] = r
        /\ \A r \in have : latest[r.key] = NoRecord
        /\ tpc = "merged" => have = {}

ToolsInv ==
    FileTypes /\ ToolTypes /\ AppendInv /\ LatestInv /\ CompactInv /\ MergeInv

-----------------------------------------------------------------------------
(* Where a run's records are.                                              *)

LEMMA SegsAre ==
  ASSUME FileTypes
  PROVE  /\ Len(segs) \in Nat /\ DOMAIN segs = 1..Len(segs)
         /\ \A s \in 1..Len(segs) : /\ segs[s] \in Segment /\ segs[s].recs \in Seq(Records)
                                    /\ Len(segs[s].recs) \in Nat
                                    /\ \A i \in 1..Len(segs[s].recs) : segs[s].recs[i] \in Records
<1>1. segs \in Seq(Segment)
  BY DEF FileTypes
<1>2. Len(segs) \in Nat /\ DOMAIN segs = 1..Len(segs) /\ \A s \in 1..Len(segs) : segs[s] \in Segment
  BY <1>1
<1>3. \A g \in Segment : g.recs \in Seq(Records)
  BY DEF Segment
<1>4. \A q \in Seq(Records) : Len(q) \in Nat /\ \A i \in 1..Len(q) : q[i] \in Records
  OBVIOUS
<1>5. QED
  BY <1>2, <1>3, <1>4

LEMMA PlacesAre ==
  ASSUME FileTypes, NEW k
  PROVE  /\ \A s, i : <<s, i>> \in PlacesOf(k) <=> Has(k, s, i)
         /\ \A p \in PlacesOf(k) : p = <<p[1], p[2]>> /\ Has(k, p[1], p[2])
         /\ \A p \in PlacesOf(k) : p[1] \in Nat /\ p[2] \in Nat
<1>1. Len(segs) \in Nat /\ \A s \in 1..Len(segs) : Len(segs[s].recs) \in Nat
  BY SegsAre
<1>2. ASSUME NEW p \in PlacesOf(k) PROVE \E s, i : p = <<s, i>> /\ Has(k, s, i)
  BY <1>2 DEF PlacesOf, Has
<1>3. ASSUME NEW s, NEW i, Has(k, s, i) PROVE <<s, i>> \in PlacesOf(k)
  BY <1>3 DEF PlacesOf, Has
<1>4. ASSUME NEW s, NEW i, <<s, i>> \in PlacesOf(k) PROVE Has(k, s, i)
  <2>1. PICK t, j : <<s, i>> = <<t, j>> /\ Has(k, t, j)
    BY <1>2, <1>4
  <2>2. s = t /\ i = j
    BY <2>1
  <2>3. QED
    BY <2>1, <2>2
<1>5. ASSUME NEW p \in PlacesOf(k)
      PROVE  p = <<p[1], p[2]>> /\ Has(k, p[1], p[2]) /\ p[1] \in Nat /\ p[2] \in Nat
  <2>1. PICK s, i : p = <<s, i>> /\ Has(k, s, i)
    BY <1>2
  <2>2. p[1] = s /\ p[2] = i
    BY <2>1
  <2>3. QED
    BY <1>1, <2>1, <2>2 DEF Has
<1>6. QED
  BY <1>3, <1>4, <1>5

\* store_index gives a run's newest record, and what the packs say where no
\* segment has one.
LEMMA FoundIs ==
  ASSUME FileTypes, NEW k \in Keys, NEW s, NEW i, Newest(k, s, i)
  PROVE  PlaceOf(k) = [seg |-> s, rec |-> segs[s].recs[i]]
<1>1. Has(k, s, i) /\ s \in Nat /\ i \in Nat
  BY SegsAre DEF Newest, Has
<1>2. <<s, i>> \in PlacesOf(k)
  BY <1>1, PlacesAre
<1>3. \A q \in PlacesOf(k) : After(<<s, i>>, q)
  <2>1. SUFFICES ASSUME NEW q \in PlacesOf(k) PROVE After(<<s, i>>, q)
    OBVIOUS
  <2>2. q[1] \in Nat /\ q[2] \in Nat /\ Has(k, q[1], q[2])
    BY <2>1, PlacesAre
  <2>3. q[1] < s \/ (q[1] = s /\ q[2] <= i)
    BY <2>2 DEF Newest, Has
  <2>4. QED
    BY <1>1, <2>2, <2>3 DEF After
<1>4. PICK p : p = CHOOSE c \in PlacesOf(k) : \A q \in PlacesOf(k) : After(c, q)
  OBVIOUS
<1>5. p \in PlacesOf(k) /\ \A q \in PlacesOf(k) : After(p, q)
  BY <1>2, <1>3, <1>4
<1>6. /\ p = <<p[1], p[2]>> /\ p[1] \in Nat /\ p[2] \in Nat
  BY <1>5, PlacesAre
<1>7. After(p, <<s, i>>) /\ After(<<s, i>>, p)
  BY <1>2, <1>3, <1>5
<1>8. p[1] = s /\ p[2] = i
  BY <1>1, <1>6, <1>7 DEF After
<1>9. PlacesOf(k) # {}
  BY <1>2
<1>10. PlaceOf(k) = [seg |-> p[1], rec |-> segs[p[1]].recs[p[2]]]
  BY <1>4, <1>9 DEF PlaceOf
<1>11. QED
  BY <1>8, <1>10

LEMMA NotFoundIs ==
  ASSUME FileTypes, NEW k \in Keys, InNone(k)
  PROVE  PlaceOf(k) = [seg |-> 0, rec |-> Packed(k)]
<1>1. PlacesOf(k) = {}
  <2>1. ASSUME NEW p \in PlacesOf(k) PROVE FALSE
    BY PlacesAre DEF InNone, Has
  <2>2. QED
    BY <2>1
<1>2. QED
  BY <1>1 DEF PlaceOf, Packed, NoPlace

LEMMA StoredIs ==
  ASSUME FileTypes, LatestInv, NEW k \in Keys
  PROVE  /\ Stored(k) = latest[k] /\ PlaceOf(k).rec = latest[k]
         /\ PlaceOf(k) = NoPlace <=> latest[k] = NoRecord
<1>1. CASE InSegments(k)
  <2>1. PICK s \in 1..Len(segs) : \E i \in 1..Len(segs[s].recs) :
                Newest(k, s, i) /\ segs[s].recs[i] = latest[k]
    BY <1>1 DEF InSegments
  <2>2. PICK i \in 1..Len(segs[s].recs) : Newest(k, s, i) /\ segs[s].recs[i] = latest[k]
    BY <2>1
  <2>3. PlaceOf(k) = [seg |-> s, rec |-> latest[k]]
    BY <2>2, FoundIs
  <2>4. s # 0 /\ latest[k].key = k
    BY <2>1, <2>2, SegsAre DEF Newest, Has
  <2>5. latest[k] # NoRecord
    BY <2>4, ToolsAssumption
  <2>6. QED
    BY <2>3, <2>4, <2>5 DEF Stored, NoPlace
<1>2. CASE InNone(k) /\ Packed(k) = latest[k]
  <2>1. PlaceOf(k) = [seg |-> 0, rec |-> latest[k]]
    BY <1>2, NotFoundIs
  <2>2. QED
    BY <2>1 DEF Stored, NoPlace
<1>3. QED
  BY <1>1, <1>2 DEF LatestInv

-----------------------------------------------------------------------------
(* What an append and a removal do.                                        *)

LEMMA OneMore ==
  ASSUME NEW S, NEW q \in Seq(S), NEW x \in S, NEW b, b = Append(q, x)
  PROVE  /\ Len(q) \in Nat /\ b \in Seq(S) /\ Len(b) = Len(q) + 1 /\ DOMAIN b = 1..(Len(q) + 1)
         /\ b[Len(q) + 1] = x /\ \A i \in 1..Len(q) : b[i] = q[i]
OBVIOUS

LEMMA OneChanged ==
  ASSUME NEW S, NEW q \in Seq(S), NEW i \in 1..Len(q), NEW x \in S, NEW b, b = [q EXCEPT ![i] = x]
  PROVE  /\ Len(q) \in Nat /\ b \in Seq(S) /\ Len(b) = Len(q) /\ DOMAIN b = 1..Len(q)
         /\ b[i] = x /\ \A k \in 1..Len(q) : k # i => b[k] = q[k]
OBVIOUS

\* A record appended to the newest segment, or to one of its own, is newest.
LEMMA AppendIs ==
  ASSUME FileTypes, NEW s0 \in {0, Len(segs)}, NEW r \in Records, segs' = AppendedTo(s0, r),
         NEW L, L = Len(segs'), NEW J, J = Len(segs'[L].recs)
  PROVE  /\ segs' \in Seq(Segment) /\ \A s \in DOMAIN segs' : ~segs'[s].there => segs'[s].recs = <<>>
         /\ L = (IF s0 = 0 THEN Len(segs) + 1 ELSE Len(segs))
         /\ L \in Nat /\ J \in Nat /\ Has(r.key, L, J)' /\ segs'[L].recs[J] = r
         /\ \A k, s, i : Has(k, s, i)' <=> Has(k, s, i) \/ (k = r.key /\ s = L /\ i = J)
         /\ \A k, s, i : Has(k, s, i) => /\ segs'[s].recs[i] = segs[s].recs[i]
                                         /\ s \in Nat /\ i \in Nat /\ (s < L \/ (s = L /\ i < J))
<1>1. Len(segs) \in Nat /\ DOMAIN segs = 1..Len(segs) /\ segs \in Seq(Segment)
  BY SegsAre DEF FileTypes
<1>2. \A s \in 1..Len(segs) : segs[s].recs \in Seq(Records) /\ Len(segs[s].recs) \in Nat
  BY SegsAre
<1>3. \A s \in 1..Len(segs) : ~segs[s].there => segs[s].recs = <<>>
  BY <1>1 DEF FileTypes
<1>01. \A n \in Nat : \A i \in 1..n : i \in Nat /\ i <= n /\ i < n + 1
  OBVIOUS
<1>02. \A n \in Nat : /\ n + 1 \in Nat /\ n + 1 \notin 1..n
                    /\ \A i : i \in 1..(n + 1) <=> i \in 1..n \/ i = n + 1
  OBVIOUS
<1>03. \A q \in Seq(Segment), x \in Segment : \A b : b = Append(q, x) =>
          /\ b \in Seq(Segment) /\ Len(b) = Len(q) + 1 /\ DOMAIN b = 1..(Len(q) + 1)
          /\ b[Len(q) + 1] = x /\ \A i \in 1..Len(q) : b[i] = q[i]
  BY OneMore
<1>04. \A q \in Seq(Segment), x \in Segment : \A i \in 1..Len(q) : \A b : b = [q EXCEPT ![i] = x] =>
          /\ b \in Seq(Segment) /\ Len(b) = Len(q) /\ DOMAIN b = 1..Len(q)
          /\ b[i] = x /\ \A k \in 1..Len(q) : k # i => b[k] = q[k]
  BY OneChanged
<1>05. ASSUME NEW z \in Seq(Records) PROVE \E g \in Segment : g = [there |-> TRUE, recs |-> z] /\ g.there /\ g.recs = z
  <2>1. PICK g : g = [there |-> TRUE, recs |-> z]
    OBVIOUS
  <2>2. g.there = TRUE /\ g.recs = z
    BY <2>1
  <2>3. g \in Segment
    BY <1>05, <2>1 DEF Segment
  <2>4. QED
    BY <2>1, <2>2, <2>3
<1>4. \A k, s, i : Has(k, s, i) => s \in 1..Len(segs) /\ s \in Nat /\ i \in Nat
  <2>1. SUFFICES ASSUME NEW k, NEW s, NEW i, Has(k, s, i)
                 PROVE  s \in 1..Len(segs) /\ s \in Nat /\ i \in Nat
    OBVIOUS
  <2>2. s \in 1..Len(segs) /\ i \in 1..Len(segs[s].recs)
    BY <2>1 DEF Has
  <2>3. Len(segs) \in Nat /\ Len(segs[s].recs) \in Nat
    BY <1>1, <1>2, <2>2
  <2>4. QED
    BY <1>01, <2>2, <2>3
<1>5. CASE s0 = 0
  <2>0. <<r>> \in Seq(Records)
    OBVIOUS
  <2>1. PICK g \in Segment : g = [there |-> TRUE, recs |-> <<r>>] /\ g.there /\ g.recs = <<r>>
    BY <1>05, <2>0
  <2>2. Len(g.recs) = 1 /\ g.recs[1] = r
    BY <2>1
  <2>3. segs' = Append(segs, g)
    BY <1>5, <2>1 DEF AppendedTo
  <2>4. /\ segs' \in Seq(Segment) /\ Len(segs') = Len(segs) + 1 /\ DOMAIN segs' = 1..(Len(segs) + 1)
        /\ segs'[Len(segs) + 1] = g /\ \A s \in 1..Len(segs) : segs'[s] = segs[s]
    <3>1. g \in Segment /\ segs \in Seq(Segment)
      BY <1>1, <2>1
    <3>2. \A b : b = Append(segs, g) =>
             /\ b \in Seq(Segment) /\ Len(b) = Len(segs) + 1 /\ DOMAIN b = 1..(Len(segs) + 1)
             /\ b[Len(segs) + 1] = g /\ \A i \in 1..Len(segs) : b[i] = segs[i]
      BY <1>03, <3>1
    <3>3. QED
      BY <2>3, <3>2
  <2>5. /\ L = Len(segs) + 1 /\ L \in Nat /\ J = 1 /\ segs'[L] = g
        /\ \A s : s \in 1..L <=> s \in 1..Len(segs) \/ s = L
        /\ L \notin 1..Len(segs)
    <3>1. L = Len(segs) + 1
      BY <2>4
    <3>2. segs'[L] = g /\ J = 1
      BY <2>1, <2>2, <2>4, <3>1
    <3>3. QED
      BY <1>02, <1>1, <3>1, <3>2
  <2>6. \A s \in DOMAIN segs' : ~segs'[s].there => segs'[s].recs = <<>>
    BY <1>3, <2>1, <2>4, <2>5
  <2>7. ASSUME NEW k, NEW s, NEW i
        PROVE  Has(k, s, i)' <=> Has(k, s, i) \/ (k = r.key /\ s = L /\ i = J)
    <3>1. CASE s \in 1..Len(segs)
      BY <2>4, <2>5, <3>1 DEF Has
    <3>2. CASE s = L
      <4>1. i \in 1..1 <=> i = 1
        OBVIOUS
      <4>2. Has(k, s, i)' <=> i \in 1..1 /\ g.recs[i].key = k
        BY <2>2, <2>4, <2>5, <3>2 DEF Has
      <4>3. QED
        BY <2>2, <2>5, <3>2, <4>1, <4>2 DEF Has
    <3>3. CASE s \notin 1..Len(segs) /\ s # L
      BY <2>4, <2>5, <3>3 DEF Has
    <3>4. QED
      BY <3>1, <3>2, <3>3
  <2>8. \A k, s, i : Has(k, s, i) => segs'[s].recs[i] = segs[s].recs[i] /\ s < L
    BY <1>01, <1>1, <1>4, <2>4, <2>5
  <2>9. Has(r.key, L, J)' /\ segs'[L].recs[J] = r /\ J \in Nat
    BY <2>2, <2>5, <2>7
  <2>10. QED
    BY <1>4, <1>5, <2>4, <2>5, <2>6, <2>7, <2>8, <2>9
<1>6. CASE s0 # 0
  <2>1. s0 = Len(segs) /\ s0 \in 1..Len(segs)
    <3>1. \A n \in Nat : \A z \in {0, n} : z # 0 => z = n /\ z \in 1..n
      OBVIOUS
    <3>2. Len(segs) \in Nat
      BY <1>1
    <3>3. QED
      BY <1>6, <3>1, <3>2
  <2>2. PICK q \in Seq(Records) : q = segs[s0].recs
    BY <1>2, <2>1
  <2>3. PICK b : b = Append(q, r)
    OBVIOUS
  <2>4. /\ Len(q) \in Nat /\ b \in Seq(Records) /\ Len(b) = Len(q) + 1
        /\ b[Len(q) + 1] = r /\ \A i \in 1..Len(q) : b[i] = q[i]
    BY <2>3, OneMore
  <2>5. PICK g \in Segment : g = [there |-> TRUE, recs |-> b] /\ g.there /\ g.recs = b
    BY <1>05, <2>4
  <2>6. segs' = [segs EXCEPT ![s0] = g]
    BY <1>6, <2>2, <2>3, <2>5 DEF AppendedTo
  <2>7. /\ segs' \in Seq(Segment) /\ Len(segs') = Len(segs) /\ DOMAIN segs' = 1..Len(segs)
        /\ segs'[s0] = g /\ \A s \in 1..Len(segs) : s # s0 => segs'[s] = segs[s]
    <3>1. g \in Segment /\ segs \in Seq(Segment)
      BY <1>1, <2>5
    <3>2. \A c : c = [segs EXCEPT ![s0] = g] =>
             /\ c \in Seq(Segment) /\ Len(c) = Len(segs) /\ DOMAIN c = 1..Len(segs)
             /\ c[s0] = g /\ \A s \in 1..Len(segs) : s # s0 => c[s] = segs[s]
      BY <1>04, <2>1, <3>1
    <3>3. QED
      BY <2>6, <3>2
  <2>8. L = s0 /\ L \in Nat /\ J = Len(q) + 1 /\ J \in Nat
    <3>1. L = s0
      BY <2>1, <2>7
    <3>2. segs'[L].recs = b
      BY <2>5, <2>7, <3>1
    <3>3. J = Len(q) + 1
      BY <2>4, <3>2
    <3>4. QED
      BY <1>02, <1>1, <2>1, <2>4, <3>1, <3>3
  <2>9. \A s \in DOMAIN segs' : ~segs'[s].there => segs'[s].recs = <<>>
    BY <1>3, <2>5, <2>7
  <2>10. /\ \A i : i \in 1..(Len(q) + 1) <=> i \in 1..Len(q) \/ i = Len(q) + 1
         /\ ~(Len(q) + 1 \in 1..Len(q)) /\ \A i \in 1..Len(q) : i < Len(q) + 1
    BY <2>4
  <2>11. ASSUME NEW k, NEW s, NEW i
         PROVE  Has(k, s, i)' <=> Has(k, s, i) \/ (k = r.key /\ s = L /\ i = J)
    <3>1. CASE s = s0
      <4>1. Has(k, s, i)' <=> i \in 1..(Len(q) + 1) /\ b[i].key = k
        BY <2>1, <2>4, <2>5, <2>7, <3>1 DEF Has
      <4>2. Has(k, s, i) <=> i \in 1..Len(q) /\ q[i].key = k
        BY <2>1, <2>2, <3>1 DEF Has
      <4>3. QED
        BY <2>4, <2>8, <2>10, <3>1, <4>1, <4>2
    <3>2. CASE s # s0
      BY <2>7, <2>8, <3>2 DEF Has
    <3>3. QED
      BY <3>1, <3>2
  <2>12. ASSUME NEW k, NEW s, NEW i, Has(k, s, i)
         PROVE  segs'[s].recs[i] = segs[s].recs[i] /\ (s < L \/ (s = L /\ i < J))
    <3>1. s \in 1..Len(segs) /\ i \in 1..Len(segs[s].recs)
      BY <2>12 DEF Has
    <3>2. CASE s = s0
      BY <2>2, <2>4, <2>5, <2>7, <2>8, <2>10, <3>1, <3>2
    <3>3. CASE s # s0
      <4>1. segs'[s] = segs[s]
        BY <2>7, <3>1, <3>3
      <4>2. s < L
        <5>1. \A n \in Nat : \A t \in 1..n : t # n => t < n
          OBVIOUS
        <5>2. QED
          BY <1>1, <2>1, <2>8, <3>1, <3>3, <5>1
      <4>3. QED
        BY <4>1, <4>2
    <3>4. QED
      BY <3>2, <3>3
  <2>13. Has(r.key, L, J)' /\ segs'[L].recs[J] = r
    BY <2>4, <2>5, <2>7, <2>8, <2>11
  <2>14. L = (IF s0 = 0 THEN Len(segs) + 1 ELSE Len(segs))
    BY <1>6, <2>1, <2>8
  <2>15. QED
    BY <1>4, <2>7, <2>8, <2>9, <2>11, <2>12, <2>13, <2>14
<1>7. QED
  BY <1>5, <1>6

\* The record appended is then its run's latest, and the others' stay theirs.
LEMMA AppendKeeps ==
  ASSUME FileTypes, LatestInv, NEW s0 \in {0, Len(segs)}, NEW r \in Records,
         segs' = AppendedTo(s0, r), latest' = [latest EXCEPT ![r.key] = r], UNCHANGED <<pack, older>>
  PROVE  /\ FileTypes' /\ LatestInv' /\ Len(segs') = (IF s0 = 0 THEN Len(segs) + 1 ELSE Len(segs))
         /\ \A k \in Keys : latest'[k] = IF k = r.key THEN r ELSE latest[k]
<1>0. PICK L : L = Len(segs')
  OBVIOUS
<1>01. PICK J : J = Len(segs'[L].recs)
  OBVIOUS
<1>1. /\ segs' \in Seq(Segment) /\ \A s \in DOMAIN segs' : ~segs'[s].there => segs'[s].recs = <<>>
      /\ Len(segs') = (IF s0 = 0 THEN Len(segs) + 1 ELSE Len(segs))
      /\ Has(r.key, L, J)' /\ segs'[L].recs[J] = r /\ L \in Nat /\ J \in Nat
  BY <1>0, <1>01, AppendIs
<1>2. \A k, s, i : Has(k, s, i)' <=> Has(k, s, i) \/ (k = r.key /\ s = L /\ i = J)
  BY <1>0, <1>01, AppendIs
<1>3. \A k, s, i : Has(k, s, i) => /\ segs'[s].recs[i] = segs[s].recs[i]
                                   /\ s \in Nat /\ i \in Nat /\ (s < L \/ (s = L /\ i < J))
  BY <1>0, <1>01, AppendIs
<1>4. /\ r.key \in Keys /\ DOMAIN latest = Keys /\ DOMAIN latest' = Keys
      /\ \A k \in Keys : latest'[k] = IF k = r.key THEN r ELSE latest[k]
  BY DEF Records, FileTypes
<1>5. FileTypes'
  BY <1>1, <1>4 DEF FileTypes, OwnRecord
<1>6. L \in 1..Len(segs') /\ J \in 1..Len(segs'[L].recs)
  BY <1>1 DEF Has
<1>7. r # NoRecord
  BY <1>4, ToolsAssumption
<1>8. ASSUME NEW k \in Keys PROVE (InSegments(k) \/ (InNone(k) /\ Packed(k) = latest[k]))'
  <2>1. CASE k = r.key
    <3>1. Newest(k, L, J)'
      <4>1. \A t, j : Has(k, t, j)' => t < L \/ (t = L /\ j <= J)
        <5>1. SUFFICES ASSUME NEW t, NEW j, Has(k, t, j)' PROVE t < L \/ (t = L /\ j <= J)
          OBVIOUS
        <5>2. CASE Has(k, t, j)
          BY <1>1, <1>3, <5>2
        <5>3. CASE t = L /\ j = J
          BY <1>1, <5>3
        <5>4. QED
          BY <1>2, <5>1, <5>2, <5>3
      <4>2. QED
        BY <1>1, <2>1, <4>1 DEF Newest
    <3>2. segs'[L].recs[J] = latest'[k]
      BY <1>1, <1>4, <2>1
    <3>3. L \in 1..Len(segs') /\ J \in 1..Len(segs'[L].recs)
      BY <1>1, <1>6
    <3>4. InSegments(k)'
      BY <3>1, <3>2, <3>3 DEF InSegments
    <3>5. QED
      BY <3>4
  <2>2. CASE k # r.key
    <3>1. \A s, i : Has(k, s, i)' <=> Has(k, s, i)
      BY <1>2, <2>2
    <3>2. latest'[k] = latest[k] /\ Packed(k)' = Packed(k)
      BY <1>4, <2>2 DEF Packed
    <3>3. CASE InSegments(k)
      <4>1. PICK s \in 1..Len(segs) : \E i \in 1..Len(segs[s].recs) :
                    Newest(k, s, i) /\ segs[s].recs[i] = latest[k]
        BY <3>3 DEF InSegments
      <4>2. PICK i \in 1..Len(segs[s].recs) : Newest(k, s, i) /\ segs[s].recs[i] = latest[k]
        BY <4>1
      <4>3. Has(k, s, i) /\ segs'[s].recs[i] = latest'[k]
        BY <1>3, <3>2, <4>2 DEF Newest
      <4>4. \A t, j : Has(k, t, j)' => t < s \/ (t = s /\ j <= i)
        BY <3>1, <4>2 DEF Newest, Has
      <4>5. Newest(k, s, i)' /\ s \in 1..Len(segs') /\ i \in 1..Len(segs'[s].recs)
        BY <3>1, <4>3, <4>4 DEF Newest, Has
      <4>6. QED
        BY <4>3, <4>5 DEF InSegments
    <3>4. CASE InNone(k) /\ Packed(k) = latest[k]
      <4>1. \A s, i : ~Has(k, s, i)
        BY <3>4 DEF InNone, Has
      <4>2. QED
        BY <3>1, <3>2, <3>4, <4>1 DEF InNone
    <3>5. QED
      BY <3>3, <3>4 DEF LatestInv
  <2>3. QED
    BY <2>1, <2>2
<1>9. \A k \in Keys : k \in DOMAIN older'[FamilyOf[k]] => latest'[k] # NoRecord
  BY <1>4, <1>7 DEF LatestInv
<1>10. LatestInv'
  BY <1>8, <1>9 DEF LatestInv
<1>11. QED
  BY <1>1, <1>4, <1>5, <1>10

\* What no segment has is in none after one is emptied; what is newest in
\* another one stays so.
LEMMA RemoveIs ==
  ASSUME FileTypes, NEW s0 \in 1..Len(segs),
         segs' = [segs EXCEPT ![s0] = [there |-> FALSE, recs |-> <<>>]]
  PROVE  /\ segs' \in Seq(Segment) /\ \A s \in DOMAIN segs' : ~segs'[s].there => segs'[s].recs = <<>>
         /\ Len(segs') = Len(segs) /\ segs'[s0].there = FALSE
         /\ \A s \in 1..Len(segs) : s # s0 => segs'[s] = segs[s]
         /\ \A k, s, i : Has(k, s, i)' <=> Has(k, s, i) /\ s # s0
<1>1. Len(segs) \in Nat /\ DOMAIN segs = 1..Len(segs) /\ segs \in Seq(Segment)
  BY SegsAre DEF FileTypes
<1>2. \A s \in 1..Len(segs) : ~segs[s].there => segs[s].recs = <<>>
  BY <1>1 DEF FileTypes
<1>3. PICK g : g = [there |-> FALSE, recs |-> <<>>]
  OBVIOUS
<1>4. g.there = FALSE /\ g.recs = <<>> /\ Len(g.recs) = 0
  BY <1>3
<1>5. <<>> \in Seq(Records)
  OBVIOUS
<1>6. g \in Segment
  BY <1>3, <1>5 DEF Segment
<1>7. \A q \in Seq(Segment), x \in Segment : \A i \in 1..Len(q) : \A b : b = [q EXCEPT ![i] = x] =>
          /\ b \in Seq(Segment) /\ Len(b) = Len(q) /\ DOMAIN b = 1..Len(q)
          /\ b[i] = x /\ \A k \in 1..Len(q) : k # i => b[k] = q[k]
  BY OneChanged
<1>8. \A b : b = [segs EXCEPT ![s0] = g] =>
         /\ b \in Seq(Segment) /\ Len(b) = Len(segs) /\ DOMAIN b = 1..Len(segs)
         /\ b[s0] = g /\ \A s \in 1..Len(segs) : s # s0 => b[s] = segs[s]
  BY <1>1, <1>6, <1>7
<1>9. /\ segs' \in Seq(Segment) /\ Len(segs') = Len(segs) /\ DOMAIN segs' = 1..Len(segs)
      /\ segs'[s0] = g /\ \A s \in 1..Len(segs) : s # s0 => segs'[s] = segs[s]
  BY <1>3, <1>8
<1>10. ASSUME NEW k, NEW s, NEW i PROVE Has(k, s, i)' <=> Has(k, s, i) /\ s # s0
  <2>1. CASE s = s0
    <3>1. \A j : j \notin 1..0
      OBVIOUS
    <3>2. QED
      BY <1>4, <1>9, <2>1, <3>1 DEF Has
  <2>2. CASE s # s0
    BY <1>9, <2>2 DEF Has
  <2>3. QED
    BY <2>1, <2>2
<1>11. \A s \in DOMAIN segs' : ~segs'[s].there => segs'[s].recs = <<>>
  BY <1>2, <1>4, <1>9
<1>12. QED
  BY <1>4, <1>9, <1>10, <1>11

\* The files and the runs recorded stay what they are.
LEMMA FilesStay ==
  ASSUME FileTypes, LatestInv, UNCHANGED <<files, latest>>
  PROVE  FileTypes' /\ LatestInv'
<1>1. FileTypes'
  BY DEF FileTypes, files
<1>2. \A k, s, i : Has(k, s, i)' <=> Has(k, s, i)
  BY DEF Has, files
<1>3. \A k, s, i : Newest(k, s, i)' <=> Newest(k, s, i)
  BY <1>2 DEF Newest, files
<1>4. \A k : (InSegments(k)' <=> InSegments(k)) /\ (InNone(k)' <=> InNone(k)) /\ Packed(k)' = Packed(k)
  BY <1>2, <1>3 DEF InSegments, InNone, Packed, files
<1>5. LatestInv'
  BY <1>4 DEF LatestInv, files
<1>6. QED
  BY <1>1, <1>5

LEMMA FamilyIs == "none" \notin Families /\ \A k \in Keys : FamilyOf[k] \in Families
BY ToolsAssumption DEF Families

-----------------------------------------------------------------------------
(* Every step keeps the invariant.                                         *)

LEMMA AppendRunKeeps ==
  ASSUME ToolsInv, Beside = FALSE, NEW k \in Keys, NEW st \in Statuses, AppendRun(k, st)
  PROVE  ToolsInv'
<1>1. tpc = "off" /\ tpc' = "off"
  BY DEF AppendRun
<1>2. PICK r : r = [key |-> k, status |-> st, id |-> born + 1]
  OBVIOUS
<1>3. r \in Records /\ r.key = k
  BY <1>2 DEF Records, ToolsInv, ToolTypes
<1>4. /\ segs' = AppendedTo(live, r) /\ latest' = [latest EXCEPT ![r.key] = r]
      /\ UNCHANGED <<pack, older>>
  BY <1>2, <1>3 DEF AppendRun
<1>5. live \in {0, Len(segs)} /\ into = 0
  BY <1>1 DEF ToolsInv, AppendInv
<1>6. /\ FileTypes' /\ LatestInv' /\ Len(segs') = (IF live = 0 THEN Len(segs) + 1 ELSE Len(segs))
  BY <1>3, <1>4, <1>5, AppendKeeps DEF ToolsInv
<1>7. Len(segs) \in Nat /\ live \in 0..Len(segs) /\ live' = IF live # 0 THEN live ELSE Len(segs) + 1
  BY SegsAre DEF ToolsInv, ToolTypes, AppendRun
<1>8. live' = Len(segs') /\ into' = 0 /\ Len(segs') \in Nat
  BY <1>5, <1>6, <1>7 DEF AppendRun, merging
<1>9. \A n \in 1..Len(segs) : n \in 1..Len(segs')
  BY <1>6, <1>7
<1>10. ToolTypes'
  <2>1. live' \in 0..Len(segs') /\ into' \in 0..Len(segs')
    BY <1>8
  <2>2. listed' \subseteq 1..Len(segs')
    BY <1>9 DEF ToolsInv, ToolTypes, AppendRun, compacting
  <2>3. born' \in Nat
    BY DEF ToolsInv, ToolTypes, AppendRun
  <2>4. QED
    BY <1>1, <2>1, <2>2, <2>3 DEF ToolsInv, ToolTypes, AppendRun, compacting, merging
<1>11. AppendInv'
  BY <1>1, <1>8 DEF AppendInv
<1>12. CompactInv' /\ MergeInv'
  BY <1>1 DEF CompactInv, Compacting, MergeInv
<1>13. QED
  BY <1>6, <1>10, <1>11, <1>12 DEF ToolsInv

LEMMA EndRunnerKeeps ==
  ASSUME ToolsInv, EndRunner
  PROVE  ToolsInv'
<1>1. tpc = "off" /\ tpc' = "off"
  BY DEF ToolsInv, AppendInv, EndRunner
<1>2. FileTypes' /\ LatestInv'
  BY FilesStay DEF ToolsInv, EndRunner
<1>3. ToolTypes'
  <2>1. Len(segs) \in Nat
    BY SegsAre DEF ToolsInv
  <2>2. live' \in 0..Len(segs)
    BY <2>1 DEF EndRunner
  <2>3. QED
    BY <2>2 DEF ToolsInv, ToolTypes, EndRunner, files, compacting, merging
<1>4. AppendInv'
  BY DEF ToolsInv, AppendInv, EndRunner, files, merging
<1>5. CompactInv' /\ MergeInv'
  BY <1>1 DEF CompactInv, Compacting, MergeInv
<1>6. QED
  BY <1>2, <1>3, <1>4, <1>5 DEF ToolsInv

LEMMA StartCompactKeeps ==
  ASSUME ToolsInv, Beside = FALSE, NEW rm \in BOOLEAN, StartCompact(rm)
  PROVE  ToolsInv'
<1>1. tpc = "off" /\ tpc' = "packing" /\ live = 0 /\ into = 0 /\ family = "none"
  BY DEF ToolsInv, ToolTypes, AppendInv, StartCompact, MayStartTool
<1>2. FileTypes' /\ LatestInv'
  BY FilesStay DEF ToolsInv, StartCompact
<1>3. \A k \in Keys : idx'[k] = PlaceOf(k)
  BY DEF StartCompact
<1>4. \A k \in Keys : idx'[k].rec = latest[k] /\ (idx'[k] = NoPlace <=> latest[k] = NoRecord)
  BY <1>3, StoredIs DEF ToolsInv
<1>5. left' = {FamilyOf[k] : k \in {q \in Keys : idx'[q] # NoPlace}}
  BY DEF StartCompact
<1>6. left' \subseteq Families
  BY <1>5 DEF Families
<1>7. \A k \in Keys : FamilyOf[k] \in left' \/ latest[k] = NoRecord
  BY <1>4, <1>5
<1>8. \A f \in Families : f \in left' \/ DOMAIN older[f] = {}
  <2>1. SUFFICES ASSUME NEW f \in Families, NEW k \in DOMAIN older[f] PROVE f \in left'
    OBVIOUS
  <2>2. k \in Keys /\ FamilyOf[k] = f
    BY <2>1 DEF ToolsInv, FileTypes, PackOf, KeysOf
  <2>3. latest[k] # NoRecord
    BY <2>1, <2>2 DEF ToolsInv, LatestInv
  <2>4. QED
    BY <1>7, <2>2, <2>3
<1>9. ToolTypes'
  <2>1. tools' \in 0..MaxTools
    BY ToolsAssumption DEF ToolsInv, ToolTypes, StartCompact, MayStartTool
  <2>2. remove' \in BOOLEAN
    BY DEF StartCompact
  <2>3. QED
    BY <1>1, <1>6, <2>1, <2>2 DEF ToolsInv, ToolTypes, StartCompact, files, merging
<1>10. AppendInv'
  BY <1>1 DEF AppendInv, StartCompact, merging
<1>11. CompactInv'
  BY <1>1, <1>4, <1>7, <1>8 DEF CompactInv, StartCompact, files
<1>12. MergeInv'
  BY <1>1 DEF MergeInv
<1>13. QED
  BY <1>2, <1>9, <1>10, <1>11, <1>12 DEF ToolsInv

\* A pack written has the latest record of every run of its family, so that it
\* changes nothing a run is found by.
LEMMA WritePackKeeps ==
  ASSUME ToolsInv, NEW f \in Families, WritePack(f)
  PROVE  ToolsInv'
<1>1. tpc = "packing" /\ tpc' = "packing" /\ live = 0 /\ into = 0 /\ family = "none" /\ f \in left
  BY DEF ToolsInv, AppendInv, WritePack
<1>2. PICK p : p = [k \in {q \in KeysOf(f) : idx[q] # NoPlace} |-> idx[k].rec]
  OBVIOUS
<1>3. /\ DOMAIN pack' = Families /\ pack'[f] = p
      /\ \A g \in Families : g # f => pack'[g] = pack[g]
  BY <1>2 DEF WritePack, ToolsInv, FileTypes
<1>4. \A k \in Keys : idx[k].rec = latest[k] /\ (idx[k] = NoPlace <=> latest[k] = NoRecord)
  BY <1>1 DEF ToolsInv, CompactInv, Compacting
<1>5. /\ DOMAIN p = {q \in KeysOf(f) : latest[q] # NoRecord}
      /\ \A k \in DOMAIN p : p[k] = latest[k]
  BY <1>2, <1>4 DEF KeysOf
<1>6. \A k \in Keys : OwnRecord(k, latest[k])
  BY DEF ToolsInv, FileTypes
<1>7. PackOf(f, p)
  BY <1>5, <1>6 DEF PackOf, OwnRecord, KeysOf
<1>8. FileTypes'
  <2>1. \A g \in Families : PackOf(g, pack'[g])
    BY <1>3, <1>7 DEF ToolsInv, FileTypes
  <2>2. QED
    BY <1>3, <2>1 DEF ToolsInv, FileTypes, WritePack
<1>9. \A k \in Keys : Packed(k) = latest[k] => Packed(k)' = latest[k]
  <2>1. SUFFICES ASSUME NEW k \in Keys, Packed(k) = latest[k] PROVE Packed(k)' = latest[k]
    OBVIOUS
  <2>2. older' = older /\ FamilyOf[k] \in Families
    BY FamilyIs DEF WritePack
  <2>3. CASE FamilyOf[k] # f
    BY <1>3, <2>1, <2>2, <2>3 DEF Packed
  <2>4. CASE FamilyOf[k] = f
    <3>1. k \in KeysOf(f)
      BY <2>4 DEF KeysOf
    <3>2. QED
      BY <1>3, <1>5, <2>1, <2>2, <2>4, <3>1 DEF Packed
  <2>5. QED
    BY <2>3, <2>4
<1>10. LatestInv'
  <2>1. \A k, s, i : (Has(k, s, i)' <=> Has(k, s, i))
    BY DEF Has, WritePack
  <2>2. \A k, s, i : Newest(k, s, i)' <=> Newest(k, s, i)
    BY <2>1 DEF Newest, WritePack
  <2>3. \A k : (InSegments(k)' <=> InSegments(k)) /\ (InNone(k)' <=> InNone(k))
    BY <2>1, <2>2 DEF InSegments, InNone, WritePack
  <2>4. latest' = latest /\ older' = older
    BY DEF WritePack
  <2>5. QED
    BY <1>9, <2>3, <2>4 DEF ToolsInv, LatestInv
<1>11. left' = left \ {f} /\ family' = f
  BY DEF WritePack
<1>12. ToolTypes'
  BY <1>1, <1>11 DEF ToolsInv, ToolTypes, WritePack, merging
<1>13. AppendInv'
  BY <1>1 DEF AppendInv, WritePack, merging
<1>14. CompactInv'
  <2>1. \A k \in Keys : FamilyOf[k] \in left' \/ latest[k] = NoRecord \/
              (k \in DOMAIN pack'[FamilyOf[k]] /\ pack'[FamilyOf[k]][k] = latest[k])
    <3>1. SUFFICES ASSUME NEW k \in Keys, FamilyOf[k] \notin left', latest[k] # NoRecord
                   PROVE  k \in DOMAIN pack'[FamilyOf[k]] /\ pack'[FamilyOf[k]][k] = latest[k]
      OBVIOUS
    <3>2. CASE FamilyOf[k] = f
      BY <1>3, <1>5, <3>1, <3>2 DEF KeysOf
    <3>3. CASE FamilyOf[k] # f
      <4>1. FamilyOf[k] \notin left /\ FamilyOf[k] \in Families
        BY <1>11, <3>1, <3>3, FamilyIs
      <4>2. k \in DOMAIN pack[FamilyOf[k]] /\ pack[FamilyOf[k]][k] = latest[k]
        BY <1>1, <3>1, <4>1 DEF ToolsInv, CompactInv, Compacting
      <4>3. QED
        BY <1>3, <3>3, <4>1, <4>2
    <3>4. QED
      BY <3>2, <3>3
  <2>2. \A g \in Families : g \in left' \/ g = family' \/ DOMAIN older[g] = {}
    BY <1>1, <1>11, FamilyIs DEF ToolsInv, CompactInv, Compacting
  <2>3. UNCHANGED <<idx, latest, older>>
    BY DEF WritePack
  <2>4. QED
    BY <1>1, <1>4, <2>1, <2>2, <2>3 DEF CompactInv
<1>15. MergeInv'
  BY <1>1 DEF MergeInv
<1>16. QED
  BY <1>8, <1>10, <1>12, <1>13, <1>14, <1>15 DEF ToolsInv

\* A pack of before goes when its family's new one has all its runs.
LEMMA RemoveOlderKeeps ==
  ASSUME ToolsInv, RemoveOlder
  PROVE  ToolsInv'
<1>1. /\ tpc = "packing" /\ tpc' = "packing" /\ live = 0 /\ into = 0
      /\ family \in Families /\ family \notin left /\ family' = "none"
  BY DEF ToolsInv, ToolTypes, AppendInv, RemoveOlder
<1>2. /\ DOMAIN older' = Families /\ DOMAIN older'[family] = {}
      /\ \A g \in Families : g # family => older'[g] = older[g]
  BY <1>1 DEF RemoveOlder, ToolsInv, FileTypes, NoPack
<1>3. FileTypes'
  <2>1. \A g \in Families : PackOf(g, older'[g])
    BY <1>2 DEF PackOf, ToolsInv, FileTypes
  <2>2. QED
    BY <1>2, <2>1 DEF ToolsInv, FileTypes, RemoveOlder
<1>4. \A k \in Keys : FamilyOf[k] = family =>
          latest[k] = NoRecord \/ (k \in DOMAIN pack[family] /\ pack[family][k] = latest[k])
  BY <1>1 DEF ToolsInv, CompactInv, Compacting
<1>5. \A k \in Keys : Packed(k) = latest[k] => Packed(k)' = latest[k]
  <2>1. SUFFICES ASSUME NEW k \in Keys, Packed(k) = latest[k] PROVE Packed(k)' = latest[k]
    OBVIOUS
  <2>2. pack' = pack /\ FamilyOf[k] \in Families
    BY FamilyIs DEF RemoveOlder
  <2>3. CASE FamilyOf[k] # family
    BY <1>2, <2>1, <2>2, <2>3 DEF Packed
  <2>4. CASE FamilyOf[k] = family
    <3>1. k \in DOMAIN older[family] => latest[k] # NoRecord
      BY <2>4 DEF ToolsInv, LatestInv
    <3>2. QED
      BY <1>2, <1>4, <2>1, <2>2, <2>4, <3>1 DEF Packed
  <2>5. QED
    BY <2>3, <2>4
<1>6. LatestInv'
  <2>1. \A k, s, i : (Has(k, s, i)' <=> Has(k, s, i))
    BY DEF Has, RemoveOlder
  <2>2. \A k, s, i : Newest(k, s, i)' <=> Newest(k, s, i)
    BY <2>1 DEF Newest, RemoveOlder
  <2>3. \A k : (InSegments(k)' <=> InSegments(k)) /\ (InNone(k)' <=> InNone(k))
    BY <2>1, <2>2 DEF InSegments, InNone, RemoveOlder
  <2>4. latest' = latest
    BY DEF RemoveOlder
  <2>5. \A k \in Keys : k \in DOMAIN older'[FamilyOf[k]] => k \in DOMAIN older[FamilyOf[k]]
    BY <1>2, FamilyIs
  <2>6. QED
    BY <1>5, <2>3, <2>4, <2>5 DEF ToolsInv, LatestInv
<1>7. ToolTypes'
  BY <1>1 DEF ToolsInv, ToolTypes, RemoveOlder, merging
<1>8. AppendInv'
  BY <1>1 DEF AppendInv, RemoveOlder, merging
<1>9. CompactInv'
  <2>1. \A g \in Families : g \in left \/ g = family' \/ DOMAIN older'[g] = {}
    BY <1>1, <1>2 DEF ToolsInv, CompactInv, Compacting
  <2>2. UNCHANGED <<idx, latest, pack, left>>
    BY DEF RemoveOlder
  <2>3. QED
    BY <1>1, <2>1, <2>2 DEF ToolsInv, CompactInv, Compacting
<1>10. MergeInv'
  BY <1>1 DEF MergeInv
<1>11. QED
  BY <1>3, <1>6, <1>7, <1>8, <1>9, <1>10 DEF ToolsInv

LEMMA ListSegmentsKeeps ==
  ASSUME ToolsInv, ListSegments
  PROVE  ToolsInv'
<1>1. /\ tpc = "packing" /\ tpc' = "removing" /\ live = 0 /\ into = 0
      /\ family = "none" /\ left = {} /\ listed' = Segments(1..Len(segs))
  BY DEF ToolsInv, AppendInv, ListSegments
<1>2. FileTypes' /\ LatestInv'
  BY FilesStay DEF ToolsInv, ListSegments
<1>3. UNCHANGED <<segs, pack, older, live, remove, idx, left, family, parts, have, into, born, tools, kills, latest>>
  BY DEF ListSegments, files, merging
<1>4. ToolTypes'
  <2>1. listed' \subseteq 1..Len(segs)
    BY <1>1 DEF Segments
  <2>2. QED
    BY <1>1, <1>3, <2>1 DEF ToolsInv, ToolTypes
<1>5. AppendInv'
  BY <1>1, <1>3 DEF AppendInv
<1>6. CompactInv'
  <2>1. Segments(1..Len(segs))' = Segments(1..Len(segs))
    BY <1>3 DEF Segments
  <2>2. QED
    BY <1>1, <1>3, <2>1 DEF ToolsInv, CompactInv, Compacting
<1>7. MergeInv'
  BY <1>1 DEF MergeInv
<1>8. QED
  BY <1>2, <1>4, <1>5, <1>6, <1>7 DEF ToolsInv

\* The oldest segment of all is emptied: a run whose newest record it has has
\* no other one, and is in its pack.
LEMMA RemoveSegmentKeeps ==
  ASSUME ToolsInv, RemoveSegment
  PROVE  ToolsInv'
<1>1. /\ tpc = "removing" /\ tpc' = "removing" /\ live = 0 /\ into = 0
      /\ listed = Segments(1..Len(segs)) /\ left = {} /\ family = "none"
  BY DEF ToolsInv, ToolTypes, AppendInv, CompactInv, Compacting, RemoveSegment
<1>2. PICK s0 \in listed : /\ InOrder(s0) /\ listed' = listed \ {s0}
                           /\ segs' = [segs EXCEPT ![s0] = [there |-> FALSE, recs |-> <<>>]]
  BY DEF RemoveSegment
<1>3. s0 \in 1..Len(segs)
  BY <1>1, <1>2 DEF Segments
<1>4. UNCHANGED <<pack, older, live, remove, idx, left, family, parts, have, into, born, tools, kills, latest>>
  BY DEF RemoveSegment, merging
<1>5. /\ segs' \in Seq(Segment) /\ \A s \in DOMAIN segs' : ~segs'[s].there => segs'[s].recs = <<>>
      /\ Len(segs') = Len(segs) /\ segs'[s0].there = FALSE
      /\ \A s \in 1..Len(segs) : s # s0 => segs'[s] = segs[s]
  BY <1>2, <1>3, RemoveIs DEF ToolsInv
<1>6. \A k, s, i : Has(k, s, i)' <=> Has(k, s, i) /\ s # s0
  BY <1>2, <1>3, RemoveIs DEF ToolsInv
<1>7. FileTypes'
  BY <1>4, <1>5 DEF ToolsInv, FileTypes
<1>8. ASSUME NEW t, NEW k, NEW j, Has(k, t, j) PROVE s0 <= t
  <2>1. t \in 1..Len(segs) /\ segs[t].recs # <<>>
    <3>1. t \in 1..Len(segs) /\ j \in 1..Len(segs[t].recs)
      BY <1>8 DEF Has
    <3>2. Len(<<>>) = 0 /\ j \notin 1..0
      OBVIOUS
    <3>3. segs[t].recs # <<>>
      BY <3>1, <3>2
    <3>4. QED
      BY <3>1, <3>3
  <2>2. segs[t].there
    BY <2>1, SegsAre DEF ToolsInv, FileTypes
  <2>3. t \in listed
    BY <1>1, <2>1, <2>2 DEF Segments
  <2>4. QED
    BY <1>2, <2>3 DEF InOrder
<1>9. Len(segs) \in Nat
  BY SegsAre DEF ToolsInv
<1>10. ASSUME NEW k \in Keys PROVE (InSegments(k) \/ (InNone(k) /\ Packed(k) = latest[k]))'
  <2>1. Packed(k)' = Packed(k) /\ latest' = latest
    BY <1>4 DEF Packed
  <2>2. CASE InNone(k) /\ Packed(k) = latest[k]
    <3>1. InNone(k)'
      BY <1>6, <2>2 DEF InNone, Has
    <3>2. QED
      BY <2>1, <2>2, <3>1
  <2>3. CASE InSegments(k)
    <3>1. PICK s \in 1..Len(segs) : \E i \in 1..Len(segs[s].recs) :
                  Newest(k, s, i) /\ segs[s].recs[i] = latest[k]
      BY <2>3 DEF InSegments
    <3>2. PICK i \in 1..Len(segs[s].recs) : Newest(k, s, i) /\ segs[s].recs[i] = latest[k]
      BY <3>1
    <3>3. CASE s # s0
      <4>1. segs'[s] = segs[s] /\ Len(segs') = Len(segs)
        BY <1>5, <3>1, <3>3
      <4>2. Has(k, s, i)'
        BY <1>6, <3>2, <3>3 DEF Newest
      <4>3. \A t, j : Has(k, t, j) => t < s \/ (t = s /\ j <= i)
        BY <3>2 DEF Newest, Has
      <4>4. Newest(k, s, i)'
        BY <1>6, <4>2, <4>3 DEF Newest
      <4>5. s \in 1..Len(segs') /\ i \in 1..Len(segs'[s].recs) /\ segs'[s].recs[i] = latest'[k]
        BY <2>1, <3>1, <3>2, <4>1
      <4>6. InSegments(k)'
        BY <4>4, <4>5 DEF InSegments
      <4>7. QED
        BY <4>6
    <3>4. CASE s = s0
      <4>1. \A t, j : Has(k, t, j) => t = s0
        <5>1. SUFFICES ASSUME NEW t, NEW j, Has(k, t, j) PROVE t = s0
          OBVIOUS
        <5>2. t < s0 \/ t = s0
          BY <3>2, <3>4, <5>1 DEF Newest, Has
        <5>3. s0 <= t
          BY <1>8, <5>1
        <5>4. t \in 1..Len(segs)
          BY <5>1 DEF Has
        <5>5. QED
          BY <1>3, <1>9, <5>2, <5>3, <5>4
      <4>2. InNone(k)'
        BY <1>6, <4>1 DEF InNone
      <4>3. latest[k].key = k
        BY <3>2 DEF Newest, Has
      <4>4. latest[k] # NoRecord
        BY <4>3, ToolsAssumption
      <4>5. FamilyOf[k] \in Families /\ FamilyOf[k] # family
        BY <1>1, FamilyIs
      <4>6. k \in DOMAIN pack[FamilyOf[k]] /\ pack[FamilyOf[k]][k] = latest[k]
        BY <1>1, <4>4, <4>5 DEF ToolsInv, CompactInv, Compacting
      <4>7. DOMAIN older[FamilyOf[k]] = {}
        BY <1>1, <4>5 DEF ToolsInv, CompactInv, Compacting
      <4>8. Packed(k) = latest[k]
        BY <4>6, <4>7 DEF Packed
      <4>9. QED
        BY <2>1, <4>2, <4>8
    <3>5. QED
      BY <3>3, <3>4
  <2>4. QED
    BY <2>2, <2>3 DEF ToolsInv, LatestInv
<1>11. LatestInv'
  BY <1>4, <1>10 DEF ToolsInv, LatestInv
<1>12. listed' = Segments(1..Len(segs))'
  BY <1>1, <1>2, <1>3, <1>5 DEF Segments
<1>13. ToolTypes'
  <2>1. listed' \subseteq 1..Len(segs')
    BY <1>12 DEF Segments
  <2>2. QED
    BY <1>1, <1>4, <1>5, <2>1 DEF ToolsInv, ToolTypes
<1>14. AppendInv'
  BY <1>1, <1>4 DEF AppendInv
<1>15. CompactInv'
  BY <1>1, <1>4, <1>12 DEF ToolsInv, CompactInv, Compacting
<1>16. MergeInv'
  BY <1>1 DEF MergeInv
<1>17. QED
  BY <1>7, <1>11, <1>13, <1>14, <1>15, <1>16 DEF ToolsInv

LEMMA EndCompactKeeps ==
  ASSUME ToolsInv, EndCompact
  PROVE  ToolsInv'
<1>1. /\ tpc \in {"packing", "removing"} /\ tpc' = "compacted" /\ live = 0 /\ into = 0
      /\ left = {} /\ family = "none" /\ (remove => Segments(1..Len(segs)) = {})
  BY DEF ToolsInv, ToolTypes, AppendInv, CompactInv, Compacting, EndCompact
<1>2. FileTypes' /\ LatestInv'
  BY FilesStay DEF ToolsInv, EndCompact
<1>3. UNCHANGED <<segs, pack, older, live, remove, idx, left, family, listed, parts, have, into, born, tools, kills, latest>>
  BY DEF EndCompact, files, compacting, merging
<1>4. ToolTypes'
  BY <1>1, <1>3 DEF ToolsInv, ToolTypes
<1>5. AppendInv'
  BY <1>1, <1>3 DEF AppendInv
<1>6. CompactInv'
  <2>1. Segments(1..Len(segs))' = Segments(1..Len(segs))
    BY <1>3 DEF Segments
  <2>2. QED
    BY <1>1, <1>3, <2>1 DEF ToolsInv, CompactInv, Compacting
<1>7. MergeInv'
  BY <1>1 DEF MergeInv
<1>8. QED
  BY <1>2, <1>4, <1>5, <1>6, <1>7 DEF ToolsInv

\* A merge copies what the store has nothing of, and starts only where the
\* rest is the same.
LEMMA StartMergeKeeps ==
  ASSUME ToolsInv, Beside = FALSE, NEW S \in SUBSET PartRecords, StartMerge(S)
  PROVE  ToolsInv'
<1>1. tpc = "off" /\ tpc' \in {"merging", "refused"} /\ live = 0 /\ into = 0 /\ family = "none"
  BY DEF ToolsInv, ToolTypes, AppendInv, StartMerge, MayStartTool
<1>2. FileTypes' /\ LatestInv'
  BY FilesStay DEF ToolsInv, StartMerge
<1>3. UNCHANGED <<segs, pack, older, live, remove, idx, left, family, listed, into, born, kills, latest>>
  BY DEF StartMerge, files, compacting
<1>4. parts' \subseteq Records
  BY ToolsAssumption DEF StartMerge
<1>5. have' \subseteq parts'
  BY DEF StartMerge, MissingRecords
<1>6. ToolTypes'
  <2>1. tools' \in 0..MaxTools
    BY ToolsAssumption DEF ToolsInv, ToolTypes, StartMerge, MayStartTool
  <2>2. QED
    BY <1>1, <1>3, <1>4, <1>5, <2>1 DEF ToolsInv, ToolTypes
<1>7. AppendInv'
  BY <1>1, <1>3 DEF AppendInv
<1>8. CompactInv'
  BY <1>1 DEF CompactInv, Compacting
<1>9. MergeInv'
  <2>1. SUFFICES ASSUME tpc' = "merging" PROVE MergeInv'
    BY <1>1 DEF MergeInv
  <2>2. Agree(parts') /\ have' = MissingRecords(parts')
    BY <2>1 DEF StartMerge
  <2>3. \A r \in parts' : r.key \in Keys /\ Stored(r.key) = latest[r.key]
    BY <1>4, StoredIs DEF ToolsInv, Records
  <2>4. \A q, r \in parts' : q.key = r.key => q = r
    BY <2>2 DEF Agree
  <2>5. \A r \in parts' : latest[r.key] \in {r, NoRecord}
    BY <2>2, <2>3 DEF Agree
  <2>6. \A r \in parts' : r \in have' <=> latest[r.key] = NoRecord
    BY <2>2, <2>3 DEF MissingRecords
  <2>7. \A r \in parts' \ have' : latest[r.key] = r
    BY <2>5, <2>6
  <2>8. \A r \in have' : latest[r.key] = NoRecord
    BY <1>5, <2>6
  <2>9. latest' = latest
    BY <1>3
  <2>10. QED
    BY <2>1, <2>4, <2>7, <2>8, <2>9 DEF MergeInv
<1>10. QED
  BY <1>2, <1>6, <1>7, <1>8, <1>9 DEF ToolsInv

LEMMA CopyRunKeeps ==
  ASSUME ToolsInv, NEW r \in have, CopyRun(r)
  PROVE  ToolsInv'
<1>1. tpc = "merging" /\ tpc' = "merging" /\ live = 0 /\ family = "none"
  BY DEF ToolsInv, ToolTypes, AppendInv, CopyRun
<1>2. r \in Records /\ r \in parts
  BY DEF ToolsInv, ToolTypes
<1>3. /\ segs' = AppendedTo(into, r) /\ latest' = [latest EXCEPT ![r.key] = r]
      /\ UNCHANGED <<pack, older>>
  BY DEF CopyRun
<1>4. into \in {0, Len(segs)}
  BY DEF ToolsInv, AppendInv
<1>5. /\ FileTypes' /\ LatestInv' /\ Len(segs') = (IF into = 0 THEN Len(segs) + 1 ELSE Len(segs))
      /\ \A k \in Keys : latest'[k] = IF k = r.key THEN r ELSE latest[k]
  BY <1>2, <1>3, <1>4, AppendKeeps DEF ToolsInv
<1>6. Len(segs) \in Nat /\ into \in 0..Len(segs) /\ into' = IF into = 0 THEN Len(segs) + 1 ELSE into
  BY SegsAre DEF ToolsInv, ToolTypes, CopyRun
<1>7. into' = Len(segs') /\ Len(segs') \in Nat /\ live' = 0
  BY <1>1, <1>4, <1>5, <1>6 DEF CopyRun
<1>8. \A n \in 1..Len(segs) : n \in 1..Len(segs')
  BY <1>5, <1>6
<1>9. UNCHANGED <<remove, idx, left, family, listed, parts, born, tools, kills>> /\ have' = have \ {r}
  BY DEF CopyRun, compacting
<1>10. ToolTypes'
  <2>1. live' \in 0..Len(segs') /\ into' \in 0..Len(segs')
    BY <1>7
  <2>2. listed' \subseteq 1..Len(segs')
    BY <1>8, <1>9 DEF ToolsInv, ToolTypes
  <2>3. QED
    BY <1>1, <1>9, <2>1, <2>2 DEF ToolsInv, ToolTypes
<1>11. AppendInv'
  BY <1>1, <1>7 DEF AppendInv
<1>12. CompactInv'
  BY <1>1 DEF CompactInv, Compacting
<1>13. MergeInv'
  <2>1. \A p, q \in parts : p.key = q.key => p = q
    BY <1>1 DEF ToolsInv, MergeInv
  <2>2. \A q \in parts : q.key \in Keys /\ (q # r => q.key # r.key)
    BY <1>2, <2>1 DEF ToolsInv, ToolTypes, Records
  <2>3. \A q \in parts \ have' : latest'[q.key] = q
    <3>1. SUFFICES ASSUME NEW q \in parts, q \notin have' PROVE latest'[q.key] = q
      OBVIOUS
    <3>2. CASE q = r
      BY <1>5, <2>2, <3>1, <3>2
    <3>3. CASE q # r
      <4>1. latest[q.key] = q
        BY <1>1, <1>9, <3>1, <3>3 DEF ToolsInv, MergeInv
      <4>2. QED
        BY <1>5, <2>2, <3>1, <3>3, <4>1
    <3>4. QED
      BY <3>2, <3>3
  <2>4. \A q \in have' : latest'[q.key] = NoRecord
    <3>1. SUFFICES ASSUME NEW q \in have' PROVE latest'[q.key] = NoRecord
      OBVIOUS
    <3>2. q \in have /\ q # r /\ q \in parts
      BY <1>9, <3>1 DEF ToolsInv, ToolTypes
    <3>3. latest[q.key] = NoRecord
      BY <1>1, <3>2 DEF ToolsInv, MergeInv
    <3>4. QED
      BY <1>5, <2>2, <3>2, <3>3
  <2>5. QED
    BY <1>1, <1>9, <2>1, <2>3, <2>4 DEF MergeInv
<1>14. QED
  BY <1>5, <1>10, <1>11, <1>12, <1>13 DEF ToolsInv

LEMMA EndMergeKeeps ==
  ASSUME ToolsInv, EndMerge
  PROVE  ToolsInv'
<1>1. tpc = "merging" /\ tpc' = "merged" /\ have = {} /\ live = 0
  BY DEF ToolsInv, AppendInv, EndMerge
<1>2. FileTypes' /\ LatestInv'
  BY FilesStay DEF ToolsInv, EndMerge
<1>3. UNCHANGED <<segs, pack, older, live, remove, idx, left, family, listed, parts, have, into, born, tools, kills, latest>>
  BY DEF EndMerge, files, compacting, merging
<1>4. ToolTypes'
  BY <1>1, <1>3 DEF ToolsInv, ToolTypes
<1>5. AppendInv'
  BY <1>1, <1>3 DEF ToolsInv, AppendInv
<1>6. CompactInv'
  BY <1>1 DEF CompactInv, Compacting
<1>7. MergeInv'
  BY <1>1, <1>3 DEF ToolsInv, MergeInv
<1>8. QED
  BY <1>2, <1>4, <1>5, <1>6, <1>7 DEF ToolsInv

\* A tool that ends, or is killed where it is, leaves the files it made.
LEMMA NoToolKeeps ==
  ASSUME ToolsInv, NoTool, tpc # "off", kills' \in 0..MaxKills
  PROVE  ToolsInv'
<1>1. live = 0 /\ tpc' = "off" /\ into' = 0 /\ listed' = {} /\ live' = 0
  BY DEF ToolsInv, AppendInv, NoTool
<1>2. FileTypes' /\ LatestInv'
  BY FilesStay DEF ToolsInv, NoTool
<1>3. ToolTypes'
  <2>1. Len(segs') \in Nat
    BY SegsAre DEF ToolsInv, NoTool, files
  <2>2. live' \in 0..Len(segs') /\ into' \in 0..Len(segs')
    BY <1>1, <2>1
  <2>3. QED
    BY <1>1, <2>2 DEF ToolsInv, ToolTypes, NoTool
<1>4. AppendInv' /\ CompactInv' /\ MergeInv'
  BY <1>1 DEF AppendInv, CompactInv, Compacting, MergeInv
<1>5. QED
  BY <1>2, <1>3, <1>4 DEF ToolsInv

LEMMA ToolsInit == Init => ToolsInv
<1> SUFFICES ASSUME Init PROVE ToolsInv
  OBVIOUS
<1>1. segs = <<>> /\ Len(segs) = 0 /\ segs \in Seq(Segment) /\ DOMAIN segs = {}
  BY DEF Init
<1>2. PICK K \in SUBSET Keys :
         /\ older = [f \in Families |-> [k \in K \cap KeysOf(f) |->
                                           [key |-> k, status |-> "failed", id |-> 1]]]
         /\ latest = [k \in Keys |-> IF k \in K THEN older[FamilyOf[k]][k] ELSE NoRecord]
  BY DEF Init
<1>3. \A k \in Keys : k \in KeysOf(FamilyOf[k]) /\ FamilyOf[k] \in Families
  BY FamilyIs DEF KeysOf
<1>4. \A f \in Families : /\ DOMAIN older[f] = K \cap KeysOf(f)
                          /\ \A k \in K \cap KeysOf(f) :
                                older[f][k] = [key |-> k, status |-> "failed", id |-> 1]
  BY <1>2
<1>5. \A k \in Keys : LET r == [key |-> k, status |-> "failed", id |-> 1]
                      IN  r \in Records /\ r.key = k /\ r # NoRecord
  BY ToolsAssumption DEF Records, Statuses, NoRecord
<1>6. DOMAIN latest = Keys /\ \A k \in Keys :
         latest[k] = IF k \in K THEN [key |-> k, status |-> "failed", id |-> 1] ELSE NoRecord
  BY <1>2, <1>3, <1>4
<1>7. \A f \in Families : DOMAIN pack[f] = {}
  BY DEF Init, NoPack
<1>8. FileTypes
  <2>1. \A f \in Families : PackOf(f, pack[f])
    BY <1>7 DEF PackOf
  <2>2. \A f \in Families : PackOf(f, older[f])
    <3>1. SUFFICES ASSUME NEW f \in Families, NEW k \in DOMAIN older[f]
                   PROVE  k \in KeysOf(f) /\ older[f][k] \in Records /\ older[f][k].key = k
      BY <1>4 DEF PackOf
    <3>2. k \in Keys /\ k \in KeysOf(f)
      BY <1>4, <3>1 DEF KeysOf
    <3>3. older[f][k] = [key |-> k, status |-> "failed", id |-> 1]
      BY <1>4, <3>1
    <3>4. QED
      BY <1>5, <3>2, <3>3
  <2>3. \A k \in Keys : OwnRecord(k, latest[k])
    BY <1>5, <1>6 DEF OwnRecord
  <2>4. DOMAIN pack = Families /\ DOMAIN older = Families
    BY <1>2 DEF Init
  <2>5. QED
    BY <1>1, <1>6, <2>1, <2>2, <2>3, <2>4 DEF FileTypes
<1>9. LatestInv
  <2>1. \A n \in 1..0 : FALSE
    OBVIOUS
  <2>2. \A k : InNone(k)
    BY <1>1, <2>1 DEF InNone
  <2>3. \A k \in Keys : Packed(k) = latest[k]
    BY <1>3, <1>4, <1>6, <1>7 DEF Packed
  <2>4. \A k \in Keys : k \in DOMAIN older[FamilyOf[k]] => latest[k] # NoRecord
    BY <1>3, <1>4, <1>5, <1>6
  <2>5. QED
    BY <2>2, <2>3, <2>4 DEF LatestInv
<1>10. ToolTypes
  <2>1. 0 \in 0..Len(segs) /\ 0 \in 0..MaxTools /\ 0 \in 0..MaxKills /\ 1 \in Nat
    BY <1>1, ToolsAssumption
  <2>2. live = 0 /\ into = 0 /\ tools = 0 /\ kills = 0 /\ born = 1
    BY DEF Init
  <2>3. /\ tpc = "off" /\ remove = FALSE /\ left = {} /\ family = "none" /\ listed = {}
        /\ parts = {} /\ have = {}
    BY DEF Init
  <2>4. QED
    BY <2>1, <2>2, <2>3 DEF ToolTypes
<1>11. AppendInv /\ CompactInv /\ MergeInv
  BY DEF Init, AppendInv, CompactInv, Compacting, MergeInv
<1>12. QED
  BY <1>8, <1>9, <1>10, <1>11 DEF ToolsInv

LEMMA ToolsStep == Beside = FALSE /\ ToolsInv /\ [Next]_vars => ToolsInv'
<1> SUFFICES ASSUME Beside = FALSE, ToolsInv, [Next]_vars PROVE ToolsInv'
  OBVIOUS
<1>1. ASSUME NEW k \in Keys, NEW st \in Statuses, AppendRun(k, st) PROVE ToolsInv'
  BY <1>1, AppendRunKeeps
<1>2. CASE EndRunner
  BY <1>2, EndRunnerKeeps
<1>3. ASSUME NEW rm \in BOOLEAN, StartCompact(rm) PROVE ToolsInv'
  BY <1>3, StartCompactKeeps
<1>4. ASSUME NEW S \in SUBSET PartRecords, StartMerge(S) PROVE ToolsInv'
  BY <1>4, StartMergeKeeps
<1>5. CASE CompactStep
  <2>1. ASSUME NEW f \in Families, WritePack(f) PROVE ToolsInv'
    BY <2>1, WritePackKeeps
  <2>2. CASE RemoveOlder
    BY <2>2, RemoveOlderKeeps
  <2>3. CASE ListSegments
    BY <2>3, ListSegmentsKeeps
  <2>4. CASE RemoveSegment
    BY <2>4, RemoveSegmentKeeps
  <2>5. CASE EndCompact
    BY <2>5, EndCompactKeeps
  <2>6. QED
    BY <1>5, <2>1, <2>2, <2>3, <2>4, <2>5 DEF CompactStep
<1>6. CASE MergeStep
  <2>1. ASSUME NEW r \in have, CopyRun(r) PROVE ToolsInv'
    BY <2>1, CopyRunKeeps
  <2>2. QED
    BY <1>6, <2>1, EndMergeKeeps DEF MergeStep
<1>7. CASE Leave \/ Kill
  <2>1. tpc # "off" /\ NoTool
    BY <1>7 DEF Leave, Kill
  <2>2. kills' \in 0..MaxKills
    BY <1>7, ToolsAssumption DEF Leave, Kill, ToolsInv, ToolTypes
  <2>3. QED
    BY <2>1, <2>2, NoToolKeeps
<1>8. CASE UNCHANGED vars
  <2>1. UNCHANGED <<segs, pack, older, live, tpc, remove, idx, left, family, listed, parts, have, into, born, tools, kills, latest>>
    BY <1>8 DEF vars, files, compacting, merging
  <2>2. FileTypes' /\ LatestInv'
    BY <2>1, FilesStay DEF ToolsInv, files
  <2>3. Segments(1..Len(segs))' = Segments(1..Len(segs))
    BY <2>1 DEF Segments
  <2>4. QED
    BY <2>1, <2>2, <2>3 DEF ToolsInv, ToolTypes, AppendInv, CompactInv, Compacting, MergeInv
<1>9. QED
  BY <1>1, <1>2, <1>3, <1>4, <1>5, <1>6, <1>7, <1>8 DEF Next

-----------------------------------------------------------------------------
(* The theorems.  A runner that appends beside a tool is the divergence    *)
(* the run tools_beside shows.                                             *)

LEMMA ToolsAlways ==
  ASSUME Beside = FALSE
  PROVE  Spec => []ToolsInv
BY ToolsInit, ToolsStep, PTL DEF Spec

\* The store answers for every run with the last record appended for it,
\* between any two steps of compact and merge and after any kills
\* (store_index, compact_store, merge_stores).
THEOREM LatestAlways ==
  ASSUME Beside = FALSE
  PROVE  Spec => []LatestStays
<1>1. ToolsInv => LatestStays
  BY StoredIs DEF ToolsInv, LatestStays
<1>2. QED
  BY <1>1, ToolsAlways, PTL

\* A compact that reports success has every run's last record in its family's
\* pack, and has left no pack of before and, where it was to remove them, no
\* segment (compact_store).
THEOREM CompactIsWhole ==
  ASSUME Beside = FALSE
  PROVE  Spec => []CompactedWhole
<1>1. ToolsInv => CompactedWhole
  <2>1. SUFFICES ASSUME ToolsInv, tpc = "compacted" PROVE CompactedWhole
    BY DEF CompactedWhole
  <2>2. left = {} /\ family = "none"
    BY <2>1 DEF ToolsInv, ToolTypes, CompactInv, Compacting
  <2>3. \A k \in Keys : latest[k] # NoRecord =>
              k \in DOMAIN pack[FamilyOf[k]] /\ pack[FamilyOf[k]][k] = latest[k]
    BY <2>1, <2>2 DEF ToolsInv, CompactInv, Compacting
  <2>4. \A f \in Families : DOMAIN older[f] = {}
    BY <2>1, <2>2, FamilyIs DEF ToolsInv, CompactInv, Compacting
  <2>5. remove => \A s \in 1..Len(segs) : ~segs[s].there
    BY <2>1 DEF ToolsInv, CompactInv, Compacting, Segments
  <2>6. QED
    BY <2>3, <2>4, <2>5 DEF CompactedWhole
<1>2. QED
  BY <1>1, ToolsAlways, PTL

\* A merge that reports success has every run of every part, as the part has it
\* (merge_stores).
THEOREM MergeIsWhole ==
  ASSUME Beside = FALSE
  PROVE  Spec => []MergedWhole
<1>1. ToolsInv => MergedWhole
  <2>1. SUFFICES ASSUME ToolsInv, tpc = "merged", NEW r \in parts PROVE Stored(r.key) = r
    BY DEF MergedWhole
  <2>2. r.key \in Keys
    BY <2>1 DEF ToolsInv, ToolTypes, Records
  <2>3. latest[r.key] = r
    BY <2>1 DEF ToolsInv, MergeInv
  <2>4. QED
    BY <2>1, <2>2, <2>3, StoredIs DEF ToolsInv
<1>2. QED
  BY <1>1, ToolsAlways, PTL
=============================================================================
