---------------------------- MODULE StoreTools ----------------------------
(***************************************************************************)
(* The tools that look after a store (campaign/store_tools.hpp): compact,  *)
(* which packs every family's records into one file and removes the        *)
(* segments on request, and merge, which copies the parts' runs in.  Either *)
(* may be killed between any two of its files, and run again.  A runner    *)
(* appends between them, or beside them.                                   *)
(***************************************************************************)
EXTENDS Integers, Sequences, FiniteSets

CONSTANTS
    Keys,
    FamilyOf,      \* the family of each key's problem
    PartRecords,   \* what the parts to merge hold: sets of records, a key once in each
    Beside,        \* a runner may append while a tool runs
    MaxRecords, MaxTools, MaxKills   \* bounds of the model

Statuses == {"done", "failed"}
Records == [key : Keys, status : Statuses, id : Nat]
NoRecord == [key |-> "none", status |-> "failed", id |-> 0]

ASSUME ToolsAssumption ==
    /\ IsFiniteSet(Keys) /\ NoRecord.key \notin Keys
    /\ \A k \in Keys : FamilyOf[k] # "none"
    /\ PartRecords \subseteq SUBSET Records
    /\ \A P \in PartRecords : \A q, r \in P : q.key = r.key => q = r
    /\ Beside \in BOOLEAN
    /\ MaxRecords \in Nat /\ MaxTools \in Nat /\ MaxKills \in Nat

Families == {FamilyOf[k] : k \in Keys}
KeysOf(f) == {k \in Keys : FamilyOf[k] = f}

VARIABLES
    segs,       \* the segments in the order of their names: [there, recs]
    pack,       \* pack-<family>.mpk, <<>> when not there: key -> record
    older,      \* pack-<family>.raw of an earlier format
    live,       \* the runner's segment, 0 while no runner appends
    tpc,        \* where the tool is
    remove,     \* --remove-segments
    idx,        \* compact's index: where each key's record is, and the record
    left,       \* the families not packed yet
    family,     \* the one whose pack was just renamed, "none" for none
    listed,     \* the segments it is still to remove
    parts,      \* merge: the records of the parts' stores
    have,       \* those still to copy
    into,       \* the segment they are copied to, 0 before the first
    born, tools, kills,
    latest      \* history: the last record appended for each key

files == <<segs, pack, older>>
compacting == <<remove, idx, left, family, listed>>
merging == <<parts, have, into>>
vars == <<files, live, tpc, compacting, merging, born, tools, kills, latest>>

NoPack == [k \in {} |-> NoRecord]
NoPlace == [seg |-> 0, rec |-> NoRecord]

Init ==
    /\ segs = <<>> /\ live = 0
    /\ pack = [f \in Families |-> NoPack]
    \* a store packed by an earlier version, or a new one
    /\ \E K \in SUBSET Keys :
          /\ older = [f \in Families |-> [k \in K \cap KeysOf(f) |->
                                            [key |-> k, status |-> "failed", id |-> 1]]]
          /\ latest = [k \in Keys |-> IF k \in K THEN older[FamilyOf[k]][k] ELSE NoRecord]
    /\ born = 1
    /\ tpc = "off" /\ remove = FALSE /\ idx = [k \in Keys |-> NoPlace]
    /\ left = {} /\ family = "none" /\ listed = {}
    /\ parts = {} /\ have = {} /\ into = 0
    /\ tools = 0 /\ kills = 0

-----------------------------------------------------------------------------
(* store_index: the packs, those of before after the new ones, then the    *)
(* segments in the order of their names; the last of a key is its record.  *)

PlacesOf(k) ==
    UNION {{<<s, i>> : i \in {j \in 1..Len(segs[s].recs) : segs[s].recs[j].key = k}} : s \in 1..Len(segs)}

After(p, q) == p[1] > q[1] \/ (p[1] = q[1] /\ p[2] >= q[2])

PlaceOf(k) ==
    LET f == FamilyOf[k]
    IN IF PlacesOf(k) # {}
       THEN LET p == CHOOSE p \in PlacesOf(k) : \A q \in PlacesOf(k) : After(p, q)
            IN [seg |-> p[1], rec |-> segs[p[1]].recs[p[2]]]
       ELSE IF k \in DOMAIN older[f] THEN [seg |-> 0, rec |-> older[f][k]]
       ELSE IF k \in DOMAIN pack[f] THEN [seg |-> 0, rec |-> pack[f][k]]
       ELSE NoPlace

Stored(k) == PlaceOf(k).rec

Segments(S) == {s \in S : segs[s].there}

-----------------------------------------------------------------------------
(* The runner, as far as the tools are concerned.                          *)

\* The segments with record r appended to segment s; 0: to a new one.  A file
\* that was removed is made anew.
AppendedTo(s, r) ==
    IF s = 0 THEN Append(segs, [there |-> TRUE, recs |-> <<r>>])
    ELSE [segs EXCEPT ![s] = [there |-> TRUE, recs |-> Append(@.recs, r)]]

\* A record appended: to the runner's segment, or to one it starts.
AppendRun(k, st) ==
    /\ Beside \/ tpc = "off"
    /\ Stored(k).status # "done" /\ born < MaxRecords
    /\ LET r == [key |-> k, status |-> st, id |-> born + 1]
       IN /\ segs' = AppendedTo(live, r)
          /\ latest' = [latest EXCEPT ![k] = r]
    /\ live' = IF live # 0 THEN live ELSE Len(segs) + 1
    /\ born' = born + 1
    /\ UNCHANGED <<pack, older, tpc, compacting, merging, tools, kills>>

\* The runner ends; the next one, and the next segment, have a later name.
EndRunner ==
    /\ live # 0 /\ live' = 0
    /\ UNCHANGED <<files, tpc, compacting, merging, born, tools, kills, latest>>

-----------------------------------------------------------------------------
(* compact_store.                                                          *)

MayStartTool == tpc = "off" /\ tools < MaxTools /\ (Beside \/ live = 0)

\* The store was checked and its index taken: one pack per family to write.
StartCompact(rm) ==
    /\ MayStartTool /\ tools' = tools + 1
    /\ remove' = rm
    /\ idx' = [k \in Keys |-> PlaceOf(k)]
    /\ left' = {FamilyOf[k] : k \in {q \in Keys : idx'[q] # NoPlace}}
    /\ tpc' = "packing"
    /\ UNCHANGED <<files, live, family, listed, merging, born, kills, latest>>

\* The records, read where the index says, in a file renamed into place.
WritePack(f) ==
    /\ tpc = "packing" /\ family = "none" /\ f \in left
    /\ pack' = [pack EXCEPT ![f] =
                   [k \in {q \in KeysOf(f) : idx[q] # NoPlace} |-> idx[k].rec]]
    /\ left' = left \ {f} /\ family' = f
    /\ UNCHANGED <<segs, older, live, tpc, remove, idx, listed, merging, born, tools, kills, latest>>

\* A mistake: the pack of before stays.
KeepOlder ==
    /\ tpc = "packing" /\ family # "none" /\ family' = "none"
    /\ UNCHANGED <<files, live, tpc, remove, idx, left, listed, merging, born, tools, kills, latest>>

\* The pack of before goes.
RemoveOlder ==
    /\ tpc = "packing" /\ family # "none" /\ family' = "none"
    /\ older' = [older EXCEPT ![family] = NoPack]
    /\ UNCHANGED <<segs, pack, live, tpc, remove, idx, left, listed, merging, born, tools, kills, latest>>

\* Every record of the index that is a segment's is the same in its pack.
Verified ==
    \A k \in Keys : idx[k].seg # 0 =>
        k \in DOMAIN pack[FamilyOf[k]] /\ pack[FamilyOf[k]][k] = idx[k].rec

\* Every pack is there and was read back: the segments that are there now.
ListSegments ==
    /\ tpc = "packing" /\ left = {} /\ family = "none"
    /\ remove /\ Verified
    /\ listed' = Segments(1..Len(segs))
    /\ tpc' = "removing"
    /\ UNCHANGED <<files, live, remove, idx, left, family, merging, born, tools, kills, latest>>

\* A mistake: the newest segment first.
NewestFirst(s) == \A t \in listed : t <= s
InOrder(s) == \A t \in listed : s <= t

RemoveSegment ==
    /\ tpc = "removing"
    /\ \E s \in listed :
          /\ InOrder(s)
          /\ listed' = listed \ {s}
          /\ segs' = [segs EXCEPT ![s] = [there |-> FALSE, recs |-> <<>>]]
    /\ UNCHANGED <<pack, older, live, tpc, remove, idx, left, family, merging, born, tools, kills, latest>>

EndCompact ==
    /\ \/ tpc = "removing" /\ listed = {}
       \/ tpc = "packing" /\ left = {} /\ family = "none" /\ ~remove
    /\ tpc' = "compacted"
    /\ UNCHANGED <<files, live, compacting, merging, born, tools, kills, latest>>

-----------------------------------------------------------------------------
(* merge_stores.                                                           *)

\* The runs of the parts the store does not have.
MissingRecords(P) == {r \in P : Stored(r.key) = NoRecord}

\* A mistake: only the parts are compared, not what the store has.
AgreeAmong(P) == \A q, r \in P : q.key = r.key => q = r

\* A key in two of the stores is the same record in both.
Agree(P) == /\ \A q, r \in P : q.key = r.key => q = r
            /\ \A r \in P : Stored(r.key) \in {r, NoRecord}

\* Every store is read; where two differ, nothing is written.
StartMerge(S) ==
    /\ MayStartTool /\ tools' = tools + 1
    /\ parts' = UNION S
    /\ IF Agree(parts')
       THEN have' = MissingRecords(parts') /\ tpc' = "merging"
       ELSE have' = {} /\ tpc' = "refused"
    /\ UNCHANGED <<files, live, compacting, into, born, kills, latest>>

\* The runs are appended to a segment of the tool's own, one by one.
CopyRun(r) ==
    /\ tpc = "merging" /\ r \in have
    /\ have' = have \ {r}
    /\ segs' = AppendedTo(into, r)
    /\ into' = IF into = 0 THEN Len(segs) + 1 ELSE into
    /\ latest' = [latest EXCEPT ![r.key] = r]
    /\ UNCHANGED <<pack, older, live, tpc, compacting, parts, born, tools, kills>>

EndMerge ==
    /\ tpc = "merging" /\ have = {} /\ tpc' = "merged"
    /\ UNCHANGED <<files, live, compacting, merging, born, tools, kills, latest>>

-----------------------------------------------------------------------------

NoTool ==
    /\ tpc' = "off" /\ remove' = FALSE /\ idx' = [k \in Keys |-> NoPlace]
    /\ left' = {} /\ family' = "none" /\ listed' = {}
    /\ parts' = {} /\ have' = {} /\ into' = 0
    /\ UNCHANGED <<files, live, born, tools, latest>>

\* The tool is done and its process ends, ...
Leave == tpc \in {"compacted", "merged", "refused"} /\ NoTool /\ UNCHANGED kills

\* ... or it is killed where it is.
Kill == /\ tpc \in {"packing", "removing", "merging"} /\ kills < MaxKills
        /\ kills' = kills + 1 /\ NoTool

CompactStep == \/ \E f \in Families : WritePack(f)
               \/ RemoveOlder \/ ListSegments \/ RemoveSegment \/ EndCompact
MergeStep == EndMerge \/ \E r \in have : CopyRun(r)

Next == \/ \E k \in Keys, st \in Statuses : AppendRun(k, st)
        \/ EndRunner
        \/ \E rm \in BOOLEAN : StartCompact(rm)
        \/ \E S \in SUBSET PartRecords \ {{}} : StartMerge(S)
        \/ CompactStep \/ MergeStep \/ Leave \/ Kill

Spec == Init /\ [][Next]_vars

-----------------------------------------------------------------------------
(* Properties.                                                             *)

\* The store answers for a run with the last record appended for it, between
\* any two steps of compact and merge, after they were killed anywhere and run
\* again, and whatever packs and segments it lies in ("segments are deleted
\* only ... after every record has been read back from its pack",
\* docs/running.md; store_index, compact_store).
LatestStays == \A k \in Keys : Stored(k) = latest[k]

\* A compact that reports success has packed what it was given: every run's
\* last record is in its family's pack, no pack of before is left to be read
\* over it, and with --remove-segments no segment is (compact_store).
CompactedWhole ==
    tpc = "compacted" =>
        /\ \A k \in Keys : latest[k] # NoRecord =>
              k \in DOMAIN pack[FamilyOf[k]] /\ pack[FamilyOf[k]][k] = latest[k]
        /\ \A f \in Families : DOMAIN older[f] = {}
        /\ remove => \A s \in 1..Len(segs) : ~segs[s].there

\* A merge that reports success has every run of every part, also when an
\* earlier one was killed half-way, and no run it found differs from the part's
\* (merge_stores).
MergedWhole == tpc = "merged" => \A r \in parts : Stored(r.key) = r
=============================================================================
