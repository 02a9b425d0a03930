---------------------------- MODULE RecordFile ----------------------------
(***************************************************************************)
(* One segment of a campaign's store: its data file (.raw), its index      *)
(* (.idx), and how the readers make a list of runs of the two              *)
(* (campaign/engine.hpp: scan_raw, read_idx, file_entries).                *)
(*                                                                         *)
(* A record takes two cells of the data file, <<r, 1>> and <<r, 2>>: the   *)
(* part a crash may leave behind and the part that makes it whole (its     *)
(* length, key hash and checksum hold).  An offset counts cells.           *)
(* A line of the index has five fields, or is one a crash or a full disk   *)
(* cut short: within its first four fields ("torn"), or within its key,    *)
(* where five fields are still read.                                       *)
(***************************************************************************)
EXTENDS Naturals, Sequences, SequencesExt

CONSTANTS
    Keys,      \* problem|algorithm|variant|seed|budget
    CutKey     \* a key cut short: no job has it

ASSUME KeysAssumption == CutKey \notin Keys

Statuses == {"done", "failed"}

Records == [key : Keys, status : Statuses, id : Nat \ {0}]
NoRecord == [key |-> CutKey, status |-> "failed", id |-> 0]
Cells == (Records \cup {NoRecord}) \X {1, 2}

\* parse_record: a whole record at an offset.
WholeAt(f, at) ==
    /\ at + 2 <= Len(f)
    /\ f[at + 1][2] = 1 /\ f[at + 1][1] # NoRecord
    /\ f[at + 2] = <<f[at + 1][1], 2>>

RecordAt(f, at) == f[at + 1][1]

\* scan_raw: whole records one after the other, up to the first that is not.
Scanned(f, n) == /\ \A i \in 0..Len(f) : i < n => WholeAt(f, 2 * i)
                 /\ ~WholeAt(f, 2 * n)

Count(f) == CHOOSE n \in 0..Len(f) : Scanned(f, n)

Line(r, at) == [torn |-> FALSE, eol |-> TRUE, at |-> at,
                key |-> r.key, status |-> r.status]

\* What is left of a line cut within its first four fields: no entry.
TornLine == [torn |-> TRUE, eol |-> FALSE, at |-> 0, key |-> CutKey, status |-> "failed"]

\* What is left of a line cut within its key: an entry, of another key.
KeyCutLine(l) == [l EXCEPT !.key = CutKey, !.eol = FALSE]

Lines == [torn : BOOLEAN, eol : BOOLEAN, at : Nat,
          key : Keys \cup {CutKey}, status : Statuses]

\* An index that is not there reads as one that is not believed.
NoIndex == <<TornLine>>

\* A line appended: to a line without its end it makes one of nine fields.
AppendLine(ix, l) ==
    IF Len(ix) > 0 /\ ~ix[Len(ix)].eol
    THEN [ix EXCEPT ![Len(ix)] = [TornLine EXCEPT !.eol = TRUE]]
    ELSE Append(ix, l)

\* A mistake: the number of a line's fields is not looked at.
ListedTorn(f, ix) ==
    /\ \A i \in 1..Len(ix) : ix[i].at = 2 * (i - 1)
    /\ 2 * Len(ix) <= Len(f)
    /\ ~WholeAt(f, 2 * Len(ix))

\* A mistake: a whole record past the last line is not looked for.
ListedShort(f, ix) ==
    /\ \A i \in 1..Len(ix) : ~ix[i].torn /\ ix[i].at = 2 * (i - 1)
    /\ 2 * Len(ix) <= Len(f)

\* read_idx: the lines are believed where they run from the file's start to
\* no further than its end, and no whole record follows the last.
Listed(f, ix) ==
    /\ \A i \in 1..Len(ix) : ~ix[i].torn /\ ix[i].at = 2 * (i - 1)
    /\ 2 * Len(ix) <= Len(f)
    /\ ~WholeAt(f, 2 * Len(ix))

\* The data's own account of its records.
Account(f) == [i \in 1..Count(f) |-> Line(RecordAt(f, 2 * (i - 1)), 2 * (i - 1))]

\* A mistake: a segment whose index is not believed reads as empty.
IndexOnly(f, ix) == IF Listed(f, ix) THEN ix ELSE <<>>

\* file_entries: the index where it is believed, else the data's account.
FileEntries(f, ix) == IF Listed(f, ix) THEN ix ELSE Account(f)

\* A mistake: the file is cut where an index that is not believed ends.
IndexEnd(f, ix) == 2 * Len(ix)

\* The end of the last entry: what repair_store cuts the file at.
EntriesEnd(f, ix) == IF Listed(f, ix) THEN 2 * Len(ix) ELSE 2 * Count(f)

\* resize_file: cut, or filled with zeros where the file is shorter by now.
Resized(f, n) == [i \in 1..n |-> IF i <= Len(f) THEN f[i] ELSE <<NoRecord, 1>>]

\* An index written from its start over what is there: lines another process
\* appended since it was truncated are left behind the text, in pieces.
Overwritten(ix, text) ==
    IF text = <<>> THEN ix
    ELSE IF Len(ix) > Len(text) THEN Append(text, [TornLine EXCEPT !.eol = TRUE])
    ELSE text

=============================================================================
