--------------------------- MODULE SegmentStore ---------------------------
(***************************************************************************)
(* A campaign's store while runners append to it (campaign/engine.hpp,     *)
(* campaign/run_store.hpp, store/pack.hpp).  A runner looks at the         *)
(* heartbeat, repairs the store unless a runner beats, lists the runs the  *)
(* store has, and runs the rest: each of its threads appends the records   *)
(* of its jobs to a segment of its own.  A runner may be killed between    *)
(* any two steps; the machine may lose power, and then what was not synced *)
(* may be gone from any point on.                                          *)
(***************************************************************************)
EXTENDS RecordFile, FiniteSets

CONSTANTS
    Runners,      \* the processes
    Threads,      \* the threads of each
    Settings,     \* the campaigns and machines the model covers
    MaxLaunches   \* bound of the model: how often a runner is started

\* A setting: the keys of each runner's slice; segment_mb, in cells; when a
\* runner may be started ("none" while no other runs, "beating" also while the
\* others beat, "any"); where the last index line may be cut; whether a write
\* may fail; and a bound of the model, the crashes.
ASSUME StoreAssumption ==
    /\ Runners # {}
    /\ Settings \subseteq [jobs : [Runners -> SUBSET Keys], limit : Nat,
                            overlap : {"none", "beating", "any"},
                            torn : SUBSET {"torn", "key"}, fullDisk : BOOLEAN, crashes : Nat]
    /\ MaxLaunches \in Nat

VARIABLES
    setting,      \* the one of Settings this behaviour is about
    raw, idx,     \* the segments' files, in the order they were made
    synced,       \* how many cells of each are on the disk for good
    stamp,        \* the time in each segment's name
    beat,         \* _runner.json
    clock,        \* local time, assumed not to be set back between two starts
    rpc,          \* where each runner is
    rtime,        \* the time its writers took
    rseg,         \* the segment its repair is at
    rlast,        \* the last segment its repair listed
    rview,        \* what its repair read of that segment
    todo,         \* the jobs no thread of it has taken
    wpc,          \* where each thread is
    wrec,         \* the record it is appending
    wseg,         \* its segment, 0 before the first
    wat,          \* the offset it read before it wrote
    wcount,       \* records_: what it appended to that segment
    acked,        \* history: the records append() returned for
    born,         \* history: how many records were made
    launches, crashes

files == <<raw, idx, synced, stamp>>
repairs == <<rseg, rlast, rview>>
writers == <<wpc, wrec, wseg, wat, wcount>>
history == <<acked, born>>
counters == <<launches, crashes>>
vars == <<files, beat, clock, rpc, rtime, repairs, todo, writers, history, counters>>

Writers == Runners \X Threads
Segments == 1..Len(raw)

JobsOf == setting.jobs
SegLimit == setting.limit
Overlap == setting.overlap
TornLines == setting.torn
FullDisk == setting.fullDisk
MaxCrashes == setting.crashes
NoView == [end |-> 0, rebuild |-> FALSE, account |-> <<>>]

Repairs(p) == rpc[p] \in {"repair", "cut", "truncate", "rewrite"}

FileTypes ==
    /\ raw \in Seq(Seq(Cells)) /\ idx \in Seq(Seq(Lines))
    /\ synced \in Seq(Nat) /\ stamp \in Seq(Nat)
    /\ Len(idx) = Len(raw) /\ Len(synced) = Len(raw) /\ Len(stamp) = Len(raw)
    /\ \A s \in Segments : synced[s] <= Len(raw[s])

RunnerTypes ==
    /\ rpc \in [Runners -> {"off", "repair", "cut", "truncate", "rewrite", "list", "run"}]
    /\ rtime \in [Runners -> Nat] /\ rseg \in [Runners -> Nat]
    /\ rlast \in [Runners -> 0..Len(raw)]
    /\ rview \in [Runners -> [end : Nat, rebuild : BOOLEAN, account : Seq(Lines)]]
    /\ \A p \in Runners : Repairs(p) => rseg[p] \in 1..rlast[p]
    /\ todo \in [Runners -> SUBSET Keys]

WriterTypes ==
    /\ wpc \in [Writers -> {"idle", "create", "index", "tell", "append", "half", "whole", "synced"}]
    /\ wrec \in [Writers -> Records \cup {NoRecord}] /\ wat \in [Writers -> Nat]
    /\ \A w \in Writers : wpc[w] # "idle" => rpc[w[1]] = "run" /\ wrec[w] \in Records
    /\ \A w \in Writers : wpc[w] \notin {"idle", "create"} => wseg[w] # 0
    /\ wseg \in [Writers -> 0..Len(raw)] /\ wcount \in [Writers -> Nat]
    /\ \A v, w \in Writers : wseg[v] = wseg[w] => v = w \/ wseg[v] = 0

TypeOK ==
    /\ setting \in Settings
    /\ FileTypes /\ RunnerTypes /\ WriterTypes
    /\ beat \in [state : {"none", "running", "finished"}, by : Runners, fresh : BOOLEAN]
    /\ clock \in Nat /\ born \in Nat /\ launches \in Nat /\ crashes \in Nat
    /\ acked \subseteq Records

Init ==
    /\ setting \in Settings
    /\ raw = <<>> /\ idx = <<>> /\ synced = <<>> /\ stamp = <<>>
    /\ beat = [state |-> "none", by |-> CHOOSE p \in Runners : TRUE, fresh |-> FALSE]
    /\ clock = 0
    /\ rpc = [p \in Runners |-> "off"] /\ rtime = [p \in Runners |-> 0]
    /\ rseg = [p \in Runners |-> 0] /\ rlast = [p \in Runners |-> 0]
    /\ rview = [p \in Runners |-> NoView] /\ todo = [p \in Runners |-> {}]
    /\ wpc = [w \in Writers |-> "idle"] /\ wrec = [w \in Writers |-> NoRecord]
    /\ wseg = [w \in Writers |-> 0] /\ wat = [w \in Writers |-> 0]
    /\ wcount = [w \in Writers |-> 0]
    /\ acked = {} /\ born = 0 /\ launches = 0 /\ crashes = 0

-----------------------------------------------------------------------------
(* What the store says of its runs.                                        *)

Entries(s) == FileEntries(raw[s], idx[s])

\* A mistake: the latest segment first.
NameAfter(s, t) == stamp[s] > stamp[t] \/ (stamp[s] = stamp[t] /\ s > t)

\* The segments are read in the order of their names: the time the writer was
\* made, then (one process) its number.
NameBefore(s, t) == stamp[s] < stamp[t] \/ (stamp[s] = stamp[t] /\ s < t)

\* Where the store has a record of key k.
Places(k) == UNION {{<<s, i>> : i \in {j \in 1..Len(Entries(s)) : Entries(s)[j].key = k}}
                    : s \in Segments}

Later(e, f) == NameBefore(f[1], e[1]) \/ (f[1] = e[1] /\ f[2] < e[2])

\* store_index: a key's last entry in that order.
Winner(k) == CHOOSE e \in Places(k) : \A f \in Places(k) : f = e \/ Later(e, f)

WinningLine(k) == Entries(Winner(k)[1])[Winner(k)[2]]

StatusOf(k) == IF Places(k) = {} THEN "pending" ELSE WinningLine(k).status

\* The record the store gives for a key.
Stored(k) == RecordAt(raw[Winner(k)[1]], WinningLine(k).at)

-----------------------------------------------------------------------------
(* The runner.                                                             *)

Alive == beat.state = "running" /\ beat.fresh

\* An assumption about whoever starts runners, not code: when they do.
MayStart == CASE Overlap = "none"    -> \A q \in Runners : rpc[q] = "off"
              [] Overlap = "beating" -> \/ \A q \in Runners : rpc[q] = "off"
                                        \/ /\ beat.state = "running" /\ beat.fresh
                                           /\ \A q \in Runners : rpc[q] \in {"off", "run"}
              [] OTHER               -> TRUE

\* run_campaign: the heartbeat decides whether the store is repaired; the
\* segments to repair are those that are there now.
Start(p) ==
    /\ rpc[p] = "off" /\ JobsOf[p] # {} /\ MayStart /\ launches < MaxLaunches
    /\ launches' = launches + 1
    /\ clock' = clock + 1
    /\ rtime' = [rtime EXCEPT ![p] = clock']
    /\ \/ /\ Alive \/ raw = <<>>
          /\ rpc' = [rpc EXCEPT ![p] = "list"]
          /\ UNCHANGED <<rseg, rlast>>
       \/ /\ ~Alive /\ raw # <<>>
          /\ rpc' = [rpc EXCEPT ![p] = "repair"]
          /\ rseg' = [rseg EXCEPT ![p] = 1] /\ rlast' = [rlast EXCEPT ![p] = Len(raw)]
    /\ UNCHANGED <<files, beat, rview, todo, writers, history, crashes>>

\* The repair goes on to the next of the segments it listed.
Onward(p) ==
    \/ /\ rseg[p] < rlast[p]
       /\ rseg' = [rseg EXCEPT ![p] = @ + 1]
       /\ rpc' = [rpc EXCEPT ![p] = "repair"]
       /\ UNCHANGED rlast
    \/ /\ rseg[p] = rlast[p]
       /\ rseg' = [rseg EXCEPT ![p] = 0] /\ rlast' = [rlast EXCEPT ![p] = 0]
       /\ rpc' = [rpc EXCEPT ![p] = "list"]

\* The repair stays with the segment.
Remain(p, place) == rpc' = [rpc EXCEPT ![p] = place] /\ UNCHANGED <<rseg, rlast>>

\* repair_store reads a segment and its index.
RepairRead(p) ==
    LET s == rseg[p]
        end == EntriesEnd(raw[s], idx[s])
        believed == Listed(raw[s], idx[s])
        seen == [end |-> end, rebuild |-> ~believed,
                 account |-> IF believed THEN <<>> ELSE Account(raw[s])]
    IN /\ rpc[p] = "repair"
       /\ \/ /\ end < Len(raw[s])
             /\ rview' = [rview EXCEPT ![p] = seen] /\ Remain(p, "cut")
          \/ /\ end >= Len(raw[s]) /\ ~believed
             /\ rview' = [rview EXCEPT ![p] = seen] /\ Remain(p, "truncate")
          \/ /\ end >= Len(raw[s]) /\ believed
             /\ Onward(p) /\ UNCHANGED rview
       /\ UNCHANGED <<files, beat, clock, rtime, todo, writers, history, counters>>

\* The tail is cut where the reading said the last whole record ends.
RepairCut(p) ==
    LET s == rseg[p]
        n == rview[p].end
    IN /\ rpc[p] = "cut"
       /\ raw' = [raw EXCEPT ![s] = Resized(@, n)]
       /\ synced' = [synced EXCEPT ![s] = IF @ < n THEN @ ELSE n]
       /\ \/ rview[p].rebuild /\ Remain(p, "truncate") /\ UNCHANGED rview
          \/ ~rview[p].rebuild /\ Onward(p) /\ rview' = [rview EXCEPT ![p] = NoView]
       /\ UNCHANGED <<idx, stamp, beat, clock, rtime, todo, writers, history, counters>>

RepairTruncate(p) ==
    /\ rpc[p] = "truncate"
    /\ idx' = [idx EXCEPT ![rseg[p]] = <<>>]
    /\ rpc' = [rpc EXCEPT ![p] = "rewrite"]
    /\ UNCHANGED <<raw, synced, stamp, beat, clock, rtime, repairs, todo, writers, history, counters>>

RepairRewrite(p) ==
    /\ rpc[p] = "rewrite"
    /\ idx' = [idx EXCEPT ![rseg[p]] = Overwritten(@, rview[p].account)]
    /\ rview' = [rview EXCEPT ![p] = NoView]
    /\ Onward(p)
    /\ UNCHANGED <<raw, synced, stamp, beat, clock, rtime, todo, writers, history, counters>>

\* The jobs of the slice the store has no finished run of; without any the
\* runner is done, and writes no heartbeat.
List(p) ==
    /\ rpc[p] = "list"
    /\ todo' = [todo EXCEPT ![p] = {k \in JobsOf[p] : StatusOf(k) # "done"}]
    /\ rpc' = [rpc EXCEPT ![p] = IF todo'[p] = {} THEN "off" ELSE "run"]
    /\ UNCHANGED <<files, beat, clock, rtime, repairs, writers, history, counters>>

Beat(p) ==
    /\ rpc[p] = "run"
    /\ beat # [state |-> "running", by |-> p, fresh |-> TRUE]
    /\ beat' = [state |-> "running", by |-> p, fresh |-> TRUE]
    /\ UNCHANGED <<files, clock, rpc, rtime, repairs, todo, writers, history, counters>>

AllIdle(p) == \A t \in Threads : wpc[p, t] = "idle"

\* The threads of runner p are gone, with what they held.
Gone(p, f, none) == [w \in Writers |-> IF w[1] = p THEN none ELSE f[w]]

NoThreads(p) ==
    /\ wpc' = Gone(p, wpc, "idle") /\ wrec' = Gone(p, wrec, NoRecord)
    /\ wseg' = Gone(p, wseg, 0) /\ wat' = Gone(p, wat, 0) /\ wcount' = Gone(p, wcount, 0)

\* A mistake: the runner ends as soon as its threads are between two jobs.
EndRunEarly(p) ==
    /\ rpc[p] = "run" /\ AllIdle(p)
    /\ beat' = [state |-> "finished", by |-> p, fresh |-> FALSE]
    /\ rpc' = [rpc EXCEPT ![p] = "off"] /\ todo' = [todo EXCEPT ![p] = {}]
    /\ NoThreads(p)
    /\ UNCHANGED <<files, clock, rtime, repairs, history, counters>>

\* No job is left and the threads are joined: the last heartbeat.
EndRun(p) ==
    /\ rpc[p] = "run" /\ todo[p] = {} /\ AllIdle(p)
    /\ beat' = [state |-> "finished", by |-> p, fresh |-> FALSE]
    /\ rpc' = [rpc EXCEPT ![p] = "off"]
    /\ NoThreads(p)
    /\ UNCHANGED <<files, clock, rtime, repairs, todo, history, counters>>

-----------------------------------------------------------------------------
(* A thread of the pool: SegmentWriter::append.                            *)

At(w, place) == wpc[w] = place
Goto(w, place) == wpc' = [wpc EXCEPT ![w] = place]

\* Everything but the files and the writers.
others == <<beat, clock, rpc, rtime, repairs, history, counters>>

NeedsSegment(w) ==
    \/ wseg[w] = 0
    \/ wcount[w] > 0 /\ Len(raw[wseg[w]]) + 2 > SegLimit

\* A job taken and run: its record, to be appended.
Take(w) ==
    /\ rpc[w[1]] = "run" /\ At(w, "idle")
    /\ \E k \in todo[w[1]], st \in Statuses :
          /\ todo' = [todo EXCEPT ![w[1]] = @ \ {k}]
          /\ wrec' = [wrec EXCEPT ![w] = [key |-> k, status |-> st, id |-> born + 1]]
    /\ born' = born + 1
    /\ Goto(w, IF NeedsSegment(w) THEN "create" ELSE "tell")
    /\ UNCHANGED <<files, beat, clock, rpc, rtime, repairs, wseg, wat, wcount, acked, counters>>

\* start: the data file under a name of its own, ...
CreateRaw(w) ==
    /\ At(w, "create")
    /\ raw' = Append(raw, <<>>) /\ idx' = Append(idx, NoIndex)
    /\ synced' = Append(synced, 0) /\ stamp' = Append(stamp, rtime[w[1]])
    /\ wseg' = [wseg EXCEPT ![w] = Len(raw) + 1]
    /\ Goto(w, "index")
    /\ UNCHANGED <<others, todo, wrec, wat, wcount>>

\* ... then the index.
CreateIdx(w) ==
    /\ At(w, "index")
    /\ idx' = [idx EXCEPT ![wseg[w]] = <<>>]
    /\ wcount' = [wcount EXCEPT ![w] = 0]
    /\ Goto(w, "tell")
    /\ UNCHANGED <<others, raw, synced, stamp, todo, wrec, wseg, wat>>

\* append_record: the file's end, ...
TellEnd(w) ==
    /\ At(w, "tell")
    /\ wat' = [wat EXCEPT ![w] = Len(raw[wseg[w]])]
    /\ Goto(w, "append")
    /\ UNCHANGED <<others, files, todo, wrec, wseg, wcount>>

\* ... the record, which a crash may cut anywhere, ...
WriteCell(w, from, to, part) ==
    /\ At(w, from)
    /\ raw' = [raw EXCEPT ![wseg[w]] = Append(@, <<wrec[w], part>>)]
    /\ Goto(w, to)
    /\ UNCHANGED <<others, idx, synced, stamp, todo, wrec, wseg, wat, wcount>>

\* A mistake: the sync is left out.
WriteRestUnsynced(w) == WriteCell(w, "half", "synced", 2)

WriteHead(w) == WriteCell(w, "append", "half", 1)
WriteRest(w) == WriteCell(w, "half", "whole", 2)

\* ... the sync, ...
Sync(w) ==
    /\ At(w, "whole")
    /\ synced' = [synced EXCEPT ![wseg[w]] = Len(raw[wseg[w]])]
    /\ Goto(w, "synced")
    /\ UNCHANGED <<others, raw, idx, stamp, todo, wrec, wseg, wat, wcount>>

\* ... and the line of the index.  Its file is closed without a look at
\* whether the line got there: on a full disk it may be cut, or missing.
LineWritten(w) ==
    LET ix == idx[wseg[w]]
        l == Line(wrec[w], wat[w])
    IN {AppendLine(ix, l)}
       \cup (IF FullDisk THEN {ix, AppendLine(ix, TornLine)} ELSE {})

WriteLine(w) ==
    /\ At(w, "synced")
    /\ \E ix \in LineWritten(w) : idx' = [idx EXCEPT ![wseg[w]] = ix]
    /\ wcount' = [wcount EXCEPT ![w] = @ + 1]
    /\ acked' = acked \cup {wrec[w]}
    /\ wrec' = [wrec EXCEPT ![w] = NoRecord] /\ wat' = [wat EXCEPT ![w] = 0]
    /\ Goto(w, "idle")
    /\ UNCHANGED <<raw, synced, stamp, beat, clock, rpc, rtime, repairs, todo, wseg, born, counters>>

\* A write or the sync fails: append throws, the thread leaves with what it
\* wrote, and the others stop after their job.
WriteFails(w) ==
    /\ FullDisk /\ wpc[w] \in {"append", "half", "whole"}
    /\ todo' = [todo EXCEPT ![w[1]] = {}]
    /\ wrec' = [wrec EXCEPT ![w] = NoRecord] /\ wat' = [wat EXCEPT ![w] = 0]
    /\ Goto(w, "idle")
    /\ UNCHANGED <<others, files, wseg, wcount>>

-----------------------------------------------------------------------------
(* What the world does.                                                    *)

Kill(p) ==
    /\ rpc[p] # "off" /\ crashes < MaxCrashes
    /\ crashes' = crashes + 1
    /\ rpc' = [rpc EXCEPT ![p] = "off"]
    /\ todo' = [todo EXCEPT ![p] = {}]
    /\ rseg' = [rseg EXCEPT ![p] = 0] /\ rlast' = [rlast EXCEPT ![p] = 0]
    /\ rview' = [rview EXCEPT ![p] = NoView]
    /\ NoThreads(p)
    /\ UNCHANGED <<files, beat, clock, rtime, history, launches>>

\* What a segment's data may be after a power loss: all that was synced, and
\* anything up to its end.
LeftOfRaw(s) == {SubSeq(raw[s], 1, n) : n \in synced[s]..Len(raw[s])}

\* Its index is never synced: any number of its lines, the last maybe cut.
LeftOfIdx(s) ==
    LET cut(n) == SubSeq(idx[s], 1, n)
    IN UNION {{cut(n)}
              \cup (IF "torn" \in TornLines /\ n < Len(idx[s]) THEN {Append(cut(n), TornLine)} ELSE {})
              \cup (IF "key" \in TornLines /\ n < Len(idx[s])
                    THEN {Append(cut(n), KeyCutLine(idx[s][n + 1]))} ELSE {})
              : n \in 0..Len(idx[s])}

PowerLoss ==
    /\ crashes < MaxCrashes /\ \E p \in Runners : rpc[p] # "off"
    /\ crashes' = crashes + 1
    /\ raw' \in {f \in [Segments -> UNION {LeftOfRaw(s) : s \in Segments}] :
                    \A s \in Segments : f[s] \in LeftOfRaw(s)}
    /\ idx' \in {f \in [Segments -> UNION {LeftOfIdx(s) : s \in Segments}] :
                    \A s \in Segments : f[s] \in LeftOfIdx(s)}
    /\ synced' = [s \in Segments |-> Len(raw'[s])]
    /\ rpc' = [p \in Runners |-> "off"] /\ todo' = [p \in Runners |-> {}]
    /\ wpc' = [w \in Writers |-> "idle"] /\ wrec' = [w \in Writers |-> NoRecord]
    /\ wseg' = [w \in Writers |-> 0] /\ wat' = [w \in Writers |-> 0]
    /\ wcount' = [w \in Writers |-> 0]
    /\ rseg' = [p \in Runners |-> 0] /\ rlast' = [p \in Runners |-> 0]
    /\ rview' = [p \in Runners |-> NoView]
    /\ UNCHANGED <<stamp, beat, clock, rtime, history, launches>>

\* Fifteen seconds without a beat: one that runs a pool writes one every two.
Stale ==
    /\ beat.fresh /\ \A p \in Runners : rpc[p] # "run"
    /\ beat' = [beat EXCEPT !.fresh = FALSE]
    /\ UNCHANGED <<files, clock, rpc, rtime, repairs, todo, writers, history, counters>>

-----------------------------------------------------------------------------

Repairing(p) == RepairRead(p) \/ RepairCut(p) \/ RepairTruncate(p) \/ RepairRewrite(p)
Appending(w) == \/ CreateRaw(w) \/ CreateIdx(w) \/ TellEnd(w)
                \/ WriteHead(w) \/ WriteRest(w) \/ Sync(w) \/ WriteLine(w)

\* Everything is over: nobody runs and nobody starts.
Over == /\ \A p \in Runners : rpc[p] = "off"
        /\ launches = MaxLaunches
        /\ UNCHANGED vars

Next ==
    /\ UNCHANGED setting
    /\ \/ \E p \in Runners : Start(p) \/ Repairing(p) \/ List(p) \/ Beat(p) \/ EndRun(p) \/ Kill(p)
       \/ \E w \in Writers : Take(w) \/ Appending(w) \/ WriteFails(w)
       \/ PowerLoss \/ Stale \/ Over

\* A process that runs goes on, and so do its threads; nothing is assumed of
\* who starts or kills runners, of the power, or of the disk.
Fairness ==
    /\ \A p \in Runners : /\ WF_vars(Repairing(p) \/ List(p))
                          /\ WF_vars(EndRun(p))
    /\ \A w \in Writers : WF_vars(Take(w) \/ Appending(w))

Spec == Init /\ [][Next]_<<setting, vars>> /\ Fairness

-----------------------------------------------------------------------------
(* Properties.                                                             *)

\* A record append() returned for is whole in its segment, at a place the scan
\* of the data reaches: no crash, repair or failed write takes it away
\* (append_record syncs before it returns; repair_store cuts only tails).
RecordsKept ==
    \A r \in acked : \E s \in Segments :
        \E i \in 1..Count(raw[s]) : RecordAt(raw[s], 2 * (i - 1)) = r

\* What the readers are told of a segment is what its data holds: every entry
\* is a whole record, at that place, of that key and status - whether the
\* index is believed or not, in the middle of a repair too (read_idx).
IndexTruthful ==
    \A s \in Segments : \A i \in 1..Len(Entries(s)) :
        /\ WholeAt(raw[s], 2 * (i - 1))
        /\ Entries(s)[i] = Line(RecordAt(raw[s], 2 * (i - 1)), 2 * (i - 1))

\* A run done again is read as its later record: the store never answers with
\* a record older than one append() has returned for (store_index).
LatestWins ==
    \A r \in acked : Places(r.key) # {} /\ Stored(r.key).id >= r.id

\* A finished run is never run again, and two runners never both record one:
\* only failed runs have later records (the todo list of run_campaign).
DoneNotRedone ==
    \A q, r \in acked : q.key = r.key /\ q.id < r.id => q.status = "failed"

\* What a reader was told of a segment it is told again, and at the same place:
\* no kill, no repair between two of its writes (the tail cut, the index
\* truncated and not yet written), no failed write and no record on its way
\* takes an entry from a reader beside it or changes the data it names.  A
\* power loss alone may, of what was not synced (file_entries, repair_store).
ListingGrows ==
    [][~PowerLoss =>
          \A s \in Segments :
              /\ IsPrefix(Entries(s), Entries(s)')
              /\ IsPrefix(SubSeq(raw[s], 1, 2 * Len(Entries(s))), raw'[s])]_<<raw, idx>>

\* Every job of a runner that starts on its list and is not killed ends up with
\* a record in the store, whatever earlier crashes left there; where no write
\* fails.
JobsSettled ==
    \A p \in Runners :
        (~FullDisk /\ rpc[p] = "list" /\ crashes = MaxCrashes)
            ~> (\A k \in JobsOf[p] : StatusOf(k) # "pending")

\* The records on the disk for good only grow, one at a time, and a record is
\* among them before append() returns for it.
Kept == UNION {{RecordAt(raw[s], 2 * (i - 1)) :
                  i \in {j \in 1..Count(raw[s]) : 2 * j <= synced[s]}} : s \in Segments}

Promised == INSTANCE RunStore WITH kept <- Kept, counted <- acked
ImplementsRunStore == Promised!Spec
=============================================================================
