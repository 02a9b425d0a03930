----------------------------- MODULE RunDriver -----------------------------
(***************************************************************************)
(* One job's run of a core (run_core.hpp) with what a campaign makes of it *)
(* (job_run.hpp): the driver steps the core under its budget, keeps the    *)
(* rows it evaluates and hands them over in batches; the ledger            *)
(* (run_ledger.hpp) counts them, offers them to the archive and reads it   *)
(* at the counts asked for; the observer records populations at the counts *)
(* of its grid.  A population is known by the step it was reported after.  *)
(***************************************************************************)
EXTENDS GridArchive

CONSTANTS
    Settings,    \* the runs looked at, see SettingType
    IdleLimit,   \* steps in a row that evaluate nothing (10 000)
    MaxSteps     \* bound of the model: more steps than a run of the settings takes

SettingType ==
    [budget : {"steps", "evaluations", "distinct"},   \* n_gen, max_evaluations, budget_unique
     limit : Nat, every : Nat,          \* the budget; record_every, or record_every * pop_size
     setup : Nat, rows : SUBSET Nat,    \* what the core's set-up and its steps may evaluate
     points : SUBSET (Nat \X Nat), fails : BOOLEAN,
     cap : Nat, observe : BOOLEAN,      \* kNativeRowsCap; a caller's on_generation
     finishes : BOOLEAN, timeouts : BOOLEAN,
     grid : {"budgets", "log", "generations"},
     counts : SUBSET (Nat \ {0}), reads : SUBSET (Nat \ {0}),   \* "positive evaluation counts"
     frame : {<<NoFrame, NoFrame>>} \cup ([Objectives -> Nat] \X [Objectives -> Nat \ {0}])]

ASSUME DriverAssumption ==
    /\ IdleLimit \in Nat \ {0} /\ MaxSteps \in Nat
    /\ Settings \subseteq SettingType /\ \A s \in Settings : IsFiniteSet(s.counts)

VARIABLES
    setting,
    pc,                    \* setup, loop, step, over, ended, timeout or threw
    steps, evals, seen,    \* steps done, evaluations, the distinct points of them
    before, idle, next,    \* the counts a step began at, idle steps in a row, next_record
    buf,                   \* the rows not handed over yet
    led,                   \* the ledger: fe, the archive, and the archives read
    job,                   \* the records: nextI, held, lines, lastFe
    online, taken, offered, reported   \* history, see below

driver == <<pc, steps, evals, seen, before, idle, next, buf>>
history == <<online, taken, offered, reported>>
vars == <<driver, led, job, history>>

Spent == IF setting.budget = "distinct" THEN Cardinality(seen) ELSE evals

Begun == [evals |-> evals, spent |-> Spent]

NotHeld == [gen |-> 0, fe |-> -1]

Init ==
    /\ setting \in Settings
    /\ pc = "setup" /\ steps = 0 /\ evals = 0 /\ seen = {}
    /\ before = Begun /\ idle = 0 /\ next = 0 /\ buf = <<>>
    /\ led = [fe |-> 0, arc |-> NewArchive(setting.frame[1], setting.frame[2]),
              readAt |-> [b \in {} |-> 0]]
    /\ job = [nextI |-> 1, held |-> NotHeld, lines |-> <<>>, lastFe |-> 0]
    /\ online = led.arc /\ taken = [b \in {} |-> 0] /\ offered = {} /\ reported = <<>>

-----------------------------------------------------------------------------
(* The ledger.                                                             *)

Offer(arc, rows) == FoldLeft(LAMBDA a, r : IF r.ok THEN Add(a, r.f) ELSE a, arc, rows)

\* A mistake: the whole batch is offered before the first count is read.
PartAtEnd(l, batch, start, b) ==
    LET arc == Offer(l.arc, SubSeq(batch, l.fe - start + 1, Len(batch)))
    IN [fe |-> b, arc |-> arc, readAt |-> With(l.readAt, b, arc)]

\* next(): the rows up to count b are offered, and the archive is read there.
Part(l, batch, start, b) ==
    LET arc == Offer(l.arc, SubSeq(batch, l.fe - start + 1, b - start))
    IN [fe |-> b, arc |-> arc, readAt |-> With(l.readAt, b, arc)]

\* A batch, in parts where the run reads something, and its rest.
Account(l, batch) ==
    LET end == l.fe + Len(batch)
        due == {b \in setting.reads : l.fe < b /\ b <= end}
        read == Rising(LAMBDA k, b : Part(k, batch, l.fe, b), l, due)
    IN [read EXCEPT !.fe = end,
                    !.arc = Offer(@, SubSeq(batch, read.fe - l.fe + 1, Len(batch)))]

-----------------------------------------------------------------------------
(* The records.                                                            *)

Record(j, gen, fe) == [j EXCEPT !.lines = Append(@, [gen |-> gen, fe |-> fe]), !.lastFe = fe]

\* A mistake: the count gets the population that passed it.
AtCountLate(j, gen, fe, b) == Record(j, gen, b)

\* Count b: the population at exactly b, or the one held from before it.
AtCount(j, gen, fe, b) ==
    IF b = fe THEN Record(j, gen, b)
    ELSE IF j.held # NotHeld THEN Record(j, j.held.gen, b)
    ELSE j

\* A count's place in the grid, and the counts from nextI on that are passed.
GridPlace(b) == Cardinality({c \in setting.counts : c <= b})
Passed(j, fe) == {b \in setting.counts : j.nextI <= GridPlace(b) /\ b <= fe}

OnGen(j, gen, fe) ==
    LET due == Passed(j, fe)
        on == [j EXCEPT !.nextI = @ + Cardinality(due)]
    IN CASE setting.grid = "budgets" ->
              [Rising(LAMBDA k, b : AtCount(k, gen, fe, b), on, due)
                 EXCEPT !.held = [gen |-> gen, fe |-> fe]]
         [] setting.grid = "log" ->
              IF gen > 0 /\ fe < setting.limit /\ due = {} THEN j ELSE Record(on, gen, fe)
         [] setting.grid = "generations" -> Record(j, gen, fe)

\* After the run: the end, where nothing recorded it.
RecordEnd(j) ==
    IF setting.grid = "budgets" /\ j.held.fe > j.lastFe THEN Record(j, j.held.gen, j.held.fe) ELSE j

-----------------------------------------------------------------------------
(* The driver.                                                             *)

\* flush_native_rows.
Flush(l) == Account(l, buf)

\* emit(gen): the rows behind the population, then the observer, which may
\* throw for the run's time; where the run is to go on, it goes on at at.
Emit(gen, at) ==
    /\ led' = Flush(led) /\ buf' = <<>>
    /\ \/ /\ pc' = at /\ job' = OnGen(job, gen, led'.fe)
          /\ reported' = Append(reported, [gen |-> gen, fe |-> led'.fe, evals |-> evals])
       \/ setting.timeouts /\ pc' = "timeout" /\ UNCHANGED <<job, reported>>

Silently(at) == pc' = at /\ UNCHANGED <<led, buf, job, reported>>

\* The core evaluates a row, in its set-up or in a step; at the cap the rows
\* kept are handed over.
Evaluate(r) ==
    /\ \/ pc = "setup" /\ evals < setting.setup
       \/ pc = "step" /\ \E n \in setting.rows : evals < before.evals + n
    /\ evals' = evals + 1 /\ seen' = seen \cup {r.f}
    /\ IF Len(buf) + 1 < setting.cap
       THEN buf' = Append(buf, r) /\ UNCHANGED led
       ELSE buf' = <<>> /\ led' = Account(led, Append(buf, r))
    /\ online' = Offer(online, <<r>>)
    /\ taken' = IF evals' \in setting.reads THEN With(taken, evals', online') ELSE taken
    /\ offered' = IF r.ok THEN offered \cup {r.f} ELSE offered
    /\ UNCHANGED <<pc, steps, before, idle, next, job, reported>>

\* The set-up is done: generation 0.
EndSetup ==
    /\ pc = "setup" /\ evals = setting.setup
    /\ IF setting.observe THEN Emit(0, "loop") ELSE Silently("loop")
    /\ next' = Spent + setting.every
    /\ UNCHANGED <<steps, evals, seen, before, idle, online, taken, offered>>

WithinBudget == IF setting.budget = "steps" THEN steps < setting.limit ELSE Spent < setting.limit

BeginStep ==
    /\ pc = "loop" /\ WithinBudget /\ steps < MaxSteps
    /\ pc' = "step" /\ before' = Begun
    /\ UNCHANGED <<steps, evals, seen, idle, next, buf, led, job, history>>

\* A mistake: a step is idle when it calls the problem for nothing at all.
IdleAfterCalls == IF evals > before.evals THEN 0 ELSE idle + 1

\* A step that spent nothing of the budget is idle, whatever it called.
IdleAfter == IF Spent > before.spent THEN 0 ELSE idle + 1

\* The first boundary of a stride beyond what is spent.
Past(n) == n + setting.every * ((Spent - n) \div setting.every + 1)

\* A step under n_gen.
EndStepCounted(done) ==
    /\ setting.budget = "steps"
    /\ IF setting.observe /\ (steps' % setting.every = 0 \/ steps' = setting.limit \/ done)
       THEN Emit(steps', IF done THEN "over" ELSE "loop")
       ELSE Silently(IF done THEN "over" ELSE "loop")
    /\ UNCHANGED <<idle, next>>

\* A step under max_evaluations: ten thousand that evaluated nothing end the
\* run, or are refused; else the observer sees every stride passed and the end.
EndStepSpent(done) ==
    /\ setting.budget # "steps"
    /\ idle' = IdleAfter
    /\ IF idle' >= IdleLimit
       THEN Silently(IF setting.budget = "distinct" THEN "over" ELSE "threw") /\ UNCHANGED next
       ELSE /\ IF setting.observe /\ (Spent >= next \/ Spent >= setting.limit \/ done)
               THEN Emit(steps', IF done THEN "over" ELSE "loop")
               ELSE Silently(IF done THEN "over" ELSE "loop")
            /\ next' = IF setting.observe /\ Spent >= next THEN Past(next) ELSE next

EndStep ==
    /\ pc = "step" /\ evals - before.evals \in setting.rows
    /\ steps' = steps + 1
    /\ \E done \in IF setting.finishes THEN BOOLEAN ELSE {FALSE} :
          EndStepCounted(done) \/ EndStepSpent(done)
    /\ UNCHANGED <<evals, seen, before, online, taken, offered>>

\* The run's last rows, and the end's record.
EndRun ==
    /\ pc = "over" \/ (pc = "loop" /\ ~WithinBudget)
    /\ pc' = "ended" /\ led' = Flush(led) /\ buf' = <<>>
    /\ job' = RecordEnd(job)
    /\ UNCHANGED <<steps, evals, seen, before, idle, next, history>>

Rows == {[f |-> f, ok |-> ok] : f \in setting.points, ok \in {TRUE, ~setting.fails}}

Next ==
    /\ \/ \E r \in Rows : Evaluate(r)
       \/ EndSetup \/ BeginStep \/ EndStep \/ EndRun
    /\ UNCHANGED setting

\* One thread runs to its end: a core's step and the observer return.  This is
\* WF_vars(Next) with ENABLED written out, which TLC is slow to find for folds.
CanMove == pc \in {"setup", "step", "over"} \/ (pc = "loop" /\ (WithinBudget => steps < MaxSteps))

Fairness == []<>~CanMove \/ []<><<Next>>_vars

Spec == Init /\ [][Next]_<<setting, vars>> /\ Fairness

-----------------------------------------------------------------------------
(* Properties.                                                             *)

\* What a run reads at count b is the archive of exactly its first b
\* evaluations, read once, however the rows were batched; the observer sees a
\* population with every row behind it counted, and so does the end of the run
\* (RunLedger::next, flush_native_rows, emit).
ReadsExact ==
    /\ DOMAIN led.readAt = {b \in setting.reads : b <= led.fe}
    /\ \A b \in DOMAIN led.readAt : led.readAt[b] = taken[b]
    /\ led.fe + Len(buf) = evals /\ (buf = <<>> => led.arc = online)
    /\ \A i \in DOMAIN reported : reported[i].fe = reported[i].evals
    /\ pc = "ended" => led.fe = evals

\* The last population reported that did not pass b, or the first at exactly b.
PopulationAt(b) ==
    LET at == {i \in DOMAIN reported : reported[i].fe = b}
        within == {i \in DOMAIN reported : reported[i].fe < b}
    IN reported[IF at # {} THEN Min(at) ELSE Max(within)].gen

\* On the grid of counts every count passed since the first population has one
\* record, of the population the run had there, and the last record is of the
\* run's last population; on the log grid each count has the first population
\* at or past it ("the last one the observer reported without passing b",
\* docs/running.md; JobRun::on_gen, record and run).
RecordsTrue ==
    LET fes == {reported[i].fe : i \in DOMAIN reported}
        of(b) == {i \in DOMAIN job.lines : job.lines[i].fe = b}
    IN /\ setting.grid = "budgets" /\ reported # <<>> =>
             /\ \A b \in setting.counts : b \in Min(fes)..Max(fes) => Cardinality(of(b)) = 1
             /\ \A i \in DOMAIN job.lines :
                   job.lines[i].gen = IF job.lines[i].fe \in setting.counts
                                      THEN PopulationAt(job.lines[i].fe) ELSE Last(reported).gen
             /\ pc = "ended" /\ Max(fes) > 0 => Last(job.lines).fe = Max(fes)
       /\ setting.grid = "log" =>
             \A b \in setting.counts : \A i \in DOMAIN reported :
                reported[i].fe >= b /\ (\A h \in 1..(i - 1) : reported[h].fe < b) =>
                   [gen |-> reported[i].gen, fe |-> reported[i].fe] \in Range(job.lines)

\* The archive's grid lists its points, each extreme or alone in its cell, and
\* none dominates another, also across a regrid and a compaction (GridArchive).
ArchiveTrue == Nondominated(led.arc) /\ GridTrue(led.arc)

\* Whatever is pruned, each objective's best value seen is kept ("the ends of
\* the front are never pruned", docs/running.md; GridArchive::add).
ExtremesKept == buf = <<>> => HasExtremes(led.arc, offered)

\* Under the problem's frame nothing is lost but for a point as good to the
\* width of a cell, however long the chain of prunings (GridArchive::place).
NothingLost == buf = <<>> /\ ~led.arc.own => Covers(led.arc, offered)

\* Every run ends, also one whose core evaluates nothing new (run_core).
RunEnds == <>(pc \in {"ended", "timeout", "threw"})
=============================================================================
