# MOOtation: a verification project

MOOtation is a header-only C++17 library of optimisers (about seventy
multi-objective cores and a single-objective layer) with a campaign runner, an
append-only store of runs, an ask/tell session, a C ABI, and a Python package.
Most of its lines are formulas; this project is about the rest: the parts whose
correctness depends on an order of events, on a failure at the wrong moment, or
on state that several pieces of code believe to be current.

1. [Inventory](#1-inventory)
2. [Modules and the code they model](#2-modules-and-the-code-they-model)
3. [Runs](#3-runs)
4. [Bounds](#4-bounds)
5. [Fairness](#5-fairness)
6. [Disagreements found](#6-disagreements-found)
7. [Proofs](#7-proofs)
8. [What is abstracted, and what is not modelled](#8-what-is-abstracted-and-what-is-not-modelled)
9. [Plan](#9-plan)

Paths are under `src/`; `mootation/` stands for `include/mootation/`.

## 1. Inventory

| part | state it keeps | operations | talks to | what is hard |
|---|---|---|---|---|
| **ask/tell session**, `mootation/embed.hpp` | one mutex, two condition variables, the batch on offer, the answer, flags `batch_ready_`, `answer_ready_`, `finished_`, `abort_`, the failure, the result | caller: `ask`, `tell`, `done`, `generation`, `result`, destructor; worker: `handoff`, the end of the run | the run driver, on a thread of its own | two threads, each waiting for the other; a failure and an end set in two critical sections; destruction at any moment |
| **C ABI**, `capi/mootation_c.cpp` | a snapshot of the batch, the last error | `moo_ask_count`, `moo_ask`, `moo_tell`, `moo_result*`, `moo_close` | a session | the snapshot is a cache of what the session holds; exceptions become codes |
| **campaign store**, `campaign/run_store.hpp`, `store/pack.hpp`, readers and repair in `campaign/engine.hpp` | segments (`.raw`, `.idx`), packs, the heartbeat `_runner.json` | `append_record`, `SegmentWriter::start`, `scan_raw`, `read_idx`, `store_index`, `repair_store` | runners of either engine, store tools | kills, power loss, full disks, two runners of one folder, records superseded by later ones |
| **campaign runner**, `campaign/engine.hpp` | a pool of threads under one mutex, counters `next`, `finished`, `active`, `running`, `_workers.txt` | take a job, end it, leave, throw; read the file, start threads, beat, end | the store, the terminal interface | a pool resized while its threads work; one job of several throwing |
| **data vault**, `mootation/data_vault.hpp` | a buffer of slots; the active population, the free list and the archive by index; the finite range, the equality tolerance, the epsilon level, `present_` | write, evaluate, expand, reduce, copy, archive, erase; the driver's `set_eq_tol`, `set_cv_level` | every algorithm, the run driver | one long sequence of legal calls; penalties, tolerances and copies that go stale |
| **solver rounds**, `mootation/scalar/strategy.hpp`, `evaluator.hpp`, `search.hpp`, `tiktak.hpp` | the archive of evaluated points and its counts; per start a view, its events, its deferred counts; per thread a repair counter | starts in threads, calls, merge, the strategies' loops | a job's own counting | "1 thread and 12 give the same run"; budgets counted in two currencies; walks that spend nothing |
| **restarts of CMA-ES**, `mootation/scalar/restarts.hpp` | the runs so far by regime, the run's limit | runs of growing and of small populations, sampled point by point | the evaluator of the rounds | allowances within the budget; a run that is refused, or spends nothing |
| **run driver**, `mootation/run_core.hpp` | the budget spent, the rows kept, the stride of the records, idle steps | set-up, steps under three kinds of budget, handing rows over, the observer, the end | vault, algorithms, the job that observes | schedules against failures; steps that evaluate nothing; an observer that stops the run |
| **run ledger, one job's records**, `run_ledger.hpp`, `campaign/job_run.hpp` | counts, the rows offered, the population held, the records | rows offered in parts to the counts where the run reads; a record at each count of a grid | the driver, the archive | a batch that crosses several reading points; one step that passes several counts |
| **run archive**, `grid_archive.hpp` | numbered slots, cells, extremes, a frame | add, prune, compact, regrid | the ledger | slot numbers kept in three places and numbered anew; chains of prunings |
| **Python runner**, `python/mootation/run/campaign.py` | a pipe to each worker process, the job each holds, the queue, the counts | spawn, give, hear, lose, stop at the time limit, record; a worker's run, save, report | the store, `_workers.txt` | processes that die at any step; a time limit against a late report |
| further strategies, `scalar/pap.hpp`, `continuation.hpp`, `polish.hpp` | populations, an answer | stages, migrations | the evaluator | numerics in the main |
| **store tools**, `campaign/store_tools.hpp`, `store_export.hpp` | packs | check, compact, merge, export | the store, perhaps beside a runner | kills between two files; removing what somebody still appends to |
| description and jobs, `campaign/config.hpp`, `jobs.hpp`, `registry.hpp` | none | parse, check, list, slice | the runner | every job in exactly one part |
| algorithms, operators, archives, indicators | populations, trees | numerics | the vault | floating point, not order |
| packs and codecs, references, test problems, deterministic mathematics, random numbers, I/O, parsers, bindings, wrappers, the rest of the Python package, tools | - | pure functions or conversions | - | bit-exactness, tested against tables |

What makes each modelled part correct, in a sentence:

* session: every answer the algorithm uses was made for the batch it waits on,
  a batch on offer does not move, no failure of the run is hidden behind its
  end, and every call returns;
* C ABI: the snapshot is the batch on offer, and every function returns;
* store: a record `append()` returned for survives every kill, power loss and
  repair; what the readers are told is what the data holds, and stays so beside a repair; the latest record of
  a run wins and a finished run is not run again;
* runner: the counters are what the threads do, the pool is neither short nor
  larger than asked for, and the runner ends with a true last heartbeat;
* vault: a slot has one place and holds what the problem makes of its point
  *now*; a failed point is worse than every other and equal to every failed one;
* rounds: any number of threads gives the run of one, a point counts once, and
  the budget is kept;
* restarts: a small run's own allowance ends that run only, and the strategy ends for
  a reason its comment names;
* Python runner: every job waits, is held by one worker or has been counted once;
  what counts as done is in the store; the loop ends;
* store tools: the store answers with every run's last record before, between and
  after a tool's steps, and a tool that reports success has done what it says;
* driver, ledger and records: what is read at a count is the archive of exactly
  that many evaluations, each count of the grid has the population the run had
  there, and every run ends;
* run archive: its points are mutually nondominated and one to a cell, the best of
  each objective stays, and under a fixed frame nothing offered is left without a
  stand-in.

## 2. Modules and the code they model

```
AskTell   <== Session  <- CApi                       embed.hpp, mootation_c.cpp
RunStore  <== SegmentStore <- RecordFile             run_store.hpp, pack.hpp, engine.hpp
              CampaignPool                           engine.hpp (run_campaign)
              DataVault                              data_vault.hpp, run_core.hpp, mosa.hpp
              Strategies <- SolverRounds             strategy.hpp, search.hpp, tiktak.hpp
                         <- CmaRestarts              restarts.hpp
                (both  <- Evaluator)                 evaluator.hpp
              ProcessPool                            python/mootation/run/campaign.py
              StoreTools                             store_tools.hpp, engine.hpp (store_index)
              RunDriver <- GridArchive               run_core.hpp, run_ledger.hpp, job_run.hpp,
                                                     grid_archive.hpp
```

`<==` is "is implemented by" (a refinement mapping), `<-` is EXTENDS. Session with
CApi, CampaignPool, SegmentStore, ProcessPool, DataVault, StoreTools, Strategies and
RunDriver each have a module of proofs, `<name>Proofs`. Each
`MC...` module instantiates its namesake for TLC; `MCSession` drives a session
through both of its interfaces, the C++ calls and the C functions of `CApi`.

**AskTell** is the promise of a session: batches are offered one at a time, an
answer belongs to the batch on offer, the run ends once, possibly with a
failure, and an answered batch is followed by another or by the end.

**Session** is `mootation::Session`. One action is one critical section. The
worker's: `PostBatch` and `AnnounceBatch` (first half of `handoff`),
`WaitForAnswer`, `ThrowAborted`, `TakeAnswer` (its second half), `StoreResult` /
`StoreFailure`, `Finish`, `AnnounceEnd`. The caller's: `Begin` enters a call,
`WaitForWorker` and `Entered` are the wait every call starts with and its check
for a failure, then `Ask`, `RefuseTell`, `AcceptTell`, `TellThenAsk`, `Done`,
`ReadGeneration`, `ReadResult`, `Join`, and the destructor as `BeginDestroy`,
`SetAbort`, `NotifyAbort`, `JoinAborted`. A condition variable is the set of
threads waiting on it; notifications outside the lock are steps of their own,
and wakeups may be spurious. A candidate, an objective value and a result are
the number of the batch they belong to.

**CApi** wraps each function of the C ABI around Session's actions: `Call`
enters it, `Refresh`/`Refreshed` are `refresh_batch`, `Told` what follows
`Session::tell` in `moo_tell`, `Threw` the catch of `guarded`.

**RecordFile** holds the pure part of the store: a segment is a sequence of
cells, two to a record (the part a crash may leave and the part that makes it
whole), its index a sequence of lines, perhaps cut; `Count` and `Account` are
`scan_raw`, `Listed` is `read_idx`, `FileEntries` is `file_entries`.

**SegmentStore** is the runners around it. `Start` reads the heartbeat;
`RepairRead`, `RepairCut`, `RepairTruncate` and `RepairRewrite` are
`repair_store` with its three writes apart; `List` is the selection of the jobs;
`Take`, `CreateRaw`, `CreateIdx`, `TellEnd`, `WriteHead`, `WriteRest`, `Sync`,
`WriteLine` are a thread's job and `SegmentWriter::append`; `WriteFails` is an
append that throws. `Kill`, `PowerLoss` and `Stale` are the world's.
**RunStore** is its promise: what is on the disk for good stays there, and a run
counts only when its record is among it.

**CampaignPool** is the pool of `run_campaign` and its main loop, job by job:
an action is a critical section; `ReadTime` / `ReadWorkers` / `Apply` show that
`_workers.txt` is read outside the lock and used under it later.

**DataVault** has one action per operation of the vault that changes state,
those of the driver that frame a step (`StartRun`, `NextLevel`, `NextTol`,
`EndStep`, `FinalTol`, `FinalLevel`), and an algorithm that keeps copies and
refreshes them when `present()` has moved (`Refresh`, after MOSA). The
algorithm is otherwise free: any operation, in any order.

**Evaluator** is the archive of evaluated points a strategy works on: what a call
costs (`Cost`), what an index of a point gives under a limit (`Outcome`, `Indexed`,
`Returned`), and what is kept (`Keep`).

**SolverRounds** is `strategy::round` in full - `Claim`, `Step`, `Finish` by the
threads, `EndRound` for the join, the deferred counts, the rethrow and the merge
- with the loops of the strategies that take rounds, one action for the starts each
gives a round: `Multistart`, `Mlsl` and `Tiktak` (after their `Draw`s), `Walk` (basin
hopping; ils, whose new point after steps that were not better belongs to the same
iteration), `Halving` (arms run again with more, the better half kept) and memetic's
`GlobalPhase` and `LocalPhase`. `EndRound` is also the end of the iteration. A round
of no start stands for the code's return without one. `OneThread` runs the same starts one after the other, as the reference the
parallel run is compared with.

**CmaRestarts** is `run_restarts`: `Ipop`, `FirstRun`, `LargeRun` and `SmallRun` begin
a run with its population and its limit, `Sample` is one point of a generation,
`Tell` the generation's end with a criterion that may hold, `EndRun` what the
strategy makes of the run (RST-5, RST-8). **Strategies** is `run_strategy`, which runs
one of the ten over one evaluator.

**ProcessPool** is one launch of the Python engine's runner and its worker
processes. A worker's steps are `Load`, `AskForJob`, `TakeJob`,
`WriteTrajectory`, `SaveRun`, `RemoveScratch`, `Report`, with `JobCrashed` for an
exception around a run and `Die` for the process; the runner's are `ReadWorkers`
(the file, the missing workers, the heartbeat), `Listen`, then a message at a
time `HearEnd`, `GiveJob`, `Retire`, `HearDone`, `HearBroken`, then `StopLate`
with `RecordTimeout` or `RecordFails`, `FindCorpse`, `NextRound`, and the end by
`LeaveLoop`, `Interrupt` and `Finally`. The store is the sequence of the
processes' segments in the order of their names.

**StoreTools** is a folder as the tools see it: segments, packs and packs of an
earlier format. `StartCompact` takes the index; `WritePack`, `RemoveOlder`,
`ListSegments`, `RemoveSegment` and `EndCompact` are one file each, as are
`CopyRun`s of a merge; `Kill` may come between any two. `AppendRun` is a runner's
record, between tools or (`Beside`) during one.

**RunDriver** is one run: `Evaluate` is one row, in the set-up or in a step of a
core that evaluates what it likes; `EndStepCounted` and `EndStepSpent` are the
loops under `n_gen` and under `max_evaluations` (all calls, or the distinct
points); `Emit` hands the rows over and calls the observer, who may throw at the
time limit. `Account`, `Part` and `Offer` are the ledger, `OnGen`, `AtCount` and
`RecordEnd` the job's three grids of records. **GridArchive** is the archive at two
objectives, operation by operation: `Covered`, `Beaten`, `Appended` with
`Compact`, `Regrid`, `Crown`, `Place`. `alive_` is the set of live slots and
`slot_cell_` with `in_cell_` a function on those in a cell. Objectives are integers and the cells'
width divides the frame, so that a cell and a distance are exact.

Definitions whose comment begins with "A mistake" or "mutant" are not the code:
each is what a plausible slip would make of the definition that follows it, and
is there to show that the properties notice.

## 3. Runs

| run | configuration | what it asks | outcome |
|---|---|---|---|
| `session` | `MCSession` | three batches of two sizes, through C++ or through the C functions, every call at every moment, every interleaving: answers meet batches, failures are thrown, the C snapshot is current, no wakeup is lost, AskTell is implemented with its fairness | holds |
| `store` | `MCSegmentStore` | two settings: one runner started twice and stopped at any step - killed, or by a power loss - with failing writes and cut index lines; and two parts of a campaign in one folder, the second started while the first beats: nothing acknowledged is lost, the readers are truthful, the latest wins, done is not redone, what a reader was told stays, every job settled, RunStore is implemented | holds |
| `pool` | `MCCampaignPool` | three jobs, two threads, `_workers.txt` rewritten at any moment, any job throwing: counters, size, true end, termination | holds |
| `vault` | `MCDataVault` | any seven operations over a set-up and two steps, under the level or the tolerance schedule, with failures | holds |
| `vault_failures` | `MCDataVaultLevel` | all failures equal, with a failure in the initial population | violated, see 6 |
| `strategies` | `MCStrategies` | the seven loops of rounds of up to three starts in one thread and in two, and the two of restarts; targets, throws, free gradients: the run of one thread, counted once, rounds within what they were given and given no more than is left, restarts that go on while the budget lasts, ending | holds |
| `strategies_budget` | `MCStrategiesBudget` | the budget in evaluations and gradients | violated, see 6 |
| `processes` | `MCProcessPool` | two jobs, four processes, a death or a change of `_workers.txt`, time limits, interrupts, a config that no longer loads: jobs accounted for, the runner knows who holds what, counted is stored, true end, termination | holds |
| `processes_timeout` | `MCProcessPoolTimeout` | a run stopped at its time limit keeps its trajectory | violated, see 6 |
| `tools` | `MCStoreTools` | three uses of compact and merge, one kill, a runner between them: the latest record stays, success is whole | holds |
| `tools_beside` | `MCStoreToolsBeside` | the same with a runner beside the tool | violated, see 6 |
| `driver` | `MCRunDriver` | six runs: archives of five points under the problem's frame and their own, budgets of evaluations (counts and log grid), of steps, of distinct points: reads exact, records true, the archive's promises, termination | holds |

## 4. Bounds

* `session`: three batches are a first, a middle and a last one; two sizes make a
  shape check that can fail; two generations tell a repeated from a new one.
  `MaxBatches` and `MaxGenerations` are the only bounds, and the proofs of
  section 7 are for any value of them, as they are for those of `pool`.
* `store`: two launches and a crash let the crash hit a run or the next one's
  repair. Two jobs are enough for a run failed and done
  again beside another one; `limit` of four cells makes a second segment after
  two records; the setting of two parts uses two cells, a segment for each
  record. A record is two cells because only "cut" and "whole" differ to a
  reader; more cells would add prefixes that read alike. One thread to a runner:
  threads of one runner share no file; the second runner has the interleavings.
* `pool`: three jobs and two threads let one thread leave while one works and
  jobs wait; two requests lower and raise the pool again; asking for three is
  more than the ceiling of two.
* `vault`: `MaxWork` = 7 operations after the set-up, `MaxMoves` = 1 change
  of level or tolerance, three slots: one active, one free and one
  that must be grown. Three points: one that is fine, one that violates
  everything, one that fails. Four slots add no new holder of a slot.
* `strategies`: three starts in two threads give a thread that runs two of them; six
  points give a shared point, a target, a throw, and more points to evaluate than
  a budget allows. The budget is each strategy's own (`AllRuns`): three and four
  leave mlsl fewer evaluations than starts, six gives three arms of halving both
  their rounds and two gives them nothing, four gives memetic two global phases.
  `MaxIdle` = 2 stands for the code's 100, `RestartAfter` = 1 for ten. Of the
  restarts, `LamDef` = 1 and `Large` = 2 give populations of one, two and four, so
  that budgets of four and five end a run at its criterion, at its allowance and
  at the budget; `MaxGenerations` = 2 lets a criterion hold at once or later.
* `processes`: two jobs and two workers let one wait, run, be lost or be counted
  while the other does something else; four processes are the two of the pool and
  a replacement for each; one record of a trajectory tells a kept trajectory from
  a lost one.
* `tools`: three runs in two families make a pack of two and a pack of one; three
  uses are a tool killed, the tool run again, and another after it.
* `driver`: a store of three slots (`Store`, 256 in the code, and a `Slack` of 0 for
  64) is full at the fourth point, with more than half of it dead or not; a frame
  cut into two cells each way has points that share a cell, its corner and its
  edge. Steps of 0, 1 and 3 rows against counts 1, 3, 4, 5 end at a count, pass
  one and pass two; a cap of two or three rows cuts a step's rows. `IdleLimit`
  stands for the code's 10 000. `MaxSteps` is more than a run of the settings
  takes, except where it stands still, which `CanMove` says.

## 5. Fairness

* `Session`: weak fairness of the worker's steps and of a call's (an operating
  system runs both threads). A waiter is woken by a notification, not by
  fairness: spurious wakeups may happen and need not. The caller owes nothing:
  it may never call again, so `CallReturns` speaks of calls that were made, and
  AskTell asks no more.
* `SegmentStore`: a process that runs goes on, and its threads too. Nothing is
  assumed of starts, kills, power or disks; `JobsSettled` is about a runner that
  is not killed any more.
* `CampaignPool`: the threads run, a job ends or throws, and time passes, so that
  the main loop reads the file again. Nobody owes a request.
* `Strategies`: the strategy's thread and the pool's run on (`FairRounds`,
  `FairRestarts`).
* `ProcessPool`: the runner and every worker process go on, and a runner that goes
  round reads `_workers.txt` infinitely often (strong fairness of `ReadWorkers`:
  the code reads it whenever 1.5 s have passed, and each round waits at most half
  a second). Nothing is assumed of deaths, requests, or how long a job takes.
* `RunDriver`: its one thread goes on - weak fairness of `Next`, with its ENABLED
  written out as `CanMove`: a core's step and the observer return.
* `DataVault` and `StoreTools` have safety properties only: nothing in them waits.

## 6. Disagreements found

The first four are runs that TLC refutes; each property states a sentence of
the repository.

* **Failures that are not equal** (`vault_failures`, `data_vault.hpp:267`).
  `data_vault.hpp:26`: a failed point is "equal to every other failure". When the
  range widens, `penalize` sets `cv` without the epsilon level, which every other
  path applies; a level taken from an initial population with a failure makes two
  failed points differ in `cv`.
* **A budget spent twice** (`strategies_budget`, `search.hpp:149`).
  `strategy.hpp:68` (STRAT-6): "a round never spends past the run's budget", and
  `docs/running.md:1582` counts gradients in it. `left()` subtracts the
  evaluations only, and the walks, mlsl, halving, memetic and tiktak give it to their rounds:
  with a gradient solver inside they go past the budget (the library, built and
  run with basin hopping over L-BFGS-B at budget 300, reports 300 evaluations and
  289 gradients).
* **A run that was whole recorded as empty** (`processes_timeout`,
  `campaign.py:2416`). `docs/running.md:2334-2338`: a run stopped at `run_timeout`
  keeps "its trajectory up to the last record it wrote". A worker past its time
  that has packed its run and removed its scratch folder is killed with its report
  unread, and `_record_timeout` packs an empty folder, whose record is read over
  the whole one when the runner's segment has the later name.
* **Records removed by compact** (`tools_beside`, `store_tools.hpp:314`).
  `docs/running.md:2398-2399`: segments are deleted "after every record has been
  read back from its pack". The segments removed are listed after the comparison
  of the records indexed before the packing: what a runner appends in between is
  in no pack. The command line does not look at the heartbeat first.

Four more are known from earlier instances of these modules and kept out of the
invariants by their bounds:

* **The heartbeat does not cover a runner's beginning, nor two runners**
  (`engine.hpp:611`). `engine.hpp:404-405`: "neither repairs a store whose runner
  is alive". The first beat is written after the pool has started, and the folder
  has one file for all its runners: a second runner started before that first
  beat, or after another runner's "finished" replaced it, repairs the store under
  a writer. The repair cuts the file at an end it read earlier, and what was appended
  since, synced and counted, is gone: `RecordsKept` fails with `overlap |-> "any"`, two
  launches are enough. Every property of the store is checked and proved
  for runners started one at a time or while the others beat, which is an assumption
  about whoever starts them (`MayStart`), not something the code sees to.
* **An index line cut within its key** (`engine.hpp:212`).
  `docs/store-format.md:26`: the index "is rebuilt from the `.raw` where they
  disagree". A last line cut in its fifth field still has five; the readers
  believe it, and the store names a run it does not hold. (`IndexTruthful` fails
  with `torn |-> {"torn", "key"}`.)
* **bipop ended by a small run's limit** (`restarts.hpp:106`). `restarts.hpp`'s RST-8
  names the ends of the strategy, and regime 2's own allowance is not among them. That
  allowance is a limit in evaluations, and `Evaluator::charge` compares it with
  evaluations and gradients: where a value comes with its gradient, the gradients
  spent so far can be past the limit when a small run begins. The run is then refused
  before its first evaluation, and a run that evaluated nothing ends the strategy. The library, built
  and run with bipop at budget 20 000 on a problem that gives only both, stopped
  after 3112 evaluations; with values alone it used all of them. (`RestartsGoOn`
  fails with a run of bipop with `joint |-> TRUE`.)
* **`moo_ask_count` after a failed run** (`capi/mootation_c.cpp:233`).
  `capi.h:104`: "0 means the run is over; negative means error". When the run's
  failure is thrown inside `moo_tell`, the snapshot stays: the count goes on
  naming a batch that was answered. (`SnapshotCurrent` speaks of the time before.)

## 7. Proofs

`SessionProofs` proves, for every `MaxBatches`, `MaxGenerations`, `Size`, `Rows`
and `NCons` (the assumptions named in `Session` say only that they are
numbers and a set of numbers):

* `TypeCorrect` - `Spec => []TypeOK`;
* `SessionInvariant` - `Spec => []IInv`;
* `AnswersMeetBatches`, `FailureIsThrown` - the two invariants of the run `session`
  that are about the session alone;
* `HandshakeCorrect`, `BatchIsStable` - the flags never contradict each other or
  the worker's place, and a batch on offer does not change;
* `SessionRefinesAskTell` - each step of a session is a step of AskTell or a
  stutter, under the mapping the run checks.

None of these is inductive: that an answer belongs to its batch
depends on *where the worker is* when the flags are set. `IInv` therefore adds to
`TypeOK` the relation between the worker's place, the flags and three counts -
batches offered, answers told, answers used - which never differ by more than
one, and that a failure exists exactly when the worker went through
`StoreFailure`. `HeldInv` ties the
batch the caller holds to the one on offer, which is why an answer told is one
for `pending`, and `EndInv` says how the run ended. The proof has one lemma per
conjunct, each split over the actions that can disturb it, the others taken
together. The refinement is proved from `IInv`, again action by action.

`CampaignPoolProofs` proves, for every number of jobs, every finite set of threads
no smaller than the machine's ceiling (`PoolAssumption`), and every request:

* `CountersTrue`, `PoolNeverShort`, `LastBeatTrue` - the three invariants of the run
  `pool` (`Accounted`, `NeverShort`, `EndIsTrue`), and `PoolTyped`;
* `EachJobOnce`, `NoJobBeyond` - no job is run twice, and none is begun while the
  pool is larger than was last asked for (`RunOnce`, `NoneBeyond`).

`PoolInv`, the inductive invariant, adds two things the code relies on and never
writes down. `OwnJobs`: the jobs in hand are different and were all taken, without
which a thread that ends could take another's job out of `running`. `EndInv`: the
main loop is left with every job settled, with a crash, or asked for no workers
with nobody left - so that after it nothing can throw, and the state decided
there is still true when the threads have been joined and the last heartbeat is
written. The types come last: `active` and `finished` stay in range because they
count threads and settled jobs, so the proof first shows `Accounted` preserved,
one lemma per action (`PutAway` is what ending and throwing share), and reads
the bounds off it with the library's facts on cardinalities. `NeverShort` is
preserved by a thread that leaves because it runs no job itself (`LoopThread`).

The **C ABI** is proved in `SessionProofs` too. `CApiIsACaller`: a program that calls
the C functions is one of Session's callers - each of its steps is a step of a
session or a stutter - so every theorem above holds through the C functions
(`CApiAnswersMatch` says it of two). `SnapshotStaysCurrent` is the run's invariant.
`CInv` knows which call of the session a C function is in (`CallInv`), that what a
call returned as a batch is on offer until the next one (`ReplyInv`), that the
snapshot is the batch last returned (`SnapshotInv`), and, what the property says,
that it is the one on offer until a tell has been accepted (`CurrentInv`).

`SegmentStoreProofs` proves the store for any keys, runners, threads, segment sizes,
kills, power losses and failing writes:

* `RecordsAreKept` and `StoreImplementsRunStore` where no runner
  starts while another that has not shown its heartbeat runs (`overlap # "any"`), and
  `IndexIsTruthful` and `ListingsGrow` where besides no line is cut within its key. The
  two cases left out are those of section 6: TLC finds `RecordsKept` violated in the
  first and `IndexTruthful` in the second (`ListingGrows` holds in the second on the
  run's instance, but its proof reads the account off lines that are true);
* `LatestRunWins` and `NoRunRedone` under `Orderly`: in addition, runners that may run
  beside each other have different jobs, as the parts of a campaign do (`shard_of`).
  Two runners of the same jobs do run a job twice.

`StoreInv` is about one file at a time: it is records one after the other and maybe
half a record at its end (`FilesInv`), a line that is not cut names the record at its
offset, and a writer's file ends where its thread believes it does (`WritersInv`) -
so that the part it writes next makes a record and never runs into half of another.
`RepairInv` says that what a repair read is still there when it acts on it, which
needs that it is alone (`RunnersInv`, from the assumption on starts). `ListingsGrow`
compares a file with what a step leaves of it: every step but a power loss leaves its
whole records where they are (`WholeStays`), and the account of such a file begins with
the account of before (`AccountGrows`), whatever became of the index. A record that was acknowledged ends before
`synced` (`AckedInv`), the only part of a file a power loss leaves alone. For the
order of the runs `RunsInv` adds that of two records of a key one failed before the
other's runner was started and lies in a segment with an earlier name (`OrderInv`);
it is kept because the record a thread carries is the only one of its key on its way
and later than all that are there (`CarriedInv`), and what a runner has still to do
has failed so far, before its own start (`TodoInv`).

`ProcessPoolProofs` proves the four invariants of `processes` (`JobsAccounted`,
`RunnerKnows`, `CountedStays`, `EndHolds`) for any number of jobs and processes, any
deaths and any requests. In `PoolInv`, `WorkersInv` ties a worker's place to what lies
in its pipe and to the job the runner has it down for: a pipe never holds more than
the report of that job and a word of being ready, and a worker out of the pool has an
empty one. `JobsInv` says that a job waits once or is held once; `StoreInv` that a job
that waits has nothing in the store or in scratch - the runner gives it away as new -
and that a report still in the pipe is true of the store. `RunnerInv` keeps the job of
a victim between its kill and its record.

`DataVaultProofs` proves the five invariants of `vault` for any points, sizes,
tolerances, outcomes and schedules. `PlaceInv` is enough for `SlotsInOnePlace`: three
lists whose lengths add up to the buffer's and whose elements are all of it have each
slot once. The others need `VaultInv`: a slot in use is what the problem makes of its
variables *at the range, tolerance and level of now* (`SlotsInv`), a kept copy too
while `present()` stands (`CopiesInv`), and a slot nobody wrote is blank. `FailedWorst`
is the delicate one: a failed point is worth `2 * Bound + 2` when the range allows no
other violation beyond `Bound`, and the level it could vanish under is at most
`2 * Bound + 1` (`LevelInv`). Four of the theorems suppose
`SetupFails = FALSE \/ "level" \notin Modes`; the case left out is the one the run
`vault_failures` refutes.

`StoreToolsProofs` proves the three invariants of `tools` (`LatestAlways`,
`CompactIsWhole`, `MergeIsWhole`) for any keys, families and parts, kills between any
two steps, where no runner appends beside a tool; `tools_beside` shows the other case.
In `ToolsInv`, `LatestInv` says where the latest record of a run is - the last place
any segment has it, else the packs - `CompactInv` that the index a compact took is
still true and which families it is through with, and `MergeInv` what of the parts is
still to be copied.

`StrategiesProofs` proves four properties for every strategy, any plans of the inner
solvers, any points, budgets, starts and threads. `CountedOnceAlways` compares the
evaluator's counts with its archive; the invariant (`CountsInv`) says besides that the
order of the archive names each point once, that only points in it have gradients, and
that the gradients counted are those kept or one more - that of the call the target or
the budget ended (`EvInv`). The starts of a round have to be known well enough for
a merge to be typed (`StartsInv`, `ArmsInv`).
The merge is a fold over what the starts did, and the community modules define
`FoldLeft` by a recursive function, `CHOOSE`n as a solution of its equation. Since an
induction theorem cannot be instantiated here, the module shows that there is
such a solution from the least counterexample (`LeastIs`, from the well-foundedness of
`<`), and from it, for each operator that is folded, that the fold is the last of a
*trace*: a sequence of values, each the operator applied to the one before
(`AdoptFold`, `MergeFold`, `AloneFold`, ...). What a trace keeps is again shown with a
least counterexample (`Upwards`, `AlongTheWay`).

`OneThreadsRun` is `SameAsOneThread`, the promise of "1 thread and 12". Its reference
(`OneThread`) runs the starts one after the other; the argument has three steps.

* *A start does by itself what it does after others.* The inner run is a trace of calls
  over the archive the round began with. From more repairs and a longer log on, it makes
  the same calls, each seeing those repairs more (`AloneShifts`), so `Alone` appends to
  the log what the start gives as the first, shifted (`AloneIs`). A further call comes to
  the same end (`AloneGoesOn`), one that has ended stays (`AloneStays`), and the plan's
  length is enough (`AloneEnds`).
* *Whoever runs it.* `ParallelInv` says of a start in a thread's hand that from its view,
  from `counts - counts0` and from its list on it ends as it would as the first (`Ends`),
  and of one behind the round that this is what it left. It needs that no two threads
  have the same start and that one not begun has an empty list (`DealtInv`), and that the
  repair counter of the strategy's own thread stands still meanwhile. `SerialInv` is the
  case of one thread, in which nothing is deferred: the run is at a point of the
  reference itself (`Walked`).
* *Brought together in order.* At the end the lists, each shifted by the totals of the
  earlier starts (`MadeBefore`, `Shown`), are the steps of the reference
  (`ParallelEnds`), and so are the counter and the views the merge takes.

`RoundsStayWithin` is `RoundWithinGiven`: a round adds to what the run has spent,
gradients included, at most what its starts were given, and they were given at most what
was left, for any strategy by rounds, plans, budgets, numbers of starts and threads and
whatever the inner solver counts for a gradient. It has two halves.

* *What is given.* `BudgetInv` says that the evaluator has never spent past its budget,
  that the budget is the run's until the target is reached, and of a round that its
  starts' shares sum to at most what is left (`Fits`). Each strategy shares in its own
  way: even parts and a remainder (`EvenFit`), as many equal shares as there are
  (`EachFits`, `StartsFit`), equal arms (`ArmsFit`), one start (`OneFits`). The sums are
  folds, followed by a trace (`SharedFold`) below a bound that grows with each start
  (`SharedWithin`). Halving divides by the number of its stages, which is there because
  `2^n` is at least `n`: one of the subsets of `1..n` for each of its numbers
  (`PowerIs`). tiktak divides by the searches still to come, so that `BudgetInv` keeps
  them above zero.
* *What is spent.* `Paid` says of a view that what it has spent is the sum of the charges
  of its events, and that whatever it holds without having evaluated it was in the
  archive or in an earlier event of its own. Then bringing its events into the archive
  charges at most what it paid: a point or gradient new to the archive was new to the
  view (`AdoptGrows`, `AdoptedGrows`), another start's costs nothing again, and over
  the starts the charges are at most the shares (`MergeGrows`).

`RestartsHaveReasons` is `RestartsGoOn` for any points, budgets, populations and numbers
of large runs: a strategy by restarts is over only because the budget leaves no
evaluation, the large regime has had its runs, or a criterion came before any
evaluation. Its hypothesis, `NoJoint`, is that bipop's values come without gradients -
without it the property is false (section 6). `GoInv` counts the large runs, of which
there are fewer than `Large` while the strategy goes on, and keeps the budget the one
given until the target is reached; `LimitInv` says of the run in hand that only a small
one has a limit short of the budget, and that this is at least one evaluation beyond
what was spent before it. So a run refused by its own allowance has evaluated
something (`EndRunGoes`), and a call that reached the target has used the budget up
(`IndexedGoes`).

`RunDriverProofs` proves, for any archive, budgets, counts, strides, sizes of batches and
caps (`DriverAssumption` says of the settings that they have the types given, with
positive counts as the campaign requires, and finitely many in a grid):

* `ReadsAreExact` is `ReadsExact`. `LedgerInv` says what a batch must not change: the
  rows not handed over are exactly what the ledger lacks (`led.fe + Len(buf) = evals`),
  offering them would make the ledger's archive the one of every evaluation
  (`online`), and a read that falls among them would find what it found when the row was
  evaluated. `AccountIs` carries this through a batch, part by part, with
  `OfferApart`: rows offered in two parts are offered as in one.
* `RecordsAreTrue` is `RecordsTrue`. `BudgetTrue` says of the records on the grid of
  counts that they rise, that every count from the first report to the last
  (`Reach`) has one, that each is of the population that stands there (`PopAt`), and
  that the population held is the one last reported. That `next_i_` skips no count and
  repeats none is a fact about cardinalities (`CountsPassed`): the counts whose
  place is `next_i_` or later, up to a report, are those beyond the report before.
  `LogTrue` is the log grid, `EndReport` the end's record.

The folds over the rows in turn and over the counts in rising order are again
followed one step at a time (`Through`, `Parts`, `Records`).

* `ArchiveIsTrue`, `ExtremesAreKept` and `NothingIsLost` are `ArchiveTrue`, `ExtremesKept`
  and `NothingLost`, for any points with natural numbers for objectives, any frame,
  number of cuts, size of the store and slack. `ArchiveInv` says `Keeps(a, O)` of the
  ledger's archive and of `online`: the archive `a` of the points `O` has the shape of one,
  its grid lists its slots with none left loose (`Grid(a, {})`), its points are mutually
  nondominated and were offered, each extreme is at most every value offered, and under
  the problem's frame `a` covers `O`. `AddKeeps` takes it through `Add` in three
  stages. After the removals (`Ready`) a point removed as an extreme or from a cell
  is replaced by the one coming, which is as good; after the append (`Waiting`) the
  new slot is the one loose slot; `SeatedKept` places it.
  `CoveredIs` and `BeatenIs` say that one look at the staircase finds what
  comparing with every point would. `KeyRises` says that cells rise with their points, so that
  what stands in for a beaten point stands in for whatever that point stood for: a chain
  of prunings loses nothing.
  Numbering slots anew is a bijection onto an initial segment (`RankIs`, `Renumbered`)
  that cells and extremes follow together. A regrid and a dethroning put slots back
  one at a time, and between two of them the invariant holds with the slots not yet put back loose
  (`Regridding`, `Rejoining`).

Model-checked only: the liveness of every module and the fairness half of the
refinement of AskTell, which are out of the prover's reach. Every other property of the
runs that pass is proved. No module declares a RECURSIVE operator, so each can be
proved about.

## 8. What is abstracted, and what is not modelled

**Session, C ABI.** The algorithm is any sequence of batches up to the bound,
ending well or throwing at any point. Shapes are a number of rows. Version,
registry and shape queries of the C ABI are constants and left out.

**Store.** A power loss keeps all that was synced and, of the rest of a file, any
prefix; that the sync of a new segment makes its directory entry durable is
assumed. A truncated index reaches the disk in order with what is
written after it. The `.mhd` header (a text copy of the campaign), the scratch
folder, `opt.force` and the order of the jobs are not modelled; the packs are
`StoreTools`'.
Segments are numbered as they are made; local time only advances - set back
between two starts, at the end of summer time, the later segment sorts first and
the earlier record wins, which the list of hazards names. Logging does not throw.
A reader sees a segment and its index at one moment, and a rebuilt index is written
in one step after its truncation: between two blocks of one write nothing is modelled.

**Runner.** A job is one step with an outcome: a record "done" or "failed", none
("left": the core refuses the problem), or a throw. A thread's place may be used
again by a later one. Reading the description, expanding the jobs, the cache of
references and the refusals come before the pool and are sequential. A heartbeat
that cannot be written ends the process, which is `Kill` of SegmentStore.

**Vault.** One objective, one inequality, one equality: the code treats each
constraint like the other. `failed_n_` is whether it is positive. Evaluations
are made one at a time in slot order, as the executor's results are taken.
`archive_push_data` and a seed with given values have no caller among the
algorithms and are left out, as are the clamping of variables and the repair of
integers. `FailedIsWorst` is asked only while the tolerance stands: `set_eq_tol`
lowers it without moving the penalty taken before, which the list of hazards
names. Under the level, the run `vault` lets evaluations fail only after the
set-up; `vault_failures` is the other case. The last level is at most the first.

**Rounds.** An inner solver is a plan of calls: it depends on its start, not on
the others, because the archive does not change during a round (ROUNDS) and
each start has a generator of its own (STRAT-1). A value is "reaches the
target", "throws" or neither. The campaign's own counting does not throw. What
earlier rounds counted is fixed when a round starts, so the log is the round's. Not modelled:
strategies within starts (STRAT-7), pap, which takes no rounds, the observer, and
thread-local settings of a crossover that the scalar layer never sets. Which answer is better is
a free choice: the order of halving's arms and whether a step of ils counts. Where memetic's global run has evaluated nothing
(a phase too small for its first call), or every point failed, the code with
`memetic_pick` "spread" still takes a start, from the first point of the archive
(`search.hpp:517`): the model's starts are plans, so that case is outside it.

**Restarts.** A run of CMA-ES is a choice of points; its criteria may hold after any
generation and hold after the last. Values with gradients (`joint`) are checked for
ipop; bipop with them is section 6's. The lean mode, in which the archive keeps only the
best point (`keep_points`), is not modelled.

**Process pool.** One launch over jobs without a record; jobs are given in their
order. What a message holds is its kind, job and status. A worker's writer, and
its segment's name, are made at its first append. Jobs run in the runner itself
(`--workers 1` with one job left) have no pool and no time limit by process. An
exception of `_record_timeout` ends the loop with the heartbeat "finished"
(`EndIsTrue` excludes it, the list of hazards names it). A killed runner leaves
its workers running for a moment: the next launch, which would repair beside
them, is outside the module.

**Store tools.** A record is its key, status and identity. Two runners' segments
have the names of their starts. The tools do not run at the same time. Failed
removals, which compact does not report, are not modelled, nor is `store_export`.

**Driver, ledger, records.** A point is its objectives; a population is known by
the step it was reported after. The core may evaluate any row at any moment of a
step. `emit` evaluates slots that are still dirty; no core leaves one, so it
evaluates nothing. The operators' tallies, seeds, Python callbacks, the replay of
known rows, the measures themselves and the tables of a record are left out. The
archive is modelled at two objectives, where a staircase decides; from three on the
code scans columns or an ND-tree for the same answer. The log grid records the last
call only where the budget is reached, not where a core finishes before it, as the
list of hazards says.

**Not modelled at all**: the numerics of algorithms, operators, indicators and
solvers; the set archive and ND-trees; test problems; deterministic mathematics and
random numbers; codecs, parsers, I/O; references; the command line; the rest of
the Python package and the bindings; the wrappers in other languages (callers of CApi, whose
calls come in any order anyway). `PROJECT.json` lists each with the reason.

## 9. Plan

Modelled and proved: the session with its C ABI, the store and its tools, both pools,
the vault, the driver's ledger and records, the archive, and the strategies. What is left:

1. *Jobs*: `expand_jobs` and `shard_of` as operators, with the reference that the
   parts are a partition.
