---------------------------- MODULE ProcessPool ----------------------------
(***************************************************************************)
(* The Python engine's pool (python/mootation/run/campaign.py): one runner *)
(* process and worker processes, a pipe to each.  A worker asks for a job, *)
(* runs it in a scratch folder, packs it into its own segment of the store *)
(* and reports.  The runner keeps the pool at the size _workers.txt asks   *)
(* for, kills a worker whose job passes run_timeout and records that run   *)
(* itself, and counts the job of a worker that died as failed.  One launch *)
(* of the runner, over jobs the store has no record of.                    *)
(***************************************************************************)
EXTENDS Integers, Sequences, FiniteSets

CONSTANTS
    NJobs,         \* todo: the jobs 1..NJobs, in their order
    MaxProcs,      \* bound of the model: the processes that can ever be started
    Workers,       \* --workers
    Ceiling,       \* os.cpu_count()
    MaxFe,         \* the trajectory records of a whole run
    MaxEvents      \* bound of the model: changes of _workers.txt and deaths

ASSUME PoolAssumption ==
    /\ NJobs \in Nat /\ MaxProcs \in Nat
    /\ Workers \in Nat /\ Ceiling \in Nat \ {0} /\ MaxFe \in Nat
    /\ MaxEvents \in Nat

VARIABLES
    rpc,           \* where the runner is
    pool,          \* the workers whose pipe it reads
    holds,         \* the job it gave each of them
    pending, want, state,
    heard,         \* the pipes found readable and not read yet
    victim,        \* the worker killed at its time limit, and its job
    settled,       \* what each job counts as: "no" before it counts
    said,          \* the state in _runner.json
    threw,         \* history: an exception left the loop
    asked,         \* what _workers.txt says
    at,            \* where each worker process is
    job,           \* the job it runs
    status,        \* what it will report
    up, down,      \* its pipe: messages to the runner, and from it
    scratch,       \* its scratch folder: whose run it holds, how much of its trajectory
    wrote,         \* history: the trajectory records written of each job
    segs,          \* the store: the segments in the order of their names
    events

runner == <<rpc, pool, holds, pending, want, state, heard, victim, settled, said, threw>>
workers == <<at, job, status, up, down, scratch, wrote>>
vars == <<runner, asked, workers, segs, events>>

Jobs == 1..NJobs
NoJob == 0
Procs == 1..MaxProcs                       \* their pids, in the order of their births
Runner == 0
Gone == {"unborn", "left", "stillborn"}    \* not a process, or no longer
Alive(p) == at[p] \notin Gone
NoFolder == [job |-> NoJob, fe |-> 0]
Nobody == [pid |-> Runner, job |-> NoJob]

Records == [job : Jobs, status : {"done", "failed", "timeout"}, fe : 0..MaxFe]
Segments == [by : Procs \cup {Runner}, recs : Seq(Records)]
Messages == [kind : {"ready", "done", "broken"}, job : Jobs \cup {NoJob}, status : {"done", "failed"}]

RunnerTypes ==
    /\ rpc \in {"top", "round", "record", "corpses", "over"}
    /\ pool \subseteq Procs /\ heard \subseteq Procs /\ pending \in Seq(Jobs)
    /\ holds \in [Procs -> Jobs \cup {NoJob}] /\ want \in Nat
    /\ victim \in [pid : Procs \cup {Runner}, job : Jobs \cup {NoJob}]
    /\ state \in {"running", "stopped", "broken"}
    /\ settled \in [Jobs -> {"no", "done", "failed", "timeout"}]
    /\ said \in {"none", "running", "finished", "stopped", "broken"} /\ threw \in BOOLEAN

WorkerTypes ==
    /\ at \in [Procs -> Gone \cup {"start", "again", "idle", "run", "saved", "report"}]
    /\ job \in [Procs -> Jobs \cup {NoJob}] /\ status \in [Procs -> {"done", "failed"}]
    /\ up \in [Procs -> Seq(Messages)] /\ down \in [Procs -> Seq(Jobs \cup {NoJob})]
    /\ scratch \in [Procs -> [job : Jobs \cup {NoJob}, fe : 0..MaxFe]]
    /\ wrote \in [Jobs -> 0..MaxFe]

TypeOK ==
    /\ RunnerTypes /\ WorkerTypes
    /\ segs \in Seq(Segments) /\ asked \in Nat /\ events \in 0..MaxEvents

Init ==
    /\ rpc = "top" /\ pool = {} /\ holds = [p \in Procs |-> NoJob]
    /\ pending = [i \in Jobs |-> i] /\ want = 0 /\ state = "running"
    /\ heard = {} /\ victim = Nobody
    /\ settled = [j \in Jobs |-> "no"] /\ said = "none" /\ threw = FALSE
    /\ asked = Workers
    /\ at = [p \in Procs |-> "unborn"] /\ job = [p \in Procs |-> NoJob]
    /\ status = [p \in Procs |-> "done"]
    /\ up = [p \in Procs |-> <<>>] /\ down = [p \in Procs |-> <<>>]
    /\ scratch = [p \in Procs |-> NoFolder] /\ wrote = [j \in Jobs |-> 0]
    /\ segs = <<>> /\ events = 0

-----------------------------------------------------------------------------
(* The store.  A process's writer, and with it the name of its segments, is *)
(* made at its first append; a key's record is its last one in the order of *)
(* the names, whichever was written last.                                   *)

AppendRecord(w, r) ==
    segs' = IF \E i \in 1..Len(segs) : segs[i].by = w
            THEN [i \in 1..Len(segs) |->
                     IF segs[i].by = w THEN [segs[i] EXCEPT !.recs = Append(@, r)] ELSE segs[i]]
            ELSE Append(segs, [by |-> w, recs |-> <<r>>])

\* Where the store has a record of job j.
Places(j) == UNION {{<<i, k>> : k \in {n \in 1..Len(segs[i].recs) : segs[i].recs[n].job = j}}
                    : i \in 1..Len(segs)}

Later(e, f) == f[1] < e[1] \/ (f[1] = e[1] /\ f[2] < e[2])

\* The record the index gives for job j.
Stored(j) ==
    LET e == CHOOSE e \in Places(j) : \A f \in Places(j) : f = e \/ Later(e, f)
    IN segs[e[1]].recs[e[2]]

Status(j) == IF Places(j) = {} THEN "pending" ELSE Stored(j).status

-----------------------------------------------------------------------------
(* A worker: _worker_main and run_job.                                     *)

Send(p, m) == up' = [up EXCEPT ![p] = Append(@, m)]
Goto(p, place) == at' = [at EXCEPT ![p] = place]
Message(kind, j, st) == [kind |-> kind, job |-> j, status |-> st]

\* What a process that is gone ran is nowhere but in its scratch folder.
Vanish(p, place) == /\ Goto(p, place)
                    /\ job' = [job EXCEPT ![p] = NoJob]
                    /\ status' = [status EXCEPT ![p] = "done"]

\* The config is read once: it may be wrong by now.
Load(p) ==
    /\ at[p] = "start"
    /\ \/ Goto(p, "again") /\ UNCHANGED up
       \/ Goto(p, "left") /\ Send(p, Message("broken", NoJob, "failed"))
    /\ UNCHANGED <<runner, asked, job, status, down, scratch, wrote, segs, events>>

AskForJob(p) ==
    /\ at[p] = "again"
    /\ Goto(p, "idle") /\ Send(p, Message("ready", NoJob, "done"))
    /\ UNCHANGED <<runner, asked, job, status, down, scratch, wrote, segs, events>>

\* The answer: None, or a job, whose scratch folder is made anew.
TakeJob(p) ==
    /\ at[p] = "idle" /\ down[p] # <<>>
    /\ down' = [down EXCEPT ![p] = Tail(@)]
    /\ LET j == Head(down[p])
           over == j # NoJob /\ Status(j) = "done"
       IN /\ job' = [job EXCEPT ![p] = j]
          /\ status' = [status EXCEPT ![p] = "done"]
          /\ scratch' = [scratch EXCEPT ![p] = IF j = NoJob \/ over THEN @ ELSE [job |-> j, fe |-> 0]]
          /\ Goto(p, IF j = NoJob THEN "left" ELSE IF over THEN "report" ELSE "run")
    /\ UNCHANGED <<runner, asked, up, wrote, segs, events>>

WriteTrajectory(p) ==
    /\ at[p] = "run" /\ scratch[p].fe < MaxFe
    /\ scratch' = [scratch EXCEPT ![p].fe = @ + 1]
    /\ wrote' = [wrote EXCEPT ![job[p]] = @ + 1]
    /\ UNCHANGED <<runner, asked, at, job, status, up, down, segs, events>>

\* The run is over, well or not: packed into the worker's segment.
SaveRun(p) ==
    /\ at[p] = "run"
    /\ \E st \in {"done", "failed"} :
          /\ st = "done" => scratch[p].fe = MaxFe
          /\ status' = [status EXCEPT ![p] = st]
          /\ AppendRecord(p, [job |-> job[p], status |-> st, fe |-> scratch[p].fe])
    /\ Goto(p, "saved")
    /\ UNCHANGED <<runner, asked, job, up, down, scratch, wrote, events>>

RemoveScratch(p) ==
    /\ at[p] = "saved" /\ Goto(p, "report")
    /\ scratch' = [scratch EXCEPT ![p] = NoFolder]
    /\ UNCHANGED <<runner, asked, job, status, up, down, wrote, segs, events>>

\* _job_crashed: an exception around the run costs the job, not the worker.
JobCrashed(p) ==
    /\ at[p] \in {"run", "saved"} /\ Goto(p, "report")
    /\ status' = [status EXCEPT ![p] = "failed"]
    /\ UNCHANGED <<runner, asked, job, up, down, scratch, wrote, segs, events>>

Report(p) ==
    /\ at[p] = "report" /\ Goto(p, "again")
    /\ Send(p, Message("done", job[p], status[p]))
    /\ job' = [job EXCEPT ![p] = NoJob]
    /\ status' = [status EXCEPT ![p] = "done"]
    /\ UNCHANGED <<runner, asked, down, scratch, wrote, segs, events>>

\* A process dies: out of memory, a crash inside a core.  One that dies before
\* it has taken its end of the pipe leaves no end of file to read.
Die(p) ==
    /\ Alive(p) /\ events < MaxEvents /\ events' = events + 1
    /\ Vanish(p, IF at[p] = "start" THEN "stillborn" ELSE "left")
    /\ UNCHANGED <<runner, asked, up, down, scratch, wrote, segs>>

WorkerStep(p) == \/ Load(p) \/ AskForJob(p) \/ TakeJob(p) \/ WriteTrajectory(p)
                 \/ SaveRun(p) \/ RemoveScratch(p) \/ JobCrashed(p) \/ Report(p)

-----------------------------------------------------------------------------
(* The runner: the loop of _run_dynamic.                                   *)

Busy == {p \in pool : holds[p] # NoJob}
Unborn == {p \in Procs : at[p] = "unborn"}
Finished == Cardinality({j \in Jobs : settled[j] # "no"})
SmallerOf(m, n) == IF m < n THEN m ELSE n

GoesOn == Finished < NJobs /\ state = "running"

\* The n next processes to be born.
Newborn(n) == {p \in Unborn : Cardinality({q \in Unborn : q < p}) < n}

\* How many workers to start: for the jobs held and the jobs left.
Wanted(w) == SmallerOf(w, Cardinality(Busy) + Len(pending)) - Cardinality(pool)

\* A mistake: the workers still in the pool are left to themselves.
FinallyLeaving(st) ==
    /\ rpc' = "over" /\ state' = st
    /\ said' = IF st = "running" THEN "finished" ELSE st
    /\ UNCHANGED <<at, job, status>>

\* finally: the pool's workers are terminated and the last heartbeat written.
Finally(st) ==
    LET ended == {p \in pool : Alive(p)}
    IN /\ rpc' = "over" /\ state' = st
       /\ said' = IF st = "running" THEN "finished" ELSE st
       /\ at' = [p \in Procs |-> IF p \in ended THEN "left" ELSE at[p]]
       /\ job' = [p \in Procs |-> IF p \in ended THEN NoJob ELSE job[p]]
       /\ status' = [p \in Procs |-> IF p \in ended THEN "done" ELSE status[p]]

\* Once in 1.5 s: _workers.txt, the missing workers, the end of a drained pool;
\* then the heartbeat.
ReadWorkers ==
    /\ rpc = "top" /\ GoesOn
    /\ want' = SmallerOf(asked, Ceiling)
    /\ LET new == Newborn(Wanted(want'))
       IN /\ pool' = pool \cup new
          /\ IF want' = 0 /\ pool' = {}
             THEN Finally("stopped")
             ELSE /\ at' = [p \in Procs |-> IF p \in new THEN "start" ELSE at[p]]
                  /\ rpc' = "round" /\ said' = "running"
                  /\ UNCHANGED <<state, job, status>>
    /\ heard' = {p \in pool' : up[p] # <<>> \/ at'[p] = "left"}
    /\ UNCHANGED <<holds, pending, victim, settled, threw, asked, up, down,
                   scratch, wrote, segs, events>>

\* The other rounds of the loop.
Listen ==
    /\ rpc = "top" /\ GoesOn /\ said # "none"
    /\ rpc' = "round"
    /\ heard' = {p \in pool : up[p] # <<>> \/ at[p] = "left"}
    /\ UNCHANGED <<pool, holds, pending, want, state, victim, settled, said, threw, asked,
                   workers, segs, events>>

LeaveLoop ==
    /\ rpc = "top" /\ ~GoesOn /\ Finally(state)
    /\ UNCHANGED <<pool, holds, pending, want, heard, victim, settled, threw,
                   asked, up, down, scratch, wrote, segs, events>>

Release(p) == /\ pool' = pool \ {p}
              /\ holds' = [holds EXCEPT ![p] = NoJob]


\* A mistake: the job a dead worker held is forgotten.
LoseQuietly(p) == Release(p) /\ UNCHANGED settled

\* lose(): the job the worker held counts as failed.
Lose(p) ==
    /\ Release(p)
    /\ settled' = IF holds[p] = NoJob THEN settled ELSE [settled EXCEPT ![holds[p]] = "failed"]

Hear(p) == rpc = "round" /\ p \in heard /\ heard' = heard \ {p}
HearKind(p, kind) == Hear(p) /\ up[p] # <<>> /\ Head(up[p]).kind = kind
Popped(p) == up' = [up EXCEPT ![p] = Tail(@)]

\* The pipe is at its end: the process is gone.
HearEnd(p) ==
    /\ Hear(p) /\ up[p] = <<>> /\ Lose(p)
    /\ down' = [down EXCEPT ![p] = <<>>]
    /\ UNCHANGED <<rpc, pending, want, state, victim, said, threw, asked, at, job, status, up,
                   scratch, wrote, segs, events>>

MayGive == pending # <<>> /\ Cardinality(pool) <= want

\* A mistake: a job that could not be sent is not put back.
GiveJobOnce(p) ==
    /\ HearKind(p, "ready") /\ MayGive /\ Popped(p)
    /\ pending' = Tail(pending)
    /\ \/ /\ Alive(p)
          /\ holds' = [holds EXCEPT ![p] = Head(pending)]
          /\ down' = [down EXCEPT ![p] = Append(@, Head(pending))]
          /\ UNCHANGED pool
       \/ /\ ~Alive(p) /\ Release(p) /\ UNCHANGED down
    /\ UNCHANGED <<rpc, want, state, victim, settled, said, threw, asked, at, job, status,
                   scratch, wrote, segs, events>>

\* The next job; where its worker is gone by now, the job waits on.
GiveJob(p) ==
    /\ HearKind(p, "ready") /\ MayGive /\ Popped(p)
    /\ \/ /\ Alive(p)
          /\ pending' = Tail(pending)
          /\ holds' = [holds EXCEPT ![p] = Head(pending)]
          /\ down' = [down EXCEPT ![p] = Append(@, Head(pending))]
          /\ UNCHANGED pool
       \/ /\ ~Alive(p) /\ Release(p) /\ UNCHANGED <<pending, down>>
    /\ UNCHANGED <<rpc, want, state, victim, settled, said, threw, asked, at, job, status,
                   scratch, wrote, segs, events>>

\* Surplus, or nothing left: the worker is told to leave.
Retire(p) ==
    /\ HearKind(p, "ready") /\ ~MayGive /\ Popped(p)
    /\ Release(p)
    /\ down' = [down EXCEPT ![p] = Append(@, NoJob)]
    /\ UNCHANGED <<rpc, pending, want, state, victim, settled, said, threw, asked, at, job,
                   status, scratch, wrote, segs, events>>

HearDone(p) ==
    /\ HearKind(p, "done") /\ Popped(p)
    /\ holds' = [holds EXCEPT ![p] = NoJob]
    /\ settled' = [settled EXCEPT ![Head(up[p]).job] = Head(up[p]).status]
    /\ UNCHANGED <<rpc, pool, pending, want, state, victim, said, threw, asked, at, job, status,
                   down, scratch, wrote, segs, events>>

\* A worker could not start: the other messages are left where they are.
HearBroken(p) ==
    /\ rpc = "round" /\ p \in heard /\ up[p] # <<>> /\ Head(up[p]).kind = "broken"
    /\ Popped(p)
    /\ state' = "broken" /\ heard' = {}
    /\ UNCHANGED <<rpc, pool, holds, pending, want, victim, settled, said, threw, asked, at, job,
                   status, down, scratch, wrote, segs, events>>

\* A mistake: the worker survives what should have stopped it.
StopLateGently(p) ==
    /\ rpc = "round" /\ heard = {} /\ p \in pool /\ holds[p] # NoJob
    /\ Release(p)
    /\ settled' = [settled EXCEPT ![holds[p]] = "timeout"]
    /\ victim' = [pid |-> p, job |-> holds[p]] /\ rpc' = "record"
    /\ UNCHANGED <<pending, want, state, heard, said, threw, asked, at, job, status, up, down,
                   scratch, wrote, segs, events>>

\* A job past run_timeout: its worker is killed where it is, whatever it has
\* written or said by then.
StopLate(p) ==
    /\ rpc = "round" /\ heard = {} /\ p \in pool /\ holds[p] # NoJob
    /\ Vanish(p, "left") /\ Release(p)
    /\ up' = [up EXCEPT ![p] = <<>>] /\ down' = [down EXCEPT ![p] = <<>>]
    /\ settled' = [settled EXCEPT ![holds[p]] = "timeout"]
    /\ victim' = [pid |-> p, job |-> holds[p]] /\ rpc' = "record"
    /\ UNCHANGED <<pending, want, state, heard, said, threw, asked, scratch, wrote, segs, events>>

\* A mistake: without a scratch folder there is nothing to record.
RecordTimeoutFound ==
    /\ rpc = "record"
    /\ LET left == scratch[victim.pid]
       IN IF left.job = victim.job
          THEN AppendRecord(Runner, [job |-> victim.job, status |-> "timeout", fe |-> left.fe])
          ELSE UNCHANGED segs
    /\ scratch' = [scratch EXCEPT ![victim.pid] = NoFolder]
    /\ victim' = Nobody /\ rpc' = "round"
    /\ UNCHANGED <<pool, holds, pending, want, state, heard, settled, said, threw, asked,
                   at, job, status, up, down, wrote, events>>

\* _record_timeout: the run's scratch folder, an empty one where there is none,
\* packed into the runner's own segment.
RecordTimeout ==
    /\ rpc = "record"
    /\ LET left == scratch[victim.pid]
       IN AppendRecord(Runner, [job |-> victim.job, status |-> "timeout",
                                fe |-> IF left.job = victim.job THEN left.fe ELSE 0])
    /\ scratch' = [scratch EXCEPT ![victim.pid] = NoFolder]
    /\ victim' = Nobody /\ rpc' = "round"
    /\ UNCHANGED <<pool, holds, pending, want, state, heard, settled, said, threw, asked,
                   at, job, status, up, down, wrote, events>>

\* ... or it cannot be: the exception leaves the loop.
RecordFails ==
    /\ rpc = "record" /\ threw' = TRUE /\ Finally(state)
    /\ UNCHANGED <<pool, holds, pending, want, heard, victim, settled, asked, up, down,
                   scratch, wrote, segs, events>>

\* Dead, and nothing to read in its pipe, not even its end.
Corpses == {p \in pool : at[p] = "stillborn" /\ up[p] = <<>>}

LoopDone == rpc = "corpses" \/ (rpc = "round" /\ heard = {})

FindCorpse(p) ==
    /\ LoopDone /\ p \in Corpses /\ Lose(p) /\ rpc' = "corpses"
    /\ UNCHANGED <<pending, want, state, heard, victim, said, threw, asked, workers, segs, events>>

NextRound ==
    /\ LoopDone /\ Corpses = {} /\ rpc' = "top"
    /\ UNCHANGED <<pool, holds, pending, want, state, heard, victim, settled, said, threw,
                   asked, workers, segs, events>>

\* KeyboardInterrupt, anywhere in the loop.
Interrupt ==
    /\ rpc # "over"
    /\ threw' = TRUE /\ Finally("stopped")
    /\ UNCHANGED <<pool, holds, pending, want, heard, victim, settled, asked, up, down,
                   scratch, wrote, segs, events>>

RunnerStep ==
    \/ ReadWorkers \/ Listen \/ LeaveLoop \/ RecordTimeout
    \/ NextRound
    \/ \E p \in Procs : \/ HearEnd(p) \/ GiveJob(p) \/ Retire(p) \/ HearDone(p)
                         \/ HearBroken(p) \/ FindCorpse(p)

-----------------------------------------------------------------------------

\* Whoever writes _workers.txt.
SetWorkers ==
    /\ events < MaxEvents /\ events' = events + 1
    /\ asked' \in 0..Ceiling /\ asked' # asked
    /\ UNCHANGED <<runner, workers, segs>>

Over == rpc = "over" /\ UNCHANGED vars

Next == \/ RunnerStep \/ RecordFails \/ Interrupt \/ SetWorkers \/ Over
        \/ \E p \in Procs : WorkerStep(p) \/ StopLate(p) \/ Die(p)

\* The runner and every worker go on, and a runner that goes round reads
\* _workers.txt again and again: 1.5 s pass.  Nothing is assumed of the time a
\* job takes, of deaths, of requests.
Fairness == /\ WF_vars(RunnerStep) /\ SF_vars(ReadWorkers)
            /\ \A p \in Procs : WF_vars(WorkerStep(p))

Spec == Init /\ [][Next]_vars /\ Fairness

-----------------------------------------------------------------------------
(* Properties.                                                             *)

\* Every job is in one place: waiting, held by one worker of the pool, or
\* counted once - whatever dies, and between whichever two steps (lose, the
\* send that fails, the time limit, the reports).
Held(j) == {p \in pool : holds[p] = j}
Accounted ==
    \A j \in Jobs :
        Cardinality({i \in 1..Len(pending) : pending[i] = j}) + Cardinality(Held(j))
            + (IF settled[j] = "no" THEN 0 ELSE 1) = 1

\* The runner "always knows which job a worker holds": a living process that
\* runs a job, or has one in its pipe, is in the pool and holds that job, so a
\* job is never run by two processes (_run_dynamic).
KnowsWhoHolds ==
    \A p \in Procs : Alive(p) =>
        /\ job[p] # NoJob => p \in pool /\ holds[p] = job[p]
        /\ \A i \in 1..Len(down[p]) : down[p][i] # NoJob => p \in pool /\ holds[p] = down[p][i]

\* What counts as done has a whole run in the store, and what counts as
\* timeout has a record there once the runner is past it: nothing counted is
\* run again on resuming (run_job packs before it reports, _record_timeout).
CountedIsStored ==
    \A j \in Jobs :
        /\ settled[j] = "done" => /\ Status(j) = "done"
                                  /\ Stored(j).fe = MaxFe
        /\ settled[j] = "timeout" /\ victim.job # j => Status(j) # "pending"

\* When the runner is over no worker runs a job, and a last heartbeat that
\* says "finished" after no exception means every job counted.
EndIsTrue ==
    rpc = "over" => /\ \A p \in Procs : Alive(p) => job[p] = NoJob
                    /\ said = "finished" /\ ~threw => Finished = NJobs

\* The runner comes to its end, whatever workers die at any step, are told to
\* leave, cannot start or pass their time, and however _workers.txt changes.
PoolEnds == <>(rpc = "over")

\* docs/running.md: a run stopped at run_timeout is kept with "its trajectory
\* up to the last record it wrote, and that record's evaluations".
TimeoutKeepsTrajectory ==
    \A j \in Jobs : Status(j) = "timeout" => Stored(j).fe = wrote[j]
=============================================================================
