--------------------------- MODULE CampaignPool ---------------------------
(***************************************************************************)
(* The pool of one campaign runner (campaign/engine.hpp, run_campaign).    *)
(* Threads take the next job and leave when there is no work, when there   *)
(* are more of them than asked for, or after one of them threw.  The main  *)
(* thread re-reads _workers.txt, starts threads, writes the heartbeat, and *)
(* ends when every job is settled, when asked for no workers and none is   *)
(* left, or when a job threw and the threads are gone.                     *)
(*                                                                         *)
(* Everything but reading the file and running a job happens under one     *)
(* mutex: an action is a critical section.                                 *)
(***************************************************************************)
EXTENDS Naturals, FiniteSets

CONSTANTS
    N,             \* todo.size()
    Threads,       \* places for threads: one is used again when its thread has left
    Ceiling,       \* the machine's hardware threads
    Workers,       \* --workers
    MaxAsked, MaxRequests    \* bounds of the model: what others write to _workers.txt

ASSUME PoolAssumption ==
    /\ N \in Nat \ {0} /\ Ceiling \in Nat \ {0}
    /\ Workers \in Nat \ {0} /\ MaxAsked \in Nat /\ MaxRequests \in Nat
    /\ IsFiniteSet(Threads) /\ Cardinality(Threads) >= Ceiling

VARIABLES
    next, finished, active, want, running, crash,    \* under the lock
    res,        \* what became of each job
    place,      \* where each thread is
    job,        \* the job it took
    mpc,        \* where the main thread is
    asked,      \* what it read of the file
    pooled,     \* pool is not empty
    state,      \* what its last heartbeat will say
    beat,       \* _runner.json
    file,       \* _workers.txt
    requests    \* how often others wrote it

pool == <<next, finished, active, running, crash, res, place, job>>
main == <<want, mpc, asked, pooled, state, beat>>
outside == <<file, requests>>
vars == <<pool, main, outside>>

Jobs == 0..(N - 1)
Settled == {"done", "failed", "left"}
Live == {t \in Threads : place[t] # "absent"}
Least(a, b) == IF a < b THEN a ELSE b

TypeOK ==
    /\ next \in 0..N /\ finished \in 0..N
    /\ active \in 0..Cardinality(Threads) /\ want \in 0..Ceiling
    /\ running \subseteq Jobs /\ crash \in BOOLEAN
    /\ res \in [Jobs -> Settled \cup {"none", "lost"}]
    /\ place \in [Threads -> {"absent", "loop", "job"}] /\ job \in [Threads -> Jobs]
    /\ mpc \in {"write", "top", "reading", "apply", "join", "out"}
    /\ asked \in 0..(MaxAsked + Workers) /\ file \in 0..(MaxAsked + Workers)
    /\ pooled \in BOOLEAN /\ requests \in 0..MaxRequests
    /\ state \in {"running", "stopped", "broken"}
    /\ beat \in {"none", "running", "finished", "stopped", "broken"}

Init ==
    /\ next = 0 /\ finished = 0 /\ active = 0 /\ want = 0
    /\ running = {} /\ crash = FALSE
    /\ res = [j \in Jobs |-> "none"]
    /\ place = [t \in Threads |-> "absent"] /\ job = [t \in Threads |-> 0]
    /\ mpc = "write" /\ asked = 0 /\ pooled = FALSE
    /\ state = "running" /\ beat = "none"
    /\ file \in 0..MaxAsked /\ requests = 0

-----------------------------------------------------------------------------
(* A thread of the pool.                                                   *)

MayTake == active <= want /\ next < N /\ ~crash

TakeJob(t) ==
    /\ place[t] = "loop" /\ MayTake
    /\ place' = [place EXCEPT ![t] = "job"] /\ job' = [job EXCEPT ![t] = next]
    /\ next' = next + 1 /\ running' = running \cup {next}
    /\ UNCHANGED <<finished, active, crash, res, main, outside>>

\* A surplus thread leaves, and so does one without work.
Leave(t) ==
    /\ place[t] = "loop" /\ ~MayTake
    /\ place' = [place EXCEPT ![t] = "absent"]
    /\ active' = active - 1
    /\ UNCHANGED <<next, finished, running, crash, res, job, main, outside>>

\* The job is run and its record appended ("left": the core refuses it, no record).
EndJob(t) ==
    /\ place[t] = "job"
    /\ \E outcome \in Settled : res' = [res EXCEPT ![job[t]] = outcome]
    /\ finished' = finished + 1
    /\ running' = running \ {job[t]}
    /\ place' = [place EXCEPT ![t] = "loop"]
    /\ UNCHANGED <<next, active, crash, job, main, outside>>

\* A mistake: a thread that threw is still counted.
ThrowUncounted(t) ==
    /\ place[t] = "job"
    /\ res' = [res EXCEPT ![job[t]] = "lost"]
    /\ crash' = TRUE
    /\ running' = running \ {job[t]}
    /\ place' = [place EXCEPT ![t] = "absent"]
    /\ UNCHANGED <<next, finished, active, job, main, outside>>

\* The job or its record throws: the thread leaves, the others after their job.
Throw(t) ==
    /\ place[t] = "job"
    /\ res' = [res EXCEPT ![job[t]] = "lost"]
    /\ crash' = TRUE
    /\ running' = running \ {job[t]}
    /\ place' = [place EXCEPT ![t] = "absent"]
    /\ active' = active - 1
    /\ UNCHANGED <<next, finished, job, main, outside>>

-----------------------------------------------------------------------------
(* The main thread.                                                        *)

WriteWorkers ==
    /\ mpc = "write" /\ mpc' = "top"
    /\ file' = Workers
    /\ UNCHANGED <<pool, want, asked, pooled, state, beat, requests>>

\* A mistake: only settled jobs end the loop.
GoesOnUnsettled == finished < N

GoesOn == finished < N /\ ~(crash /\ active = 0)

\* Time to read the file (at once while the pool is empty), without the lock.
ReadTime ==
    /\ mpc = "top" /\ GoesOn /\ mpc' = "reading"
    /\ UNCHANGED <<pool, want, asked, pooled, state, beat, outside>>

ReadWorkers ==
    /\ mpc = "reading" /\ mpc' = "apply"
    /\ asked' = file
    /\ UNCHANGED <<pool, want, pooled, state, beat, outside>>

\* Two seconds since the last heartbeat.
BeatTime ==
    /\ mpc = "top" /\ GoesOn /\ pooled
    /\ beat' = "running"
    /\ UNCHANGED <<pool, want, mpc, asked, pooled, state, outside>>

\* A mistake: the threads that run a job are not counted among those wanted.
WantedOfWaiting(w) == Least(w, N - next)

Wanted(w) == Least(w, Cardinality(running) + (N - next))

\* Threads are started up to what is wanted, none after a crash; with none
\* asked for and none left the campaign stops.
Apply ==
    LET w == Least(asked, Ceiling)
        new == IF crash \/ Wanted(w) < active THEN 0 ELSE Wanted(w) - active
    IN /\ mpc = "apply"
       /\ want' = w
       /\ \E S \in SUBSET (Threads \ Live) :
             /\ Cardinality(S) = new
             /\ place' = [t \in Threads |-> IF t \in S THEN "loop" ELSE place[t]]
       /\ active' = active + new
       /\ pooled' = (pooled \/ new > 0)
       /\ \/ /\ w = 0 /\ active + new = 0
             /\ state' = IF crash THEN "broken" ELSE "stopped"
             /\ mpc' = "join"
             /\ UNCHANGED beat
          \/ /\ w > 0 \/ active + new > 0
             /\ beat' \in {beat, "running"}
             /\ mpc' = "top"
             /\ UNCHANGED state
       /\ UNCHANGED <<next, finished, running, crash, res, job, asked, outside>>

LeaveLoop ==
    /\ mpc = "top" /\ ~GoesOn
    /\ state' = IF crash THEN "broken" ELSE state
    /\ mpc' = "join"
    /\ UNCHANGED <<pool, want, asked, pooled, beat, outside>>

\* A mistake: the threads are not joined.
EndUnjoined ==
    /\ mpc = "join" /\ mpc' = "out"
    /\ beat' = IF state = "running" THEN "finished" ELSE state
    /\ UNCHANGED <<pool, want, asked, pooled, state, outside>>

\* The threads joined, the last heartbeat; the crash is thrown on.
End ==
    /\ mpc = "join" /\ Live = {} /\ mpc' = "out"
    /\ beat' = IF state = "running" THEN "finished" ELSE state
    /\ UNCHANGED <<pool, want, asked, pooled, state, outside>>

-----------------------------------------------------------------------------

\* The terminal interface, a user, or another runner's start.
SetWorkers ==
    /\ requests < MaxRequests /\ requests' = requests + 1
    /\ file' \in 0..MaxAsked
    /\ UNCHANGED <<pool, main>>

Thread(t) == TakeJob(t) \/ Leave(t) \/ EndJob(t) \/ Throw(t)
Main == WriteWorkers \/ ReadWorkers \/ Apply \/ LeaveLoop \/ End

\* The campaign is over.
Over == mpc = "out" /\ UNCHANGED vars

Next == (\E t \in Threads : Thread(t)) \/ Main \/ ReadTime \/ BeatTime \/ SetWorkers \/ Over

\* The threads of the process run, a job ends, and time passes.
Fairness == /\ \A t \in Threads : WF_vars(Thread(t))
            /\ WF_vars(Main) /\ WF_vars(ReadTime)

Spec == Init /\ [][Next]_vars /\ Fairness

-----------------------------------------------------------------------------
(* Properties.                                                             *)

\* Every job taken is with exactly one thread, or settled, or the one that
\* threw; the counters say what the threads do (finished, active, running).
Accounted ==
    /\ active = Cardinality(Live)
    /\ running = {job[t] : t \in {u \in Threads : place[u] = "job"}}
    /\ Cardinality(running) = Cardinality({t \in Threads : place[t] = "job"})
    /\ finished = Cardinality({j \in Jobs : res[j] \in Settled})
    /\ \A j \in Jobs : res[j] = "none" <=> j >= next \/ j \in running
    /\ crash <=> \E j \in Jobs : res[j] = "lost"

\* While jobs wait the pool has the threads last asked for: none is missing
\* because others ran a job when they were counted, or have left since.
NeverShort == pooled /\ ~crash => active >= Least(want, Cardinality(running) + (N - next))

\* The runner ends with its threads gone and a true last heartbeat: finished
\* when every job is settled, broken when one threw, stopped when it was last
\* asked for no workers (run_campaign's end).
EndIsTrue ==
    mpc = "out" =>
        /\ Live = {} /\ running = {}
        /\ beat = "finished" => \A j \in Jobs : res[j] \in Settled
        /\ beat = "broken" <=> \E j \in Jobs : res[j] = "lost"
        /\ beat = "stopped" => asked = 0

\* What became of a job never changes: no job is run twice.
RunOnce == [][\A j \in Jobs : res[j] # "none" => res'[j] = res[j]]_vars

\* A thread begins a job only while the pool is no larger than was last asked
\* for: lowered to 0, every job not begun stays for next time.
NoneBeyond == [][next' # next => Cardinality(Live) <= want]_vars

\* The runner ends, whatever was asked of it and whichever job threw.
RunnerEnds == <>(mpc = "out")
=============================================================================
