------------------------ MODULE CampaignPoolProofs ------------------------
(***************************************************************************)
(* What TLC checks of the pool on three jobs and two threads, proved for   *)
(* any number of jobs, any finite number of threads no smaller than the    *)
(* machine's ceiling, and any requests: the counters are what the threads  *)
(* do, no job is run twice, the pool is neither short nor beyond what was  *)
(* asked, and the last heartbeat is true.  PoolInv is the inductive        *)
(* invariant.                                                              *)
(***************************************************************************)
EXTENDS CampaignPool, FiniteSetTheorems, TLAPS

Busy == {t \in Threads : place[t] = "job"}
SettledJobs == {j \in Jobs : res[j] \in Settled}

\* The jobs in hand are apart, and were all taken.
OwnJobs == /\ \A t, u \in Busy : job[t] = job[u] => t = u
           /\ \A t \in Busy : job[t] < next

\* How the main loop was left, and what holds from then on.
EndInv ==
    /\ state # "running" => mpc \in {"join", "out"}
    /\ mpc \in {"join", "out"} /\ state = "running" => finished = N
    /\ state = "broken" => crash
    /\ state = "stopped" => ~crash /\ asked = 0 /\ Live = {}
    /\ mpc = "out" => Live = {} /\ beat = IF state = "running" THEN "finished" ELSE state

PoolInv == TypeOK /\ Accounted /\ OwnJobs /\ NeverShort /\ EndInv

-----------------------------------------------------------------------------
(* Counting.                                                               *)

LEMMA JobsCount == IsFiniteSet(Jobs) /\ Cardinality(Jobs) = N
<1>1. 0 \in Int /\ N - 1 \in Int /\ ~(0 > N - 1) /\ (N - 1) - 0 + 1 = N
  BY PoolAssumption
<1>2. QED
  BY <1>1, FS_Interval DEF Jobs

\* A set of jobs has at most N, and is all of them if it has N.
LEMMA SomeJobs ==
  ASSUME NEW S \in SUBSET Jobs
  PROVE  IsFiniteSet(S) /\ Cardinality(S) \in 0..N /\ (Cardinality(S) = N => S = Jobs)
<1>1. IsFiniteSet(S) /\ Cardinality(S) <= N /\ (N = Cardinality(S) => Jobs = S)
  BY JobsCount, FS_Subset
<1>2. Cardinality(S) \in Nat
  BY <1>1, FS_CardinalityType
<1>3. QED
  BY <1>1, <1>2, PoolAssumption

LEMMA SomeThreads ==
  ASSUME NEW S \in SUBSET Threads
  PROVE  /\ IsFiniteSet(S) /\ Cardinality(S) \in Nat /\ Cardinality(S) <= Cardinality(Threads)
         /\ Cardinality(S) = 0 <=> S = {}
<1>1. IsFiniteSet(S) /\ Cardinality(S) <= Cardinality(Threads)
  BY PoolAssumption, FS_Subset
<1>2. QED
  BY <1>1, FS_CardinalityType, FS_EmptySet

LEMMA CountsTyped ==
  /\ Cardinality(Live) \in 0..Cardinality(Threads) /\ Cardinality(Threads) \in Nat
  /\ Cardinality(Busy) \in Nat
  /\ IsFiniteSet(Live) /\ IsFiniteSet(Busy)
  /\ Cardinality(Live) = 0 <=> Live = {}
<1>1. Live \in SUBSET Threads /\ Busy \in SUBSET Threads /\ Threads \in SUBSET Threads
  BY DEF Live, Busy
<1>2. QED
  BY <1>1, SomeThreads

\* A thread that runs no job is there besides those that do.
LEMMA LoopThread ==
  ASSUME NEW t \in Threads, place[t] = "loop"
  PROVE  Cardinality(Busy) + 1 <= Cardinality(Live)
<1>1. t \notin Busy /\ Busy \cup {t} \in SUBSET Live
  BY DEF Busy, Live
<1>2. Cardinality(Busy \cup {t}) = Cardinality(Busy) + 1
  BY <1>1, CountsTyped, FS_AddElement
<1>3. Cardinality(Busy \cup {t}) <= Cardinality(Live)
  BY <1>1, CountsTyped, FS_Subset
<1>4. QED
  BY <1>2, <1>3

\* With N jobs settled no thread runs one, and none threw.
LEMMA AllSettled ==
  ASSUME TypeOK, Accounted, finished = N
  PROVE  Busy = {} /\ ~crash /\ \A j \in Jobs : res[j] \in Settled
<1>1. SettledJobs = Jobs
  BY SomeJobs DEF Accounted, SettledJobs
<1>2. \A j \in Jobs : res[j] \in Settled
  BY <1>1 DEF SettledJobs
<1>3. running = {}
  <2>1. SUFFICES ASSUME NEW j \in running PROVE FALSE
    OBVIOUS
  <2>2. res[j] = "none"
    BY DEF Accounted, TypeOK
  <2>3. QED
    BY <1>2, <2>2 DEF TypeOK, Settled
<1>4. Busy = {}
  BY <1>3 DEF Accounted, Busy
<1>5. ~crash
  BY <1>2 DEF Accounted, Settled
<1>6. QED
  BY <1>2, <1>4, <1>5

\* The jobs in hand are those running, none of them beyond the last one taken.
LEMMA Running ==
  ASSUME PoolInv
  PROVE  /\ running = {job[t] : t \in Busy} /\ Cardinality(running) = Cardinality(Busy)
         /\ running \in SUBSET Jobs /\ IsFiniteSet(running) /\ Cardinality(running) \in Nat
         /\ finished = Cardinality(SettledJobs) /\ SettledJobs \in SUBSET Jobs
         /\ \A j \in running : j < next /\ res[j] = "none"
         /\ active = Cardinality(Live)
<1>1. running = {job[t] : t \in Busy} /\ Cardinality(running) = Cardinality(Busy)
  BY DEF PoolInv, Accounted, Busy
<1>2. running \in SUBSET Jobs /\ SettledJobs \in SUBSET Jobs
  BY DEF PoolInv, TypeOK, SettledJobs
<1>3. IsFiniteSet(running) /\ Cardinality(running) \in Nat
  BY <1>2, SomeJobs, PoolAssumption
<1>4. finished = Cardinality(SettledJobs) /\ active = Cardinality(Live)
  BY DEF PoolInv, Accounted, SettledJobs
<1>5. \A j \in running : j < next /\ res[j] = "none"
  BY <1>1, <1>2 DEF PoolInv, OwnJobs, Accounted
<1>6. QED
  BY <1>1, <1>2, <1>3, <1>4, <1>5

-----------------------------------------------------------------------------
(* The counters are what the threads do.                                   *)

LEMMA TakeJobAccounted ==
  ASSUME PoolInv, NEW t \in Threads, TakeJob(t)
  PROVE  Accounted' /\ OwnJobs' /\ NeverShort'
<1> USE DEF PoolInv
<1>1. /\ place[t] = "loop" /\ next < N
      /\ place' = [place EXCEPT ![t] = "job"] /\ job' = [job EXCEPT ![t] = next]
      /\ next' = next + 1 /\ running' = running \cup {next}
      /\ UNCHANGED <<finished, active, crash, res>>
  BY DEF TakeJob, MayTake
<1>2. next \in Jobs /\ next \in Nat /\ N \in Nat
  BY <1>1, PoolAssumption DEF TypeOK, Jobs
<1>3. Live' = Live /\ Busy' = Busy \cup {t} /\ t \notin Busy
  BY <1>1 DEF TypeOK, Live, Busy
<1>4. next \notin running
  BY <1>2, Running
<1>5. Cardinality(running') = Cardinality(running) + 1
  BY <1>1, <1>4, Running, FS_AddElement
<1>6. Cardinality(Busy') = Cardinality(Busy) + 1
  BY <1>3, CountsTyped, FS_AddElement
<1>7. running' = {job'[u] : u \in Busy'}
  BY <1>1, <1>3, Running DEF TypeOK, Busy
<1>8. \A j \in Jobs : res'[j] = "none" <=> j >= next' \/ j \in running'
  <2>1. \A j \in Jobs : res[j] = "none" <=> j >= next \/ j \in running
    BY DEF Accounted
  <2>2. \A j \in Jobs : j \in Int
    BY PoolAssumption DEF Jobs
  <2>3. QED
    BY <1>1, <1>2, <2>1, <2>2
<1>9. OwnJobs'
  BY <1>1, <1>2, <1>3 DEF OwnJobs, TypeOK, Busy, Jobs
<1>10. Accounted'
  BY <1>1, <1>3, <1>5, <1>6, <1>7, <1>8, Running DEF Accounted, Busy
<1>11. NeverShort'
  <2>1. Cardinality(running') + (N - next') = Cardinality(running) + (N - next)
    BY <1>1, <1>2, <1>5, Running
  <2>2. active' = active /\ want' = want /\ pooled' = pooled /\ crash' = crash
    BY DEF TakeJob, main
  <2>3. QED
    BY <2>1, <2>2 DEF NeverShort, Least
<1>12. QED
  BY <1>9, <1>10, <1>11

LEMMA LeaveAccounted ==
  ASSUME PoolInv, NEW t \in Threads, Leave(t)
  PROVE  Accounted' /\ OwnJobs' /\ NeverShort'
<1> USE DEF PoolInv
<1>1. /\ place[t] = "loop" /\ place' = [place EXCEPT ![t] = "absent"] /\ active' = active - 1
      /\ UNCHANGED <<next, finished, running, crash, res, job>>
  BY DEF Leave
<1>2. Live' = Live \ {t} /\ Busy' = Busy /\ t \in Live
  BY <1>1 DEF TypeOK, Live, Busy
<1>3. Cardinality(Live') = Cardinality(Live) - 1
  BY <1>2, CountsTyped, FS_RemoveElement
<1>4. OwnJobs'
  BY <1>1, <1>2 DEF OwnJobs
<1>5. Accounted'
  <2>1. active' = Cardinality(Live')
    BY <1>1, <1>3 DEF Accounted
  <2>2. /\ running' = {job'[u] : u \in Busy'}
        /\ Cardinality(running') = Cardinality(Busy')
    BY <1>1, <1>2, Running
  <2>3. /\ finished' = Cardinality({j \in Jobs : res'[j] \in Settled})
        /\ \A j \in Jobs : res'[j] = "none" <=> j >= next' \/ j \in running'
        /\ crash' <=> (\E j \in Jobs : res'[j] = "lost")
    BY <1>1, Zenon DEF Accounted
  <2>4. QED
    BY <2>1, <2>2, <2>3, Zenon DEF Accounted, Busy
\* A thread leaves when the jobs are all taken and it runs none, or as one too many.
<1>6. NeverShort'
  <2>0. Cardinality(running) + (N - next) \in Int
    BY Running, PoolAssumption DEF TypeOK
  <2>1. want' = want /\ pooled' = pooled /\ crash' = crash /\ running' = running /\ next' = next
    BY <1>1 DEF Leave, main
  <2>2. CASE crash
    BY <2>1, <2>2 DEF NeverShort
  <2>3. CASE ~crash /\ active > want
    <3>1. active' >= want
      BY <1>1, <2>3 DEF TypeOK
    <3>2. \A n \in Int : active' >= Least(want, n)
      BY <1>1, <3>1, PoolAssumption DEF Least, TypeOK
    <3>3. QED
      BY <2>0, <2>1, <3>2 DEF NeverShort
  <2>4. CASE ~crash /\ next = N
    <3>1. Cardinality(running) + 1 <= active
      BY <1>1, LoopThread, Running
    <3>2. active' >= Cardinality(running) + (N - next)
      BY <1>1, <2>4, <3>1, Running, PoolAssumption DEF TypeOK
    <3>3. \A n \in Int : active' >= n => active' >= Least(want, n)
      BY <1>1, PoolAssumption DEF Least, TypeOK
    <3>4. QED
      BY <2>0, <2>1, <3>2, <3>3 DEF NeverShort
  <2>5. crash \/ active > want \/ next = N
    BY PoolAssumption DEF Leave, MayTake, TypeOK
  <2>6. QED
    BY <2>2, <2>3, <2>4, <2>5
<1>7. QED
  BY <1>4, <1>5, <1>6

\* A thread puts its job away, settled or lost.
LEMMA PutAway ==
  ASSUME PoolInv, NEW t \in Threads, place[t] = "job", NEW outcome \in Settled \cup {"lost"},
         res' = [res EXCEPT ![job[t]] = outcome], running' = running \ {job[t]},
         NEW p, p # "job", place' = [place EXCEPT ![t] = p], UNCHANGED <<job, next>>
  PROVE  /\ t \in Busy /\ Busy' = Busy \ {t}
         /\ job[t] \in running /\ job[t] \in Jobs /\ res[job[t]] = "none"
         /\ running' = {job'[u] : u \in Busy'}
         /\ Cardinality(running') = Cardinality(Busy')
         /\ \A j \in Jobs : res'[j] = "none" <=> j >= next' \/ j \in running'
         /\ OwnJobs'
<1> USE DEF PoolInv
<1>1. t \in Busy /\ Busy' = Busy \ {t}
  BY DEF Busy, TypeOK
<1>2. job[t] \in running /\ job[t] \in Jobs /\ res[job[t]] = "none" /\ job[t] < next
  BY <1>1, Running
<1>3. running' = {job'[u] : u \in Busy'}
  BY <1>1, Running DEF OwnJobs
<1>4. Cardinality(running') = Cardinality(Busy')
  <2>1. Cardinality(running') = Cardinality(running) - 1
    BY <1>2, Running, FS_RemoveElement
  <2>2. Cardinality(Busy') = Cardinality(Busy) - 1
    BY <1>1, CountsTyped, FS_RemoveElement
  <2>3. QED
    BY <2>1, <2>2, Running
<1>5. \A j \in Jobs : res'[j] = "none" <=> j >= next' \/ j \in running'
  <2>1. \A j \in Jobs : res[j] = "none" <=> j >= next \/ j \in running
    BY DEF Accounted
  <2>2. \A j \in Jobs : res'[j] = IF j = job[t] THEN outcome ELSE res[j]
    BY DEF TypeOK
  <2>3. outcome # "none"
    BY DEF Settled
  <2>4. ~(job[t] >= next)
    BY <1>2, PoolAssumption DEF TypeOK, Jobs
  <2>5. QED
    BY <2>1, <2>2, <2>3, <2>4
<1>6. OwnJobs'
  BY <1>1 DEF OwnJobs
<1>7. QED
  BY <1>1, <1>2, <1>3, <1>4, <1>5, <1>6

LEMMA EndJobAccounted ==
  ASSUME PoolInv, NEW t \in Threads, EndJob(t)
  PROVE  Accounted' /\ OwnJobs' /\ NeverShort'
<1> USE DEF PoolInv
<1>1. PICK outcome \in Settled : res' = [res EXCEPT ![job[t]] = outcome]
  BY DEF EndJob
<1>2. /\ place[t] = "job" /\ finished' = finished + 1 /\ running' = running \ {job[t]}
      /\ place' = [place EXCEPT ![t] = "loop"] /\ UNCHANGED <<next, active, crash, job>>
  BY DEF EndJob
<1>3. /\ t \in Busy /\ Busy' = Busy \ {t} /\ job[t] \in Jobs /\ res[job[t]] = "none"
      /\ job[t] \in running
      /\ running' = {job'[u] : u \in Busy'} /\ Cardinality(running') = Cardinality(Busy')
      /\ \A j \in Jobs : res'[j] = "none" <=> j >= next' \/ j \in running'
      /\ OwnJobs'
  <2>1. outcome \in Settled \cup {"lost"}
    OBVIOUS
  <2>2. QED
    BY <1>1, <1>2, <2>1, PutAway
<1>4. Live' = Live
  BY <1>2 DEF TypeOK, Live
<1>5. SettledJobs' = SettledJobs \cup {job[t]} /\ job[t] \notin SettledJobs
  BY <1>1, <1>3 DEF SettledJobs, TypeOK, Settled
<1>6. Cardinality(SettledJobs') = Cardinality(SettledJobs) + 1
  BY <1>5, Running, SomeJobs, FS_AddElement
<1>7. (\E j \in Jobs : res'[j] = "lost") <=> \E j \in Jobs : res[j] = "lost"
  BY <1>1, <1>3 DEF TypeOK, Settled
<1>8. Accounted'
  BY <1>2, <1>3, <1>4, <1>6, <1>7, Running DEF Accounted, Busy, SettledJobs
<1>9. NeverShort'
  <2>0. running' = running \ {job[t]} /\ job[t] \in running /\ IsFiniteSet(running)
    BY <1>2, <1>3, Running
  <2>1. Cardinality(running') = Cardinality(running) - 1
    BY <2>0, FS_RemoveElement
  <2>2. active' = active /\ want' = want /\ pooled' = pooled /\ crash' = crash /\ next' = next
    BY DEF EndJob, main
  <2>3. QED
    BY <2>1, <2>2, Running, PoolAssumption DEF NeverShort, Least, TypeOK
<1>10. QED
  BY <1>3, <1>8, <1>9

LEMMA ThrowAccounted ==
  ASSUME PoolInv, NEW t \in Threads, Throw(t)
  PROVE  Accounted' /\ OwnJobs' /\ NeverShort'
<1> USE DEF PoolInv
<1>1. /\ place[t] = "job" /\ res' = [res EXCEPT ![job[t]] = "lost"] /\ crash' = TRUE
      /\ running' = running \ {job[t]} /\ place' = [place EXCEPT ![t] = "absent"]
      /\ active' = active - 1 /\ UNCHANGED <<next, finished, job>>
  BY DEF Throw
<1>2. /\ t \in Busy /\ Busy' = Busy \ {t} /\ job[t] \in Jobs /\ res[job[t]] = "none"
      /\ running' = {job'[u] : u \in Busy'} /\ Cardinality(running') = Cardinality(Busy')
      /\ \A j \in Jobs : res'[j] = "none" <=> j >= next' \/ j \in running'
      /\ OwnJobs'
  <2>1. "lost" \in Settled \cup {"lost"} /\ "absent" # "job"
    OBVIOUS
  <2>2. QED
    BY <1>1, <2>1, PutAway
<1>3. Live' = Live \ {t} /\ t \in Live
  BY <1>1 DEF TypeOK, Live
<1>4. Cardinality(Live') = Cardinality(Live) - 1
  BY <1>3, CountsTyped, FS_RemoveElement
<1>5. SettledJobs' = SettledJobs
  BY <1>1, <1>2 DEF SettledJobs, TypeOK, Settled
<1>6. \E j \in Jobs : res'[j] = "lost"
  BY <1>1, <1>2 DEF TypeOK
<1>7. Accounted'
  BY <1>1, <1>2, <1>4, <1>5, <1>6, Running DEF Accounted, Busy, SettledJobs
<1>8. NeverShort'
  BY <1>1 DEF NeverShort
<1>9. QED
  BY <1>2, <1>7, <1>8

\* Threads are started up to what is wanted.
LEMMA ApplyAccounted ==
  ASSUME PoolInv, Apply
  PROVE  Accounted' /\ OwnJobs' /\ NeverShort'
<1> USE DEF PoolInv
<1> DEFINE w == Least(asked, Ceiling)
           new == IF crash \/ Wanted(w) < active THEN 0 ELSE Wanted(w) - active
<1>1. PICK S \in SUBSET (Threads \ Live) :
        Cardinality(S) = new /\ place' = [t \in Threads |-> IF t \in S THEN "loop" ELSE place[t]]
  BY DEF Apply
<1>2. /\ want' = w /\ active' = active + new
      /\ UNCHANGED <<next, finished, running, crash, res, job>>
  BY DEF Apply
<1>3. Live' = Live \cup S /\ Busy' = Busy
  BY <1>1 DEF Live, Busy, TypeOK
<1>4. Cardinality(Live') = Cardinality(Live) + new
  <2>1. S \in SUBSET Threads /\ Live \cap S = {}
    OBVIOUS
  <2>2. IsFiniteSet(S) /\ Cardinality(S) \in Nat
    BY <2>1, SomeThreads
  <2>3. QED
    BY <1>1, <1>3, <2>1, <2>2, CountsTyped, FS_Union, FS_EmptySet
<1>5. Accounted'
  <2>1. active' = Cardinality(Live')
    BY <1>2, <1>4, Running
  <2>2. /\ running' = {job'[u] : u \in Busy'}
        /\ Cardinality(running') = Cardinality(Busy')
    BY <1>2, <1>3, Running
  <2>3. /\ finished' = Cardinality({j \in Jobs : res'[j] \in Settled})
        /\ \A j \in Jobs : res'[j] = "none" <=> j >= next' \/ j \in running'
        /\ crash' <=> (\E j \in Jobs : res'[j] = "lost")
    BY <1>2, Zenon DEF Accounted
  <2>4. QED
    BY <2>1, <2>2, <2>3, Zenon DEF Accounted, Busy
<1>6. OwnJobs'
  BY <1>2, <1>3 DEF OwnJobs
<1>7. NeverShort'
  <2>1. w \in Nat /\ active \in Nat /\ next \in Nat /\ N - next \in Nat
    BY PoolAssumption DEF Least, TypeOK
  <2>2. Wanted(w) = Least(w, Cardinality(running) + (N - next)) /\ Wanted(w) \in Nat
    BY <2>1, Running DEF Wanted, Least
  <2>3. ~crash => active' >= Wanted(w)
    BY <1>2, <2>1, <2>2
  <2>4. QED
    BY <1>2, <2>2, <2>3 DEF NeverShort
<1>8. QED
  BY <1>5, <1>6, <1>7

\* Every step.
LEMMA AccountedStep ==
  ASSUME PoolInv, [Next]_vars
  PROVE  Accounted' /\ OwnJobs' /\ NeverShort'
<1>1. CASE \E t \in Threads : Thread(t)
  BY <1>1, TakeJobAccounted, LeaveAccounted, EndJobAccounted, ThrowAccounted DEF Thread
<1>2. CASE Apply
  BY <1>2, ApplyAccounted
<1>3. CASE \/ WriteWorkers \/ ReadWorkers \/ LeaveLoop \/ End \/ ReadTime \/ BeatTime
           \/ SetWorkers \/ Over \/ UNCHANGED vars
  <2>1. UNCHANGED <<next, finished, active, want, running, crash, res, place, job, pooled>>
    BY <1>3 DEF WriteWorkers, ReadWorkers, LeaveLoop, End, ReadTime, BeatTime, SetWorkers,
                Over, vars, pool, main
  <2>2. Live' = Live /\ Busy' = Busy
    BY <2>1 DEF Live, Busy
  <2>3. QED
    BY <2>1, <2>2 DEF PoolInv, Accounted, OwnJobs, NeverShort, Busy
<1>4. QED
  BY <1>1, <1>2, <1>3 DEF Next, Main

-----------------------------------------------------------------------------
(* The types, and how the main loop ends.                                  *)

\* The counters keep their bounds because they count.
LEMMA CountersTyped ==
  ASSUME PoolInv, [Next]_vars, res' \in [Jobs -> Settled \cup {"none", "lost"}]
  PROVE  active' \in 0..Cardinality(Threads) /\ finished' \in 0..N
<1>1. Accounted'
  BY AccountedStep
<1>2. Live' \in SUBSET Threads /\ SettledJobs' \in SUBSET Jobs
  BY DEF Live, SettledJobs
<1>3. Cardinality(Live') \in Nat /\ Cardinality(Live') <= Cardinality(Threads)
  BY <1>2, SomeThreads
<1>4. Cardinality(SettledJobs') \in 0..N
  BY <1>2, SomeJobs
<1>5. active' = Cardinality(Live') /\ finished' = Cardinality(SettledJobs')
  BY <1>1 DEF Accounted, SettledJobs
<1>6. QED
  BY <1>3, <1>4, <1>5, CountsTyped

LEMMA TypeStep ==
  ASSUME PoolInv, [Next]_vars
  PROVE  TypeOK'
<1> USE DEF PoolInv
<1>1. ASSUME NEW t \in Threads, Thread(t) PROVE TypeOK'
  <2>1. res' \in [Jobs -> Settled \cup {"none", "lost"}]
    BY <1>1 DEF Thread, TakeJob, Leave, EndJob, Throw, TypeOK
  <2>2. active' \in 0..Cardinality(Threads) /\ finished' \in 0..N
    BY <1>1, <2>1, CountersTyped DEF Next
  <2>3. UNCHANGED <<main, outside>>
    BY <1>1 DEF Thread, TakeJob, Leave, EndJob, Throw
  <2>4. /\ next' \in 0..N /\ running' \subseteq Jobs /\ crash' \in BOOLEAN
        /\ place' \in [Threads -> {"absent", "loop", "job"}] /\ job' \in [Threads -> Jobs]
    <3>1. CASE TakeJob(t)
      <4>1. next \in Jobs /\ next + 1 \in 0..N
        BY <3>1, PoolAssumption DEF TakeJob, MayTake, TypeOK, Jobs
      <4>2. QED
        BY <3>1, <4>1 DEF TakeJob, TypeOK
    <3>2. CASE Leave(t) \/ EndJob(t) \/ Throw(t)
      BY <3>2 DEF Leave, EndJob, Throw, TypeOK
    <3>3. QED
      BY <1>1, <3>1, <3>2 DEF Thread
  <2>5. QED
    BY <2>1, <2>2, <2>3, <2>4 DEF TypeOK, main, outside
<1>2. CASE Apply
  <2>1. UNCHANGED <<next, finished, running, crash, res, job, asked, outside>>
    BY <1>2 DEF Apply
  <2>2. active' \in 0..Cardinality(Threads)
    BY <1>2, <2>1, CountersTyped DEF TypeOK, Next, Main
  <2>3. want' \in 0..Ceiling
    BY <1>2, PoolAssumption DEF Apply, Least, TypeOK
  <2>4. place' \in [Threads -> {"absent", "loop", "job"}]
    BY <1>2 DEF Apply, TypeOK
  <2>5. pooled' \in BOOLEAN
    BY <1>2 DEF Apply, TypeOK
  <2>6. /\ mpc' \in {"write", "top", "reading", "apply", "join", "out"}
        /\ state' \in {"running", "stopped", "broken"}
        /\ beat' \in {"none", "running", "finished", "stopped", "broken"}
    BY <1>2 DEF Apply, TypeOK
  <2>7. QED
    BY <2>1, <2>2, <2>3, <2>4, <2>5, <2>6 DEF TypeOK, outside
<1>3. CASE WriteWorkers \/ ReadWorkers \/ SetWorkers
  <2>1. asked' \in 0..(MaxAsked + Workers) /\ file' \in 0..(MaxAsked + Workers)
    BY <1>3, PoolAssumption DEF WriteWorkers, ReadWorkers, SetWorkers, TypeOK, main, outside
  <2>2. requests' \in 0..MaxRequests
    BY <1>3, PoolAssumption DEF WriteWorkers, ReadWorkers, SetWorkers, TypeOK, outside
  <2>3. /\ UNCHANGED <<pool, want, pooled, state, beat>>
        /\ mpc' \in {"write", "top", "reading", "apply", "join", "out"}
    BY <1>3 DEF WriteWorkers, ReadWorkers, SetWorkers, TypeOK, main
  <2>4. QED
    BY <2>1, <2>2, <2>3 DEF TypeOK, pool
<1>4. CASE LeaveLoop \/ End \/ ReadTime \/ BeatTime \/ Over \/ UNCHANGED vars
  BY <1>4 DEF LeaveLoop, End, ReadTime, BeatTime, Over, vars, TypeOK, pool, main, outside
<1>5. QED
  BY <1>1, <1>2, <1>3, <1>4 DEF Next, Main

\* A thread's step after the loop was left: the threads that are left find no job.
LEMMA ThreadEnd ==
  ASSUME PoolInv, NEW t \in Threads, Thread(t)
  PROVE  EndInv'
<1> USE DEF PoolInv
<1>1. UNCHANGED <<main, outside>>
  BY DEF Thread, TakeJob, Leave, EndJob, Throw
<1>2. t \in Live
  BY DEF Thread, TakeJob, Leave, EndJob, Throw, Live
<1>3. state # "stopped" /\ mpc # "out"
  BY <1>2 DEF EndInv
<1>4. crash => crash'
  BY DEF Thread, TakeJob, Leave, EndJob, Throw, TypeOK
<1>5. mpc = "join" /\ state = "running" => finished' = N
  <2>1. SUFFICES ASSUME mpc = "join", state = "running" PROVE finished' = N
    OBVIOUS
  <2>2. finished = N
    BY <2>1 DEF EndInv
  <2>3. place[t] # "job"
    BY <2>2, AllSettled DEF Busy
  <2>4. QED
    BY <2>2, <2>3 DEF Thread, TakeJob, Leave, EndJob, Throw
<1>6. QED
  BY <1>1, <1>3, <1>4, <1>5 DEF EndInv, main

\* The main thread's: it leaves the loop with all settled, with a crash, or at 0 workers.
LEMMA MainEnd ==
  ASSUME PoolInv, Main
  PROVE  EndInv'
<1> USE DEF PoolInv
<1>1. CASE WriteWorkers \/ ReadWorkers
  BY <1>1 DEF WriteWorkers, ReadWorkers, EndInv, TypeOK, pool
<1>2. CASE Apply
  <2>1. state = "running" /\ crash' = crash /\ asked' = asked
    BY <1>2 DEF Apply, EndInv
  <2>2. CASE mpc' = "top"
    BY <1>2, <2>1, <2>2 DEF Apply, EndInv
  <2>3. CASE mpc' = "join"
    <3>1. /\ Least(asked, Ceiling) = 0 /\ active' = 0
          /\ state' = IF crash THEN "broken" ELSE "stopped"
      BY <1>2, <2>3 DEF Apply
    <3>2. asked = 0
      BY <3>1, PoolAssumption DEF Least, TypeOK
    <3>3. Live' = {}
      <4>1. Accounted' /\ Live' \in SUBSET Threads
        BY <1>2, AccountedStep DEF Next, Main, Live
      <4>2. QED
        BY <3>1, <4>1, SomeThreads DEF Accounted
    <3>4. QED
      BY <2>1, <2>3, <3>1, <3>2, <3>3 DEF EndInv
  <2>4. QED
    BY <1>2, <2>2, <2>3 DEF Apply
<1>3. CASE LeaveLoop
  <2>1. state = "running"
    BY <1>3 DEF LeaveLoop, EndInv
  <2>2. crash \/ finished = N
    BY <1>3, PoolAssumption DEF LeaveLoop, GoesOn, TypeOK
  <2>3. QED
    BY <1>3, <2>1, <2>2 DEF LeaveLoop, EndInv, pool
<1>4. CASE End
  <2>1. UNCHANGED <<pool, state, asked>> /\ mpc' = "out" /\ Live = {}
        /\ beat' = IF state = "running" THEN "finished" ELSE state
    BY <1>4 DEF End
  <2>2. Live' = {}
    BY <2>1 DEF Live, pool
  <2>3. QED
    BY <1>4, <2>1, <2>2 DEF End, EndInv, pool
<1>5. QED
  BY <1>1, <1>2, <1>3, <1>4 DEF Main

LEMMA EndInvStep ==
  ASSUME PoolInv, [Next]_vars
  PROVE  EndInv'
<1>1. CASE (\E t \in Threads : Thread(t)) \/ Main
  BY <1>1, ThreadEnd, MainEnd
<1>2. CASE ReadTime \/ BeatTime
  BY <1>2 DEF ReadTime, BeatTime, PoolInv, EndInv, pool
<1>3. CASE SetWorkers \/ Over \/ UNCHANGED vars
  <2>1. UNCHANGED <<pool, main>>
    BY <1>3 DEF SetWorkers, Over, vars
  <2>2. QED
    BY <2>1 DEF PoolInv, EndInv, Live, pool, main
<1>4. QED
  BY <1>1, <1>2, <1>3 DEF Next

-----------------------------------------------------------------------------
(* The theorems.                                                           *)

LEMMA PoolInit == Init => PoolInv
<1> SUFFICES ASSUME Init PROVE PoolInv
  OBVIOUS
<1>1. Live = {} /\ Busy = {} /\ SettledJobs = {} /\ running = {}
  BY DEF Init, Live, Busy, SettledJobs, Settled
<1>2. Cardinality({}) = 0 /\ Cardinality(Threads) \in Nat
  BY FS_EmptySet, CountsTyped
<1>3. TypeOK
  <2>1. 0 \in Jobs
    BY PoolAssumption DEF Jobs
  <2>2. /\ res \in [Jobs -> Settled \cup {"none", "lost"}]
        /\ place \in [Threads -> {"absent", "loop", "job"}] /\ job \in [Threads -> Jobs]
    BY <2>1 DEF Init
  <2>3. /\ next \in 0..N /\ finished \in 0..N /\ active \in 0..Cardinality(Threads)
        /\ want \in 0..Ceiling /\ running \subseteq Jobs /\ requests \in 0..MaxRequests
        /\ asked \in 0..(MaxAsked + Workers) /\ file \in 0..(MaxAsked + Workers)
    BY <1>2, PoolAssumption DEF Init
  <2>4. crash \in BOOLEAN /\ pooled \in BOOLEAN
    BY DEF Init
  <2>5. QED
    BY <2>2, <2>3, <2>4 DEF Init, TypeOK
<1>4. Accounted
  <2>1. \A j \in Jobs : j >= 0
    BY PoolAssumption DEF Jobs
  <2>2. QED
    BY <1>1, <1>2, <2>1 DEF Init, Accounted, Busy, SettledJobs
<1>5. OwnJobs /\ NeverShort /\ EndInv
  BY <1>1 DEF Init, OwnJobs, NeverShort, EndInv
<1>6. QED
  BY <1>3, <1>4, <1>5 DEF PoolInv

LEMMA PoolStep ==
  ASSUME PoolInv, [Next]_vars
  PROVE  PoolInv'
BY TypeStep, AccountedStep, EndInvStep DEF PoolInv

\* The inductive invariant holds in every reachable state.
THEOREM PoolInvariant == Spec => []PoolInv
<1>1. PoolInv /\ [Next]_vars => PoolInv'
  BY PoolStep
<1>2. QED
  BY PoolInit, <1>1, PTL DEF Spec

\* Every variable keeps its type (run_campaign's counters never leave their range).
THEOREM PoolTyped == Spec => []TypeOK
<1>1. PoolInv => TypeOK
  BY DEF PoolInv
<1>2. QED
  BY PoolInvariant, <1>1, PTL

\* The counters under the lock are what the threads do.
THEOREM CountersTrue == Spec => []Accounted
<1>1. PoolInv => Accounted
  BY DEF PoolInv
<1>2. QED
  BY PoolInvariant, <1>1, PTL

\* While jobs wait the pool has the threads last asked for.
THEOREM PoolNeverShort == Spec => []NeverShort
<1>1. PoolInv => NeverShort
  BY DEF PoolInv
<1>2. QED
  BY PoolInvariant, <1>1, PTL

\* The last heartbeat says what became of the jobs.
THEOREM LastBeatTrue == Spec => []EndIsTrue
<1>1. ASSUME PoolInv PROVE EndIsTrue
  <2>1. SUFFICES ASSUME mpc = "out"
                 PROVE  /\ Live = {} /\ running = {}
                        /\ beat = "finished" => \A j \in Jobs : res[j] \in Settled
                        /\ beat = "broken" <=> \E j \in Jobs : res[j] = "lost"
                        /\ beat = "stopped" => asked = 0
    BY DEF EndIsTrue
  <2>2. Live = {} /\ beat = IF state = "running" THEN "finished" ELSE state
    BY <1>1, <2>1 DEF PoolInv, EndInv
  <2>3. running = {}
    BY <1>1, <2>2, Running DEF Busy, Live
  <2>4. crash <=> \E j \in Jobs : res[j] = "lost"
    BY <1>1 DEF PoolInv, Accounted
  <2>5. CASE state = "running"
    <3>1. ~crash /\ \A j \in Jobs : res[j] \in Settled
      BY <1>1, <2>1, <2>5, AllSettled DEF PoolInv, EndInv
    <3>2. QED
      BY <2>2, <2>3, <2>4, <2>5, <3>1
  <2>6. CASE state = "stopped" \/ state = "broken"
    BY <1>1, <2>2, <2>3, <2>4, <2>6 DEF PoolInv, EndInv
  <2>7. QED
    BY <1>1, <2>5, <2>6 DEF PoolInv, TypeOK
<1>2. QED
  BY PoolInvariant, <1>1, PTL

\* What became of a job never changes.
THEOREM EachJobOnce == Spec => RunOnce
<1>1. ASSUME PoolInv, [Next]_vars
      PROVE  [\A j \in Jobs : res[j] # "none" => res'[j] = res[j]]_vars
  <2>1. ASSUME NEW t \in Threads, EndJob(t) \/ Throw(t)
        PROVE  \A j \in Jobs : res[j] # "none" => res'[j] = res[j]
    <3>1. res[job[t]] = "none"
      BY <1>1, <2>1, Running DEF EndJob, Throw, Busy
    <3>2. \A j \in Jobs : j # job[t] => res'[j] = res[j]
      BY <1>1, <2>1 DEF EndJob, Throw, PoolInv, TypeOK
    <3>3. QED
      BY <3>1, <3>2
  <2>2. ASSUME NEW t \in Threads, TakeJob(t) \/ Leave(t)
        PROVE  res' = res
    BY <2>2 DEF TakeJob, Leave
  <2>3. ASSUME Main \/ ReadTime \/ BeatTime \/ SetWorkers \/ Over
        PROVE  res' = res
    BY <2>3 DEF Main, WriteWorkers, ReadWorkers, Apply, LeaveLoop, End, ReadTime, BeatTime,
                SetWorkers, Over, vars, pool
  <2>4. QED
    BY <1>1, <2>1, <2>2, <2>3 DEF Next, Thread
<1>2. QED
  BY PoolInvariant, <1>1, PTL DEF Spec, RunOnce

\* A job is begun only while the pool is no larger than was last asked for.
THEOREM NoJobBeyond == Spec => NoneBeyond
<1>1. ASSUME PoolInv, [Next]_vars
      PROVE  [next' # next => Cardinality(Live) <= want]_vars
  <2>1. ASSUME NEW t \in Threads, TakeJob(t) PROVE Cardinality(Live) <= want
    BY <1>1, <2>1, Running DEF TakeJob, MayTake
  <2>2. ASSUME NEW t \in Threads, Leave(t) \/ EndJob(t) \/ Throw(t) PROVE next' = next
    BY <2>2 DEF Leave, EndJob, Throw
  <2>3. ASSUME Main \/ ReadTime \/ BeatTime \/ SetWorkers \/ Over PROVE next' = next
    BY <2>3 DEF Main, WriteWorkers, ReadWorkers, Apply, LeaveLoop, End, ReadTime, BeatTime,
                SetWorkers, Over, vars, pool
  <2>4. QED
    BY <1>1, <2>1, <2>2, <2>3 DEF Next, Thread
<1>2. QED
  BY PoolInvariant, <1>1, PTL DEF Spec, NoneBeyond
=============================================================================
