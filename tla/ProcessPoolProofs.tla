------------------------- MODULE ProcessPoolProofs -------------------------
(***************************************************************************)
(* That the Python engine's pool loses no job, runs none twice, and counts *)
(* as done only what the store has, for any number of jobs and processes.  *)
(***************************************************************************)
EXTENDS ProcessPool, FiniteSetTheorems, WellFoundedInduction, TLAPS

-----------------------------------------------------------------------------
(* The inductive invariant.                                                *)

Silent(p) == up[p] = <<>> /\ down[p] = <<>>

\* It has said that it is ready, or that it could not start; told of its job
\* and maybe said ready again; or was given a job it has not taken up.
Asking(p) == up[p] = <<Message("ready", NoJob, "done")>> /\ down[p] = <<>> /\ holds[p] = NoJob
Unfit(p) == up[p] = <<Message("broken", NoJob, "failed")>> /\ down[p] = <<>> /\ holds[p] = NoJob
Told(p, st) == up[p] = <<Message("done", holds[p], st)>> /\ down[p] = <<>> /\ holds[p] # NoJob
ToldAsking(p, st) ==
    up[p] = <<Message("done", holds[p], st), Message("ready", NoJob, "done")>> /\ down[p] = <<>> /\ holds[p] # NoJob
Given(p) == up[p] = <<>> /\ down[p] = <<holds[p]>> /\ holds[p] # NoJob

Outcomes == {"done", "failed"}
AnyPipe(p) == \/ Silent(p) \/ Asking(p) \/ Unfit(p) \/ Given(p)
              \/ \E st \in Outcomes : Told(p, st) \/ ToldAsking(p, st)

\* What a worker does, what lies in its pipe and the job the runner has it down for.
InPool(p) ==
    /\ at[p] \in {"start", "stillborn"} => Silent(p) /\ holds[p] = NoJob /\ job[p] = NoJob
    /\ at[p] = "again" => /\ job[p] = NoJob
                          /\ (Silent(p) /\ holds[p] = NoJob) \/ \E st \in Outcomes : Told(p, st)
    /\ at[p] = "idle" => /\ job[p] = NoJob
                         /\ Asking(p) \/ Given(p) \/ \E st \in Outcomes : ToldAsking(p, st)
    /\ at[p] \in {"run", "saved", "report"} => Silent(p) /\ job[p] = holds[p] /\ holds[p] # NoJob
    /\ at[p] = "left" => job[p] = NoJob /\ AnyPipe(p)
    /\ at[p] # "unborn"

\* A process that was told to leave, or is gone, or is not there yet.
OutOfPool(p) ==
    /\ up[p] = <<>> /\ holds[p] = NoJob /\ job[p] = NoJob
    /\ down[p] \in {<<>>, <<NoJob>>} /\ at[p] \in {"unborn", "idle", "left", "stillborn"}
    /\ at[p] = "unborn" => down[p] = <<>>

WorkersInv == \A p \in Procs : (p \in pool => InPool(p)) /\ (p \notin pool => OutOfPool(p))

RunnerInv ==
    /\ \A p \in heard : p \in pool /\ (up[p] # <<>> \/ ~Alive(p))
    /\ rpc = "corpses" => heard = {}
    /\ rpc = "record" => victim.pid \in Procs /\ victim.job \in Jobs /\ at[victim.pid] = "left"
    /\ rpc \notin {"record", "over"} => victim = Nobody
    /\ victim.job # NoJob => settled[victim.job] = "timeout"
    /\ rpc = "over" => \A p \in pool : ~Alive(p)
    /\ rpc = "over" /\ said = "finished" /\ ~threw => Finished = NJobs

\* Every job is in one place.
JobsInv ==
    /\ \A i, k \in 1..Len(pending) : pending[i] = pending[k] => i = k
    /\ \A i \in 1..Len(pending) : settled[pending[i]] = "no" /\ \A p \in pool : holds[p] # pending[i]
    /\ \A p \in pool : holds[p] # NoJob => /\ settled[holds[p]] = "no"
                                           /\ \A q \in pool : holds[q] = holds[p] => q = p
    /\ \A j \in Jobs : settled[j] = "no" => \/ \E i \in 1..Len(pending) : pending[i] = j
                                            \/ \E p \in pool : holds[p] = j

Rec(e) == segs[e[1]].recs[e[2]]

Untouched(j) == Places(j) = {} /\ wrote[j] = 0

\* All the store has of job j is whole.
DoneWhole(j) == Places(j) # {} /\ \A e \in Places(j) : Rec(e).status = "done" /\ Rec(e).fe = MaxFe

StoreInv ==
    /\ \A i \in 1..Len(pending) : Untouched(pending[i])
    /\ \A p \in pool : Given(p) => Untouched(holds[p])
    /\ \A p \in Procs : at[p] = "run" => /\ Places(job[p]) = {} /\ scratch[p].job = job[p]
                                         /\ wrote[job[p]] = scratch[p].fe
    /\ \A p \in Procs : at[p] \in {"saved", "report"} /\ status[p] = "done" => DoneWhole(job[p])
    /\ \A p \in pool : Told(p, "done") \/ ToldAsking(p, "done") => DoneWhole(holds[p])
    /\ \A j \in Jobs : /\ settled[j] = "done" => DoneWhole(j)
                       /\ settled[j] = "timeout" /\ victim.job # j => Places(j) # {}

PoolInv == TypeOK /\ WorkersInv /\ RunnerInv /\ JobsInv /\ StoreInv

-----------------------------------------------------------------------------
(* Types.                                                                  *)

\* The pipes hold at most two words.
LEMMA Words ==
  ASSUME NEW M, NEW m \in M, NEW n \in M
  PROVE  /\ Append(<<>>, m) = <<m>> /\ Append(<<m>>, n) = <<m, n>>
         /\ Head(<<m>>) = m /\ Head(<<m, n>>) = m /\ Tail(<<m>>) = <<>> /\ Tail(<<m, n>>) = <<n>>
         /\ <<m>> # <<>> /\ <<m, n>> # <<>>
<1>1. Append(<<m>>, n) = <<m, n>>
  <2> DEFINE s == Append(<<m>>, n)
  <2>1. s \in Seq(M) /\ Len(s) = 2 /\ s[1] = m /\ s[2] = n
    OBVIOUS
  <2> HIDE DEF s
  <2>2. s = <<m, n>>
    BY <2>1
  <2>3. QED
    BY <2>2 DEF s
<1>2. QED
  BY <1>1

LEMMA MessageTyped ==
  ASSUME NEW kind \in {"ready", "done", "broken"}, NEW j \in Jobs \cup {NoJob}, NEW st \in Outcomes
  PROVE  /\ Message(kind, j, st) \in Messages
         /\ Message(kind, j, st).kind = kind /\ Message(kind, j, st).job = j /\ Message(kind, j, st).status = st
BY DEF Message, Messages, Outcomes

LEMMA JobsTyped == NoJob \notin Jobs /\ Jobs \subseteq Nat /\ Procs \subseteq Nat /\ Runner \notin Procs
BY PoolAssumption DEF Jobs, Procs, NoJob, Runner

\* Send and Goto, with their types.
LEMMA SendTyped ==
  ASSUME up \in [Procs -> Seq(Messages)], NEW p \in Procs, NEW m \in Messages, Send(p, m)
  PROVE  up' \in [Procs -> Seq(Messages)] /\ up'[p] = Append(up[p], m) /\ \A q \in Procs : q # p => up'[q] = up[q]
<1>1. Append(up[p], m) \in Seq(Messages)
  OBVIOUS
<1>2. up' = [up EXCEPT ![p] = Append(up[p], m)]
  BY DEF Send
<1>3. QED
  BY <1>1, <1>2

\* A record appended: the segments are of their type, each place keeps its
\* record, and what is new is the record.
LEMMA RecordAppended ==
  ASSUME segs \in Seq(Segments), NEW w \in Procs \cup {Runner}, NEW r \in Records, AppendRecord(w, r)
  PROVE  /\ segs' \in Seq(Segments)
         /\ \A j \in Jobs : \A e \in Places(j) : e \in Places(j)' /\ Rec(e)' = Rec(e)
         /\ \A j \in Jobs : \A e \in Places(j)' : (e \in Places(j) /\ Rec(e)' = Rec(e)) \/ (Rec(e)' = r /\ j = r.job)
         /\ Places(r.job)' # {}
<1>0. /\ \A i \in 1..Len(segs) : segs[i] \in Segments /\ segs[i].recs \in Seq(Records)
                               /\ segs[i].by \in Procs \cup {Runner}
      /\ Len(segs) \in Nat
  <2>1. \A i \in 1..Len(segs) : segs[i] \in Segments
    OBVIOUS
  <2>2. QED
    BY <2>1 DEF Segments
<1> DEFINE More(i) == [segs[i] EXCEPT !.recs = Append(segs[i].recs, r)]
<1>1. ASSUME NEW i \in 1..Len(segs)
      PROVE  /\ More(i) \in Segments /\ More(i).by = segs[i].by
             /\ Len(More(i).recs) = Len(segs[i].recs) + 1 /\ Len(segs[i].recs) \in Nat
             /\ More(i).recs[Len(segs[i].recs) + 1] = r
             /\ \A k \in 1..Len(segs[i].recs) : More(i).recs[k] = segs[i].recs[k]
  <2>1. Append(segs[i].recs, r) \in Seq(Records)
    BY <1>0
  <2>2. More(i).recs = Append(segs[i].recs, r) /\ More(i).by = segs[i].by /\ More(i) \in Segments
    BY <1>0, <2>1 DEF Segments
  <2>3. QED
    BY <1>0, <2>2
<1>2. CASE \E i \in 1..Len(segs) : segs[i].by = w
  <2>1. segs' = [i \in 1..Len(segs) |-> IF segs[i].by = w THEN More(i) ELSE segs[i]]
    BY <1>2 DEF AppendRecord
  <2> HIDE DEF More
  <2>2. segs' \in Seq(Segments) /\ Len(segs') = Len(segs)
    BY <1>0, <1>1, <2>1
  <2>3. \A i \in 1..Len(segs) : segs'[i] = IF segs[i].by = w THEN More(i) ELSE segs[i]
    BY <2>1
  <2>4. ASSUME NEW i \in 1..Len(segs)
        PROVE  /\ Len(segs'[i].recs) \in Nat /\ Len(segs[i].recs) \in Nat /\ Len(segs[i].recs) <= Len(segs'[i].recs)
               /\ \A k \in 1..Len(segs[i].recs) : segs'[i].recs[k] = segs[i].recs[k]
               /\ \A k \in 1..Len(segs'[i].recs) : k \in 1..Len(segs[i].recs) \/ segs'[i].recs[k] = r
    <3>1. CASE segs[i].by = w
      BY <1>0, <1>1, <2>3, <3>1
    <3>2. CASE segs[i].by # w
      BY <1>0, <2>3, <3>2
    <3>3. QED
      BY <3>1, <3>2
  <2>5. \A j \in Jobs : \A e \in Places(j) : e \in Places(j)' /\ Rec(e)' = Rec(e)
    BY <2>2, <2>4 DEF Places, Rec
  <2>6. \A j \in Jobs : \A e \in Places(j)' : (e \in Places(j) /\ Rec(e)' = Rec(e)) \/ (Rec(e)' = r /\ j = r.job)
    BY <2>2, <2>4 DEF Places, Rec
  <2>7. Places(r.job)' # {}
    <3>1. PICK i \in 1..Len(segs) : segs[i].by = w
      BY <1>2
    <3>2. segs'[i] = More(i)
      BY <2>3, <3>1
    <3>3. Len(segs[i].recs) + 1 \in 1..Len(segs'[i].recs) /\ segs'[i].recs[Len(segs[i].recs) + 1] = r
      BY <1>1, <3>2
    <3>4. <<i, Len(segs[i].recs) + 1>> \in Places(r.job)'
      BY <2>2, <3>3 DEF Places
    <3>5. QED
      BY <3>4
  <2>8. QED
    BY <2>2, <2>5, <2>6, <2>7
<1>3. CASE ~\E i \in 1..Len(segs) : segs[i].by = w
  <2> DEFINE new == [by |-> w, recs |-> <<r>>]
  <2>1. segs' = Append(segs, new)
    BY <1>3 DEF AppendRecord
  <2>2. new \in Segments /\ Len(new.recs) = 1 /\ new.recs[1] = r
    BY DEF Segments
  <2> HIDE DEF new
  <2>3. /\ segs' \in Seq(Segments) /\ Len(segs') = Len(segs) + 1 /\ segs'[Len(segs) + 1] = new
        /\ \A i \in 1..Len(segs) : segs'[i] = segs[i]
    BY <2>1, <2>2
  <2>4. \A j \in Jobs : \A e \in Places(j) : e \in Places(j)' /\ Rec(e)' = Rec(e)
    BY <1>0, <2>3 DEF Places, Rec
  <2>5. \A j \in Jobs : \A e \in Places(j)' : (e \in Places(j) /\ Rec(e)' = Rec(e)) \/ (Rec(e)' = r /\ j = r.job)
    <3>1. SUFFICES ASSUME NEW j \in Jobs, NEW i \in 1..Len(segs'), NEW k \in 1..Len(segs'[i].recs),
                          segs'[i].recs[k].job = j
                   PROVE  \/ <<i, k>> \in Places(j) /\ segs'[i].recs[k] = segs[i].recs[k]
                          \/ segs'[i].recs[k] = r /\ j = r.job
      BY DEF Places, Rec
    <3>2. CASE i \in 1..Len(segs)
      BY <2>3, <3>1, <3>2 DEF Places
    <3>3. CASE i = Len(segs) + 1
      BY <2>2, <2>3, <3>1, <3>3
    <3>4. QED
      BY <1>0, <2>3, <3>2, <3>3
  <2>6. Places(r.job)' # {}
    <3>1. Len(segs) + 1 \in 1..Len(segs') /\ 1 \in 1..Len(segs'[Len(segs) + 1].recs)
          /\ segs'[Len(segs) + 1].recs[1] = r
      BY <1>0, <2>2, <2>3
    <3>2. <<Len(segs) + 1, 1>> \in Places(r.job)'
      BY <3>1 DEF Places
    <3>3. QED
      BY <3>2
  <2>7. QED
    BY <2>3, <2>4, <2>5, <2>6
<1>4. QED
  BY <1>2, <1>3

-----------------------------------------------------------------------------
(* The steps of a worker.                                                  *)

\* The state of process q, the runner's of it aside.
Process(q) == <<at[q], job[q], status[q], up[q], down[q], scratch[q]>>

LEMMA WorkerFrame ==
  ASSUME TypeOK, NEW p \in Procs, WorkerStep(p) \/ Die(p)
  PROVE  UNCHANGED <<runner, asked>> /\ \A q \in Procs : q # p => UNCHANGED Process(q)
<1> USE DEF TypeOK, WorkerTypes, Process
<1>1. CASE Load(p)
  BY <1>1 DEF Load, Goto, Send
<1>2. CASE AskForJob(p)
  BY <1>2 DEF AskForJob, Goto, Send
<1>3. CASE TakeJob(p)
  BY <1>3 DEF TakeJob, Goto
<1>4. CASE WriteTrajectory(p)
  <2>1. scratch' = [scratch EXCEPT ![p] = [scratch[p] EXCEPT !.fe = @ + 1]]
    BY <1>4 DEF WriteTrajectory
  <2>2. QED
    BY <1>4, <2>1 DEF WriteTrajectory
<1>5. CASE SaveRun(p)
  BY <1>5 DEF SaveRun, Goto
<1>6. CASE RemoveScratch(p)
  BY <1>6 DEF RemoveScratch, Goto
<1>7. CASE JobCrashed(p)
  BY <1>7 DEF JobCrashed, Goto
<1>8. CASE Report(p)
  BY <1>8 DEF Report, Goto, Send
<1>9. CASE Die(p)
  BY <1>9 DEF Die, Vanish, Goto
<1>10. QED
  BY <1>1, <1>2, <1>3, <1>4, <1>5, <1>6, <1>7, <1>8, <1>9 DEF WorkerStep

\* A run that a living worker is at belongs to a job.
LEMMA Running ==
  ASSUME TypeOK, WorkersInv, NEW p \in Procs, at[p] \in {"run", "saved", "report"}
  PROVE  p \in pool /\ job[p] = holds[p] /\ job[p] \in Jobs /\ Silent(p) /\ Alive(p)
<1>1. p \in pool /\ InPool(p)
  BY DEF WorkersInv, OutOfPool
<1>2. job[p] \in Jobs \cup {NoJob}
  BY DEF TypeOK, WorkerTypes
<1>3. QED
  BY <1>1, <1>2 DEF InPool, Alive, Gone

LEMMA TypesWorker ==
  ASSUME PoolInv, NEW p \in Procs, WorkerStep(p) \/ Die(p)
  PROVE  TypeOK'
<1>0. UNCHANGED <<runner, asked>> /\ TypeOK /\ WorkersInv /\ StoreInv
  BY WorkerFrame DEF PoolInv
<1>00. RunnerTypes'
  BY <1>0 DEF runner, RunnerTypes, TypeOK
<1>11. ASSUME NEW place \in {"left", "stillborn", "again", "idle", "run", "saved", "report"}, Goto(p, place)
       PROVE  at' \in [Procs -> Gone \cup {"start", "again", "idle", "run", "saved", "report"}]
  BY <1>0, <1>11 DEF Goto, Gone, TypeOK, WorkerTypes
<1>1. CASE Load(p)
  <2>1. up' \in [Procs -> Seq(Messages)]
    BY <1>0, <1>1, MessageTyped, SendTyped DEF Load, TypeOK, WorkerTypes, Outcomes
  <2>2. at' \in [Procs -> Gone \cup {"start", "again", "idle", "run", "saved", "report"}]
    BY <1>1, <1>11 DEF Load
  <2>3. QED
    BY <1>0, <1>00, <1>1, <2>1, <2>2 DEF Load, TypeOK, WorkerTypes
<1>2. CASE AskForJob(p)
  <2>1. up' \in [Procs -> Seq(Messages)]
    BY <1>0, <1>2, MessageTyped, SendTyped DEF AskForJob, TypeOK, WorkerTypes, Outcomes
  <2>2. at' \in [Procs -> Gone \cup {"start", "again", "idle", "run", "saved", "report"}]
    BY <1>2, <1>11 DEF AskForJob
  <2>3. QED
    BY <1>0, <1>00, <1>2, <2>1, <2>2 DEF AskForJob, TypeOK, WorkerTypes
<1>3. CASE TakeJob(p)
  <2>1. /\ down[p] \in Seq(Jobs \cup {NoJob}) /\ down[p] # <<>>
        /\ down' = [down EXCEPT ![p] = Tail(down[p])]
        /\ job' = [job EXCEPT ![p] = Head(down[p])]
        /\ status' = [status EXCEPT ![p] = "done"]
        /\ \/ scratch' = [scratch EXCEPT ![p] = scratch[p]] /\ (Goto(p, "left") \/ Goto(p, "report"))
           \/ scratch' = [scratch EXCEPT ![p] = [job |-> Head(down[p]), fe |-> 0]] /\ Goto(p, "run")
    BY <1>0, <1>3 DEF TakeJob, TypeOK, WorkerTypes
  <2>2. Tail(down[p]) \in Seq(Jobs \cup {NoJob}) /\ Head(down[p]) \in Jobs \cup {NoJob}
    BY <2>1
  <2>3. at' \in [Procs -> Gone \cup {"start", "again", "idle", "run", "saved", "report"}]
    BY <1>11, <2>1
  <2>4. scratch' \in [Procs -> [job : Jobs \cup {NoJob}, fe : 0..MaxFe]]
    <3>1. [job |-> Head(down[p]), fe |-> 0] \in [job : Jobs \cup {NoJob}, fe : 0..MaxFe]
      BY <2>2, PoolAssumption
    <3>2. QED
      BY <1>0, <2>1, <3>1 DEF TypeOK, WorkerTypes
  <2>5. down' \in [Procs -> Seq(Jobs \cup {NoJob})] /\ job' \in [Procs -> Jobs \cup {NoJob}]
        /\ status' \in [Procs -> {"done", "failed"}]
    BY <1>0, <2>1, <2>2 DEF TypeOK, WorkerTypes
  <2>6. QED
    BY <1>0, <1>00, <1>3, <2>3, <2>4, <2>5 DEF TakeJob, TypeOK, WorkerTypes
<1>4. CASE WriteTrajectory(p)
  <2>1. /\ scratch[p] \in [job : Jobs \cup {NoJob}, fe : 0..MaxFe] /\ scratch[p].fe < MaxFe /\ at[p] = "run"
        /\ scratch' = [scratch EXCEPT ![p] = [scratch[p] EXCEPT !.fe = scratch[p].fe + 1]]
        /\ wrote' = [wrote EXCEPT ![job[p]] = wrote[job[p]] + 1]
    BY <1>0, <1>4 DEF WriteTrajectory, TypeOK, WorkerTypes
  <2>2. wrote[job[p]] = scratch[p].fe /\ scratch[p].fe + 1 \in 0..MaxFe
    BY <1>0, <2>1, PoolAssumption DEF StoreInv
  <2>3. [scratch[p] EXCEPT !.fe = scratch[p].fe + 1] \in [job : Jobs \cup {NoJob}, fe : 0..MaxFe]
    BY <2>1, <2>2
  <2>4. scratch' \in [Procs -> [job : Jobs \cup {NoJob}, fe : 0..MaxFe]] /\ wrote' \in [Jobs -> 0..MaxFe]
    BY <1>0, <2>1, <2>2, <2>3 DEF TypeOK, WorkerTypes
  <2>5. QED
    BY <1>0, <1>00, <1>4, <2>4 DEF WriteTrajectory, TypeOK, WorkerTypes
<1>5. CASE SaveRun(p)
  <2>1. at[p] = "run" /\ job[p] \in Jobs /\ scratch[p] \in [job : Jobs \cup {NoJob}, fe : 0..MaxFe]
    BY <1>0, <1>5, Running DEF SaveRun, TypeOK, WorkerTypes
  <2>2. PICK st \in Outcomes : /\ status' = [status EXCEPT ![p] = st]
                               /\ AppendRecord(p, [job |-> job[p], status |-> st, fe |-> scratch[p].fe])
    BY <1>5 DEF SaveRun, Outcomes
  <2>3. [job |-> job[p], status |-> st, fe |-> scratch[p].fe] \in Records
    BY <2>1 DEF Records, Outcomes
  <2>4. segs' \in Seq(Segments)
    BY <1>0, <2>2, <2>3, RecordAppended DEF TypeOK
  <2>5. at' \in [Procs -> Gone \cup {"start", "again", "idle", "run", "saved", "report"}]
    BY <1>5, <1>11 DEF SaveRun
  <2>6. status' \in [Procs -> {"done", "failed"}]
    BY <1>0, <2>2 DEF TypeOK, WorkerTypes, Outcomes
  <2>7. QED
    BY <1>0, <1>00, <1>5, <2>4, <2>5, <2>6 DEF SaveRun, TypeOK, WorkerTypes
<1>6. CASE RemoveScratch(p)
  <2>1. NoFolder \in [job : Jobs \cup {NoJob}, fe : 0..MaxFe]
    BY PoolAssumption DEF NoFolder
  <2>2. scratch' \in [Procs -> [job : Jobs \cup {NoJob}, fe : 0..MaxFe]]
    BY <1>0, <1>6, <2>1 DEF RemoveScratch, TypeOK, WorkerTypes
  <2>3. at' \in [Procs -> Gone \cup {"start", "again", "idle", "run", "saved", "report"}]
    BY <1>6, <1>11 DEF RemoveScratch
  <2>4. QED
    BY <1>0, <1>00, <1>6, <2>2, <2>3 DEF RemoveScratch, TypeOK, WorkerTypes
<1>7. CASE JobCrashed(p)
  <2>1. at' \in [Procs -> Gone \cup {"start", "again", "idle", "run", "saved", "report"}]
    BY <1>7, <1>11 DEF JobCrashed
  <2>2. QED
    BY <1>0, <1>00, <1>7, <2>1 DEF JobCrashed, TypeOK, WorkerTypes
<1>8. CASE Report(p)
  <2>1. Message("done", job[p], status[p]) \in Messages
    <3>1. job[p] \in Jobs \cup {NoJob} /\ status[p] \in Outcomes
      BY <1>0 DEF TypeOK, WorkerTypes, Outcomes
    <3>2. QED
      BY <3>1, MessageTyped
  <2>2. up' \in [Procs -> Seq(Messages)]
    BY <1>0, <1>8, <2>1, SendTyped DEF Report, TypeOK, WorkerTypes
  <2>3. at' \in [Procs -> Gone \cup {"start", "again", "idle", "run", "saved", "report"}]
    BY <1>8, <1>11 DEF Report
  <2>4. QED
    BY <1>0, <1>00, <1>8, <2>2, <2>3 DEF Report, TypeOK, WorkerTypes
<1>9. CASE Die(p)
  <2>1. at' \in [Procs -> Gone \cup {"start", "again", "idle", "run", "saved", "report"}]
    BY <1>9, <1>11 DEF Die, Vanish
  <2>2. events' \in 0..MaxEvents
    BY <1>0, <1>9, PoolAssumption DEF Die, TypeOK
  <2>3. QED
    BY <1>0, <1>00, <1>9, <2>1, <2>2 DEF Die, Vanish, TypeOK, WorkerTypes
<1>10. QED
  BY <1>1, <1>2, <1>3, <1>4, <1>5, <1>6, <1>7, <1>8, <1>9 DEF WorkerStep

\* Other processes, and what the runner has them down for, stay as they are.
LEMMA OthersStay ==
  ASSUME WorkersInv, NEW p \in Procs,
         \A q \in Procs : q # p => UNCHANGED Process(q) /\ holds'[q] = holds[q] /\ (q \in pool <=> q \in pool'),
         (p \in pool' => InPool(p)') /\ (p \notin pool' => OutOfPool(p)')
  PROVE  WorkersInv'
<1>1. ASSUME NEW q \in Procs, q # p
      PROVE  (q \in pool' => InPool(q)') /\ (q \notin pool' => OutOfPool(q)')
  <2>1. /\ at'[q] = at[q] /\ job'[q] = job[q] /\ up'[q] = up[q] /\ down'[q] = down[q] /\ holds'[q] = holds[q]
        /\ q \in pool <=> q \in pool'
    BY <1>1 DEF Process
  <2>2. InPool(q) => InPool(q)'
    BY <2>1 DEF InPool, Silent, Asking, Unfit, Told, ToldAsking, Given, AnyPipe
  <2>3. OutOfPool(q) => OutOfPool(q)'
    BY <2>1 DEF OutOfPool
  <2>4. QED
    BY <2>1, <2>2, <2>3 DEF WorkersInv
<1>2. QED
  BY <1>1 DEF WorkersInv

LEMMA WorkersWorker ==
  ASSUME PoolInv, NEW p \in Procs, WorkerStep(p) \/ Die(p)
  PROVE  WorkersInv'
<1>0. /\ TypeOK /\ WorkersInv /\ pool' = pool /\ holds' = holds
      /\ \A q \in Procs : q # p => UNCHANGED Process(q)
  BY WorkerFrame DEF PoolInv, runner
<1> SUFFICES (p \in pool => InPool(p)') /\ (p \notin pool => OutOfPool(p)')
  BY <1>0, OthersStay
<1>1. /\ at \in [Procs -> Gone \cup {"start", "again", "idle", "run", "saved", "report"}]
      /\ job \in [Procs -> Jobs \cup {NoJob}] /\ status \in [Procs -> Outcomes]
      /\ up \in [Procs -> Seq(Messages)] /\ down \in [Procs -> Seq(Jobs \cup {NoJob})]
      /\ holds[p] \in Jobs \cup {NoJob}
  BY <1>0 DEF TypeOK, WorkerTypes, RunnerTypes, Outcomes
<1>2. (p \in pool => InPool(p)) /\ (p \notin pool => OutOfPool(p))
  BY <1>0 DEF WorkersInv
<1>3. CASE Load(p)
  <2>1. p \in pool /\ Silent(p) /\ holds[p] = NoJob /\ job[p] = NoJob
    BY <1>2, <1>3 DEF Load, InPool, OutOfPool
  <2>2. \/ at'[p] = "again" /\ up' = up
        \/ at'[p] = "left" /\ up'[p] = Append(<<>>, Message("broken", NoJob, "failed"))
    BY <1>1, <1>3, <2>1 DEF Load, Goto, Send, Silent
  <2>3. Append(<<>>, Message("broken", NoJob, "failed")) = <<Message("broken", NoJob, "failed")>>
    BY Words
  <2>4. UNCHANGED <<down, holds, job>>
    BY <1>0, <1>3 DEF Load
  <2>5. InPool(p)'
    BY <2>1, <2>2, <2>3, <2>4 DEF InPool, AnyPipe, Silent, Unfit
  <2>6. QED
    BY <2>1, <2>5
<1>4. CASE AskForJob(p)
  <2>1. /\ p \in pool /\ job[p] = NoJob
        /\ (Silent(p) /\ holds[p] = NoJob) \/ \E st \in Outcomes : Told(p, st)
    BY <1>2, <1>4 DEF AskForJob, InPool, OutOfPool
  <2>2. /\ at'[p] = "idle" /\ up'[p] = Append(up[p], Message("ready", NoJob, "done"))
        /\ UNCHANGED <<down, holds, job>>
    BY <1>0, <1>1, <1>4 DEF AskForJob, Goto, Send
  <2>3. CASE Silent(p) /\ holds[p] = NoJob
    <3>1. up'[p] = <<Message("ready", NoJob, "done")>>
      BY <2>2, <2>3, Words DEF Silent
    <3>2. QED
      BY <2>1, <2>2, <2>3, <3>1 DEF InPool, Asking, Silent
  <2>4. ASSUME NEW st \in Outcomes, Told(p, st) PROVE InPool(p)'
    <3>1. Message("done", holds[p], st) \in Messages /\ Message("ready", NoJob, "done") \in Messages
      BY <1>1, MessageTyped DEF Outcomes
    <3>2. up'[p] = <<Message("done", holds[p], st), Message("ready", NoJob, "done")>>
      BY <2>2, <2>4, <3>1, Words DEF Told
    <3>3. ToldAsking(p, st)'
      BY <2>2, <2>4, <3>2 DEF ToldAsking, Told
    <3>4. QED
      BY <2>1, <2>2, <3>3 DEF InPool
  <2>5. QED
    BY <2>1, <2>3, <2>4
<1>5. CASE TakeJob(p)
  <2>1. at[p] = "idle" /\ down[p] # <<>> /\ job[p] = NoJob
    BY <1>2, <1>5 DEF TakeJob, InPool, OutOfPool
  <2>2. down'[p] = Tail(down[p]) /\ job'[p] = Head(down[p]) /\ UNCHANGED <<up, holds>>
    BY <1>0, <1>1, <1>5 DEF TakeJob
  <2>3. at'[p] \in IF Head(down[p]) = NoJob THEN {"left"} ELSE {"run", "report"}
    BY <1>1, <1>5 DEF TakeJob, Goto
  <2>4. CASE p \in pool
    <3>1. Given(p)
      BY <1>2, <2>1, <2>4 DEF InPool, Asking, ToldAsking
    <3>2. Head(down[p]) = holds[p] /\ Tail(down[p]) = <<>>
      BY <3>1, Words DEF Given
    <3>3. QED
      BY <2>2, <2>3, <2>4, <3>1, <3>2 DEF InPool, Silent, Given
  <2>5. CASE p \notin pool
    <3>1. down[p] = <<NoJob>> /\ up[p] = <<>> /\ holds[p] = NoJob
      BY <1>2, <2>1, <2>5 DEF OutOfPool
    <3>2. Head(down[p]) = NoJob /\ Tail(down[p]) = <<>>
      BY <3>1, Words
    <3>3. QED
      BY <2>2, <2>3, <2>5, <3>1, <3>2 DEF OutOfPool
  <2>6. QED
    BY <2>4, <2>5
<1>6. CASE WriteTrajectory(p) \/ SaveRun(p) \/ RemoveScratch(p) \/ JobCrashed(p)
  <2>1. p \in pool /\ Silent(p) /\ job[p] = holds[p] /\ holds[p] # NoJob
    BY <1>2, <1>6 DEF WriteTrajectory, SaveRun, RemoveScratch, JobCrashed, InPool, OutOfPool
  <2>2. at'[p] \in {"run", "saved", "report"} /\ UNCHANGED <<up, down, holds, job>>
    BY <1>0, <1>1, <1>6 DEF WriteTrajectory, SaveRun, RemoveScratch, JobCrashed, Goto
  <2>3. QED
    BY <2>1, <2>2 DEF InPool, Silent
<1>7. CASE Report(p)
  <2>1. p \in pool /\ Silent(p) /\ job[p] = holds[p] /\ holds[p] # NoJob /\ status[p] \in Outcomes
    BY <1>1, <1>2, <1>7 DEF Report, InPool, OutOfPool
  <2>2. /\ at'[p] = "again" /\ up'[p] = Append(up[p], Message("done", job[p], status[p]))
        /\ job'[p] = NoJob /\ UNCHANGED <<down, holds>>
    BY <1>0, <1>1, <1>7 DEF Report, Goto, Send
  <2>3. up'[p] = <<Message("done", holds[p], status[p])>>
    BY <2>1, <2>2, Words DEF Silent
  <2>4. PICK st \in Outcomes : st = status[p]
    BY <2>1
  <2>5. Told(p, st)'
    BY <2>1, <2>2, <2>3, <2>4 DEF Told, Silent
  <2>6. QED
    BY <2>1, <2>2, <2>5 DEF InPool
<1>8. CASE Die(p)
  <2>1. /\ at[p] \notin Gone /\ at'[p] = (IF at[p] = "start" THEN "stillborn" ELSE "left") /\ job'[p] = NoJob
        /\ UNCHANGED <<up, down, holds>>
    BY <1>0, <1>1, <1>8 DEF Die, Vanish, Goto, Alive
  <2>2. CASE p \in pool
    <3>1. AnyPipe(p) /\ (at[p] = "start" => Silent(p) /\ holds[p] = NoJob)
      BY <1>1, <1>2, <2>1, <2>2 DEF InPool, AnyPipe, Gone
    <3>2. AnyPipe(p)'
      BY <2>1, <3>1 DEF AnyPipe, Silent, Asking, Unfit, Told, ToldAsking, Given
    <3>3. QED
      BY <2>1, <2>2, <3>1, <3>2 DEF InPool, Silent
  <2>3. CASE p \notin pool
    BY <1>2, <2>1, <2>3 DEF OutOfPool, Gone
  <2>4. QED
    BY <2>2, <2>3
<1>9. QED
  BY <1>3, <1>4, <1>5, <1>6, <1>7, <1>8 DEF WorkerStep

LEMMA RunnerWorker ==
  ASSUME PoolInv, NEW p \in Procs, WorkerStep(p) \/ Die(p)
  PROVE  RunnerInv' /\ JobsInv'
<1>0. /\ TypeOK /\ WorkersInv /\ RunnerInv /\ JobsInv /\ UNCHANGED runner
      /\ \A q \in Procs : q # p => at'[q] = at[q] /\ up'[q] = up[q]
  BY WorkerFrame DEF PoolInv, Process
<1>1. JobsInv'
  BY <1>0 DEF JobsInv, runner
<1>2. Alive(p)
  BY DEF WorkerStep, Die, Load, AskForJob, TakeJob, WriteTrajectory, SaveRun, RemoveScratch, JobCrashed, Report,
         Alive, Gone
<1>3. up[p] # <<>> => up'[p] # <<>>
  <2>1. up'[p] = up[p] \/ \E m \in Messages : up'[p] = Append(up[p], m)
    <3>1. up \in [Procs -> Seq(Messages)] /\ job[p] \in Jobs \cup {NoJob} /\ status[p] \in Outcomes
      BY <1>0 DEF TypeOK, WorkerTypes, Outcomes
    <3>2. ASSUME NEW m \in Messages, Send(p, m) PROVE up'[p] = Append(up[p], m)
      BY <3>1, <3>2, SendTyped
    <3>3. /\ Message("broken", NoJob, "failed") \in Messages /\ Message("ready", NoJob, "done") \in Messages
          /\ Message("done", job[p], status[p]) \in Messages
      BY <3>1, MessageTyped DEF Outcomes
    <3>4. \/ up' = up \/ Send(p, Message("broken", NoJob, "failed")) \/ Send(p, Message("ready", NoJob, "done"))
          \/ Send(p, Message("done", job[p], status[p]))
      BY DEF WorkerStep, Die, Load, AskForJob, TakeJob, WriteTrajectory, SaveRun, RemoveScratch, JobCrashed, Report
    <3>5. QED
      BY <3>2, <3>3, <3>4
  <2>2. up[p] \in Seq(Messages)
    BY <1>0 DEF TypeOK, WorkerTypes
  <2>3. QED
    BY <2>1, <2>2
<1>4. \A q \in Procs : ~Alive(q) => ~Alive(q)' /\ at'[q] = at[q]
  BY <1>0, <1>2 DEF Alive
<1>5. heard \subseteq Procs /\ pool \subseteq Procs
  BY <1>0 DEF TypeOK, RunnerTypes
<1>6. \A q \in heard' : q \in pool' /\ (up'[q] # <<>> \/ ~Alive(q)')
  BY <1>0, <1>3, <1>4, <1>5 DEF RunnerInv, runner
<1>7. rpc' = "over" => \A q \in pool' : ~Alive(q)'
  BY <1>0, <1>4, <1>5 DEF RunnerInv, runner
<1>8. rpc' = "record" => victim'.pid \in Procs /\ victim'.job \in Jobs /\ at'[victim'.pid] = "left"
  BY <1>0, <1>4 DEF RunnerInv, runner, Alive, Gone
<1>9. Finished' = Finished
  BY <1>0 DEF Finished, runner
<1>10. RunnerInv'
  BY <1>0, <1>6, <1>7, <1>8, <1>9 DEF RunnerInv, runner
<1>11. QED
  BY <1>1, <1>10

\* What the store and the trajectories have of the jobs the worker does not run.
LEMMA OthersKept ==
  ASSUME PoolInv, NEW p \in Procs, WorkerStep(p) \/ Die(p), NEW j \in Jobs, ~(at[p] = "run" /\ j = job[p])
  PROVE  /\ Places(j)' = Places(j) /\ (\A e \in Places(j) : Rec(e)' = Rec(e))
         /\ wrote'[j] = wrote[j]
<1>0. TypeOK /\ WorkersInv
  BY DEF PoolInv
<1>1. CASE SaveRun(p)
  <2>1. at[p] = "run" /\ job[p] \in Jobs /\ scratch[p] \in [job : Jobs \cup {NoJob}, fe : 0..MaxFe]
    BY <1>0, <1>1, Running DEF SaveRun, TypeOK, WorkerTypes
  <2>2. PICK st \in Outcomes : AppendRecord(p, [job |-> job[p], status |-> st, fe |-> scratch[p].fe])
    BY <1>1 DEF SaveRun, Outcomes
  <2>3. PICK r \in Records : r.job = job[p] /\ AppendRecord(p, r)
    BY <2>1, <2>2 DEF Records, Outcomes
  <2>4. /\ \A e \in Places(j) : e \in Places(j)' /\ Rec(e)' = Rec(e)
        /\ \A e \in Places(j)' : e \in Places(j) \/ j = r.job
    BY <1>0, <2>3, RecordAppended DEF TypeOK
  <2>5. j # r.job /\ wrote' = wrote
    BY <1>1, <2>1, <2>3 DEF SaveRun
  <2>6. Places(j)' = Places(j)
    BY <2>4, <2>5
  <2>7. QED
    BY <2>4, <2>5, <2>6
<1>2. CASE WriteTrajectory(p)
  <2>1. wrote' = [wrote EXCEPT ![job[p]] = wrote[job[p]] + 1] /\ segs' = segs /\ at[p] = "run"
    BY <1>2 DEF WriteTrajectory
  <2>2. QED
    BY <1>0, <2>1 DEF Places, Rec, TypeOK, WorkerTypes
<1>3. CASE ~SaveRun(p) /\ ~WriteTrajectory(p)
  <2>1. UNCHANGED <<segs, wrote>>
    BY <1>3 DEF WorkerStep, Die, Load, AskForJob, TakeJob, RemoveScratch, JobCrashed, Report
  <2>2. QED
    BY <2>1 DEF Places, Rec
<1>4. QED
  BY <1>1, <1>2, <1>3

LEMMA StaysWhole ==
  ASSUME NEW j, Places(j)' = Places(j), \A e \in Places(j) : Rec(e)' = Rec(e)
  PROVE  DoneWhole(j) => DoneWhole(j)'
BY DEF DoneWhole

\* The record of a run that is saved.
LEMMA SavedIs ==
  ASSUME PoolInv, NEW p \in Procs, SaveRun(p), status'[p] = "done"
  PROVE  DoneWhole(job[p])'
<1>0. TypeOK /\ WorkersInv /\ StoreInv
  BY DEF PoolInv
<1>1. /\ at[p] = "run" /\ job[p] \in Jobs /\ scratch[p] \in [job : Jobs \cup {NoJob}, fe : 0..MaxFe]
      /\ job' = job
  BY <1>0, Running DEF SaveRun, TypeOK, WorkerTypes
<1>2. /\ scratch[p].fe = MaxFe
      /\ AppendRecord(p, [job |-> job[p], status |-> "done", fe |-> scratch[p].fe])
  <2>1. PICK st \in Outcomes : /\ st = "done" => scratch[p].fe = MaxFe
                               /\ status' = [status EXCEPT ![p] = st]
                               /\ AppendRecord(p, [job |-> job[p], status |-> st, fe |-> scratch[p].fe])
    BY DEF SaveRun, Outcomes
  <2>2. st = "done"
    BY <1>0, <2>1 DEF TypeOK, WorkerTypes
  <2>3. QED
    BY <2>1, <2>2
<1>3. PICK r \in Records : r.job = job[p] /\ r.status = "done" /\ r.fe = MaxFe /\ AppendRecord(p, r)
  BY <1>1, <1>2 DEF Records
<1>4. PICK j \in Jobs : j = job[p]
  BY <1>1
<1>5. Places(j) = {}
  BY <1>0, <1>1, <1>4 DEF StoreInv
<1>6. /\ \A e \in Places(j)' : e \in Places(j) \/ Rec(e)' = r
      /\ Places(r.job)' # {}
  BY <1>0, <1>3, RecordAppended DEF TypeOK
<1>7. DoneWhole(j)'
  BY <1>3, <1>4, <1>5, <1>6 DEF DoneWhole
<1>8. QED
  BY <1>1, <1>4, <1>7

LEMMA StoreWorker ==
  ASSUME PoolInv, NEW p \in Procs, WorkerStep(p) \/ Die(p)
  PROVE  StoreInv'
<1>0. /\ TypeOK /\ WorkersInv /\ RunnerInv /\ JobsInv /\ StoreInv /\ UNCHANGED runner
      /\ WorkersInv' /\ TypeOK' /\ \A q \in Procs : q # p => UNCHANGED Process(q)
  BY WorkerFrame, WorkersWorker, TypesWorker DEF PoolInv
<1>1. /\ pool \subseteq Procs /\ pool' = pool /\ holds' = holds /\ pending' = pending /\ settled' = settled
      /\ victim' = victim /\ pending \in Seq(Jobs) /\ holds \in [Procs -> Jobs \cup {NoJob}]
      /\ \A q \in Procs : q # p => /\ at'[q] = at[q] /\ job'[q] = job[q] /\ status'[q] = status[q]
                                   /\ up'[q] = up[q] /\ down'[q] = down[q] /\ scratch'[q] = scratch[q]
  BY <1>0 DEF runner, Process, TypeOK, RunnerTypes
<1>2. /\ at \in [Procs -> Gone \cup {"start", "again", "idle", "run", "saved", "report"}]
      /\ job \in [Procs -> Jobs \cup {NoJob}] /\ status \in [Procs -> Outcomes]
      /\ up \in [Procs -> Seq(Messages)] /\ down \in [Procs -> Seq(Jobs \cup {NoJob})]
      /\ wrote \in [Jobs -> 0..MaxFe]
  BY <1>0 DEF TypeOK, WorkerTypes, Outcomes
<1> DEFINE Mine(j) == at[p] = "run" /\ j = job[p]
<1>3. ASSUME NEW j \in Jobs, ~Mine(j)
      PROVE  /\ Places(j)' = Places(j) /\ wrote'[j] = wrote[j]
             /\ Untouched(j) => Untouched(j)'
             /\ DoneWhole(j) => DoneWhole(j)'
             /\ Places(j) # {} => Places(j)' # {}
  BY <1>3, OthersKept, StaysWhole DEF Untouched
<1>4. \A j \in Jobs : Mine(j) => /\ p \in pool /\ holds[p] = j /\ settled[j] = "no" /\ Silent(p)
                                 /\ \A i \in 1..Len(pending) : pending[i] # j
                                 /\ \A q \in pool : holds[q] = j => q = p
  BY <1>0, Running, JobsTyped DEF JobsInv
<1> HIDE DEF Mine
<1>5. \A i \in 1..Len(pending') : Untouched(pending[i])'
  <2>1. ASSUME NEW i \in 1..Len(pending) PROVE Untouched(pending[i])'
    <3>1. PICK j \in Jobs : j = pending[i]
      BY <1>1
    <3>2. Untouched(j) /\ ~Mine(j)
      BY <1>0, <1>4, <3>1 DEF StoreInv
    <3>3. Untouched(j)'
      BY <1>3, <3>2
    <3>4. QED
      BY <1>1, <3>1, <3>3
  <2>2. QED
    BY <1>1, <2>1
<1>6. ASSUME NEW q \in pool, Given(q)' PROVE Untouched(holds[q])'
  <2>1. Given(q)
    <3>1. CASE q = p
      <4>1. InPool(p)' /\ at'[p] \in {"idle", "left"} /\ up'[p] = <<>> /\ down'[p] # <<>>
        <5>1. InPool(p)'
          BY <1>0, <1>1, <1>6, <3>1 DEF WorkersInv
        <5>2. up'[p] = <<>> /\ down'[p] = <<holds[p]>> /\ holds[p] \in Jobs \cup {NoJob}
          BY <1>1, <1>6, <3>1 DEF Given
        <5>3. down'[p] # <<>>
          BY <5>2, Words
        <5>4. at'[p] \in Gone \cup {"start", "again", "idle", "run", "saved", "report"}
          BY <1>0 DEF TypeOK, WorkerTypes
        <5>5. QED
          BY <5>1, <5>2, <5>3, <5>4 DEF InPool, Silent, Told, Gone
      <4>2. ~Load(p) /\ ~AskForJob(p) /\ ~Report(p)
        <5>1. ASSUME NEW m \in Messages, Send(p, m) PROVE FALSE
          BY <1>2, <4>1, <5>1, SendTyped
        <5>2. /\ Message("broken", NoJob, "failed") \in Messages /\ Message("ready", NoJob, "done") \in Messages
              /\ Message("done", job[p], status[p]) \in Messages
          <6>1. job[p] \in Jobs \cup {NoJob} /\ status[p] \in Outcomes
            BY <1>2
          <6>2. QED
            BY <6>1, MessageTyped DEF Outcomes
        <5>3. ~Send(p, Message("broken", NoJob, "failed")) /\ ~Send(p, Message("ready", NoJob, "done"))
              /\ ~Send(p, Message("done", job[p], status[p]))
          BY <5>1, <5>2
        <5>4. Load(p) => at'[p] = "again" \/ Send(p, Message("broken", NoJob, "failed"))
          BY <1>2 DEF Load, Goto
        <5>5. QED
          BY <4>1, <5>3, <5>4 DEF AskForJob, Report
      <4>3. ~TakeJob(p)
        <5>1. TakeJob(p) => at[p] = "idle" /\ down[p] # <<>> /\ (at'[p] = "left" => Head(down[p]) = NoJob) /\ at'[p] # "idle"
          BY <1>2 DEF TakeJob, Goto
        <5>2. InPool(p)
          BY <1>0, <3>1 DEF WorkersInv
        <5>3. TakeJob(p) => Given(p)
          BY <5>1, <5>2 DEF InPool, Asking, ToldAsking
        <5>4. Given(p) => Head(down[p]) # NoJob
          BY Words DEF Given
        <5>5. QED
          BY <4>1, <5>1, <5>3, <5>4
      <4>4. at'[p] = "left" \/ at'[p] = "idle" => UNCHANGED <<up, down>>
        BY <4>2, <4>3 DEF WorkerStep, Die, WriteTrajectory, SaveRun, RemoveScratch, JobCrashed
      <4>5. QED
        BY <1>1, <1>6, <3>1, <4>1, <4>4 DEF Given
    <3>2. CASE q # p
      BY <1>1, <1>6, <3>2 DEF Given
    <3>3. QED
      BY <3>1, <3>2
  <2>2. PICK j \in Jobs : j = holds[q]
    BY <1>1, <2>1 DEF Given
  <2>3. Untouched(j) /\ ~Mine(j)
    <3>1. Mine(j) => Silent(q)
      BY <1>4, <2>2
    <3>2. ~Silent(q)
      BY <2>1 DEF Given, Silent
    <3>3. QED
      BY <1>0, <2>1, <2>2, <3>1, <3>2 DEF StoreInv
  <2>4. QED
    BY <1>1, <1>3, <2>2, <2>3
<1>7. ASSUME NEW q \in Procs, at'[q] = "run"
      PROVE  /\ Places(job[q])' = {} /\ scratch'[q].job = job'[q] /\ wrote'[job'[q]] = scratch'[q].fe
  <2>1. CASE q # p
    <3>1. /\ at[q] = "run" /\ job'[q] = job[q] /\ scratch'[q] = scratch[q]
          /\ Places(job[q]) = {} /\ scratch[q].job = job[q] /\ wrote[job[q]] = scratch[q].fe
      BY <1>0, <1>1, <1>7, <2>1 DEF StoreInv
    <3>2. PICK j \in Jobs : j = job[q]
      BY <1>0, <3>1, Running
    <3>3. ~Mine(j)
      BY <1>0, <1>4, <2>1, <3>1, <3>2, Running
    <3>4. QED
      BY <1>3, <3>1, <3>2, <3>3
  <2>2. CASE q = p /\ TakeJob(p)
    <3>1. p \in pool /\ job'[p] # NoJob /\ job'[p] = holds[p]
      BY <1>0, <1>1, <1>7, <2>2, Running DEF WorkersInv, InPool, OutOfPool
    <3>2. Given(p)
      <4>1. at[p] = "idle" /\ down[p] # <<>>
        BY <2>2 DEF TakeJob
      <4>2. QED
        BY <1>0, <3>1, <4>1 DEF WorkersInv, InPool, Asking, ToldAsking
    <3>3. PICK j \in Jobs : j = holds[p]
      BY <1>1, <3>1, <3>2 DEF Given
    <3>4. Untouched(j) /\ ~Mine(j)
      BY <1>0, <3>1, <3>2, <3>3, <2>2 DEF StoreInv, Mine, TakeJob
    <3>5. Untouched(j)'
      BY <1>3, <3>4
    <3>6. scratch'[p] = [job |-> j, fe |-> 0]
      <4>1. /\ job' = [job EXCEPT ![p] = Head(down[p])] /\ j # NoJob
            /\ scratch' = [scratch EXCEPT ![p] =
                             IF Head(down[p]) = NoJob \/ (Head(down[p]) # NoJob /\ Status(Head(down[p])) = "done")
                             THEN scratch[p] ELSE [job |-> Head(down[p]), fe |-> 0]]
            /\ Goto(p, IF Head(down[p]) = NoJob THEN "left"
                       ELSE IF Head(down[p]) # NoJob /\ Status(Head(down[p])) = "done" THEN "report" ELSE "run")
        BY <2>2, <3>3, JobsTyped DEF TakeJob
      <4>2. Head(down[p]) = j
        BY <3>2, <3>3, Words DEF Given
      <4>3. at'[p] = "run" => ~(Status(j) = "done")
        BY <1>2, <4>1, <4>2 DEF Goto
      <4>4. QED
        BY <1>0, <1>7, <2>2, <4>1, <4>2, <4>3 DEF TypeOK, WorkerTypes
    <3>7. QED
      BY <2>2, <3>1, <3>3, <3>5, <3>6 DEF Untouched
  <2>3. CASE q = p /\ WriteTrajectory(p)
    <3>1. /\ at[p] = "run" /\ scratch' = [scratch EXCEPT ![p] = [scratch[p] EXCEPT !.fe = scratch[p].fe + 1]]
          /\ wrote' = [wrote EXCEPT ![job[p]] = wrote[job[p]] + 1] /\ job' = job /\ segs' = segs
          /\ scratch[p] \in [job : Jobs \cup {NoJob}, fe : 0..MaxFe]
      BY <1>0, <2>3 DEF WriteTrajectory, TypeOK, WorkerTypes
    <3>2. job[p] \in Jobs /\ Places(job[p]) = {} /\ scratch[p].job = job[p] /\ wrote[job[p]] = scratch[p].fe
      BY <1>0, <3>1, Running DEF StoreInv
    <3>3. scratch'[p].job = job[p] /\ scratch'[p].fe = scratch[p].fe + 1
      BY <1>0, <3>1, <3>2 DEF TypeOK, WorkerTypes
    <3>4. wrote'[job[p]] = wrote[job[p]] + 1
      BY <1>2, <3>1, <3>2
    <3>5. Places(job[p])' = Places(job[p])
      BY <3>1 DEF Places
    <3>6. QED
      BY <2>3, <3>1, <3>2, <3>3, <3>4, <3>5
  <2>4. ~(q = p /\ ~TakeJob(p) /\ ~WriteTrajectory(p))
    BY <1>2, <1>7 DEF WorkerStep, Die, Vanish, Load, AskForJob, SaveRun, RemoveScratch, JobCrashed, Report, Goto
  <2>5. QED
    BY <2>1, <2>2, <2>3, <2>4
<1>8. ASSUME NEW q \in Procs, at'[q] \in {"saved", "report"}, status'[q] = "done" PROVE DoneWhole(job[q])'
  <2>1. CASE q # p \/ RemoveScratch(p)
    <3>1. at[q] \in {"saved", "report"} /\ status[q] = "done" /\ job'[q] = job[q]
      <4>1. q = p /\ RemoveScratch(p) => at[q] = "saved" /\ status' = status /\ job' = job
        BY DEF RemoveScratch
      <4>2. QED
        BY <1>1, <1>8, <2>1, <4>1
    <3>2. PICK j \in Jobs : j = job[q]
      BY <1>0, <3>1, Running
    <3>3. DoneWhole(j)
      BY <1>0, <3>1, <3>2 DEF StoreInv
    <3>4. ~Mine(j)
      BY <1>0, <1>4, <3>1, <3>2, Running DEF Mine
    <3>5. QED
      BY <1>3, <3>1, <3>2, <3>3, <3>4
  <2>2. CASE q = p /\ SaveRun(p)
    BY <1>8, <2>2, SavedIs
  <2>3. CASE q = p /\ TakeJob(p)
    <3>1. /\ at[p] = "idle" /\ down[p] # <<>>
          /\ at'[p] = IF Head(down[p]) = NoJob THEN "left"
                      ELSE IF Head(down[p]) # NoJob /\ Status(Head(down[p])) = "done" THEN "report" ELSE "run"
      BY <1>2, <2>3 DEF TakeJob, Goto
    <3>2. Status(Head(down[p])) = "done" /\ Head(down[p]) # NoJob
      BY <1>8, <2>3, <3>1
    <3>3. p \in pool
      BY <1>0, <1>1, <1>8, <2>3 DEF WorkersInv, OutOfPool
    <3>4. Given(p)
      BY <1>0, <3>1, <3>3 DEF WorkersInv, InPool, Asking, ToldAsking
    <3>5. Places(Head(down[p])) = {}
      BY <1>0, <3>3, <3>4, Words DEF StoreInv, Untouched, Given
    <3>6. QED
      BY <3>2, <3>5 DEF Status
  <2>4. CASE q = p /\ (Load(p) \/ AskForJob(p) \/ WriteTrajectory(p) \/ JobCrashed(p) \/ Report(p) \/ Die(p))
    <3>1. at'[p] \notin {"saved", "report"} \/ JobCrashed(p)
      BY <1>2, <2>4 DEF Load, AskForJob, WriteTrajectory, Report, Die, Vanish, Goto
    <3>2. JobCrashed(p) => status'[p] = "failed"
      BY <1>2 DEF JobCrashed
    <3>3. QED
      BY <1>8, <2>4, <3>1, <3>2
  <2>5. QED
    BY <2>1, <2>2, <2>3, <2>4 DEF WorkerStep
<1>9. ASSUME NEW q \in pool, (Told(q, "done") \/ ToldAsking(q, "done"))' PROVE DoneWhole(holds[q])'
  <2>1. CASE Told(q, "done") \/ ToldAsking(q, "done")
    <3>1. PICK j \in Jobs : j = holds[q]
      BY <1>1, <2>1 DEF Told, ToldAsking
    <3>2. DoneWhole(j)
      BY <1>0, <2>1, <3>1 DEF StoreInv
    <3>3. ~Mine(j)
      <4>1. ~Silent(q)
        <5>1. Message("done", holds[q], "done") \in Messages /\ Message("ready", NoJob, "done") \in Messages
          BY <1>1, MessageTyped DEF Outcomes
        <5>2. QED
          BY <2>1, <5>1, Words DEF Told, ToldAsking, Silent
      <4>2. QED
        BY <1>4, <3>1, <4>1
    <3>4. QED
      BY <1>1, <1>3, <3>1, <3>2, <3>3
  <2>2. CASE ~(Told(q, "done") \/ ToldAsking(q, "done"))
    <3>1. q = p /\ up'[p] # <<>> /\ Head(up'[p]) = Message("done", holds[p], "done") /\ holds[p] # NoJob
      <4>1. Message("done", holds[q], "done") \in Messages /\ Message("ready", NoJob, "done") \in Messages
        BY <1>1, MessageTyped DEF Outcomes
      <4>2. QED
        BY <1>1, <1>9, <2>2, <4>1, Words DEF Told, ToldAsking
    <3>2. InPool(p)
      BY <1>0, <3>1 DEF WorkersInv
    <3>3. Report(p)
      <4>1. ~UNCHANGED <<up, down>>
        BY <1>1, <1>9, <2>2, <3>1 DEF Told, ToldAsking
      <4>2. ~Load(p)
        <5>1. CASE Load(p)
          <6>1. up[p] = <<>> /\ Message("broken", NoJob, "failed") \in Messages
            BY <3>2, <5>1, MessageTyped DEF Load, InPool, Silent, Outcomes
          <6>2. up'[p] = <<>> \/ up'[p] = <<Message("broken", NoJob, "failed")>>
            BY <1>2, <5>1, <6>1, SendTyped, Words DEF Load
          <6>3. Head(up'[p]) = Message("broken", NoJob, "failed")
            BY <3>1, <6>1, <6>2, Words
          <6>4. QED
            BY <3>1, <6>3 DEF Message
        <5>2. QED
          BY <5>1
      <4>3. ~AskForJob(p)
        <5>1. CASE AskForJob(p)
          <6>1. Message("ready", NoJob, "done") \in Messages
            BY MessageTyped DEF Outcomes
          <6>2. up'[p] = Append(up[p], Message("ready", NoJob, "done"))
            BY <1>2, <5>1, <6>1, SendTyped DEF AskForJob
          <6>3. CASE Silent(p)
            <7>1. Head(up'[p]) = Message("ready", NoJob, "done")
              BY <6>1, <6>2, <6>3, Words DEF Silent
            <7>2. QED
              BY <3>1, <7>1 DEF Message
          <6>4. ASSUME NEW st \in Outcomes, Told(p, st) PROVE FALSE
            <7>1. Message("done", holds[p], st) \in Messages
              BY <1>1, MessageTyped
            <7>2. Head(up'[p]) = Message("done", holds[p], st)
              BY <6>1, <6>2, <6>4, <7>1, Words DEF Told
            <7>3. st = "done"
              BY <3>1, <7>2 DEF Message
            <7>4. QED
              BY <2>2, <3>1, <6>4, <7>3
          <6>5. QED
            BY <3>2, <5>1, <6>3, <6>4 DEF InPool, AskForJob
        <5>2. QED
          BY <5>1
      <4>4. TakeJob(p) => up[p] = <<>> /\ up' = up
        BY <3>2 DEF TakeJob, InPool, Asking, ToldAsking, Given
      <4>5. QED
        BY <3>1, <4>1, <4>2, <4>3, <4>4 DEF WorkerStep, Die, WriteTrajectory, SaveRun, RemoveScratch, JobCrashed
    <3>4. at[p] = "report" /\ up[p] = <<>> /\ job[p] = holds[p] /\ job[p] \in Jobs
      BY <1>0, <3>2, <3>3, Running DEF Report, Silent
    <3>5. status[p] = "done"
      <4>1. Message("done", job[p], status[p]) \in Messages
        <5>1. job[p] \in Jobs \cup {NoJob} /\ status[p] \in Outcomes
          BY <1>2
        <5>2. QED
          BY <5>1, MessageTyped
      <4>2. up'[p] = <<Message("done", job[p], status[p])>>
        BY <1>2, <3>3, <3>4, <4>1, SendTyped, Words DEF Report
      <4>3. QED
        BY <3>1, <4>1, <4>2, Words DEF Message
    <3>6. PICK j \in Jobs : j = job[p]
      BY <3>4
    <3>7. DoneWhole(j) /\ ~Mine(j)
      BY <1>0, <3>4, <3>5, <3>6 DEF StoreInv, Mine
    <3>8. QED
      BY <1>1, <1>3, <3>1, <3>4, <3>6, <3>7
  <2>3. QED
    BY <2>1, <2>2
<1>10. ASSUME NEW j \in Jobs
       PROVE  /\ settled'[j] = "done" => DoneWhole(j)'
              /\ settled'[j] = "timeout" /\ victim'.job # j => Places(j)' # {}
  BY <1>0, <1>1, <1>3, <1>4 DEF StoreInv
<1>11. QED
  BY <1>1, <1>5, <1>6, <1>7, <1>8, <1>9, <1>10 DEF StoreInv

LEMMA WorkerKeeps ==
  ASSUME PoolInv, NEW p \in Procs, WorkerStep(p) \/ Die(p)
  PROVE  PoolInv'
BY TypesWorker, WorkersWorker, RunnerWorker, StoreWorker DEF PoolInv

-----------------------------------------------------------------------------
(* The steps of the runner.                                                *)

\* What a worker's pipe holds when the runner reads it.
LEMMA ReadIs ==
  ASSUME TypeOK, WorkersInv, NEW p \in pool
  PROVE  /\ AnyPipe(p) /\ p \in Procs
         /\ up[p] # <<>> =>
              \/ Asking(p) /\ Head(up[p]) = Message("ready", NoJob, "done") /\ Tail(up[p]) = <<>>
              \/ Unfit(p) /\ Head(up[p]) = Message("broken", NoJob, "failed") /\ Tail(up[p]) = <<>>
              \/ \E st \in Outcomes :
                    /\ Head(up[p]) = Message("done", holds[p], st) /\ holds[p] \in Jobs
                    /\ \/ Told(p, st) /\ Tail(up[p]) = <<>>
                       \/ ToldAsking(p, st) /\ Tail(up[p]) = <<Message("ready", NoJob, "done")>>
<1>1. p \in Procs /\ InPool(p) /\ holds[p] \in Jobs \cup {NoJob}
  BY DEF TypeOK, RunnerTypes, WorkersInv
<1>2. AnyPipe(p)
  <2>1. at[p] \in Gone \cup {"start", "again", "idle", "run", "saved", "report"}
    BY <1>1 DEF TypeOK, WorkerTypes
  <2>2. QED
    BY <1>1, <2>1 DEF InPool, AnyPipe, Gone
<1>3. /\ Message("ready", NoJob, "done") \in Messages /\ Message("broken", NoJob, "failed") \in Messages
      /\ \A st \in Outcomes : Message("done", holds[p], st) \in Messages
  BY <1>1, MessageTyped DEF Outcomes
<1>4. CASE Asking(p) \/ Unfit(p)
  BY <1>1, <1>2, <1>3, <1>4, Words DEF Asking, Unfit
<1>5. ASSUME NEW st \in Outcomes, Told(p, st) \/ ToldAsking(p, st)
      PROVE  /\ Head(up[p]) = Message("done", holds[p], st) /\ holds[p] \in Jobs
             /\ \/ Told(p, st) /\ Tail(up[p]) = <<>>
                \/ ToldAsking(p, st) /\ Tail(up[p]) = <<Message("ready", NoJob, "done")>>
  <2>1. Told(p, st) => up[p] = <<Message("done", holds[p], st)>> /\ holds[p] # NoJob
    BY DEF Told
  <2>2. ToldAsking(p, st) => /\ up[p] = <<Message("done", holds[p], st), Message("ready", NoJob, "done")>>
                             /\ holds[p] # NoJob
    BY DEF ToldAsking
  <2>3. Message("done", holds[p], st) \in Messages /\ Message("ready", NoJob, "done") \in Messages
    BY <1>3
  <2>4. CASE Told(p, st)
    <3>1. Head(up[p]) = Message("done", holds[p], st) /\ Tail(up[p]) = <<>>
      BY <2>1, <2>3, <2>4, Words
    <3>2. QED
      BY <1>1, <2>1, <2>4, <3>1
  <2>5. CASE ToldAsking(p, st)
    <3>1. Head(up[p]) = Message("done", holds[p], st) /\ Tail(up[p]) = <<Message("ready", NoJob, "done")>>
      <4> DEFINE told == Message("done", holds[p], st)
                 asks == Message("ready", NoJob, "done")
      <4>1. told \in Messages /\ asks \in Messages /\ up[p] = <<told, asks>>
        BY <2>2, <2>3, <2>5
      <4> HIDE DEF told, asks
      <4>2. Head(up[p]) = told /\ Tail(up[p]) = <<asks>>
        BY <4>1, Words
      <4>3. QED
        BY <4>2 DEF told, asks
    <3>2. QED
      BY <1>1, <2>2, <2>5, <3>1
  <2>6. QED
    BY <1>5, <2>4, <2>5
<1>6. Silent(p) \/ Given(p) => up[p] = <<>>
  BY DEF Silent, Given
<1>7. QED
  BY <1>1, <1>2, <1>4, <1>5, <1>6 DEF AnyPipe

\* The kind of the message tells the rest.
LEMMA KindTells ==
  ASSUME TypeOK, WorkersInv, NEW p \in pool, up[p] # <<>>
  PROVE  /\ Head(up[p]).kind = "ready" => Asking(p) /\ Tail(up[p]) = <<>>
         /\ Head(up[p]).kind = "broken" => Unfit(p) /\ Tail(up[p]) = <<>>
         /\ Head(up[p]).kind = "done" =>
               \E st \in Outcomes :
                  /\ Head(up[p]).job = holds[p] /\ Head(up[p]).status = st /\ holds[p] \in Jobs
                  /\ \/ Told(p, st) /\ Tail(up[p]) = <<>>
                     \/ ToldAsking(p, st) /\ Tail(up[p]) = <<Message("ready", NoJob, "done")>>
<1>1. CASE Asking(p) /\ Head(up[p]) = Message("ready", NoJob, "done") /\ Tail(up[p]) = <<>>
  <2>1. Head(up[p]).kind = "ready"
    BY <1>1 DEF Message
  <2>2. QED
    BY <1>1, <2>1
<1>2. CASE Unfit(p) /\ Head(up[p]) = Message("broken", NoJob, "failed") /\ Tail(up[p]) = <<>>
  <2>1. Head(up[p]).kind = "broken"
    BY <1>2 DEF Message
  <2>2. QED
    BY <1>2, <2>1
<1>3. ASSUME NEW st \in Outcomes, Head(up[p]) = Message("done", holds[p], st), holds[p] \in Jobs,
             \/ Told(p, st) /\ Tail(up[p]) = <<>>
             \/ ToldAsking(p, st) /\ Tail(up[p]) = <<Message("ready", NoJob, "done")>>
      PROVE  /\ Head(up[p]).kind = "done"
             /\ \E s2 \in Outcomes :
                  /\ Head(up[p]).job = holds[p] /\ Head(up[p]).status = s2 /\ holds[p] \in Jobs
                  /\ \/ Told(p, s2) /\ Tail(up[p]) = <<>>
                     \/ ToldAsking(p, s2) /\ Tail(up[p]) = <<Message("ready", NoJob, "done")>>
  <2>1. Head(up[p]).kind = "done" /\ Head(up[p]).job = holds[p] /\ Head(up[p]).status = st
    BY <1>3 DEF Message
  <2>2. QED
    BY <1>3, <2>1
<1>4. QED
  <2>1. \/ Asking(p) /\ Head(up[p]) = Message("ready", NoJob, "done") /\ Tail(up[p]) = <<>>
        \/ Unfit(p) /\ Head(up[p]) = Message("broken", NoJob, "failed") /\ Tail(up[p]) = <<>>
        \/ \E st \in Outcomes :
              /\ Head(up[p]) = Message("done", holds[p], st) /\ holds[p] \in Jobs
              /\ \/ Told(p, st) /\ Tail(up[p]) = <<>>
                 \/ ToldAsking(p, st) /\ Tail(up[p]) = <<Message("ready", NoJob, "done")>>
    BY ReadIs
  <2>2. CASE \E st \in Outcomes :
              /\ Head(up[p]) = Message("done", holds[p], st) /\ holds[p] \in Jobs
              /\ \/ Told(p, st) /\ Tail(up[p]) = <<>>
                 \/ ToldAsking(p, st) /\ Tail(up[p]) = <<Message("ready", NoJob, "done")>>
    <3>1. Head(up[p]).kind = "done"
      BY <1>3, <2>2
    <3>2. QED
      BY <1>3, <2>2, <3>1
  <2>3. QED
    BY <1>1, <1>2, <2>1, <2>2

LEMMA PopTyped ==
  ASSUME up \in [Procs -> Seq(Messages)], NEW p \in Procs, up[p] # <<>>, Popped(p)
  PROVE  up' \in [Procs -> Seq(Messages)] /\ up'[p] = Tail(up[p]) /\ \A q \in Procs : q # p => up'[q] = up[q]
<1>1. Tail(up[p]) \in Seq(Messages)
  OBVIOUS
<1>2. up' = [up EXCEPT ![p] = Tail(up[p])]
  BY DEF Popped
<1>3. QED
  BY <1>1, <1>2

\* A job leaves the worker that held it and counts.
LEMMA JobSettles ==
  ASSUME TypeOK, JobsInv, NEW p \in pool, holds[p] # NoJob, NEW st \in {"done", "failed", "timeout"},
         settled' = [settled EXCEPT ![holds[p]] = st], pending' = pending,
         holds' = [holds EXCEPT ![p] = NoJob], pool' = pool \/ pool' = pool \ {p}
  PROVE  JobsInv' /\ settled' \in [Jobs -> {"no", "done", "failed", "timeout"}]
<1>1. /\ pool \subseteq Procs /\ holds \in [Procs -> Jobs \cup {NoJob}] /\ pending \in Seq(Jobs)
      /\ settled \in [Jobs -> {"no", "done", "failed", "timeout"}] /\ holds[p] \in Jobs
  BY DEF TypeOK, RunnerTypes
<1>2. /\ settled'[holds[p]] = st /\ \A j \in Jobs : j # holds[p] => settled'[j] = settled[j]
      /\ holds'[p] = NoJob /\ \A q \in Procs : q # p => holds'[q] = holds[q]
  BY <1>1
<1>3. \A i \in 1..Len(pending) : pending[i] \in Jobs
  BY <1>1
<1>4. settled' \in [Jobs -> {"no", "done", "failed", "timeout"}]
  BY <1>1
<1>5. \A i \in 1..Len(pending') : settled'[pending'[i]] = "no" /\ \A q \in pool' : holds'[q] # pending'[i]
  <2>1. SUFFICES ASSUME NEW i \in 1..Len(pending)
                 PROVE  settled'[pending[i]] = "no" /\ \A q \in pool' : holds'[q] # pending[i]
    OBVIOUS
  <2>2. settled[pending[i]] = "no" /\ (\A q \in pool : holds[q] # pending[i]) /\ pending[i] \in Jobs
    BY <1>3 DEF JobsInv
  <2>3. pending[i] # holds[p] /\ pending[i] # NoJob
    BY <2>2, JobsTyped
  <2>4. \A q \in pool' : q = p \/ (q \in pool /\ holds'[q] = holds[q])
    BY <1>1, <1>2
  <2>5. QED
    BY <1>2, <2>2, <2>3, <2>4
<1>6. \A q \in pool' : holds'[q] # NoJob => /\ settled'[holds'[q]] = "no"
                                            /\ \A r \in pool' : holds'[r] = holds'[q] => r = q
  <2>1. SUFFICES ASSUME NEW q \in pool', holds'[q] # NoJob
                 PROVE  settled'[holds'[q]] = "no" /\ \A r \in pool' : holds'[r] = holds'[q] => r = q
    OBVIOUS
  <2>2. q # p /\ q \in pool /\ holds'[q] = holds[q] /\ holds[q] \in Jobs
    BY <1>1, <1>2, <2>1
  <2>3. holds[q] # holds[p] /\ settled[holds[q]] = "no" /\ \A r \in pool : holds[r] = holds[q] => r = q
    BY <2>1, <2>2 DEF JobsInv
  <2>4. \A r \in pool' : r \in pool /\ (r = p \/ holds'[r] = holds[r])
    BY <1>1, <1>2
  <2>5. QED
    BY <1>2, <2>1, <2>2, <2>3, <2>4
<1>7. ASSUME NEW j \in Jobs, settled'[j] = "no"
      PROVE  (\E i \in 1..Len(pending') : pending'[i] = j) \/ \E q \in pool' : holds'[q] = j
  <2>1. settled[j] = "no" /\ j # holds[p]
    BY <1>2, <1>7
  <2>2. CASE \E q \in pool : holds[q] = j
    <3>1. PICK q \in pool : holds[q] = j
      BY <2>2
    <3>2. q # p
      BY <2>1, <3>1
    <3>3. QED
      BY <1>1, <1>2, <3>1, <3>2
  <2>3. QED
    BY <2>1, <2>2 DEF JobsInv
<1>8. QED
  BY <1>4, <1>5, <1>6, <1>7 DEF JobsInv

\* A worker without a job leaves the pool.
LEMMA JobsRest ==
  ASSUME TypeOK, JobsInv, NEW p \in pool, holds[p] = NoJob, UNCHANGED <<pending, settled>>, Release(p)
  PROVE  JobsInv'
<1>1. /\ pool \subseteq Procs /\ holds \in [Procs -> Jobs \cup {NoJob}] /\ pending \in Seq(Jobs)
  BY DEF TypeOK, RunnerTypes
<1>2. holds' = holds /\ pool' = pool \ {p}
  BY <1>1 DEF Release
<1>3. QED
  BY <1>1, <1>2, JobsTyped DEF JobsInv

\* The first of the jobs that wait goes to a worker that has none.
LEMMA JobGiven ==
  ASSUME TypeOK, JobsInv, NEW p \in pool, holds[p] = NoJob, pending # <<>>, UNCHANGED <<settled, pool>>,
         pending' = Tail(pending), holds' = [holds EXCEPT ![p] = Head(pending)]
  PROVE  JobsInv' /\ pending' \in Seq(Jobs) /\ Head(pending) \in Jobs
<1>1. /\ pool \subseteq Procs /\ holds \in [Procs -> Jobs \cup {NoJob}] /\ pending \in Seq(Jobs)
  BY DEF TypeOK, RunnerTypes
<1>2. /\ pending' \in Seq(Jobs) /\ Head(pending) = pending[1] /\ Len(pending') = Len(pending) - 1
      /\ Len(pending) \in Nat /\ Len(pending) >= 1
      /\ \A i \in 1..Len(pending') : pending'[i] = pending[i + 1] /\ i + 1 \in 1..Len(pending)
  BY <1>1
<1>3. pending[1] \in Jobs /\ 1 \in 1..Len(pending)
  BY <1>1, <1>2
<1>4. holds'[p] = pending[1] /\ \A q \in Procs : q # p => holds'[q] = holds[q]
  BY <1>1, <1>2
<1>5. \A i, k \in 1..Len(pending') : pending'[i] = pending'[k] => i = k
  <2>1. SUFFICES ASSUME NEW i \in 1..Len(pending'), NEW k \in 1..Len(pending'), pending'[i] = pending'[k]
                 PROVE  i = k
    OBVIOUS
  <2>2. pending[i + 1] = pending[k + 1] /\ i + 1 \in 1..Len(pending) /\ k + 1 \in 1..Len(pending)
    BY <1>2, <2>1
  <2>3. i + 1 = k + 1
    BY <2>2 DEF JobsInv
  <2>4. QED
    BY <1>2, <2>3
<1>6. \A i \in 1..Len(pending') : settled'[pending'[i]] = "no" /\ \A q \in pool' : holds'[q] # pending'[i]
  <2>1. SUFFICES ASSUME NEW i \in 1..Len(pending')
                 PROVE  settled[pending[i + 1]] = "no" /\ \A q \in pool : holds'[q] # pending[i + 1]
    BY <1>2
  <2>2. i + 1 \in 1..Len(pending) /\ i + 1 # 1
    BY <1>2
  <2>3. pending[1] # pending[i + 1]
    BY <1>3, <2>2 DEF JobsInv
  <2>4. QED
    BY <1>1, <1>4, <2>2, <2>3 DEF JobsInv
<1>7. \A q \in pool' : holds'[q] # NoJob => /\ settled'[holds'[q]] = "no"
                                            /\ \A r \in pool' : holds'[r] = holds'[q] => r = q
  BY <1>1, <1>3, <1>4 DEF JobsInv
<1>8. ASSUME NEW j \in Jobs, settled'[j] = "no"
      PROVE  (\E i \in 1..Len(pending') : pending'[i] = j) \/ \E q \in pool' : holds'[q] = j
  <2>1. CASE \E q \in pool : holds[q] = j
    <3>1. PICK q \in pool : holds[q] = j
      BY <2>1
    <3>2. q # p
      BY <3>1, JobsTyped
    <3>3. QED
      BY <1>1, <1>4, <3>1, <3>2
  <2>2. CASE \E i \in 1..Len(pending) : pending[i] = j
    <3>1. PICK i \in 1..Len(pending) : pending[i] = j
      BY <2>2
    <3>2. CASE i = 1
      BY <1>4, <3>1, <3>2
    <3>3. CASE i # 1
      <4>1. i - 1 \in 1..Len(pending')
        BY <1>2, <3>3
      <4>2. pending'[i - 1] = pending[(i - 1) + 1] /\ (i - 1) + 1 = i
        BY <1>2, <4>1
      <4>3. QED
        BY <3>1, <4>1, <4>2
    <3>4. QED
      BY <3>2, <3>3
  <2>3. QED
    BY <1>8, <2>1, <2>2 DEF JobsInv
<1>9. QED
  BY <1>2, <1>3, <1>5, <1>6, <1>7, <1>8 DEF JobsInv

\* What the runner's own steps leave of the store.
LEMMA StoreRunner ==
  ASSUME StoreInv, UNCHANGED <<segs, wrote, scratch>>,
         \A i \in 1..Len(pending') : \E k \in 1..Len(pending) : pending'[i] = pending[k],
         \A q \in Procs : at'[q] \in {"run", "saved", "report"} => UNCHANGED <<at[q], job[q], status[q]>>,
         \A q \in pool' : Given(q)' => \/ q \in pool /\ Given(q) /\ holds'[q] = holds[q]
                                       \/ \E i \in 1..Len(pending) : holds'[q] = pending[i],
         \A q \in pool' : (Told(q, "done") \/ ToldAsking(q, "done"))' =>
             q \in pool /\ (Told(q, "done") \/ ToldAsking(q, "done")) /\ holds'[q] = holds[q],
         \A j \in Jobs : /\ settled'[j] = "done" => DoneWhole(j)
                         /\ settled'[j] = "timeout" /\ victim'.job # j => Places(j) # {}
  PROVE  StoreInv'
<1>1. \A j : /\ Places(j)' = Places(j) /\ (Untouched(j)' <=> Untouched(j)) /\ (DoneWhole(j)' <=> DoneWhole(j))
  BY DEF Places, Rec, Untouched, DoneWhole
<1>2. \A i \in 1..Len(pending') : Untouched(pending[i])'
  <2>1. ASSUME NEW i \in 1..Len(pending') PROVE Untouched(pending[i])'
    <3>1. PICK k \in 1..Len(pending) : pending'[i] = pending[k]
      OBVIOUS
    <3>2. PICK j : j = pending[k]
      OBVIOUS
    <3>3. Untouched(j)'
      BY <1>1, <3>2 DEF StoreInv
    <3>4. QED
      BY <3>1, <3>2, <3>3
  <2>2. QED
    BY <2>1
<1>3. ASSUME NEW q \in pool', Given(q)' PROVE Untouched(holds[q])'
  <2>1. Untouched(holds'[q])
    BY <1>3 DEF StoreInv
  <2>2. PICK j : j = holds'[q]
    OBVIOUS
  <2>3. Untouched(j)'
    BY <1>1, <2>1, <2>2
  <2>4. QED
    BY <2>2, <2>3
<1>4. ASSUME NEW q \in Procs, at'[q] = "run"
      PROVE  Places(job[q])' = {} /\ scratch'[q].job = job'[q] /\ wrote'[job'[q]] = scratch'[q].fe
  <2>1. job'[q] = job[q] /\ at[q] = "run"
    BY <1>4
  <2>2. Places(job[q]) = {} /\ scratch[q].job = job[q] /\ wrote[job[q]] = scratch[q].fe
    BY <2>1 DEF StoreInv
  <2>3. PICK j : j = job[q]
    OBVIOUS
  <2>4. Places(j)' = {}
    BY <1>1, <2>2, <2>3
  <2>5. QED
    BY <2>1, <2>2, <2>3, <2>4
<1>5. ASSUME NEW q \in Procs, at'[q] \in {"saved", "report"}, status'[q] = "done" PROVE DoneWhole(job[q])'
  <2>1. DoneWhole(job[q]) /\ job'[q] = job[q]
    BY <1>5 DEF StoreInv
  <2>2. PICK j : j = job[q]
    OBVIOUS
  <2>3. DoneWhole(j)'
    BY <1>1, <2>1, <2>2
  <2>4. QED
    BY <2>1, <2>2, <2>3
<1>6. ASSUME NEW q \in pool', (Told(q, "done") \/ ToldAsking(q, "done"))' PROVE DoneWhole(holds[q])'
  <2>1. DoneWhole(holds[q]) /\ holds'[q] = holds[q]
    BY <1>6 DEF StoreInv
  <2>2. PICK j : j = holds[q]
    OBVIOUS
  <2>3. DoneWhole(j)'
    BY <1>1, <2>1, <2>2
  <2>4. QED
    BY <2>1, <2>2, <2>3
<1>7. QED
  BY <1>1, <1>2, <1>3, <1>4, <1>5, <1>6 DEF StoreInv

LEMMA HearIs ==
  ASSUME PoolInv, NEW p \in Procs, Hear(p)
  PROVE  /\ p \in pool /\ rpc = "round" /\ heard' = heard \ {p} /\ victim = Nobody
         /\ up[p] # <<>> \/ ~Alive(p)
BY DEF Hear, PoolInv, RunnerInv

\* The runner's own state after a step of a round.
LEMMA RoundKeeps ==
  ASSUME TypeOK, RunnerInv, TypeOK', UNCHANGED <<victim, said, threw>>,
         rpc \notin {"record", "over"}, rpc' \notin {"record", "over"}, rpc' = "corpses" => heard' = {},
         \A q \in heard' : q \in heard /\ q \in pool' /\ UNCHANGED <<up[q], at[q]>>
  PROVE  RunnerInv'
<1>1. victim' = Nobody
  BY DEF RunnerInv
<1>2. victim'.job = NoJob
  BY <1>1 DEF Nobody
<1>3. QED
  BY <1>1, <1>2 DEF RunnerInv, Alive

LEMMA ListenKeeps ==
  ASSUME PoolInv, Listen \/ NextRound
  PROVE  PoolInv'
<1>1. /\ TypeOK /\ WorkersInv /\ RunnerInv /\ JobsInv /\ StoreInv
      /\ UNCHANGED <<pool, holds, pending, want, state, victim, settled, said, threw, asked, workers, segs, events>>
      /\ rpc' \in {"round", "top"} /\ rpc \in {"top", "round", "corpses"}
      /\ heard' = heard \/ heard' = {p \in pool : up[p] # <<>> \/ at[p] = "left"}
  BY DEF Listen, NextRound, LoopDone, PoolInv
<1>2. TypeOK'
  BY <1>1 DEF TypeOK, RunnerTypes, WorkerTypes, workers
<1>3. WorkersInv'
  BY <1>1 DEF WorkersInv, InPool, OutOfPool, workers, Silent, Asking, Unfit, Told, ToldAsking, Given, AnyPipe
<1>4. RunnerInv'
  <2>1. \A q \in heard' : q \in pool' /\ (up'[q] # <<>> \/ ~Alive(q)')
    BY <1>1 DEF RunnerInv, Alive, Gone, workers
  <2>2. victim' = Nobody /\ victim'.job = NoJob
    BY <1>1 DEF RunnerInv, Nobody
  <2>3. QED
    BY <1>1, <2>1, <2>2 DEF RunnerInv
<1>5. JobsInv'
  BY <1>1 DEF JobsInv
<1>6. StoreInv'
  BY <1>1 DEF StoreInv, workers, Untouched, DoneWhole, Places, Rec, Given, Told, ToldAsking
<1>7. QED
  BY <1>2, <1>3, <1>4, <1>5, <1>6 DEF PoolInv

LEMMA WorkersSetKeeps ==
  ASSUME PoolInv, SetWorkers \/ Over \/ UNCHANGED vars
  PROVE  PoolInv'
<1>1. /\ TypeOK /\ WorkersInv /\ RunnerInv /\ JobsInv /\ StoreInv /\ UNCHANGED <<runner, workers, segs>>
  BY DEF SetWorkers, Over, vars, PoolInv
<1>2. asked' \in Nat /\ events' \in 0..MaxEvents
  <2>1. asked' = asked \/ asked' \in 0..Ceiling
    BY DEF SetWorkers, Over, vars
  <2>2. events' = events \/ (events < MaxEvents /\ events' = events + 1)
    BY DEF SetWorkers, Over, vars
  <2>3. QED
    BY <1>1, <2>1, <2>2, PoolAssumption DEF TypeOK
<1>3. TypeOK'
  BY <1>1, <1>2 DEF TypeOK, RunnerTypes, WorkerTypes, runner, workers
<1>4. WorkersInv'
  BY <1>1 DEF WorkersInv, InPool, OutOfPool, runner, workers, Silent, Asking, Unfit, Told, ToldAsking, Given, AnyPipe
<1>5. RunnerInv'
  BY <1>1 DEF RunnerInv, runner, workers, Alive, Finished
<1>6. JobsInv'
  BY <1>1 DEF JobsInv, runner
<1>7. StoreInv'
  BY <1>1 DEF StoreInv, runner, workers, Untouched, DoneWhole, Places, Rec, Given, Told, ToldAsking
<1>8. QED
  BY <1>3, <1>4, <1>5, <1>6, <1>7 DEF PoolInv

\* lose(): a worker that is gone, and nothing of it left to read.
LEMMA LoseKeeps ==
  ASSUME PoolInv, NEW p \in Procs, HearEnd(p) \/ FindCorpse(p)
  PROVE  PoolInv'
<1>1. /\ TypeOK /\ WorkersInv /\ RunnerInv /\ JobsInv /\ StoreInv
      /\ UNCHANGED <<pending, want, state, victim, said, threw, asked, at, job, status, up, scratch, wrote, segs, events>>
      /\ Lose(p) /\ (down' = [down EXCEPT ![p] = <<>>] \/ (down' = down /\ FindCorpse(p)))
  BY DEF PoolInv, HearEnd, FindCorpse, workers
<1>2. /\ p \in pool /\ up[p] = <<>> /\ at[p] \in {"left", "stillborn"}
      /\ rpc \in {"round", "corpses"} /\ rpc' \in {"round", "corpses"}
      /\ heard' \subseteq heard \ {p} /\ (rpc' = "corpses" => heard' = {})
  <2>1. CASE HearEnd(p)
    <3>1. p \in pool /\ up[p] = <<>> /\ ~Alive(p) /\ rpc = "round" /\ rpc' = rpc /\ heard' = heard \ {p}
      BY <2>1, HearIs DEF HearEnd
    <3>2. at[p] # "unborn"
      BY <1>1, <3>1 DEF WorkersInv, InPool
    <3>3. QED
      BY <3>1, <3>2 DEF Alive, Gone
  <2>2. CASE FindCorpse(p)
    <3>1. /\ p \in pool /\ at[p] = "stillborn" /\ up[p] = <<>> /\ LoopDone /\ rpc' = "corpses" /\ heard' = heard
      BY <2>2 DEF FindCorpse, Corpses
    <3>2. heard = {}
      BY <1>1, <3>1 DEF LoopDone, RunnerInv
    <3>3. QED
      BY <3>1, <3>2 DEF LoopDone
  <2>3. QED
    BY <2>1, <2>2
<1>3. /\ pool \subseteq Procs /\ holds \in [Procs -> Jobs \cup {NoJob}] /\ down \in [Procs -> Seq(Jobs \cup {NoJob})]
      /\ at \in [Procs -> Gone \cup {"start", "again", "idle", "run", "saved", "report"}]
      /\ heard \subseteq Procs
  BY <1>1 DEF TypeOK, RunnerTypes, WorkerTypes
<1>4. /\ pool' = pool \ {p} /\ holds' = [holds EXCEPT ![p] = NoJob]
      /\ holds'[p] = NoJob /\ \A q \in Procs : q # p => holds'[q] = holds[q] /\ down'[q] = down[q]
      /\ down'[p] = <<>>
  <2>1. pool' = pool \ {p} /\ holds' = [holds EXCEPT ![p] = NoJob]
    BY <1>1 DEF Lose, Release
  <2>2. FindCorpse(p) => down[p] = <<>>
    BY <1>1, <1>2 DEF FindCorpse, Corpses, WorkersInv, InPool, Silent
  <2>3. QED
    BY <1>1, <1>3, <2>1, <2>2
<1>5. /\ JobsInv' /\ settled' \in [Jobs -> {"no", "done", "failed", "timeout"}]
      /\ \A j \in Jobs : settled'[j] = settled[j] \/ settled'[j] = "failed"
  <2>1. settled \in [Jobs -> {"no", "done", "failed", "timeout"}]
    BY <1>1 DEF TypeOK, RunnerTypes
  <2>2. CASE holds[p] = NoJob
    BY <1>1, <1>2, <2>1, <2>2, JobsRest DEF Lose
  <2>3. CASE holds[p] # NoJob
    <3>1. settled' = [settled EXCEPT ![holds[p]] = "failed"]
      BY <1>1, <2>3 DEF Lose
    <3>2. QED
      BY <1>1, <1>2, <1>4, <2>1, <2>3, <3>1, JobSettles
  <2>4. QED
    BY <2>2, <2>3
<1>6. TypeOK'
  <2>1. down' \in [Procs -> Seq(Jobs \cup {NoJob})]
    <3>1. down' = [down EXCEPT ![p] = <<>>] \/ down' = down
      BY <1>1
    <3>2. <<>> \in Seq(Jobs \cup {NoJob})
      OBVIOUS
    <3>3. QED
      BY <1>3, <3>1, <3>2
  <2>2. holds' \in [Procs -> Jobs \cup {NoJob}] /\ pool' \subseteq Procs /\ heard' \subseteq Procs
    BY <1>2, <1>3, <1>4
  <2>3. QED
    BY <1>1, <1>2, <1>5, <2>1, <2>2 DEF TypeOK, RunnerTypes, WorkerTypes
<1>7. WorkersInv'
  <2>1. OutOfPool(p)'
    BY <1>1, <1>2, <1>4 DEF OutOfPool, WorkersInv, InPool
  <2>2. QED
    BY <1>1, <1>4, <2>1, OthersStay DEF Process
<1>8. RunnerInv'
  BY <1>1, <1>2, <1>4, <1>6, RoundKeeps DEF RunnerInv
<1>9. StoreInv'
  <2>1. \A j \in Jobs : /\ settled'[j] = "done" => DoneWhole(j)
                        /\ settled'[j] = "timeout" /\ victim'.job # j => Places(j) # {}
    BY <1>1, <1>5 DEF StoreInv
  <2>2. \A q \in pool' : /\ q \in pool /\ holds'[q] = holds[q] /\ (Given(q)' => Given(q))
                         /\ (Told(q, "done") \/ ToldAsking(q, "done"))' => Told(q, "done") \/ ToldAsking(q, "done")
    BY <1>1, <1>3, <1>4 DEF Given, Told, ToldAsking
  <2>3. QED
    BY <1>1, <2>1, <2>2, StoreRunner
<1>10. QED
  BY <1>5, <1>6, <1>7, <1>8, <1>9 DEF PoolInv

\* A worker says it is ready: it is given the next job, or told to leave, or it
\* is gone by now.
LEMMA ReadyKeeps ==
  ASSUME PoolInv, NEW p \in Procs, GiveJob(p) \/ Retire(p)
  PROVE  PoolInv'
<1>1. /\ TypeOK /\ WorkersInv /\ RunnerInv /\ JobsInv /\ StoreInv
      /\ UNCHANGED <<rpc, want, state, victim, settled, said, threw, asked, at, job, status, scratch, wrote, segs, events>>
      /\ Hear(p) /\ up[p] # <<>> /\ Head(up[p]).kind = "ready" /\ Popped(p)
  BY DEF PoolInv, GiveJob, Retire, HearKind
<1>2. /\ p \in pool /\ rpc = "round" /\ heard' = heard \ {p}
  BY <1>1, HearIs
<1>3. /\ pool \subseteq Procs /\ holds \in [Procs -> Jobs \cup {NoJob}] /\ down \in [Procs -> Seq(Jobs \cup {NoJob})]
      /\ up \in [Procs -> Seq(Messages)] /\ pending \in Seq(Jobs)
      /\ at \in [Procs -> Gone \cup {"start", "again", "idle", "run", "saved", "report"}]
      /\ heard \subseteq Procs
  BY <1>1 DEF TypeOK, RunnerTypes, WorkerTypes
<1>4. Asking(p) /\ Tail(up[p]) = <<>>
  BY <1>1, <1>2, KindTells
<1>5. /\ down[p] = <<>> /\ holds[p] = NoJob /\ at[p] \in {"idle", "left"} /\ job[p] = NoJob
      /\ (Alive(p) => at[p] = "idle")
  <2>1. down[p] = <<>> /\ holds[p] = NoJob /\ ~Silent(p)
    BY <1>1, <1>4 DEF Asking, Silent
  <2>2. ASSUME NEW st \in Outcomes, Told(p, st) PROVE FALSE
    BY <2>1, <2>2 DEF Told
  <2>3. InPool(p)
    BY <1>1, <1>2 DEF WorkersInv
  <2>4. QED
    BY <1>3, <2>1, <2>2, <2>3 DEF InPool, Alive, Gone
<1>6. /\ up' \in [Procs -> Seq(Messages)] /\ up'[p] = <<>> /\ \A q \in Procs : q # p => up'[q] = up[q]
  BY <1>1, <1>3, <1>4, PopTyped
<1>7. \/ /\ GiveJob(p) /\ Alive(p) /\ pending # <<>> /\ pending' = Tail(pending) /\ pool' = pool
         /\ holds' = [holds EXCEPT ![p] = Head(pending)]
         /\ down' = [down EXCEPT ![p] = Append(down[p], Head(pending))]
      \/ /\ pending' = pending /\ Release(p)
         /\ \/ ~Alive(p) /\ down' = down
            \/ down' = [down EXCEPT ![p] = Append(down[p], NoJob)]
  BY DEF GiveJob, Retire, MayGive
<1>8. CASE /\ GiveJob(p) /\ Alive(p) /\ pending # <<>> /\ pending' = Tail(pending) /\ pool' = pool
           /\ holds' = [holds EXCEPT ![p] = Head(pending)]
           /\ down' = [down EXCEPT ![p] = Append(down[p], Head(pending))]
  <2>1. JobsInv' /\ pending' \in Seq(Jobs) /\ Head(pending) \in Jobs
    BY <1>1, <1>2, <1>5, <1>8, JobGiven
  <2>2. PICK j \in Jobs : j = Head(pending)
    BY <2>1
  <2>3. <<j>> \in Seq(Jobs \cup {NoJob}) /\ Append(down[p], j) = <<j>>
    BY <1>5, Words
  <2>4. /\ holds' \in [Procs -> Jobs \cup {NoJob}] /\ down' \in [Procs -> Seq(Jobs \cup {NoJob})]
        /\ holds'[p] = j /\ down'[p] = <<j>>
        /\ \A q \in Procs : q # p => holds'[q] = holds[q] /\ down'[q] = down[q]
    BY <1>3, <1>8, <2>2, <2>3
  <2>5. TypeOK'
    BY <1>1, <1>2, <1>3, <1>6, <1>8, <2>1, <2>4 DEF TypeOK, RunnerTypes, WorkerTypes
  <2>6. WorkersInv'
    <3>1. Given(p)'
      BY <1>6, <2>4, JobsTyped DEF Given
    <3>2. InPool(p)'
      BY <1>1, <1>5, <1>8, <3>1 DEF InPool
    <3>3. QED
      BY <1>1, <1>2, <1>6, <1>8, <2>4, <3>2, OthersStay DEF Process
  <2>7. RunnerInv'
    BY <1>1, <1>2, <1>3, <1>6, <1>8, <2>5, RoundKeeps DEF RunnerInv
  <2>8. StoreInv'
    <3>1. \A i \in 1..Len(pending') : \E k \in 1..Len(pending) : pending'[i] = pending[k]
      <4>1. /\ Len(pending') = Len(pending) - 1 /\ Len(pending) \in Nat
            /\ \A i \in 1..Len(pending') : pending'[i] = pending[i + 1]
        BY <1>3, <1>8
      <4>2. \A i \in 1..Len(pending') : i + 1 \in 1..Len(pending)
        BY <4>1
      <4>3. QED
        BY <4>1, <4>2
    <3>2. 1 \in 1..Len(pending) /\ holds'[p] = pending[1]
      BY <1>3, <1>8, <2>2, <2>4
    <3>3. ASSUME NEW q \in pool'
          PROVE  /\ Given(q)' => \/ q \in pool /\ Given(q) /\ holds'[q] = holds[q]
                                 \/ \E i \in 1..Len(pending) : holds'[q] = pending[i]
                 /\ (Told(q, "done") \/ ToldAsking(q, "done"))' =>
                       q \in pool /\ (Told(q, "done") \/ ToldAsking(q, "done")) /\ holds'[q] = holds[q]
      <4>1. CASE q = p
        <5>1. ~(Told(q, "done") \/ ToldAsking(q, "done"))'
          BY <2>3, <2>4, <4>1, Words DEF Told, ToldAsking
        <5>2. QED
          BY <3>2, <4>1, <5>1
      <4>2. CASE q # p
        BY <1>3, <1>6, <1>8, <2>4, <4>2 DEF Given, Told, ToldAsking
      <4>3. QED
        BY <4>1, <4>2
    <3>4. \A j2 \in Jobs : /\ settled'[j2] = "done" => DoneWhole(j2)
                           /\ settled'[j2] = "timeout" /\ victim'.job # j2 => Places(j2) # {}
      BY <1>1 DEF StoreInv
    <3>5. QED
      BY <1>1, <3>1, <3>3, <3>4, StoreRunner
  <2>9. QED
    BY <2>1, <2>5, <2>6, <2>7, <2>8 DEF PoolInv
<1>9. CASE /\ pending' = pending /\ Release(p)
           /\ \/ ~Alive(p) /\ down' = down
              \/ down' = [down EXCEPT ![p] = Append(down[p], NoJob)]
  <2>1. pool' = pool \ {p} /\ holds' = holds
    BY <1>3, <1>5, <1>9 DEF Release
  <2>2. JobsInv'
    BY <1>1, <1>2, <1>5, <1>9, JobsRest
  <2>3. <<NoJob>> \in Seq(Jobs \cup {NoJob}) /\ Append(down[p], NoJob) = <<NoJob>>
    BY <1>5, Words
  <2>4. /\ down' \in [Procs -> Seq(Jobs \cup {NoJob})] /\ down'[p] \in {<<>>, <<NoJob>>}
        /\ \A q \in Procs : q # p => down'[q] = down[q]
    BY <1>3, <1>5, <1>9, <2>3
  <2>5. TypeOK'
    BY <1>1, <1>2, <1>3, <1>6, <1>9, <2>1, <2>4 DEF TypeOK, RunnerTypes, WorkerTypes
  <2>6. WorkersInv'
    <3>1. OutOfPool(p)'
      BY <1>1, <1>5, <1>6, <2>1, <2>4 DEF OutOfPool
    <3>2. QED
      BY <1>1, <1>2, <1>6, <2>1, <2>4, <3>1, OthersStay DEF Process
  <2>7. RunnerInv'
    BY <1>1, <1>2, <1>3, <1>6, <2>1, <2>5, RoundKeeps DEF RunnerInv
  <2>8. StoreInv'
    <3>1. \A q \in pool' : /\ q \in pool /\ holds'[q] = holds[q] /\ (Given(q)' => Given(q))
                           /\ (Told(q, "done") \/ ToldAsking(q, "done"))' => Told(q, "done") \/ ToldAsking(q, "done")
      BY <1>3, <1>6, <2>1, <2>4 DEF Given, Told, ToldAsking
    <3>2. \A j \in Jobs : /\ settled'[j] = "done" => DoneWhole(j)
                          /\ settled'[j] = "timeout" /\ victim'.job # j => Places(j) # {}
      BY <1>1 DEF StoreInv
    <3>3. QED
      BY <1>1, <1>9, <3>1, <3>2, StoreRunner
  <2>9. QED
    BY <2>2, <2>5, <2>6, <2>7, <2>8 DEF PoolInv
<1>10. QED
  BY <1>7, <1>8, <1>9

\* A worker reports its job: it counts as the worker says.
LEMMA DoneKeeps ==
  ASSUME PoolInv, NEW p \in Procs, HearDone(p)
  PROVE  PoolInv'
<1>1. /\ TypeOK /\ WorkersInv /\ RunnerInv /\ JobsInv /\ StoreInv
      /\ UNCHANGED <<rpc, pool, pending, want, state, victim, said, threw, asked, at, job, status, down, scratch, wrote, segs, events>>
      /\ Hear(p) /\ up[p] # <<>> /\ Head(up[p]).kind = "done" /\ Popped(p)
      /\ holds' = [holds EXCEPT ![p] = NoJob]
      /\ settled' = [settled EXCEPT ![Head(up[p]).job] = Head(up[p]).status]
  BY DEF PoolInv, HearDone, HearKind
<1>2. /\ p \in pool /\ rpc = "round" /\ heard' = heard \ {p}
  BY <1>1, HearIs
<1>3. /\ pool \subseteq Procs /\ holds \in [Procs -> Jobs \cup {NoJob}]
      /\ up \in [Procs -> Seq(Messages)] /\ settled \in [Jobs -> {"no", "done", "failed", "timeout"}]
      /\ at \in [Procs -> Gone \cup {"start", "again", "idle", "run", "saved", "report"}]
      /\ heard \subseteq Procs
  BY <1>1 DEF TypeOK, RunnerTypes, WorkerTypes
<1>4. PICK st \in Outcomes :
         /\ Head(up[p]).job = holds[p] /\ Head(up[p]).status = st /\ holds[p] \in Jobs
         /\ \/ Told(p, st) /\ Tail(up[p]) = <<>>
            \/ ToldAsking(p, st) /\ Tail(up[p]) = <<Message("ready", NoJob, "done")>>
  BY <1>1, <1>2, KindTells
<1>5. PICK j \in Jobs : j = holds[p]
  BY <1>4
<1>6. settled' = [settled EXCEPT ![holds[p]] = st] /\ st \in {"done", "failed", "timeout"}
  BY <1>1, <1>4 DEF Outcomes
<1>7. /\ up' \in [Procs -> Seq(Messages)] /\ up'[p] = Tail(up[p]) /\ \A q \in Procs : q # p => up'[q] = up[q]
  BY <1>1, <1>3, PopTyped
<1>8. JobsInv' /\ settled' \in [Jobs -> {"no", "done", "failed", "timeout"}]
  BY <1>1, <1>2, <1>4, <1>6, JobsTyped, JobSettles
<1>9. holds' \in [Procs -> Jobs \cup {NoJob}] /\ holds'[p] = NoJob /\ \A q \in Procs : q # p => holds'[q] = holds[q]
  BY <1>1, <1>3
<1>10. TypeOK'
  BY <1>1, <1>2, <1>3, <1>7, <1>8, <1>9 DEF TypeOK, RunnerTypes, WorkerTypes
<1>11. (Silent(p) \/ Asking(p))'
  BY <1>1, <1>4, <1>7, <1>9 DEF Silent, Asking, Told, ToldAsking
<1>12. WorkersInv'
  <2>1. InPool(p)
    BY <1>1, <1>2 DEF WorkersInv
  <2>2. CASE Told(p, st) /\ Tail(up[p]) = <<>>
    <3>1. at[p] \in {"again", "left"}
      <4>1. up[p] # <<>> /\ holds[p] # NoJob /\ down[p] = <<>>
        BY <1>1, <2>2 DEF Told
      <4>2. /\ Message("done", holds[p], st) \in Messages /\ Message("ready", NoJob, "done") \in Messages
            /\ \A s2 \in Outcomes : Message("done", holds[p], s2) \in Messages
        BY <1>4, MessageTyped DEF Outcomes
      <4>3. Len(up[p]) = 1
        BY <2>2 DEF Told
      <4>4. ~Silent(p) /\ ~Asking(p) /\ ~Given(p) /\ \A s2 \in Outcomes : ~ToldAsking(p, s2)
        BY <4>1, <4>3 DEF Silent, Asking, Given, ToldAsking
      <4>5. QED
        BY <1>3, <2>1, <4>4 DEF InPool, Gone
    <3>2. Silent(p)' /\ holds'[p] = NoJob
      BY <1>1, <1>7, <1>9, <2>2 DEF Silent, Told
    <3>3. job[p] = NoJob
      BY <2>1, <3>1 DEF InPool
    <3>4. InPool(p)'
      BY <1>1, <3>1, <3>2, <3>3 DEF InPool, AnyPipe
    <3>5. QED
      BY <1>1, <1>2, <1>7, <1>9, <3>4, OthersStay DEF Process
  <2>3. CASE ToldAsking(p, st) /\ Tail(up[p]) = <<Message("ready", NoJob, "done")>>
    <3>1. at[p] \in {"idle", "left"}
      <4>1. Len(up[p]) = 2 /\ up[p] # <<>>
        BY <1>1, <2>3 DEF ToldAsking
      <4>2. ASSUME NEW s2 \in Outcomes, Told(p, s2) PROVE FALSE
        <5>1. up[p] = <<Message("done", holds[p], s2)>>
          BY <4>2 DEF Told
        <5>2. Len(up[p]) = 1
          BY <5>1
        <5>3. QED
          BY <4>1, <5>2
      <4>4. ~Silent(p)
        BY <4>1 DEF Silent
      <4>3. QED
        BY <1>3, <2>1, <4>2, <4>4 DEF InPool, Gone
    <3>2. Asking(p)'
      BY <1>1, <1>7, <1>9, <2>3 DEF Asking, ToldAsking
    <3>3. job[p] = NoJob
      BY <2>1, <3>1 DEF InPool
    <3>4. InPool(p)'
      BY <1>1, <3>1, <3>2, <3>3 DEF InPool, AnyPipe
    <3>5. QED
      BY <1>1, <1>2, <1>7, <1>9, <3>4, OthersStay DEF Process
  <2>4. QED
    BY <1>4, <2>2, <2>3
<1>13. RunnerInv'
  BY <1>1, <1>2, <1>3, <1>7, <1>10, RoundKeeps DEF RunnerInv
<1>14. StoreInv'
  <2>1. ASSUME NEW q \in pool'
        PROVE  /\ Given(q)' => q \in pool /\ Given(q) /\ holds'[q] = holds[q]
               /\ (Told(q, "done") \/ ToldAsking(q, "done"))' =>
                     q \in pool /\ (Told(q, "done") \/ ToldAsking(q, "done")) /\ holds'[q] = holds[q]
    <3>1. CASE q = p
      BY <1>9, <3>1 DEF Given, Told, ToldAsking
    <3>2. CASE q # p
      BY <1>1, <1>3, <1>7, <1>9, <3>2 DEF Given, Told, ToldAsking
    <3>3. QED
      BY <3>1, <3>2
  <2>2. st = "done" => DoneWhole(j)
    BY <1>1, <1>2, <1>4, <1>5 DEF StoreInv
  <2>3. \A k \in Jobs : /\ settled'[k] = "done" => DoneWhole(k)
                        /\ settled'[k] = "timeout" /\ victim'.job # k => Places(k) # {}
    <3>1. settled'[j] = st /\ st # "timeout" /\ \A k \in Jobs : k # j => settled'[k] = settled[k]
      BY <1>3, <1>5, <1>6 DEF Outcomes
    <3>2. QED
      BY <1>1, <2>2, <3>1 DEF StoreInv
  <2>4. QED
    BY <1>1, <2>1, <2>3, StoreRunner
<1>15. QED
  BY <1>8, <1>10, <1>12, <1>13, <1>14 DEF PoolInv

\* A worker that could not start: the loop is about to end.
LEMMA BrokenKeeps ==
  ASSUME PoolInv, NEW p \in Procs, HearBroken(p)
  PROVE  PoolInv'
<1>1. /\ TypeOK /\ WorkersInv /\ RunnerInv /\ JobsInv /\ StoreInv
      /\ UNCHANGED <<rpc, pool, holds, pending, want, victim, settled, said, threw, asked, at, job, status, down, scratch, wrote, segs, events>>
      /\ rpc = "round" /\ p \in heard /\ up[p] # <<>> /\ Head(up[p]).kind = "broken" /\ Popped(p)
      /\ state' = "broken" /\ heard' = {}
  BY DEF PoolInv, HearBroken
<1>2. p \in pool
  BY <1>1 DEF RunnerInv
<1>3. /\ pool \subseteq Procs /\ up \in [Procs -> Seq(Messages)]
      /\ at \in [Procs -> Gone \cup {"start", "again", "idle", "run", "saved", "report"}]
  BY <1>1 DEF TypeOK, RunnerTypes, WorkerTypes
<1>4. Unfit(p) /\ Tail(up[p]) = <<>>
  BY <1>1, <1>2, KindTells
<1>5. up' \in [Procs -> Seq(Messages)] /\ up'[p] = <<>> /\ \A q \in Procs : q # p => up'[q] = up[q]
  BY <1>1, <1>3, <1>4, PopTyped
<1>6. at[p] = "left" /\ job[p] = NoJob
  <2>1. InPool(p)
    BY <1>1, <1>2 DEF WorkersInv
  <2>2. holds[p] = NoJob /\ ~Silent(p)
    BY <1>1, <1>4 DEF Unfit, Silent
  <2>3. ~Asking(p)
    <3>1. Message("broken", NoJob, "failed") # Message("ready", NoJob, "done")
      BY DEF Message
    <3>2. ASSUME up[p] = <<Message("broken", NoJob, "failed")>>, up[p] = <<Message("ready", NoJob, "done")>>
          PROVE  FALSE
      <4>1. up[p][1] = Message("broken", NoJob, "failed") /\ up[p][1] = Message("ready", NoJob, "done")
        BY <3>2
      <4>2. QED
        BY <3>1, <4>1
    <3>3. QED
      BY <1>4, <3>2 DEF Unfit, Asking
  <2>4. \A st \in Outcomes : ~Told(p, st) /\ ~ToldAsking(p, st)
    BY <2>2 DEF Told, ToldAsking
  <2>5. ~Given(p)
    BY <2>2 DEF Given
  <2>6. QED
    BY <1>3, <2>1, <2>2, <2>3, <2>4, <2>5 DEF InPool, Gone
<1>7. TypeOK'
  <2>1. heard' \subseteq Procs /\ state' \in {"running", "stopped", "broken"}
    BY <1>1
  <2>2. QED
    BY <1>1, <1>5, <2>1 DEF TypeOK, RunnerTypes, WorkerTypes
<1>8. WorkersInv'
  <2>1. Silent(p)'
    BY <1>1, <1>4, <1>5 DEF Silent, Unfit
  <2>2. InPool(p)'
    BY <1>1, <1>6, <2>1 DEF InPool, AnyPipe
  <2>3. QED
    BY <1>1, <1>2, <1>5, <2>2, OthersStay DEF Process
<1>9. RunnerInv'
  BY <1>1, <1>7, RoundKeeps
<1>10. JobsInv'
  BY <1>1 DEF JobsInv
<1>11. StoreInv'
  <2>1. \A q \in pool' : /\ q \in pool /\ holds'[q] = holds[q] /\ (Given(q)' => Given(q))
                         /\ (Told(q, "done") \/ ToldAsking(q, "done"))' => Told(q, "done") \/ ToldAsking(q, "done")
    <3>1. ASSUME NEW q \in pool
          PROVE  /\ Given(q)' => Given(q)
                 /\ (Told(q, "done") \/ ToldAsking(q, "done"))' => Told(q, "done") \/ ToldAsking(q, "done")
      <4>1. CASE q = p
        <5>1. holds'[p] = NoJob
          BY <1>1, <1>4 DEF Unfit
        <5>2. QED
          BY <4>1, <5>1 DEF Given, Told, ToldAsking
      <4>2. CASE q # p
        BY <1>1, <1>3, <1>5, <4>2 DEF Given, Told, ToldAsking
      <4>3. QED
        BY <4>1, <4>2
    <3>2. QED
      BY <1>1, <3>1
  <2>2. \A j \in Jobs : /\ settled'[j] = "done" => DoneWhole(j)
                        /\ settled'[j] = "timeout" /\ victim'.job # j => Places(j) # {}
    BY <1>1 DEF StoreInv
  <2>3. QED
    BY <1>1, <2>1, <2>2, StoreRunner
<1>12. QED
  BY <1>7, <1>8, <1>9, <1>10, <1>11 DEF PoolInv

\* A worker killed at the time limit of its job: the job counts, and its record
\* is the runner's next step.
LEMMA LateKeeps ==
  ASSUME PoolInv, NEW p \in Procs, StopLate(p)
  PROVE  PoolInv'
<1>1. /\ TypeOK /\ WorkersInv /\ RunnerInv /\ JobsInv /\ StoreInv
      /\ UNCHANGED <<pending, want, state, heard, said, threw, asked, scratch, wrote, segs, events>>
      /\ rpc = "round" /\ heard = {} /\ p \in pool /\ holds[p] # NoJob
      /\ at' = [at EXCEPT ![p] = "left"] /\ job' = [job EXCEPT ![p] = NoJob] /\ status' = [status EXCEPT ![p] = "done"]
      /\ pool' = pool \ {p} /\ holds' = [holds EXCEPT ![p] = NoJob]
      /\ up' = [up EXCEPT ![p] = <<>>] /\ down' = [down EXCEPT ![p] = <<>>]
      /\ settled' = [settled EXCEPT ![holds[p]] = "timeout"]
      /\ victim' = [pid |-> p, job |-> holds[p]] /\ rpc' = "record"
  BY DEF PoolInv, StopLate, Vanish, Goto, Release
<1>2. /\ pool \subseteq Procs /\ holds \in [Procs -> Jobs \cup {NoJob}] /\ down \in [Procs -> Seq(Jobs \cup {NoJob})]
      /\ up \in [Procs -> Seq(Messages)] /\ settled \in [Jobs -> {"no", "done", "failed", "timeout"}]
      /\ at \in [Procs -> Gone \cup {"start", "again", "idle", "run", "saved", "report"}]
      /\ job \in [Procs -> Jobs \cup {NoJob}] /\ status \in [Procs -> {"done", "failed"}]
      /\ pending \in Seq(Jobs)
  BY <1>1 DEF TypeOK, RunnerTypes, WorkerTypes
<1>3. PICK j \in Jobs : j = holds[p]
  BY <1>1, <1>2
<1>4. /\ at'[p] = "left" /\ job'[p] = NoJob /\ up'[p] = <<>> /\ down'[p] = <<>> /\ holds'[p] = NoJob
      /\ \A q \in Procs : q # p => /\ at'[q] = at[q] /\ job'[q] = job[q] /\ status'[q] = status[q]
                                   /\ up'[q] = up[q] /\ down'[q] = down[q] /\ holds'[q] = holds[q]
  BY <1>1, <1>2
<1>5. JobsInv' /\ settled' \in [Jobs -> {"no", "done", "failed", "timeout"}]
  BY <1>1, JobSettles
<1>6. TypeOK'
  <2>1. /\ at' \in [Procs -> Gone \cup {"start", "again", "idle", "run", "saved", "report"}]
        /\ job' \in [Procs -> Jobs \cup {NoJob}] /\ status' \in [Procs -> {"done", "failed"}]
        /\ holds' \in [Procs -> Jobs \cup {NoJob}] /\ pool' \subseteq Procs
    BY <1>1, <1>2 DEF Gone
  <2>2. up' \in [Procs -> Seq(Messages)] /\ down' \in [Procs -> Seq(Jobs \cup {NoJob})]
    <3>1. <<>> \in Seq(Messages) /\ <<>> \in Seq(Jobs \cup {NoJob})
      OBVIOUS
    <3>2. QED
      BY <1>1, <1>2, <3>1
  <2>3. victim' \in [pid : Procs \cup {Runner}, job : Jobs \cup {NoJob}]
    BY <1>1, <1>3
  <2>4. QED
    BY <1>1, <1>5, <2>1, <2>2, <2>3 DEF TypeOK, RunnerTypes, WorkerTypes
<1>7. WorkersInv'
  <2>1. OutOfPool(p)'
    BY <1>4 DEF OutOfPool
  <2>2. QED
    BY <1>1, <1>4, <2>1, OthersStay DEF Process
<1>8. RunnerInv'
  <2>1. victim'.pid = p /\ victim'.job = j /\ settled'[j] = "timeout"
    BY <1>1, <1>2, <1>3
  <2>2. QED
    BY <1>1, <1>3, <1>4, <2>1 DEF RunnerInv
<1>9. StoreInv'
  <2>1. \A q \in pool' : /\ q \in pool /\ holds'[q] = holds[q] /\ (Given(q)' => Given(q))
                         /\ (Told(q, "done") \/ ToldAsking(q, "done"))' => Told(q, "done") \/ ToldAsking(q, "done")
    BY <1>1, <1>2, <1>4 DEF Given, Told, ToldAsking
  <2>2. \A k \in Jobs : /\ settled'[k] = "done" => DoneWhole(k)
                        /\ settled'[k] = "timeout" /\ victim'.job # k => Places(k) # {}
    <3>1. victim'.job = j /\ victim.job = NoJob
      BY <1>1, <1>3 DEF RunnerInv, Nobody
    <3>2. settled'[j] = "timeout" /\ \A k \in Jobs : k # j => settled'[k] = settled[k] /\ k # NoJob
      BY <1>1, <1>2, <1>3, JobsTyped
    <3>3. ASSUME NEW k \in Jobs, k # j
          PROVE  (settled[k] = "done" => DoneWhole(k)) /\ (settled[k] = "timeout" => Places(k) # {})
      BY <1>1, <3>1, <3>2, <3>3 DEF StoreInv
    <3>4. QED
      BY <3>1, <3>2, <3>3
  <2>3. \A q \in Procs : at'[q] \in {"run", "saved", "report"} => UNCHANGED <<at[q], job[q], status[q]>>
    BY <1>4
  <2>4. QED
    BY <1>1, <2>1, <2>2, <2>3, StoreRunner
<1>10. QED
  BY <1>5, <1>6, <1>7, <1>8, <1>9 DEF PoolInv

\* The record of a run stopped at its time limit.
LEMMA RecordKeeps ==
  ASSUME PoolInv, RecordTimeout
  PROVE  PoolInv'
<1>1. /\ TypeOK /\ WorkersInv /\ RunnerInv /\ JobsInv /\ StoreInv
      /\ UNCHANGED <<pool, holds, pending, want, state, heard, settled, said, threw, asked,
                     at, job, status, up, down, wrote, events>>
      /\ rpc = "record" /\ scratch' = [scratch EXCEPT ![victim.pid] = NoFolder]
      /\ victim' = Nobody /\ rpc' = "round"
  BY DEF PoolInv, RecordTimeout
<1>2. /\ pool \subseteq Procs /\ holds \in [Procs -> Jobs \cup {NoJob}] /\ pending \in Seq(Jobs)
      /\ scratch \in [Procs -> [job : Jobs \cup {NoJob}, fe : 0..MaxFe]] /\ wrote \in [Jobs -> 0..MaxFe]
  BY <1>1 DEF TypeOK, RunnerTypes, WorkerTypes
<1>3. victim.pid \in Procs /\ victim.job \in Jobs /\ at[victim.pid] = "left" /\ settled[victim.job] = "timeout"
  BY <1>1, JobsTyped DEF RunnerInv
<1>4. PICK j \in Jobs : j = victim.job
  BY <1>3
<1>5. PICK r \in Records : r.job = j /\ AppendRecord(Runner, r)
  <2>1. AppendRecord(Runner, [job |-> victim.job, status |-> "timeout",
                              fe |-> IF scratch[victim.pid].job = victim.job THEN scratch[victim.pid].fe ELSE 0])
    BY DEF RecordTimeout
  <2>2. scratch[victim.pid].fe \in 0..MaxFe /\ 0 \in 0..MaxFe
    BY <1>2, <1>3, PoolAssumption
  <2>3. QED
    BY <1>3, <1>4, <2>1, <2>2 DEF Records
<1>6. /\ segs' \in Seq(Segments)
      /\ \A k \in Jobs : \A e \in Places(k) : e \in Places(k)' /\ Rec(e)' = Rec(e)
      /\ \A k \in Jobs : \A e \in Places(k)' : e \in Places(k) \/ k = r.job
      /\ Places(r.job)' # {}
  BY <1>1, <1>5, RecordAppended DEF TypeOK
<1>7. ASSUME NEW k \in Jobs, k # j
      PROVE  /\ Places(k)' = Places(k) /\ (Untouched(k) => Untouched(k)') /\ (DoneWhole(k) => DoneWhole(k)')
  <2>1. Places(k)' = Places(k) /\ \A e \in Places(k) : Rec(e)' = Rec(e)
    BY <1>5, <1>6, <1>7
  <2>2. QED
    BY <1>1, <2>1, StaysWhole DEF Untouched
<1>8. /\ \A i \in 1..Len(pending) : pending[i] \in Jobs /\ pending[i] # j
      /\ \A q \in pool : holds[q] # j
      /\ \A q \in Procs : at[q] \in {"run", "saved", "report"} => /\ job[q] \in Jobs /\ job[q] # j
                                                                /\ q # victim.pid
  <2>1. settled[j] # "no"
    BY <1>3, <1>4
  <2>2. \A i \in 1..Len(pending) : pending[i] \in Jobs /\ pending[i] # j
    BY <1>1, <1>2, <2>1 DEF JobsInv
  <2>3. \A q \in pool : holds[q] # j
    BY <1>1, <2>1, JobsTyped DEF JobsInv
  <2>4. \A q \in Procs : at[q] \in {"run", "saved", "report"} => job[q] \in Jobs /\ job[q] # j
    BY <1>1, <2>3, Running
  <2>5. QED
    BY <1>3, <2>2, <2>3, <2>4
<1>9. TypeOK'
  <2>1. scratch' \in [Procs -> [job : Jobs \cup {NoJob}, fe : 0..MaxFe]]
    <3>1. NoFolder \in [job : Jobs \cup {NoJob}, fe : 0..MaxFe]
      BY PoolAssumption DEF NoFolder
    <3>2. QED
      BY <1>1, <1>2, <3>1
  <2>2. victim' \in [pid : Procs \cup {Runner}, job : Jobs \cup {NoJob}]
    BY <1>1 DEF Nobody
  <2>3. QED
    BY <1>1, <1>6, <2>1, <2>2 DEF TypeOK, RunnerTypes, WorkerTypes
<1>10. WorkersInv'
  BY <1>1 DEF WorkersInv, InPool, OutOfPool, Silent, Asking, Unfit, Told, ToldAsking, Given, AnyPipe
<1>11. RunnerInv'
  BY <1>1 DEF RunnerInv, Nobody, Alive
<1>12. JobsInv'
  BY <1>1 DEF JobsInv
<1>13. StoreInv'
  <2>1. \A i \in 1..Len(pending') : Untouched(pending[i])'
    <3>1. ASSUME NEW i \in 1..Len(pending) PROVE Untouched(pending[i])'
      <4>1. PICK k \in Jobs : k = pending[i] /\ k # j
        BY <1>8
      <4>2. Untouched(k)'
        BY <1>1, <1>7, <4>1 DEF StoreInv
      <4>3. QED
        BY <1>1, <4>1, <4>2
    <3>2. QED
      BY <1>1, <3>1
  <2>2. ASSUME NEW q \in pool', Given(q)' PROVE Untouched(holds[q])'
    <3>1. q \in pool /\ Given(q)
      BY <1>1, <2>2 DEF Given
    <3>2. PICK k \in Jobs : k = holds[q] /\ k # j
      BY <1>2, <1>8, <3>1 DEF Given
    <3>3. Untouched(k)'
      BY <1>1, <1>7, <3>1, <3>2 DEF StoreInv
    <3>4. QED
      BY <1>1, <3>2, <3>3
  <2>3. ASSUME NEW q \in Procs, at'[q] = "run"
        PROVE  Places(job[q])' = {} /\ scratch'[q].job = job'[q] /\ wrote'[job'[q]] = scratch'[q].fe
    <3>1. PICK k \in Jobs : k = job[q] /\ k # j
      BY <1>1, <1>8, <2>3
    <3>2. Places(k) = {} /\ scratch[q].job = k /\ wrote[k] = scratch[q].fe
      BY <1>1, <2>3, <3>1 DEF StoreInv
    <3>3. scratch'[q] = scratch[q] /\ job'[q] = k
      BY <1>1, <1>2, <1>8, <2>3, <3>1
    <3>4. Places(k)' = {}
      BY <1>7, <3>1, <3>2
    <3>5. QED
      BY <1>1, <3>2, <3>3, <3>4
  <2>4. ASSUME NEW q \in Procs, at'[q] \in {"saved", "report"}, status'[q] = "done" PROVE DoneWhole(job[q])'
    <3>1. PICK k \in Jobs : k = job[q] /\ k # j
      BY <1>1, <1>8, <2>4
    <3>2. DoneWhole(k)'
      BY <1>1, <1>7, <2>4, <3>1 DEF StoreInv
    <3>3. QED
      BY <1>1, <3>1, <3>2
  <2>5. ASSUME NEW q \in pool', (Told(q, "done") \/ ToldAsking(q, "done"))' PROVE DoneWhole(holds[q])'
    <3>1. q \in pool /\ (Told(q, "done") \/ ToldAsking(q, "done"))
      BY <1>1, <2>5 DEF Told, ToldAsking
    <3>2. PICK k \in Jobs : k = holds[q] /\ k # j
      BY <1>2, <1>8, <3>1 DEF Told, ToldAsking
    <3>3. DoneWhole(k)'
      BY <1>1, <1>7, <3>1, <3>2 DEF StoreInv
    <3>4. QED
      BY <1>1, <3>2, <3>3
  <2>6. ASSUME NEW k \in Jobs
        PROVE  /\ settled'[k] = "done" => DoneWhole(k)'
               /\ settled'[k] = "timeout" /\ victim'.job # k => Places(k)' # {}
    <3>1. CASE k = j
      BY <1>1, <1>3, <1>4, <1>5, <1>6, <3>1
    <3>2. CASE k # j
      BY <1>1, <1>4, <1>7, <3>2 DEF StoreInv
    <3>3. QED
      BY <3>1, <3>2
  <2>7. QED
    BY <2>1, <2>2, <2>3, <2>4, <2>5, <2>6 DEF StoreInv
<1>14. QED
  BY <1>9, <1>10, <1>11, <1>12, <1>13 DEF PoolInv

LEMMA FinishedBound == Finished \in Nat /\ Finished <= NJobs
<1>1. IsFiniteSet(Jobs) /\ Cardinality(Jobs) = NJobs
  BY PoolAssumption, FS_Interval DEF Jobs
<1>2. {j \in Jobs : settled[j] # "no"} \subseteq Jobs
  OBVIOUS
<1>3. QED
  BY <1>1, <1>2, FS_Subset, FS_CardinalityType DEF Finished

\* finally: whichever way the loop ends, no worker of the pool outlives it.
LEMMA EndKeeps ==
  ASSUME PoolInv, NEW st \in {"running", "stopped", "broken"}, Finally(st),
         UNCHANGED <<pool, holds, pending, victim, settled, asked, up, down, scratch, wrote, segs, events>>,
         want' \in Nat, heard' \subseteq heard, threw' \in BOOLEAN,
         st = "running" => threw' \/ Finished = NJobs
  PROVE  PoolInv'
<1>1. TypeOK /\ WorkersInv /\ RunnerInv /\ JobsInv /\ StoreInv
  BY DEF PoolInv
<1>2. /\ pool \subseteq Procs /\ heard \subseteq Procs
      /\ at \in [Procs -> Gone \cup {"start", "again", "idle", "run", "saved", "report"}]
      /\ job \in [Procs -> Jobs \cup {NoJob}] /\ status \in [Procs -> {"done", "failed"}]
  BY <1>1 DEF TypeOK, RunnerTypes, WorkerTypes
<1>3. /\ rpc' = "over" /\ state' = st /\ said' = (IF st = "running" THEN "finished" ELSE st)
      /\ at' = [p \in Procs |-> IF p \in pool /\ Alive(p) THEN "left" ELSE at[p]]
      /\ job' = [p \in Procs |-> IF p \in pool /\ Alive(p) THEN NoJob ELSE job[p]]
      /\ status' = [p \in Procs |-> IF p \in pool /\ Alive(p) THEN "done" ELSE status[p]]
  <2>1. \A p : p \in {q \in pool : Alive(q)} <=> p \in pool /\ Alive(p)
    OBVIOUS
  <2>2. QED
    BY <2>1 DEF Finally
<1>4. \A q \in Procs : \/ q \in pool /\ Alive(q) /\ at'[q] = "left" /\ job'[q] = NoJob
                       \/ ~(q \in pool /\ Alive(q)) /\ at'[q] = at[q] /\ job'[q] = job[q] /\ status'[q] = status[q]
  BY <1>3
<1>5. TypeOK'
  <2>1. /\ at' \in [Procs -> Gone \cup {"start", "again", "idle", "run", "saved", "report"}]
        /\ job' \in [Procs -> Jobs \cup {NoJob}] /\ status' \in [Procs -> {"done", "failed"}]
    BY <1>2, <1>3 DEF Gone
  <2>2. said' \in {"none", "running", "finished", "stopped", "broken"} /\ heard' \subseteq Procs
    BY <1>2, <1>3
  <2>3. QED
    BY <1>1, <1>3, <2>1, <2>2 DEF TypeOK, RunnerTypes, WorkerTypes
<1>6. ASSUME NEW q \in Procs
      PROVE  (q \in pool' => InPool(q)') /\ (q \notin pool' => OutOfPool(q)')
  <2>1. CASE q \in pool /\ Alive(q)
    <3>1. AnyPipe(q)
      BY <1>1, <2>1, ReadIs
    <3>2. AnyPipe(q)'
      BY <3>1 DEF AnyPipe, Silent, Asking, Unfit, Told, ToldAsking, Given
    <3>3. at'[q] = "left" /\ job'[q] = NoJob
      BY <1>4, <2>1
    <3>4. QED
      BY <2>1, <3>2, <3>3 DEF InPool
  <2>2. CASE ~(q \in pool /\ Alive(q))
    <3>1. at'[q] = at[q] /\ job'[q] = job[q]
      BY <1>4, <2>2
    <3>2. InPool(q) => InPool(q)'
      BY <3>1 DEF InPool, Silent, Asking, Unfit, Told, ToldAsking, Given, AnyPipe
    <3>3. OutOfPool(q) => OutOfPool(q)'
      BY <3>1 DEF OutOfPool
    <3>4. QED
      BY <1>1, <3>2, <3>3 DEF WorkersInv
  <2>3. QED
    BY <2>1, <2>2
<1>7. WorkersInv'
  BY <1>6 DEF WorkersInv
<1>8. RunnerInv'
  <2>1. \A q \in Procs : ~Alive(q) => ~Alive(q)'
    BY <1>4 DEF Alive
  <2>2. \A q \in heard' : q \in pool' /\ (up'[q] # <<>> \/ ~Alive(q)')
    BY <1>1, <1>2, <2>1 DEF RunnerInv
  <2>3. \A q \in pool' : ~Alive(q)'
    <3>1. ASSUME NEW q \in pool PROVE ~Alive(q)'
      BY <1>2, <1>4 DEF Alive, Gone
    <3>2. QED
      BY <3>1
  <2>4. said' = "finished" /\ ~threw' => Finished' = NJobs
    BY <1>3 DEF Finished
  <2>5. victim'.job # NoJob => settled'[victim'.job] = "timeout"
    BY <1>1 DEF RunnerInv
  <2>6. QED
    BY <1>3, <2>2, <2>3, <2>4, <2>5 DEF RunnerInv
<1>9. JobsInv'
  BY <1>1 DEF JobsInv
<1>10. StoreInv'
  <2>1. \A q \in Procs : at'[q] \in {"run", "saved", "report"} => UNCHANGED <<at[q], job[q], status[q]>>
    BY <1>4
  <2>2. \A q \in pool' : /\ q \in pool /\ holds'[q] = holds[q] /\ (Given(q)' => Given(q))
                         /\ (Told(q, "done") \/ ToldAsking(q, "done"))' => Told(q, "done") \/ ToldAsking(q, "done")
    BY DEF Given, Told, ToldAsking
  <2>3. \A j \in Jobs : /\ settled'[j] = "done" => DoneWhole(j)
                        /\ settled'[j] = "timeout" /\ victim'.job # j => Places(j) # {}
    BY <1>1 DEF StoreInv
  <2>4. QED
    BY <1>1, <2>1, <2>2, <2>3, StoreRunner
<1>11. QED
  BY <1>5, <1>7, <1>8, <1>9, <1>10 DEF PoolInv

LEMMA LeavingKeeps ==
  ASSUME PoolInv, LeaveLoop \/ RecordFails \/ Interrupt
  PROVE  PoolInv'
<1>1. state \in {"running", "stopped", "broken"} /\ threw \in BOOLEAN /\ want \in Nat
  BY DEF PoolInv, TypeOK, RunnerTypes
<1>2. CASE LeaveLoop
  <2>1. state = "running" => Finished = NJobs
    <3>1. state = "running" => ~(Finished < NJobs)
      BY <1>2 DEF LeaveLoop, GoesOn
    <3>2. QED
      BY <3>1, FinishedBound, PoolAssumption
  <2>2. QED
    BY <1>1, <1>2, <2>1, EndKeeps DEF LeaveLoop
<1>3. CASE RecordFails
  BY <1>1, <1>3, EndKeeps DEF RecordFails
<1>4. CASE Interrupt
  BY <1>1, <1>4, EndKeeps DEF Interrupt
<1>5. QED
  BY <1>2, <1>3, <1>4

\* _workers.txt is read, and the workers that are missing are born.
LEMMA ReadKeeps ==
  ASSUME PoolInv, ReadWorkers
  PROVE  PoolInv'
<1>1. /\ TypeOK /\ WorkersInv /\ RunnerInv /\ JobsInv /\ StoreInv /\ rpc = "top"
      /\ UNCHANGED <<holds, pending, victim, settled, threw, asked, up, down, scratch, wrote, segs, events>>
      /\ heard' = {p \in pool' : up[p] # <<>> \/ at'[p] = "left"}
  BY DEF PoolInv, ReadWorkers
<1>2. want' \in Nat
  <2>1. want' = SmallerOf(asked, Ceiling)
    BY DEF ReadWorkers
  <2>2. QED
    BY <1>1, <2>1, PoolAssumption DEF TypeOK, SmallerOf
<1>3. /\ pool \subseteq Procs /\ heard \subseteq Procs /\ pending \in Seq(Jobs) /\ threw \in BOOLEAN
      /\ at \in [Procs -> Gone \cup {"start", "again", "idle", "run", "saved", "report"}]
  BY <1>1 DEF TypeOK, RunnerTypes, WorkerTypes
<1>4. PICK new \in SUBSET Procs :
         /\ \A p \in new : at[p] = "unborn"
         /\ pool' = pool \cup new
         /\ \/ pool' = {} /\ Finally("stopped")
            \/ /\ at' = [p \in Procs |-> IF p \in new THEN "start" ELSE at[p]]
               /\ rpc' = "round" /\ said' = "running" /\ UNCHANGED <<state, job, status>>
  <2> DEFINE new == Newborn(Wanted(want'))
  <2>1. new \subseteq Procs /\ \A p \in new : at[p] = "unborn"
    BY DEF Newborn, Unborn
  <2>2. /\ pool' = pool \cup new
        /\ \/ pool' = {} /\ Finally("stopped")
           \/ /\ at' = [p \in Procs |-> IF p \in new THEN "start" ELSE at[p]]
              /\ rpc' = "round" /\ said' = "running" /\ UNCHANGED <<state, job, status>>
    BY DEF ReadWorkers
  <2> HIDE DEF new
  <2>3. QED
    BY <2>1, <2>2
<1>5. CASE pool' = {} /\ Finally("stopped")
  BY <1>1, <1>2, <1>3, <1>4, <1>5, EndKeeps
<1>6. CASE /\ at' = [p \in Procs |-> IF p \in new THEN "start" ELSE at[p]]
           /\ rpc' = "round" /\ said' = "running" /\ UNCHANGED <<state, job, status>>
  <2>1. \A p \in Procs : (p \in new => at'[p] = "start") /\ (p \notin new => at'[p] = at[p])
    BY <1>6
  <2>2. \A p \in new : /\ p \notin pool /\ p \in Procs /\ Silent(p) /\ holds[p] = NoJob /\ job[p] = NoJob
    BY <1>1, <1>4 DEF WorkersInv, InPool, OutOfPool, Silent
  <2>3. TypeOK'
    <3>1. at' \in [Procs -> Gone \cup {"start", "again", "idle", "run", "saved", "report"}]
      BY <1>3, <1>6
    <3>2. pool' \subseteq Procs /\ heard' \subseteq Procs
      BY <1>1, <1>3, <1>4
    <3>3. QED
      BY <1>1, <1>2, <1>6, <3>1, <3>2 DEF TypeOK, RunnerTypes, WorkerTypes
  <2>4. WorkersInv'
    <3>1. ASSUME NEW q \in Procs
          PROVE  (q \in pool' => InPool(q)') /\ (q \notin pool' => OutOfPool(q)')
      <4>1. CASE q \in new
        <5>1. Silent(q)' /\ at'[q] = "start" /\ holds'[q] = NoJob /\ job'[q] = NoJob /\ q \in pool'
          BY <1>1, <1>4, <1>6, <2>1, <2>2, <4>1 DEF Silent
        <5>2. QED
          BY <5>1 DEF InPool
      <4>2. CASE q \notin new
        <5>1. at'[q] = at[q] /\ (q \in pool' <=> q \in pool)
          BY <1>4, <2>1, <4>2
        <5>2. InPool(q) => InPool(q)'
          BY <1>1, <1>6, <5>1 DEF InPool, Silent, Asking, Unfit, Told, ToldAsking, Given, AnyPipe
        <5>3. OutOfPool(q) => OutOfPool(q)'
          BY <1>1, <1>6, <5>1 DEF OutOfPool
        <5>4. QED
          BY <1>1, <5>1, <5>2, <5>3 DEF WorkersInv
      <4>3. QED
        BY <4>1, <4>2
    <3>2. QED
      BY <3>1 DEF WorkersInv
  <2>5. RunnerInv'
    <3>1. \A q \in heard' : q \in pool' /\ (up'[q] # <<>> \/ ~Alive(q)')
      BY <1>1 DEF Alive, Gone
    <3>2. victim' = Nobody /\ victim'.job = NoJob
      BY <1>1 DEF RunnerInv, Nobody
    <3>3. QED
      BY <1>6, <3>1, <3>2 DEF RunnerInv
  <2>6. JobsInv'
    <3>1. \A q \in pool' : q \in pool \/ holds[q] = NoJob
      BY <1>4, <2>2
    <3>2. \A i \in 1..Len(pending) : pending[i] # NoJob
      BY <1>3, JobsTyped
    <3>3. pool \subseteq pool'
      BY <1>4
    <3>4. QED
      BY <1>1, <3>1, <3>2, <3>3 DEF JobsInv
  <2>7. StoreInv'
    <3>1. \A q \in Procs : at'[q] \in {"run", "saved", "report"} => UNCHANGED <<at[q], job[q], status[q]>>
      BY <1>6, <2>1
    <3>2. ASSUME NEW q \in pool'
          PROVE  /\ Given(q)' => q \in pool /\ Given(q) /\ holds'[q] = holds[q]
                 /\ (Told(q, "done") \/ ToldAsking(q, "done"))' =>
                       q \in pool /\ (Told(q, "done") \/ ToldAsking(q, "done")) /\ holds'[q] = holds[q]
      BY <1>1, <1>4, <2>2 DEF Given, Told, ToldAsking
    <3>3. \A j \in Jobs : /\ settled'[j] = "done" => DoneWhole(j)
                          /\ settled'[j] = "timeout" /\ victim'.job # j => Places(j) # {}
      BY <1>1 DEF StoreInv
    <3>4. QED
      BY <1>1, <3>1, <3>2, <3>3, StoreRunner
  <2>8. QED
    BY <2>3, <2>4, <2>5, <2>6, <2>7 DEF PoolInv
<1>7. QED
  BY <1>4, <1>5, <1>6

-----------------------------------------------------------------------------
(* The theorems.                                                           *)

LEMMA PoolInit == Init => PoolInv
<1> SUFFICES ASSUME Init PROVE PoolInv
  OBVIOUS
<1>0. \A j : Places(j) = {}
  BY DEF Init, Places
<1>1. TypeOK
  <2>1. RunnerTypes
    <3>1. pending \in Seq(Jobs)
      <4>1. pending = [i \in 1..NJobs |-> i] /\ NJobs \in Nat
        BY PoolAssumption DEF Init, Jobs
      <4>2. \A i \in 1..NJobs : pending[i] \in 1..NJobs
        BY <4>1
      <4>3. pending \in Seq(1..NJobs)
        BY <4>1, <4>2
      <4>4. QED
        BY <4>3 DEF Jobs
    <3>2. /\ holds \in [Procs -> Jobs \cup {NoJob}] /\ settled \in [Jobs -> {"no", "done", "failed", "timeout"}]
          /\ victim \in [pid : Procs \cup {Runner}, job : Jobs \cup {NoJob}]
      BY DEF Init, Nobody
    <3>3. QED
      BY <3>1, <3>2 DEF Init, RunnerTypes
  <2>2. WorkerTypes
    <3>1. NoFolder \in [job : Jobs \cup {NoJob}, fe : 0..MaxFe]
      BY PoolAssumption DEF NoFolder
    <3>2. <<>> \in Seq(Messages) /\ <<>> \in Seq(Jobs \cup {NoJob})
      OBVIOUS
    <3>3. QED
      BY <3>1, <3>2, PoolAssumption DEF Init, WorkerTypes, Gone
  <2>3. segs \in Seq(Segments) /\ asked \in Nat /\ events \in 0..MaxEvents
    BY PoolAssumption DEF Init
  <2>4. QED
    BY <2>1, <2>2, <2>3 DEF TypeOK
<1>2. WorkersInv
  BY DEF Init, WorkersInv, OutOfPool
<1>3. RunnerInv
  BY DEF Init, RunnerInv, Nobody
<1>4. JobsInv
  <2>1. Len(pending) = NJobs /\ \A i \in 1..NJobs : pending[i] = i
    BY PoolAssumption DEF Init, Jobs
  <2>2. pool = {} /\ \A j \in Jobs : settled[j] = "no"
    BY DEF Init
  <2>3. QED
    BY <2>1, <2>2 DEF JobsInv, Jobs
<1>5. StoreInv
  <2>1. Len(pending) = NJobs /\ \A i \in 1..NJobs : pending[i] = i
    BY PoolAssumption DEF Init, Jobs
  <2>2. \A i \in 1..Len(pending) : Untouched(pending[i])
    BY <1>0, <2>1 DEF Init, Untouched, Jobs
  <2>3. QED
    BY <2>2 DEF Init, StoreInv
<1>6. QED
  BY <1>1, <1>2, <1>3, <1>4, <1>5 DEF PoolInv

LEMMA PoolStep == PoolInv /\ [Next]_vars => PoolInv'
<1> SUFFICES ASSUME PoolInv, [Next]_vars PROVE PoolInv'
  OBVIOUS
<1>1. CASE RunnerStep
  BY <1>1, ReadKeeps, ListenKeeps, LeavingKeeps, RecordKeeps, LoseKeeps, ReadyKeeps, DoneKeeps, BrokenKeeps
     DEF RunnerStep
<1>2. CASE \E p \in Procs : WorkerStep(p) \/ StopLate(p) \/ Die(p)
  BY <1>2, WorkerKeeps, LateKeeps
<1>3. CASE RecordFails \/ Interrupt
  BY <1>3, LeavingKeeps
<1>4. CASE SetWorkers \/ Over \/ UNCHANGED vars
  BY <1>4, WorkersSetKeeps
<1>5. QED
  BY <1>1, <1>2, <1>3, <1>4 DEF Next

\* The inductive invariant holds of every launch of the runner.
THEOREM PoolInvariant == Spec => []PoolInv
BY PoolInit, PoolStep, PTL DEF Spec

\* Every variable of the runner, the workers and the store keeps to its type.
THEOREM PoolTypes == Spec => []TypeOK
<1>1. PoolInv => TypeOK
  BY DEF PoolInv
<1>2. QED
  BY <1>1, PoolInvariant, PTL

\* Wherever a process dies, a send fails or a time limit strikes, every job
\* waits, is held by one worker of the pool or has counted, and only one of
\* the three.
THEOREM JobsAccounted == Spec => []Accounted
<1>1. PoolInv => Accounted
  <2>1. SUFFICES ASSUME PoolInv, NEW j \in Jobs
                 PROVE  Cardinality({i \in 1..Len(pending) : pending[i] = j}) + Cardinality(Held(j))
                            + (IF settled[j] = "no" THEN 0 ELSE 1) = 1
    BY DEF Accounted
  <2>2. JobsInv /\ pool \subseteq Procs /\ j # NoJob
    BY <2>1, JobsTyped DEF PoolInv, TypeOK, RunnerTypes
  <2>3. Cardinality({}) = 0 /\ \A x : Cardinality({x}) = 1
    BY FS_EmptySet, FS_Singleton
  <2>4. CASE settled[j] # "no"
    <3>1. {i \in 1..Len(pending) : pending[i] = j} = {} /\ Held(j) = {}
      BY <2>2, <2>4 DEF JobsInv, Held
    <3>2. Cardinality({i \in 1..Len(pending) : pending[i] = j}) = 0 /\ Cardinality(Held(j)) = 0
      BY <2>3, <3>1
    <3>3. QED
      BY <2>4, <3>2
  <2>5. CASE settled[j] = "no" /\ \E i \in 1..Len(pending) : pending[i] = j
    <3>1. PICK i \in 1..Len(pending) : pending[i] = j
      BY <2>5
    <3>2. {n \in 1..Len(pending) : pending[n] = j} = {i} /\ Held(j) = {}
      BY <2>2, <3>1 DEF JobsInv, Held
    <3>3. Cardinality({n \in 1..Len(pending) : pending[n] = j}) = 1 /\ Cardinality(Held(j)) = 0
      BY <2>3, <3>2
    <3>4. QED
      BY <2>5, <3>3
  <2>6. CASE settled[j] = "no" /\ \E p \in pool : holds[p] = j
    <3>1. PICK p \in pool : holds[p] = j
      BY <2>6
    <3>2. {n \in 1..Len(pending) : pending[n] = j} = {} /\ Held(j) = {p}
      BY <2>2, <3>1 DEF JobsInv, Held
    <3>3. Cardinality({n \in 1..Len(pending) : pending[n] = j}) = 0 /\ Cardinality(Held(j)) = 1
      BY <2>3, <3>2
    <3>4. QED
      BY <2>6, <3>3
  <2>7. QED
    BY <2>2, <2>4, <2>5, <2>6 DEF JobsInv
<1>2. QED
  BY <1>1, PoolInvariant, PTL

\* A living process that runs a job, or has one in its pipe, is the one the
\* runner has down for it: no job is run by two processes.
THEOREM RunnerKnows == Spec => []KnowsWhoHolds
<1>1. PoolInv => KnowsWhoHolds
  <2>1. SUFFICES ASSUME PoolInv, NEW p \in Procs, Alive(p)
                 PROVE  /\ job[p] # NoJob => p \in pool /\ holds[p] = job[p]
                        /\ \A i \in 1..Len(down[p]) : down[p][i] # NoJob => p \in pool /\ holds[p] = down[p][i]
    BY DEF KnowsWhoHolds
  <2>2. /\ (p \in pool => InPool(p)) /\ (p \notin pool => OutOfPool(p))
        /\ at[p] \in {"start", "again", "idle", "run", "saved", "report"}
    BY <2>1 DEF PoolInv, WorkersInv, TypeOK, WorkerTypes, Alive
  <2>3. CASE p \in pool
    <3>1. job[p] # NoJob => holds[p] = job[p]
      BY <2>2, <2>3 DEF InPool
    <3>2. down[p] = <<>> \/ down[p] = <<holds[p]>>
      BY <2>2, <2>3 DEF InPool, Silent, Asking, Told, ToldAsking, Given
    <3>3. \A i \in 1..Len(down[p]) : down[p][i] = holds[p]
      BY <3>2
    <3>4. QED
      BY <2>3, <3>1, <3>3
  <2>4. CASE p \notin pool
    <3>1. job[p] = NoJob /\ (down[p] = <<>> \/ down[p] = <<NoJob>>)
      BY <2>2, <2>4 DEF OutOfPool
    <3>2. QED
      BY <3>1
  <2>5. QED
    BY <2>3, <2>4
<1>2. QED
  BY <1>1, PoolInvariant, PTL

\* When the runner is over no process is left at a job, and "finished" with no
\* exception means that every job counted.
THEOREM EndHolds == Spec => []EndIsTrue
<1>1. PoolInv => EndIsTrue
  <2>1. SUFFICES ASSUME PoolInv, rpc = "over"
                 PROVE  /\ \A p \in Procs : Alive(p) => job[p] = NoJob
                        /\ said = "finished" /\ ~threw => Finished = NJobs
    BY DEF EndIsTrue
  <2>2. \A p \in Procs : Alive(p) => p \notin pool
    BY <2>1 DEF PoolInv, RunnerInv
  <2>3. \A p \in Procs : Alive(p) => job[p] = NoJob
    BY <2>1, <2>2 DEF PoolInv, WorkersInv, OutOfPool
  <2>4. QED
    BY <2>1, <2>3 DEF PoolInv, RunnerInv
<1>2. QED
  BY <1>1, PoolInvariant, PTL

LEMMA GreatestOf == ASSUME NEW n \in Nat, NEW T \in SUBSET (1..n), T # {} PROVE \E m \in T : \A k \in T : k <= m
<1> DEFINE D == {d \in Nat : n - d \in T}
<1>1. D \in SUBSET Nat /\ D # {}
  <2>1. PICK k \in T : TRUE
    OBVIOUS
  <2>2. n - k \in Nat /\ n - (n - k) = k
    OBVIOUS
  <2>3. n - k \in D
    BY <2>2
  <2>4. QED
    BY <2>3
<1> HIDE DEF D
<1>2. PICK d \in D : \A c \in D : ~(<<c, d>> \in OpToRel(<, Nat))
  BY <1>1, NatLessThanWellFounded, WFMin
<1>3. d \in Nat /\ n - d \in T
  BY DEF D
<1>4. ASSUME NEW k \in T PROVE k <= n - d
  <2>1. n - k \in Nat /\ n - (n - k) = k
    OBVIOUS
  <2>2. n - k \in D
    BY <2>1 DEF D
  <2>3. ~(n - k < d)
    BY <1>2, <1>3, <2>1, <2>2 DEF OpToRel
  <2>4. QED
    BY <1>3, <2>1, <2>3
<1>5. QED
  BY <1>3, <1>4

\* The index of a job that has a record gives one of its records.
LEMMA StoredIs ==
  ASSUME segs \in Seq(Segments), NEW j \in Jobs, Places(j) # {}
  PROVE  \E e \in Places(j) : Stored(j) = Rec(e) /\ Rec(e) \in Records
<1>1. Len(segs) \in Nat /\ \A i \in 1..Len(segs) : segs[i].recs \in Seq(Records)
  <2>1. \A i \in 1..Len(segs) : segs[i] \in Segments
    OBVIOUS
  <2>2. QED
    BY <2>1 DEF Segments
<1>2. ASSUME NEW e \in Places(j)
      PROVE  /\ e = <<e[1], e[2]>> /\ e[1] \in 1..Len(segs) /\ e[2] \in 1..Len(segs[e[1]].recs)
  BY DEF Places
<1> DEFINE Is == {i \in 1..Len(segs) : \E e \in Places(j) : e[1] = i}
<1>3. PICK i \in Is : \A h \in Is : h <= i
  <2>1. Is \in SUBSET (1..Len(segs)) /\ Is # {}
    BY <1>2
  <2>2. QED
    BY <1>1, <2>1, GreatestOf
<1> DEFINE Ks == {k \in 1..Len(segs[i].recs) : <<i, k>> \in Places(j)}
<1>4. PICK k \in Ks : \A h \in Ks : h <= k
  <2>1. Len(segs[i].recs) \in Nat
    BY <1>1
  <2>2. Ks \in SUBSET (1..Len(segs[i].recs)) /\ Ks # {}
    <3>1. PICK e \in Places(j) : e[1] = i
      OBVIOUS
    <3>2. e[2] \in Ks
      BY <1>2, <3>1
    <3>3. QED
      BY <3>2
  <2> HIDE DEF Ks
  <2>3. QED
    BY <2>1, <2>2, GreatestOf
<1>5. <<i, k>> \in Places(j) /\ \A f \in Places(j) : f = <<i, k>> \/ Later(<<i, k>>, f)
  <2>1. <<i, k>> \in Places(j)
    OBVIOUS
  <2>2. ASSUME NEW f \in Places(j) PROVE f = <<i, k>> \/ Later(<<i, k>>, f)
    <3>1. f = <<f[1], f[2]>> /\ f[1] \in 1..Len(segs) /\ f[2] \in 1..Len(segs[f[1]].recs) /\ f[1] \in Is
      BY <1>2
    <3>2. f[1] <= i
      BY <1>3, <3>1
    <3>3. f[1] = i => f[2] \in Ks /\ f[2] <= k
      BY <1>4, <3>1
    <3>4. CASE f[1] = i
      <4>1. f[2] <= k /\ f[2] \in Nat /\ k \in Nat
        BY <1>1, <3>1, <3>3, <3>4
      <4>2. f[2] = k => f = <<i, k>>
        BY <3>1, <3>4
      <4>3. QED
        BY <3>4, <4>1, <4>2 DEF Later
    <3>5. CASE f[1] # i
      BY <1>1, <3>1, <3>2, <3>5 DEF Later
    <3>6. QED
      BY <3>4, <3>5
  <2>3. QED
    BY <2>1, <2>2
<1> HIDE DEF Is, Ks
<1>6. PICK last : last = CHOOSE e \in Places(j) : \A f \in Places(j) : f = e \/ Later(e, f)
  OBVIOUS
<1>7. last \in Places(j) /\ Stored(j) = Rec(last)
  BY <1>5, <1>6 DEF Stored, Rec
<1>8. Rec(last) \in Records
  BY <1>1, <1>2, <1>7 DEF Rec
<1>9. QED
  BY <1>7, <1>8

\* What counts as done has its whole run in the store, what counts as timeout a
\* record: nothing that counted is run again on resuming.
THEOREM CountedStays == Spec => []CountedIsStored
<1>1. PoolInv => CountedIsStored
  <2>1. SUFFICES ASSUME PoolInv, NEW j \in Jobs
                 PROVE  /\ settled[j] = "done" => Status(j) = "done" /\ Stored(j).fe = MaxFe
                        /\ settled[j] = "timeout" /\ victim.job # j => Status(j) # "pending"
    BY DEF CountedIsStored
  <2>2. /\ segs \in Seq(Segments)
        /\ settled[j] = "done" => DoneWhole(j)
        /\ settled[j] = "timeout" /\ victim.job # j => Places(j) # {}
    BY <2>1 DEF PoolInv, TypeOK, StoreInv
  <2>3. CASE settled[j] = "done"
    <3>1. DoneWhole(j)
      BY <2>2, <2>3
    <3>2. PICK e \in Places(j) : Stored(j) = Rec(e)
      BY <2>2, <3>1, StoredIs DEF DoneWhole
    <3>3. QED
      BY <2>3, <3>1, <3>2 DEF DoneWhole, Status
  <2>4. CASE settled[j] = "timeout" /\ victim.job # j
    <3>1. Places(j) # {} /\ Stored(j) \in Records
      BY <2>2, <2>4, StoredIs
    <3>2. QED
      BY <2>4, <3>1 DEF Status, Records
  <2>5. QED
    BY <2>3, <2>4
<1>2. QED
  BY <1>1, PoolInvariant, PTL
=============================================================================
