------------------------------ MODULE Session ------------------------------
(***************************************************************************)
(* mootation::Session (include/mootation/embed.hpp): the caller owns the   *)
(* loop, the algorithm runs on a worker thread, and the two meet in        *)
(* handoff(), ask() and tell() over one mutex and two condition variables. *)
(* Every action is one critical section or one step outside the lock.      *)
(* A thread in "asleep" is in its condition variable's wait set; only a    *)
(* notify (or a spurious wakeup) takes it back to the predicate.           *)
(***************************************************************************)
EXTENDS Naturals, Sequences

CONSTANTS
    MaxBatches,      \* the batches the run's budget can hold
    MaxGenerations,  \* the steps it can take
    NCons,           \* settings_.n_cons
    Rows,            \* the row counts a caller's F or G may have
    Size             \* the number of candidates in each batch

ASSUME SessionAssumption ==
    /\ MaxBatches \in Nat
    /\ MaxGenerations \in Nat
    /\ NCons \in Nat
    /\ Rows \subseteq Nat
    /\ Size \in [1..MaxBatches -> Rows \ {0}]

VARIABLES
    wpc,          \* where the worker thread is
    cpc,          \* where the caller is inside a call
    cop,          \* the call it is in
    args,         \* tell()'s: the rows of F and G, and the batch they answer
    held,         \* the batch the caller last received (0: none): its X
    ret,          \* what its last call returned or threw
    pending,      \* pending_: the number of the batch, 0 before the first
    answer,       \* answer_F_, answer_G_: the batch the answer was made for
    have_batch, have_answer, finished, abort,
    generation,
    failure,      \* failure_ is set
    result,       \* result_ has been stored
    told,         \* history: the batches answers were accepted for
    used,         \* history: the answers the algorithm received
    reported      \* history: the run's failure has been thrown to the caller

worker == <<wpc, used>>
caller == <<cpc, cop, args, held, ret>>
shared == <<pending, answer, have_batch, have_answer, finished, abort,
            generation, failure, result>>
history == <<told, reported>>
vars == <<worker, caller, shared, history>>

Calls == {"ask", "tell", "done", "generation", "result"}
NoArgs == [F |-> 0, G |-> 0, batch |-> 0]
Reply(kind, n) == [kind |-> kind, n |-> n]
Bit(b) == IF b THEN 1 ELSE 0

Kinds == {"none", "batch", "over", "done", "generation", "result",
          "failed", "logic", "argument"}

FlagsOK ==
    /\ have_batch \in BOOLEAN /\ have_answer \in BOOLEAN
    /\ finished \in BOOLEAN /\ abort \in BOOLEAN
    /\ failure \in BOOLEAN /\ result \in BOOLEAN /\ reported \in BOOLEAN

DataOK ==
    /\ wpc \in {"running", "posted", "relock", "asleep", "ended", "notify", "exited"}
    /\ cpc \in {"idle", "enter", "asleep", "notify", "join",
                "abort", "abort_notify", "abort_join", "destroyed"}
    /\ cop \in Calls
    /\ args \in [F : Rows \cup {0}, G : Rows \cup {0}, batch : 0..MaxBatches]
    /\ held \in 0..MaxBatches
    /\ ret \in [kind : Kinds, n : Nat]
    /\ pending \in 0..MaxBatches
    /\ answer \in 0..MaxBatches
    /\ generation \in 0..MaxGenerations
    /\ told \in Seq(0..MaxBatches) /\ used \in Seq(0..MaxBatches)

TypeOK == FlagsOK /\ DataOK

Init ==
    /\ wpc = "running" /\ used = <<>>
    /\ cpc = "idle" /\ cop = "ask" /\ args = NoArgs /\ held = 0
    /\ ret = Reply("none", 0)
    /\ pending = 0 /\ answer = 0
    /\ have_batch = FALSE /\ have_answer = FALSE
    /\ finished = FALSE /\ abort = FALSE
    /\ generation = 0 /\ failure = FALSE /\ result = FALSE
    /\ told = <<>> /\ reported = FALSE

-----------------------------------------------------------------------------
(* The worker: start() and handoff().                                      *)

NotifyCaller == cpc' = IF cpc = "asleep" THEN "enter" ELSE cpc

NotifyWorker == wpc' = IF wpc = "asleep" THEN "relock" ELSE wpc

\* run() reports a completed step to on_step.
OnStep ==
    /\ wpc = "running" /\ generation < MaxGenerations
    /\ generation' = generation + 1
    /\ UNCHANGED <<worker, caller, history, pending, answer, have_batch,
                   have_answer, finished, abort, failure, result>>

\* handoff(), first section: the algorithm wants a batch evaluated.
PostBatch ==
    /\ wpc = "running" /\ pending < MaxBatches
    /\ wpc' = "posted"
    /\ pending' = pending + 1
    /\ have_batch' = TRUE
    /\ have_answer' = FALSE
    /\ UNCHANGED <<used, caller, history, answer, finished, abort,
                   generation, failure, result>>

\* cv_main_.notify_one(), outside the lock.
AnnounceBatch ==
    /\ wpc = "posted" /\ wpc' = "relock"
    /\ NotifyCaller
    /\ UNCHANGED <<used, cop, args, held, ret, shared, history>>

\* The wait's predicate is false: into cv_worker_'s wait set.
WaitForAnswer ==
    /\ wpc = "relock" /\ ~have_answer /\ ~abort
    /\ wpc' = "asleep"
    /\ UNCHANGED <<used, caller, shared, history>>

\* The session is being destroyed: throw Aborted, whatever was answered.
ThrowAborted ==
    /\ wpc = "relock" /\ abort
    /\ wpc' = "ended"
    /\ UNCHANGED <<used, caller, shared, history>>

\* Mutant: any wakeup is taken for an answer.
TakeAnswerUnasked ==
    /\ wpc = "relock" /\ ~abort
    /\ wpc' = "running"
    /\ used' = Append(used, answer)
    /\ have_answer' = FALSE
    /\ UNCHANGED <<caller, history, pending, answer, have_batch, finished,
                   abort, generation, failure, result>>

TakeAnswer ==
    /\ wpc = "relock" /\ have_answer /\ ~abort
    /\ wpc' = "running"
    /\ used' = Append(used, answer)
    /\ have_answer' = FALSE
    /\ UNCHANGED <<caller, history, pending, answer, have_batch, finished,
                   abort, generation, failure, result>>

\* run() returned.
StoreResult ==
    /\ wpc = "running" /\ wpc' = "ended"
    /\ result' = TRUE
    /\ UNCHANGED <<used, caller, history, pending, answer, have_batch,
                   have_answer, finished, abort, generation, failure>>

\* run() threw anything but Aborted.
StoreFailure ==
    /\ wpc = "running" /\ wpc' = "ended"
    /\ failure' = TRUE
    /\ UNCHANGED <<used, caller, history, pending, answer, have_batch,
                   have_answer, finished, abort, generation, result>>

\* The last section of the thread: a separate one, after the outcome's.
Finish ==
    /\ wpc = "ended" /\ wpc' = "notify"
    /\ finished' = TRUE
    /\ have_batch' = FALSE
    /\ UNCHANGED <<used, caller, history, pending, answer, have_answer,
                   abort, generation, failure, result>>

\* Mutant: the end of the thread wakes nobody.
AnnounceEndSilently ==
    /\ wpc = "notify" /\ wpc' = "exited"
    /\ UNCHANGED <<used, caller, shared, history>>

AnnounceEnd ==
    /\ wpc = "notify" /\ wpc' = "exited"
    /\ NotifyCaller
    /\ UNCHANGED <<used, cop, args, held, ret, shared, history>>

Worker == \/ OnStep \/ PostBatch \/ AnnounceBatch \/ WaitForAnswer
          \/ ThrowAborted \/ TakeAnswer \/ StoreResult \/ StoreFailure
          \/ Finish \/ AnnounceEnd

-----------------------------------------------------------------------------
(* The caller.  One thread at a time drives a session (capi.h, THREADS).   *)

Return(r) == /\ cpc' = "idle" /\ ret' = r
             /\ args' = NoArgs
             /\ held' = IF r.kind = "batch" THEN r.n ELSE held
             /\ UNCHANGED cop

\* A call begins.  Only tell() carries arguments.
Begin(op, a) ==
    /\ cpc = "idle"
    /\ cpc' = "enter" /\ cop' = op
    /\ args' = a
    /\ UNCHANGED <<worker, held, ret, shared, history>>

\* generation() takes the lock and waits for nothing.
ReadGeneration ==
    /\ cpc = "enter" /\ cop = "generation"
    /\ Return(Reply("generation", generation))
    /\ UNCHANGED <<worker, shared, history>>

Ready == have_batch \/ finished

\* cv_main_.wait() in ask(), tell(), done() and result().
WaitForWorker ==
    /\ cpc = "enter" /\ cop # "generation" /\ ~Ready
    /\ cpc' = "asleep"
    /\ UNCHANGED <<worker, cop, args, held, ret, shared, history>>

\* Mutant: rethrow_if_failed() is not called.
EnteredUnchecked(op) == cpc = "enter" /\ cop = op /\ Ready

Entered(op) == cpc = "enter" /\ cop = op /\ Ready /\ ~failure

\* rethrow_if_failed(): the failure is thrown once, then forgotten.
RethrowFailure ==
    /\ cpc = "enter" /\ cop # "generation" /\ Ready /\ failure
    /\ failure' = FALSE
    /\ reported' = TRUE
    /\ Return(Reply("failed", 0))
    /\ UNCHANGED <<worker, told, pending, answer, have_batch, have_answer,
                   finished, abort, generation, result>>

Ask ==
    /\ Entered("ask")
    /\ Return(IF have_batch THEN Reply("batch", pending) ELSE Reply("over", 0))
    /\ UNCHANGED <<worker, shared, history>>

WellShaped == /\ args.F = Size[pending]
              /\ NCons > 0 => args.G = Size[pending]

\* tell() after the run has ended, or with the wrong number of rows.
RefuseTell ==
    /\ Entered("tell")
    /\ \/ ~have_batch /\ Return(Reply("logic", 0))
       \/ have_batch /\ ~WellShaped /\ Return(Reply("argument", 0))
    /\ UNCHANGED <<worker, shared, history>>

\* tell(), the section that accepts the answer.
AcceptTell ==
    /\ Entered("tell") /\ have_batch /\ WellShaped
    /\ cpc' = "notify"
    /\ answer' = args.batch
    /\ have_batch' = FALSE
    /\ have_answer' = TRUE
    /\ told' = Append(told, args.batch)
    /\ UNCHANGED <<worker, cop, args, held, ret, pending, finished, abort,
                   generation, failure, result, reported>>

\* Mutant: the worker is not woken.
TellSilently ==
    /\ cpc = "notify" /\ cpc' = "enter" /\ cop' = "ask"
    /\ UNCHANGED <<worker, args, held, ret, shared, history>>

\* tell() wakes the worker outside the lock and goes on as ask().
TellThenAsk ==
    /\ cpc = "notify" /\ cpc' = "enter" /\ cop' = "ask"
    /\ NotifyWorker
    /\ UNCHANGED <<used, args, held, ret, shared, history>>

Done ==
    /\ Entered("done")
    /\ Return(Reply("done", Bit(~have_batch)))
    /\ UNCHANGED <<worker, shared, history>>

\* result(): refuses while a batch waits, else leaves the lock to join.
ReadResult ==
    /\ Entered("result")
    /\ \/ have_batch /\ Return(Reply("logic", 0))
       \/ /\ ~have_batch
          /\ cpc' = "join" /\ UNCHANGED <<cop, args, held, ret>>
    /\ UNCHANGED <<worker, shared, history>>

Join ==
    /\ cpc = "join" /\ wpc = "exited"
    /\ Return(Reply("result", Bit(result)))
    /\ UNCHANGED <<worker, shared, history>>

\* ~Session: abort_and_join().
BeginDestroy ==
    /\ cpc = "idle" /\ cpc' = "abort"
    /\ UNCHANGED <<worker, cop, args, held, ret, shared, history>>

SetAbort ==
    /\ cpc = "abort" /\ cpc' = "abort_notify"
    /\ abort' = TRUE
    /\ UNCHANGED <<worker, cop, args, held, ret, history, pending, answer,
                   have_batch, have_answer, finished, generation, failure,
                   result>>

NotifyAbort ==
    /\ cpc = "abort_notify" /\ cpc' = "abort_join"
    /\ NotifyWorker
    /\ UNCHANGED <<used, cop, args, held, ret, shared, history>>

JoinAborted ==
    /\ cpc = "abort_join" /\ wpc = "exited"
    /\ cpc' = "destroyed"
    /\ UNCHANGED <<worker, cop, args, held, ret, shared, history>>

\* The part of a call the caller's thread owes once the call has begun.
InCall == \/ ReadGeneration \/ WaitForWorker \/ RethrowFailure \/ Ask
          \/ RefuseTell \/ AcceptTell \/ TellThenAsk \/ Done \/ ReadResult
          \/ Join \/ SetAbort \/ NotifyAbort \/ JoinAborted

\* A condition variable may wake a waiter for no reason.
SpuriousWakeup ==
    \/ /\ wpc = "asleep" /\ wpc' = "relock"
       /\ UNCHANGED <<used, caller, shared, history>>
    \/ /\ cpc = "asleep" /\ cpc' = "enter"
       /\ UNCHANGED <<worker, cop, args, held, ret, shared, history>>

\* The destructor has returned and the worker is gone.
Terminated == cpc = "destroyed" /\ UNCHANGED vars

\* A caller may make any call at any time, with any number of rows, or none of
\* G; what it tells was computed for the batch it last received.
Answers == [F : Rows, G : Rows \cup {0}, batch : {held}]
NewCall == \/ \E op \in Calls \ {"tell"} : Begin(op, NoArgs)
           \/ held # 0 /\ \E a \in Answers : Begin("tell", a)
           \/ BeginDestroy

Next == Worker \/ InCall \/ NewCall \/ SpuriousWakeup \/ Terminated

Fairness == WF_vars(Worker) /\ WF_vars(InCall)

Spec == Init /\ [][Next]_vars
FairSpec == Spec /\ Fairness

-----------------------------------------------------------------------------
(* Properties.                                                             *)

\* The flags of the handshake (embed.hpp, handoff and tell) never contradict
\* each other or the worker's place: a batch or an answer is out only while
\* the worker is inside handoff(), never both, and at most one of them when
\* it has ended.
HandshakeInv ==
    /\ ~(have_batch /\ have_answer)
    /\ have_batch => wpc \in {"posted", "relock", "asleep", "ended"}
    /\ have_answer => wpc \in {"posted", "relock", "asleep", "ended", "notify", "exited"}
    /\ finished <=> wpc \in {"notify", "exited"}
    /\ finished => ~have_batch
    /\ wpc = "running" => ~have_batch /\ ~have_answer

\* Every answer the algorithm computes with was made for the batch it was
\* waiting on, in order and without a gap, whatever the caller's sequence of
\* ask, tell, refused tell, done and result (handoff, tell).
InOrder(s) == \A i \in 1..Len(s) : s[i] = i
AnswersMatch == InOrder(told) /\ InOrder(used) /\ Len(used) <= Len(told)

\* A run that fails is never taken for one that ended well: until its failure
\* has been thrown to the caller, no call returns an empty batch, done, or a
\* result (rethrow_if_failed before each of them).
FailureNotHidden ==
    (ret.kind \in {"over", "result"} \/ ret = Reply("done", 1))
        => result \/ reported

\* The worker is inside handoff(), and the algorithm is past its last batch.
InHandoff == wpc \in {"posted", "relock", "asleep"}
HasEnded == wpc \in {"ended", "notify", "exited"}

\* What makes the three invariants above inductive.
\* The counts of batches, answers told and answers used, by the worker's place.
CountInv ==
    /\ wpc = "running" => Len(used) = pending /\ Len(told) = pending
    /\ InHandoff => /\ Len(used) + 1 = pending
                    /\ have_batch <=> ~have_answer
    /\ have_batch => Len(told) + 1 = pending
    /\ have_answer => Len(told) = pending /\ answer = pending
    /\ Len(used) <= Len(told) /\ Len(told) <= pending

\* Between calls, and in a call that has not answered yet, a batch the caller
\* holds is the one on offer, unless the run is over.
HeldInv ==
    /\ held # 0 /\ (cpc = "idle" \/ (cpc \in {"enter", "asleep"} /\ cop # "ask"))
           => (have_batch /\ held = pending) \/ finished
    /\ cpc \in {"enter", "asleep"} /\ cop = "tell" => args.batch = held /\ held # 0

\* How the run ended, and that only the destructor leaves a batch behind.
EndInv ==
    /\ abort <=> cpc \in {"abort_notify", "abort_join", "destroyed"}
    /\ have_batch /\ wpc = "ended" => abort
    /\ HasEnded => result \/ failure \/ reported \/ abort
    /\ result \/ failure \/ reported => HasEnded
    /\ ~(result /\ (failure \/ reported)) /\ ~(failure /\ reported)
    /\ cpc = "join" => result \/ reported

IInv == /\ TypeOK /\ HandshakeInv /\ AnswersMatch /\ FailureNotHidden
        /\ CountInv /\ HeldInv /\ EndInv

\* A batch on offer stays what it is until it is answered or the run ends:
\* repeated ask() calls see the same batch and advance nothing.
BatchStable ==
    [][have_batch /\ have_batch' => pending' = pending]_vars

\* Every call returns, and the destructor too: no wakeup is lost between the
\* predicates, the notifications and the worker's end.
CallReturns == cpc # "idle" ~> cpc \in {"idle", "destroyed"}

\* The session implements AskTell.
Spoken == INSTANCE AskTell WITH
    phase <- IF abort THEN "aborted"
             ELSE IF have_batch THEN "asking"
             ELSE IF result THEN "done"
             ELSE IF failure \/ reported THEN "failed"
             ELSE "computing",
    told <- told

ImplementsAskTell == Spoken!Spec
=============================================================================
