--------------------------- MODULE SessionProofs ---------------------------
(***************************************************************************)
(* What TLC checks of Session on three batches, proved for every number of *)
(* batches, generations and candidates: the types, the handshake, that the *)
(* answers meet their batches, that no failure is hidden, that a batch on  *)
(* offer is stable, and that every step of the session is a step of        *)
(* AskTell or none.  IInv (Session.tla) is the inductive invariant.  Then  *)
(* of the C ABI over it: it is one of Session's callers, and its snapshot  *)
(* is the batch the session waits on.                                      *)
(***************************************************************************)
EXTENDS CApi, TLAPS

\* The flags stay Booleans (Zenon: the solver's encoding of x' = FALSE loses
\* the type).
LEMMA FlagsStep == ASSUME FlagsOK, [Next]_vars PROVE FlagsOK'
<1> USE DEF FlagsOK
\* The other steps of the worker.
<1>1. CASE OnStep \/ PostBatch \/ AnnounceBatch \/ WaitForAnswer \/
    ThrowAborted \/ TakeAnswer \/ StoreResult \/ StoreFailure \/ Finish \/
    AnnounceEnd
  BY Zenon, <1>1 DEF OnStep, PostBatch, AnnounceBatch, NotifyCaller,
       WaitForAnswer, ThrowAborted, TakeAnswer, StoreResult, StoreFailure,
       Finish, AnnounceEnd, worker, caller, shared, history
\* The other steps of a call.
<1>2. CASE ReadGeneration \/ WaitForWorker \/ RethrowFailure \/ Ask \/
    RefuseTell \/ AcceptTell \/ TellThenAsk \/ Done \/ ReadResult \/ Join \/
    SetAbort \/ NotifyAbort \/ JoinAborted
  BY Zenon, <1>2 DEF ReadGeneration, Return, Reply, WaitForWorker, Ready,
       RethrowFailure, Ask, Entered, RefuseTell, WellShaped, AcceptTell,
       TellThenAsk, NotifyWorker, Done, Bit, ReadResult, Join, SetAbort,
       NotifyAbort, JoinAborted, worker, caller, shared, history
\* Between calls.
<1>3. CASE NewCall \/ SpuriousWakeup \/ Terminated
  BY Zenon, <1>3 DEF NewCall, Begin, BeginDestroy, Answers, Calls,
       SpuriousWakeup, Terminated, vars, worker, caller, shared, history
<1>4. CASE UNCHANGED vars
  BY Zenon, <1>4 DEF vars, worker, caller, shared, history
<1>5. QED
  BY <1>1, <1>2, <1>3, <1>4 DEF Next, Worker, InCall

\* The other variables keep their types.
LEMMA DataStep == ASSUME DataOK, [Next]_vars PROVE DataOK'
<1> USE DEF DataOK
<1>1. CASE PostBatch
  BY <1>1, SessionAssumption DEF PostBatch, worker, caller, shared, history,
       NoArgs, Kinds, Calls
<1>2. CASE TakeAnswer
  BY <1>2, SessionAssumption DEF TakeAnswer, worker, caller, shared, history,
       NoArgs, Kinds, Calls
<1>3. CASE Ask
  BY <1>3, SessionAssumption DEF Ask, Return, Reply, Entered, Ready, worker,
       caller, shared, history, NoArgs, Kinds, Calls
<1>4. CASE AcceptTell
  BY <1>4, SessionAssumption DEF AcceptTell, Entered, Ready, WellShaped,
       worker, caller, shared, history, NoArgs, Kinds, Calls
<1>5. CASE Done
  BY <1>5, SessionAssumption DEF Done, Return, Reply, Entered, Ready, Bit,
       worker, caller, shared, history, NoArgs, Kinds, Calls
<1>6. CASE Join
  BY <1>6, SessionAssumption DEF Join, Return, Reply, Bit, worker, caller,
       shared, history, NoArgs, Kinds, Calls
<1>7. CASE NewCall
  BY <1>7, SessionAssumption DEF NewCall, Begin, BeginDestroy, Answers, Calls,
       worker, caller, shared, history, NoArgs, Kinds, Calls
\* The other steps of the worker.
<1>8. CASE OnStep \/ AnnounceBatch \/ WaitForAnswer \/ ThrowAborted \/
    StoreResult \/ StoreFailure \/ Finish \/ AnnounceEnd
  BY <1>8, SessionAssumption DEF OnStep, AnnounceBatch, NotifyCaller,
       WaitForAnswer, ThrowAborted, StoreResult, StoreFailure, Finish,
       AnnounceEnd, worker, caller, shared, history, NoArgs, Kinds, Calls
\* The other steps of a call.
<1>9. CASE ReadGeneration \/ WaitForWorker \/ RethrowFailure \/ RefuseTell \/
    TellThenAsk \/ ReadResult \/ SetAbort \/ NotifyAbort \/ JoinAborted
  BY <1>9, SessionAssumption DEF ReadGeneration, Return, Reply, WaitForWorker,
       Ready, RethrowFailure, RefuseTell, Entered, WellShaped, TellThenAsk,
       NotifyWorker, ReadResult, SetAbort, NotifyAbort, JoinAborted, worker,
       caller, shared, history, NoArgs, Kinds, Calls
\* Between calls.
<1>10. CASE SpuriousWakeup \/ Terminated
  BY <1>10, SessionAssumption DEF SpuriousWakeup, Terminated, vars, worker,
       caller, shared, history, NoArgs, Kinds, Calls
<1>11. CASE UNCHANGED vars
  BY <1>11 DEF vars, worker, caller, shared, history, NoArgs, Kinds, Calls
<1>12. QED
  BY <1>1, <1>2, <1>3, <1>4, <1>5, <1>6, <1>7, <1>8, <1>9, <1>10, <1>11 DEF
       Next, Worker, InCall

\* The flags of the handshake agree with the worker's place.
LEMMA HandshakeStep == ASSUME HandshakeInv, [Next]_vars PROVE HandshakeInv'
<1> USE DEF HandshakeInv
<1>1. CASE PostBatch
  BY <1>1 DEF PostBatch, worker, caller, shared, history
<1>2. CASE TakeAnswer
  BY <1>2 DEF TakeAnswer, worker, caller, shared, history
<1>3. CASE Finish
  BY <1>3 DEF Finish, worker, caller, shared, history
<1>4. CASE AcceptTell
  BY <1>4 DEF AcceptTell, Entered, Ready, WellShaped, worker, caller, shared,
       history
\* The other steps of the worker.
<1>5. CASE OnStep \/ AnnounceBatch \/ WaitForAnswer \/ ThrowAborted \/
    StoreResult \/ StoreFailure \/ AnnounceEnd
  BY <1>5 DEF OnStep, AnnounceBatch, NotifyCaller, WaitForAnswer,
       ThrowAborted, StoreResult, StoreFailure, AnnounceEnd, worker, caller,
       shared, history
\* The other steps of a call.
<1>6. CASE ReadGeneration \/ WaitForWorker \/ RethrowFailure \/ Ask \/
    RefuseTell \/ TellThenAsk \/ Done \/ ReadResult \/ Join \/ SetAbort \/
    NotifyAbort \/ JoinAborted
  BY <1>6 DEF ReadGeneration, Return, Reply, WaitForWorker, Ready,
       RethrowFailure, Ask, Entered, RefuseTell, WellShaped, TellThenAsk,
       NotifyWorker, Done, Bit, ReadResult, Join, SetAbort, NotifyAbort,
       JoinAborted, worker, caller, shared, history
\* Between calls.
<1>7. CASE NewCall \/ SpuriousWakeup \/ Terminated
  BY <1>7 DEF NewCall, Begin, BeginDestroy, Answers, Calls, SpuriousWakeup,
       Terminated, vars, worker, caller, shared, history
<1>8. CASE UNCHANGED vars
  BY <1>8 DEF vars, worker, caller, shared, history
<1>9. QED
  BY <1>1, <1>2, <1>3, <1>4, <1>5, <1>6, <1>7, <1>8 DEF Next, Worker, InCall

\* How the run ended stays what it was.
LEMMA EndStep == ASSUME HandshakeInv, EndInv, [Next]_vars PROVE EndInv'
<1> USE DEF HandshakeInv, EndInv, HasEnded, Ready
<1>1. CASE ThrowAborted
  BY <1>1 DEF ThrowAborted, worker, caller, shared, history
<1>2. CASE StoreResult
  BY <1>2 DEF StoreResult, worker, caller, shared, history
<1>3. CASE StoreFailure
  BY <1>3 DEF StoreFailure, worker, caller, shared, history
<1>4. CASE Finish
  BY <1>4 DEF Finish, worker, caller, shared, history
<1>5. CASE RethrowFailure
  BY <1>5 DEF RethrowFailure, Return, Reply, Ready, worker, caller, shared,
       history
<1>6. CASE ReadResult
  BY <1>6 DEF ReadResult, Return, Reply, Entered, Ready, worker, caller,
       shared, history
<1>7. CASE SetAbort
  BY <1>7 DEF SetAbort, worker, caller, shared, history
\* The other steps of the worker.
<1>8. CASE OnStep \/ PostBatch \/ AnnounceBatch \/ WaitForAnswer \/ TakeAnswer
    \/ AnnounceEnd
  BY <1>8 DEF OnStep, PostBatch, AnnounceBatch, NotifyCaller, WaitForAnswer,
       TakeAnswer, AnnounceEnd, worker, caller, shared, history
\* The other steps of a call.
<1>9. CASE ReadGeneration \/ WaitForWorker \/ Ask \/ RefuseTell \/ AcceptTell
    \/ TellThenAsk \/ Done \/ Join \/ NotifyAbort \/ JoinAborted
  BY <1>9 DEF ReadGeneration, Return, Reply, WaitForWorker, Ready, Ask,
       Entered, RefuseTell, WellShaped, AcceptTell, TellThenAsk, NotifyWorker,
       Done, Bit, Join, NotifyAbort, JoinAborted, worker, caller, shared,
       history
\* Between calls.
<1>10. CASE NewCall \/ SpuriousWakeup \/ Terminated
  BY <1>10 DEF NewCall, Begin, BeginDestroy, Answers, Calls, SpuriousWakeup,
       Terminated, vars, worker, caller, shared, history
<1>11. CASE UNCHANGED vars
  BY <1>11 DEF vars, worker, caller, shared, history
<1>12. QED
  BY <1>1, <1>2, <1>3, <1>4, <1>5, <1>6, <1>7, <1>8, <1>9, <1>10, <1>11 DEF
       Next, Worker, InCall

\* The counts of batches, answers told and answers used move together: a tell
\* is accepted only for the batch on offer, and the worker takes it once.
LEMMA CountStep == ASSUME IInv, [Next]_vars PROVE CountInv'
<1> USE DEF IInv, TypeOK, DataOK, CountInv, HeldInv, HandshakeInv, EndInv, InHandoff, HasEnded
<1>1. CASE PostBatch
  BY <1>1, SessionAssumption DEF PostBatch, worker, caller, shared, history
<1>2. CASE ThrowAborted
  BY <1>2, SessionAssumption DEF ThrowAborted, worker, caller, shared, history
<1>3. CASE TakeAnswer
  BY <1>3, SessionAssumption DEF TakeAnswer, worker, caller, shared, history
<1>4. CASE Finish
  BY <1>4, SessionAssumption DEF Finish, worker, caller, shared, history
<1>5. CASE AcceptTell
  BY <1>5, SessionAssumption DEF AcceptTell, Entered, Ready, WellShaped,
       worker, caller, shared, history
<1>6. CASE NewCall
  BY <1>6, SessionAssumption, SMTT(30) DEF NewCall, Begin, BeginDestroy, Answers, Calls,
       worker, caller, shared, history
\* The other steps of the worker.
<1>7. CASE OnStep \/ AnnounceBatch \/ WaitForAnswer \/ StoreResult \/
    StoreFailure \/ AnnounceEnd
  BY <1>7, SessionAssumption DEF OnStep, AnnounceBatch, NotifyCaller,
       WaitForAnswer, StoreResult, StoreFailure, AnnounceEnd, worker, caller,
       shared, history
\* The other steps of a call.
<1>8. CASE ReadGeneration \/ WaitForWorker \/ RethrowFailure \/ Ask \/
    RefuseTell \/ TellThenAsk \/ Done \/ ReadResult \/ Join \/ SetAbort \/
    NotifyAbort \/ JoinAborted
  BY <1>8, SessionAssumption, SMTT(30) DEF ReadGeneration, Return, Reply, WaitForWorker,
       Ready, RethrowFailure, Ask, Entered, RefuseTell, WellShaped,
       TellThenAsk, NotifyWorker, Done, Bit, ReadResult, Join, SetAbort,
       NotifyAbort, JoinAborted, worker, caller, shared, history
\* Between calls.
<1>9. CASE SpuriousWakeup \/ Terminated
  BY <1>9, SessionAssumption DEF SpuriousWakeup, Terminated, vars, worker,
       caller, shared, history
<1>10. CASE UNCHANGED vars
  BY <1>10 DEF vars, worker, caller, shared, history
<1>11. QED
  BY <1>1, <1>2, <1>3, <1>4, <1>5, <1>6, <1>7, <1>8, <1>9, <1>10 DEF Next,
       Worker, InCall

\* What the caller holds is the batch on offer.
LEMMA HeldStep == ASSUME IInv, [Next]_vars PROVE HeldInv'
<1> USE DEF IInv, TypeOK, DataOK, CountInv, HeldInv, HandshakeInv, EndInv, InHandoff, HasEnded
<1>1. CASE PostBatch
  BY <1>1, SessionAssumption DEF PostBatch, worker, caller, shared, history,
       NoArgs
<1>2. CASE Finish
  BY <1>2, SessionAssumption DEF Finish, worker, caller, shared, history,
       NoArgs
<1>3. CASE Ask
  BY <1>3, SessionAssumption DEF Ask, Return, Reply, Entered, Ready, worker,
       caller, shared, history, NoArgs
<1>4. CASE RethrowFailure
  BY <1>4, SessionAssumption DEF RethrowFailure, Return, Reply, Ready, worker,
       caller, shared, history, NoArgs
<1>5. CASE RefuseTell
  BY <1>5, SessionAssumption DEF RefuseTell, Return, Reply, Entered, Ready,
       WellShaped, worker, caller, shared, history, NoArgs
<1>6. CASE AcceptTell
  BY <1>6, SessionAssumption DEF AcceptTell, Entered, Ready, WellShaped,
       worker, caller, shared, history, NoArgs
<1>7. CASE TellThenAsk
  BY <1>7, SessionAssumption DEF TellThenAsk, NotifyWorker, worker, caller,
       shared, history, NoArgs
<1>8. CASE NewCall
  BY <1>8, SessionAssumption DEF NewCall, Begin, BeginDestroy, Answers, Calls,
       worker, caller, shared, history, NoArgs
\* The other steps of the worker.
<1>9. CASE OnStep \/ AnnounceBatch \/ WaitForAnswer \/ ThrowAborted \/
    TakeAnswer \/ StoreResult \/ StoreFailure \/ AnnounceEnd
  BY <1>9, SessionAssumption DEF OnStep, AnnounceBatch, NotifyCaller,
       WaitForAnswer, ThrowAborted, TakeAnswer, StoreResult, StoreFailure,
       AnnounceEnd, worker, caller, shared, history, NoArgs
\* The other steps of a call.
<1>10. CASE ReadGeneration \/ WaitForWorker \/ Done \/ ReadResult \/ Join \/
    SetAbort \/ NotifyAbort \/ JoinAborted
  BY <1>10, SessionAssumption DEF ReadGeneration, Return, Reply,
       WaitForWorker, Ready, Done, Entered, Bit, ReadResult, Join, SetAbort,
       NotifyAbort, NotifyWorker, JoinAborted, worker, caller, shared,
       history, NoArgs
\* Between calls.
<1>11. CASE SpuriousWakeup \/ Terminated
  BY <1>11, SessionAssumption DEF SpuriousWakeup, Terminated, vars, worker,
       caller, shared, history, NoArgs
<1>12. CASE UNCHANGED vars
  BY <1>12 DEF vars, worker, caller, shared, history, NoArgs
<1>13. QED
  BY <1>1, <1>2, <1>3, <1>4, <1>5, <1>6, <1>7, <1>8, <1>9, <1>10, <1>11, <1>12
       DEF Next, Worker, InCall

\* Answers are told, and used, in the order of the batches.
LEMMA AnswersStep == ASSUME IInv, [Next]_vars PROVE AnswersMatch'
<1> USE DEF IInv, TypeOK, DataOK, AnswersMatch, InOrder, CountInv, HeldInv, HandshakeInv, EndInv, InHandoff, HasEnded
<1>1. CASE TakeAnswer
  BY <1>1, SessionAssumption DEF TakeAnswer, worker, caller, shared, history
<1>2. CASE AcceptTell
  BY <1>2, SessionAssumption DEF AcceptTell, Entered, Ready, WellShaped,
       worker, caller, shared, history
\* The other steps of the worker.
<1>3. CASE OnStep \/ PostBatch \/ AnnounceBatch \/ WaitForAnswer \/
    ThrowAborted \/ StoreResult \/ StoreFailure \/ Finish \/ AnnounceEnd
  BY <1>3, SessionAssumption DEF OnStep, PostBatch, AnnounceBatch,
       NotifyCaller, WaitForAnswer, ThrowAborted, StoreResult, StoreFailure,
       Finish, AnnounceEnd, worker, caller, shared, history
\* The other steps of a call.
<1>4. CASE ReadGeneration \/ WaitForWorker \/ RethrowFailure \/ Ask \/
    RefuseTell \/ TellThenAsk \/ Done \/ ReadResult \/ Join \/ SetAbort \/
    NotifyAbort \/ JoinAborted
  BY <1>4, SessionAssumption DEF ReadGeneration, Return, Reply, WaitForWorker,
       Ready, RethrowFailure, Ask, Entered, RefuseTell, WellShaped,
       TellThenAsk, NotifyWorker, Done, Bit, ReadResult, Join, SetAbort,
       NotifyAbort, JoinAborted, worker, caller, shared, history
\* Between calls.
<1>5. CASE NewCall \/ SpuriousWakeup \/ Terminated
  BY <1>5, SessionAssumption DEF NewCall, Begin, BeginDestroy, Answers, Calls,
       SpuriousWakeup, Terminated, vars, worker, caller, shared, history
<1>6. CASE UNCHANGED vars
  BY <1>6 DEF vars, worker, caller, shared, history
<1>7. QED
  BY <1>1, <1>2, <1>3, <1>4, <1>5, <1>6 DEF Next, Worker, InCall

\* A call that reports an end has an end to report.
LEMMA FailureStep == ASSUME IInv, [Next]_vars PROVE FailureNotHidden'
<1> USE DEF IInv, FailureNotHidden, HeldInv, HandshakeInv, EndInv, InHandoff, HasEnded
<1>1. CASE Ask
  BY <1>1 DEF Ask, Return, Reply, Entered, Ready, worker, caller, shared,
       history, Bit, Reply
<1>2. CASE Done
  BY <1>2 DEF Done, Return, Reply, Entered, Ready, Bit, worker, caller,
       shared, history, Bit, Reply
<1>3. CASE ReadResult
  BY <1>3 DEF ReadResult, Return, Reply, Entered, Ready, worker, caller,
       shared, history, Bit, Reply
<1>4. CASE Join
  BY <1>4 DEF Join, Return, Reply, Bit, worker, caller, shared, history, Bit,
       Reply
<1>5. CASE RethrowFailure
  BY <1>5 DEF RethrowFailure, Return, Reply, Ready, worker, caller, shared,
       history, Bit, Reply
\* The other steps of the worker.
<1>6. CASE OnStep \/ PostBatch \/ AnnounceBatch \/ WaitForAnswer \/
    ThrowAborted \/ TakeAnswer \/ StoreResult \/ StoreFailure \/ Finish \/
    AnnounceEnd
  BY <1>6 DEF OnStep, PostBatch, AnnounceBatch, NotifyCaller, WaitForAnswer,
       ThrowAborted, TakeAnswer, StoreResult, StoreFailure, Finish,
       AnnounceEnd, worker, caller, shared, history, Bit, Reply
\* The other steps of a call.
<1>7. CASE ReadGeneration \/ WaitForWorker \/ RefuseTell \/ AcceptTell \/
    TellThenAsk \/ SetAbort \/ NotifyAbort \/ JoinAborted
  BY <1>7 DEF ReadGeneration, Return, Reply, WaitForWorker, Ready, RefuseTell,
       Entered, WellShaped, AcceptTell, TellThenAsk, NotifyWorker, SetAbort,
       NotifyAbort, JoinAborted, worker, caller, shared, history, Bit, Reply
\* Between calls.
<1>8. CASE NewCall \/ SpuriousWakeup \/ Terminated
  BY <1>8 DEF NewCall, Begin, BeginDestroy, Answers, Calls, SpuriousWakeup,
       Terminated, vars, worker, caller, shared, history, Bit, Reply
<1>9. CASE UNCHANGED vars
  BY <1>9 DEF vars, worker, caller, shared, history, Bit, Reply
<1>10. QED
  BY <1>1, <1>2, <1>3, <1>4, <1>5, <1>6, <1>7, <1>8, <1>9 DEF Next, Worker,
       InCall

LEMMA InvInit == Init => IInv
<1> SUFFICES ASSUME Init PROVE IInv
  OBVIOUS
<1>1. FlagsOK
  BY DEF Init, FlagsOK
<1>2. DataOK
  BY SessionAssumption DEF Init, DataOK, Reply, NoArgs, Calls, Kinds
<1>3. QED
  BY <1>1, <1>2 DEF Init, IInv, TypeOK, HandshakeInv, AnswersMatch, InOrder,
     FailureNotHidden, CountInv, HeldInv, EndInv, HasEnded, InHandoff, Reply

LEMMA InvStep == ASSUME IInv, [Next]_vars PROVE IInv'
<1>1. TypeOK'
  BY FlagsStep, DataStep DEF IInv, TypeOK
<1>2. HandshakeInv' /\ EndInv'
  BY HandshakeStep, EndStep DEF IInv
<1>3. QED
  BY <1>1, <1>2, CountStep, HeldStep, AnswersStep, FailureStep DEF IInv

\* IInv holds in every reachable state of a session.
THEOREM SessionInvariant == Spec => []IInv
<1>1. QED
  BY InvInit, InvStep, PTL DEF Spec

\* Every variable of the session keeps its type.
THEOREM TypeCorrect == Spec => []TypeOK
<1>1. IInv => TypeOK
  BY DEF IInv
<1>2. QED
  BY <1>1, SessionInvariant, PTL

\* handoff() and tell() never leave the flags contradicting each other or the
\* place the worker is at.
THEOREM HandshakeCorrect == Spec => []HandshakeInv
<1>1. IInv => HandshakeInv
  BY DEF IInv
<1>2. QED
  BY <1>1, SessionInvariant, PTL

\* The algorithm uses, batch by batch, the answers made for those batches,
\* whatever calls the caller makes in whatever order.
THEOREM AnswersMeetBatches == Spec => []AnswersMatch
<1>1. IInv => AnswersMatch
  BY DEF IInv
<1>2. QED
  BY <1>1, SessionInvariant, PTL

\* No call reports an end of the run before its failure has been thrown.
THEOREM FailureIsThrown == Spec => []FailureNotHidden
<1>1. IInv => FailureNotHidden
  BY DEF IInv
<1>2. QED
  BY <1>1, SessionInvariant, PTL

\* ask() may be repeated: the batch on offer does not change under the caller.
THEOREM BatchIsStable == Spec => BatchStable
<1>1. ASSUME IInv, [Next]_vars PROVE [have_batch /\ have_batch' => pending' = pending]_vars
  <2>1. CASE PostBatch
    BY <1>1, <2>1 DEF IInv, HandshakeInv, PostBatch
  <2>2. CASE ~PostBatch
    <3>1. pending' = pending
      BY <1>1, <2>2 DEF Next, Worker, InCall, NewCall, Begin, BeginDestroy,
         OnStep, AnnounceBatch, WaitForAnswer, ThrowAborted, TakeAnswer,
         StoreResult, StoreFailure, Finish, AnnounceEnd, ReadGeneration,
         WaitForWorker, RethrowFailure, Ask, RefuseTell, AcceptTell,
         TellThenAsk, Done, ReadResult, Join, SetAbort, NotifyAbort,
         JoinAborted, SpuriousWakeup, Terminated, vars, shared
    <3>2. QED
      BY <3>1
  <2>3. QED
    BY <2>1, <2>2
<1>2. QED
  BY <1>1, SessionInvariant, PTL DEF Spec, BatchStable

-----------------------------------------------------------------------------
(* Refinement: every step of the session is a step of AskTell or stutters. *)

\* A session starts as AskTell does.
LEMMA RefinesInit == Init => Spoken!Init
<1>1. QED
  BY DEF Init, Spoken!Init

\* Posting a batch is Offer, accepting a tell Answer, the end of run() End and
\* the destructor Abort; once it is aborted, the worker's steps stutter.
LEMMA RefinesStep == ASSUME IInv, [Next]_vars PROVE [Spoken!Next]_(Spoken!vars)
<1> USE DEF IInv, TypeOK, HandshakeInv, EndInv, HasEnded, InHandoff, Spoken!vars,
        worker, caller, shared, history
<1>1. CASE PostBatch
  <2>1. CASE abort
    BY <1>1, <2>1 DEF PostBatch
  <2>2. CASE ~abort
    <3>1. Len(told) < MaxBatches
      BY <1>1 DEF PostBatch, CountInv
    <3>2. Spoken!Offer
      BY <1>1, <2>2, <3>1 DEF PostBatch, Spoken!Offer
    <3>3. QED
      BY <3>2 DEF Spoken!Next, Spoken!Compute
  <2>3. QED
    BY <2>1, <2>2
<1>2. CASE AcceptTell
  <2>1. args.batch = Len(told) + 1
    BY <1>2 DEF AcceptTell, Entered, HeldInv, CountInv
  <2>2. ~abort /\ ~result /\ ~failure /\ ~reported
    BY <1>2 DEF AcceptTell, Entered
  <2>3. Spoken!Answer
    BY <1>2, <2>1, <2>2 DEF AcceptTell, Spoken!Answer
  <2>4. QED
    BY <2>3 DEF Spoken!Next
<1>3. CASE StoreResult
  <2>1. CASE abort
    BY <1>3, <2>1 DEF StoreResult
  <2>2. CASE ~abort
    BY <1>3, <2>2 DEF StoreResult, Spoken!Next, Spoken!Compute, Spoken!End
  <2>3. QED
    BY <2>1, <2>2
<1>4. CASE StoreFailure
  <2>1. CASE abort
    BY <1>4, <2>1 DEF StoreFailure
  <2>2. CASE ~abort
    BY <1>4, <2>2 DEF StoreFailure, Spoken!Next, Spoken!Compute, Spoken!End
  <2>3. QED
    BY <2>1, <2>2
<1>5. CASE SetAbort
  BY <1>5 DEF SetAbort, Spoken!Next, Spoken!Abort
<1>6. CASE RethrowFailure
  BY <1>6 DEF RethrowFailure
<1>7. CASE Finish
  BY <1>7 DEF Finish
\* The rest leaves alone everything AskTell sees.
<1>8. CASE OnStep \/ AnnounceBatch \/ WaitForAnswer \/ ThrowAborted
           \/ TakeAnswer \/ AnnounceEnd
  BY <1>8 DEF OnStep, AnnounceBatch, WaitForAnswer, ThrowAborted, TakeAnswer,
     AnnounceEnd
<1>9. CASE ReadGeneration \/ WaitForWorker \/ Ask \/ RefuseTell \/ TellThenAsk
           \/ Done \/ ReadResult \/ Join \/ NotifyAbort \/ JoinAborted
  BY <1>9 DEF ReadGeneration, WaitForWorker, Ask, RefuseTell, TellThenAsk,
     Done, ReadResult, Join, NotifyAbort, JoinAborted
<1>10. CASE NewCall \/ SpuriousWakeup \/ Terminated \/ UNCHANGED vars
  BY <1>10 DEF NewCall, Begin, BeginDestroy, SpuriousWakeup, Terminated, vars
<1>11. QED
  BY <1>1, <1>2, <1>3, <1>4, <1>5, <1>6, <1>7, <1>8, <1>9, <1>10
     DEF Next, Worker, InCall

\* A session with no assumption on scheduling implements the safety part of
\* AskTell: one batch at a time, answered once, then one end.
THEOREM SessionRefinesAskTell == Spec => Spoken!Safe
<1>1. QED
  BY RefinesInit, RefinesStep, SessionInvariant, PTL DEF Spec, Spoken!Safe

-----------------------------------------------------------------------------
(* The C ABI's inductive invariant: which of the session's calls a C       *)
(* function is in, and what the snapshot has to do with its batch.         *)

\* The session is being destroyed.
Destroying == {"abort", "abort_notify", "abort_join", "destroyed"}

\* The session's call a C function is in, once it has begun and until it has
\* returned.
CallInv ==
    /\ cfn \in Functions \cup {"none"}
    /\ cstep \in {"start", "refresh", "telling", "finishing", "reading"}
    /\ cfn = "none" => cstep = "start"
    /\ cpc \in Destroying => cfn = "none"
    /\ cstep = "start" => cpc \in {"idle"} \cup Destroying
    /\ cpc = "notify" => cop = "tell"
    /\ cstep = "refresh" /\ cpc # "idle" => cop = "ask"
    /\ cstep = "telling" /\ cpc # "idle" => cop \in {"tell", "ask"}
    /\ cstep \in {"finishing", "reading"} /\ cpc # "idle" => cop = "result"

\* What the session returned as a batch is on offer until the next call.
ReplyInv ==
    cpc = "idle" /\ ret.kind = "batch" => have_batch /\ ret.n = pending /\ held = ret.n

\* The snapshot, and the client's x, are the batch the session last returned.
SnapshotInv ==
    /\ batch \in 0..MaxBatches /\ x \in {0, batch}
    /\ ~batch_valid => batch = 0
    /\ cstep = "refresh" => ~batch_valid
    /\ cfn = "tell" /\ cstep # "finishing" => x # 0
    /\ cstep = "telling" => cfn = "tell"
    /\ cstep = "finishing" => batch = 0
    /\ batch # 0 => held = batch \/ (cstep = "telling" /\ cpc = "idle" /\ ret.kind = "batch")

\* The snapshot is the batch on offer until a tell has been accepted, ...
CurrentInv ==
    batch # 0 /\ ~reported /\ cpc \notin Destroying
        /\ (cstep = "telling" =>
              (cpc \in {"enter", "asleep"} /\ cop = "tell")
                \/ (cpc = "idle" /\ Threw))
    => have_batch /\ batch = pending

CInv == CallInv /\ ReplyInv /\ SnapshotInv /\ CurrentInv

-----------------------------------------------------------------------------
(* Every step of the C ABI is a step of the session, or none.              *)

LEMMA TellsHeld ==
  ASSUME IInv, CInv, Tell
  PROVE  NewCall
<1>1. x # 0 /\ batch # 0 /\ x = batch /\ held = batch /\ batch \in 0..MaxBatches
  BY DEF CInv, SnapshotInv, Tell, At
<1>2. Size[batch] \in Rows
  BY <1>1, SessionAssumption
<1>3. PICK a : a = [F |-> Size[batch], batch |-> x, G |-> IF NCons > 0 THEN Size[batch] ELSE 0]
  OBVIOUS
<1>4. a \in Answers
  BY <1>1, <1>2, <1>3 DEF Answers
<1>5. Begin("tell", a)
  BY <1>3 DEF Tell
<1>6. QED
  BY <1>1, <1>4, <1>5 DEF NewCall

LEMMA CStepIsStep ==
  ASSUME IInv, CInv, [CNext]_cvars
  PROVE  [Next]_vars
<1>1. CASE Inside
  BY <1>1 DEF Inside, Next
<1>2. CASE Refresh
  BY <1>2 DEF Refresh, Next, NewCall, Calls
<1>3. CASE Tell
  BY <1>3, TellsHeld DEF Next
<1>4. CASE Told \/ FetchResult
  BY <1>4 DEF Told, FetchResult, Next, NewCall, Calls
<1>5. CASE Refreshed \/ AskCount \/ AskCopy \/ TellRefused \/ Fetched \/ GiveResult
  BY <1>5 DEF Refreshed, AskCount, AskCopy, TellRefused, Fetched, GiveResult
<1>6. CASE NewFunction
  BY <1>6 DEF NewFunction, Call, Close, Next, NewCall
<1>7. CASE (Terminated /\ UNCHANGED capi) \/ UNCHANGED cvars
  BY <1>7 DEF Next, cvars
<1>8. QED
  BY <1>1, <1>2, <1>3, <1>4, <1>5, <1>6, <1>7 DEF CNext, InFunction

-----------------------------------------------------------------------------
(* The session's own steps keep the invariant.                             *)

\* A batch on offer stays on offer while no call answers it and nobody
\* destroys the session: its worker waits.
LEMMA OfferStays ==
  ASSUME IInv, Worker \/ SpuriousWakeup, have_batch, cpc \notin Destroying
  PROVE  have_batch' /\ pending' = pending
<1>1. ~PostBatch /\ ~Finish
  BY DEF IInv, HandshakeInv, EndInv, Destroying, PostBatch, Finish
<1>2. QED
  BY <1>1 DEF Worker, OnStep, AnnounceBatch, WaitForAnswer, ThrowAborted, TakeAnswer,
     StoreResult, StoreFailure, AnnounceEnd, SpuriousWakeup, shared

\* A step of the worker or a wakeup leaves the caller in its call.
LEMMA WorkerLeaves ==
  ASSUME Worker \/ SpuriousWakeup
  PROVE  /\ UNCHANGED <<cop, args, held, ret, reported>>
         /\ cpc' = cpc \/ (cpc = "asleep" /\ cpc' = "enter")
BY DEF Worker, OnStep, PostBatch, AnnounceBatch, WaitForAnswer, ThrowAborted, TakeAnswer,
   StoreResult, StoreFailure, Finish, AnnounceEnd, SpuriousWakeup, NotifyCaller,
   caller, history

LEMMA WorkerKeeps ==
  ASSUME IInv, CInv, Worker \/ SpuriousWakeup, UNCHANGED capi
  PROVE  CInv'
<1>1. /\ UNCHANGED <<cop, args, held, ret, reported>>
      /\ cpc' = cpc \/ (cpc = "asleep" /\ cpc' = "enter")
  BY WorkerLeaves
<1>2. UNCHANGED <<cfn, cstep, cgood, batch, batch_valid, have_result, cresult, cret, x>>
  BY DEF capi
<1>3. CallInv'
  BY <1>1, <1>2 DEF CInv, CallInv, Destroying
<1>4. ReplyInv'
  BY <1>1, OfferStays DEF CInv, ReplyInv, Destroying
<1>5. SnapshotInv'
  BY <1>1, <1>2 DEF CInv, SnapshotInv
<1>6. CurrentInv'
  BY <1>1, <1>2, OfferStays DEF CInv, CurrentInv, Destroying, Threw
<1>7. QED
  BY <1>3, <1>4, <1>5, <1>6 DEF CInv

\* A step inside a call.
LEMMA InCallKeeps ==
  ASSUME IInv, CInv, InCall, UNCHANGED capi
  PROVE  CInv'
<1> USE DEF CInv, CallInv, ReplyInv, SnapshotInv, CurrentInv, Destroying, Threw, capi,
        worker, caller, shared, history
<1>1. CASE ReadGeneration
  BY <1>1 DEF ReadGeneration
<1>2. CASE WaitForWorker
  BY <1>2 DEF WaitForWorker
<1>3. CASE RethrowFailure
  BY <1>3 DEF RethrowFailure, Return, Reply
<1>4. CASE Ask
  BY <1>4 DEF Ask, Entered, Return, Reply
<1>5. CASE RefuseTell
  BY <1>5 DEF RefuseTell, Entered, Return, Reply
<1>6. CASE AcceptTell
  BY <1>6 DEF AcceptTell, Entered
<1>7. CASE TellThenAsk
  BY <1>7 DEF TellThenAsk
<1>8. CASE Done
  BY <1>8 DEF Done, Entered
<1>9. CASE ReadResult
  BY <1>9 DEF ReadResult, Entered, Return, Reply
<1>10. CASE Join
  BY <1>10 DEF Join, Return, Reply
<1>11. CASE SetAbort
  BY <1>11 DEF SetAbort
<1>12. CASE NotifyAbort
  BY <1>12 DEF NotifyAbort
<1>13. CASE JoinAborted
  BY <1>13 DEF JoinAborted
<1>14. QED
  BY <1>1, <1>2, <1>3, <1>4, <1>5, <1>6, <1>7, <1>8, <1>9, <1>10, <1>11, <1>12, <1>13 DEF InCall

-----------------------------------------------------------------------------
(* The C functions' own steps keep it.                                     *)

LEMMA FunctionKeeps ==
  ASSUME IInv, CInv, InFunction
  PROVE  CInv'
<1> USE DEF CInv, CallInv, ReplyInv, SnapshotInv, CurrentInv, Destroying, At, CReturn,
        vars, worker, caller, shared, history
<1>1. CASE Refresh
  BY <1>1 DEF Refresh, Begin, Functions
<1>2. CASE Refreshed
  BY <1>2 DEF Refreshed, Threw, IInv, TypeOK, DataOK
<1>3. CASE AskCount
  BY <1>3 DEF AskCount
<1>4. CASE AskCopy
  BY <1>4 DEF AskCopy
<1>5. CASE TellRefused
  BY <1>5 DEF TellRefused
<1>6. CASE Tell
  BY <1>6 DEF Tell, Begin
<1>7. CASE Told
  <2>1. CASE Threw /\ CReturn(-1) /\ UNCHANGED <<vars, batch, x>> /\ UNCHANGED batch_valid
    BY <1>7, <2>1 DEF Told, Threw
  <2>2. CASE ret.kind = "batch" /\ CReturn(ret.n) /\ batch' = ret.n /\ x' = 0
             /\ UNCHANGED vars /\ UNCHANGED batch_valid
    <3>1. ret.n \in 0..MaxBatches
      BY <1>7, <2>2 DEF Told, IInv, TypeOK, DataOK
    <3>2. QED
      BY <1>7, <2>2, <3>1 DEF Told, Threw
  <2>3. CASE ret.kind = "over" /\ Begin("result", NoArgs) /\ batch' = 0 /\ x' = 0
             /\ cstep' = "finishing" /\ UNCHANGED <<cfn, cgood, cret>> /\ UNCHANGED batch_valid
    <3>1. 0 \in 0..MaxBatches
      BY SessionAssumption
    <3>2. QED
      BY <1>7, <2>3, <3>1 DEF Told, Begin, Threw
  <2>4. QED
    BY <1>7, <2>1, <2>2, <2>3 DEF Told
<1>8. CASE FetchResult
  BY <1>8 DEF FetchResult, Begin
<1>9. CASE Fetched
  BY <1>9 DEF Fetched
<1>10. CASE GiveResult
  BY <1>10 DEF GiveResult
<1>11. QED
  BY <1>1, <1>2, <1>3, <1>4, <1>5, <1>6, <1>7, <1>8, <1>9, <1>10 DEF InFunction

LEMMA ClientKeeps ==
  ASSUME IInv, CInv, NewFunction
  PROVE  CInv'
<1> USE DEF CInv, CallInv, ReplyInv, SnapshotInv, CurrentInv, Destroying, Threw,
        vars, worker, caller, shared, history
<1>1. ASSUME NEW fn \in Functions, NEW good \in BOOLEAN, Call(fn, good), fn = "tell" => x # 0
      PROVE  CInv'
  BY <1>1 DEF Call
<1>2. CASE Close
  BY <1>2 DEF Close, BeginDestroy, capi
<1>3. QED
  BY <1>1, <1>2 DEF NewFunction, Functions

LEMMA CInvInit == CInit => CInv
BY SessionAssumption DEF CInit, Init, CInv, CallInv, ReplyInv, SnapshotInv, CurrentInv, Reply,
   Destroying

LEMMA CInvStep ==
  ASSUME IInv, CInv, [CNext]_cvars
  PROVE  CInv'
<1>1. CASE Inside
  BY <1>1, WorkerKeeps, InCallKeeps DEF Inside
<1>2. CASE InFunction
  BY <1>2, FunctionKeeps
<1>3. CASE NewFunction
  BY <1>3, ClientKeeps
<1>4. CASE (Terminated /\ UNCHANGED capi) \/ UNCHANGED cvars
  BY <1>4 DEF Terminated, cvars, capi, vars, worker, caller, shared, history, CInv, CallInv,
     ReplyInv, SnapshotInv, CurrentInv, Threw
<1>5. QED
  BY <1>1, <1>2, <1>3, <1>4 DEF CNext

-----------------------------------------------------------------------------
(* The theorems.                                                           *)

\* The session's invariant and the C ABI's hold together.
LEMMA CAlways == CSpec => [](IInv /\ CInv)
<1>1. CInit => IInv /\ CInv
  BY InvInit, CInvInit DEF CInit
<1>2. IInv /\ CInv /\ [CNext]_cvars => IInv' /\ CInv'
  BY CStepIsStep, InvStep, CInvStep
<1>3. QED
  BY <1>1, <1>2, PTL DEF CSpec

\* A client of the C ABI is a caller of a session: what it does with moo_ask,
\* moo_tell and the rest is what Session allows, the rows it tells and the
\* batch they answer included (moo_session, refresh_batch, moo_tell).
THEOREM CApiIsACaller == CSpec => Spec
<1>1. CInit => Init
  BY DEF CInit
<1>2. IInv /\ CInv /\ [CNext]_cvars => [Next]_vars
  BY CStepIsStep
<1>3. QED
  BY <1>1, <1>2, CAlways, PTL DEF CSpec, Spec

\* So its answers meet their batches too, and no failure is hidden from it.
COROLLARY CApiAnswersMatch == CSpec => []AnswersMatch /\ []FailureNotHidden
BY CApiIsACaller, AnswersMeetBatches, FailureIsThrown

\* While the run's failure has not been reported, the snapshot the C ABI keeps
\* is the batch the session waits on, or empty (moo_session::batch).
THEOREM SnapshotStaysCurrent == CSpec => []SnapshotCurrent
<1>1. CInv => SnapshotCurrent
  BY DEF CInv, CallInv, CurrentInv, SnapshotCurrent, Destroying
<1>2. QED
  BY <1>1, CAlways, PTL

=============================================================================
