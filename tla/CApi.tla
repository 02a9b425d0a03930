-------------------------------- MODULE CApi --------------------------------
(***************************************************************************)
(* The C ABI's session (capi/mootation_c.cpp) over mootation::Session: the *)
(* batch is snapshotted once so that moo_ask_count, moo_ask and moo_tell   *)
(* agree on it, every exception becomes a negative return, and the result  *)
(* is fetched when moo_tell sees the empty batch.                          *)
(* A return value is -1 (error), 0, or the number of the batch whose       *)
(* candidates are counted; of a result, 1 stands for the final population  *)
(* and 0 for an empty one.                                                 *)
(***************************************************************************)
EXTENDS Session, Integers

VARIABLES
    cfn,          \* the C function in progress, "none" between calls
    cstep,        \* how far it is
    cgood,        \* its buffers are long enough
    batch,        \* moo_session::batch, 0 when empty
    batch_valid, have_result,
    cresult,      \* moo_session::result holds the final population
    cret,         \* the last function that returned, and what it returned
    x             \* the client's x: the batch moo_ask copied out (0: none)

capi == <<cfn, cstep, cgood, batch, batch_valid, have_result, cresult, cret, x>>
cvars == <<vars, capi>>

Functions == {"ask_count", "ask", "tell", "result"}

CInit ==
    /\ Init
    /\ cfn = "none" /\ cstep = "start" /\ cgood = FALSE
    /\ batch = 0 /\ batch_valid = FALSE
    /\ have_result = FALSE /\ cresult = 0
    /\ cret = [fn |-> "none", n |-> 0] /\ x = 0

CReturn(n) == /\ cfn' = "none" /\ cstep' = "start" /\ cgood' = FALSE
              /\ cret' = [fn |-> cfn, n |-> n]

\* The client calls moo_ask_count, moo_ask, moo_tell or one of the result
\* functions; good: its buffers are there and long enough.
Call(fn, good) ==
    /\ cfn = "none" /\ cpc = "idle"
    /\ cfn' = fn /\ cstep' = "start" /\ cgood' = good
    /\ UNCHANGED <<vars, batch, batch_valid, have_result, cresult, cret, x>>

At(fn) == cfn = fn /\ cstep = "start" /\ cpc = "idle"

\* refresh_batch(): ask, unless the snapshot is valid.
Refresh ==
    /\ cfn \in {"ask_count", "ask", "tell"} /\ cstep = "start"
    /\ ~have_result /\ ~batch_valid
    /\ Begin("ask", NoArgs)
    /\ cstep' = "refresh"
    /\ UNCHANGED <<cfn, cgood, batch, batch_valid, have_result, cresult, cret, x>>

\* guarded(): what the session throws is a negative return.
Threw == ret.kind \in {"failed", "logic", "argument"}

Refreshed ==
    /\ cstep = "refresh" /\ cpc = "idle"
    /\ \/ /\ Threw /\ CReturn(-1)
          /\ UNCHANGED <<batch, batch_valid>>
       \/ /\ ~Threw
          /\ batch' = IF ret.kind = "batch" THEN ret.n ELSE 0
          /\ batch_valid' = TRUE
          /\ cstep' = "start"
          /\ UNCHANGED <<cfn, cgood, cret>>
    /\ UNCHANGED <<vars, have_result, cresult, x>>

AskCount ==
    /\ At("ask_count") /\ (have_result \/ batch_valid)
    /\ CReturn(IF have_result THEN 0 ELSE batch)
    /\ UNCHANGED <<vars, batch, batch_valid, have_result, cresult, x>>

AskCopy ==
    /\ At("ask") /\ (have_result \/ batch_valid)
    /\ \/ /\ have_result \/ batch = 0
          /\ CReturn(0) /\ UNCHANGED x
       \/ /\ ~have_result /\ batch # 0 /\ ~cgood
          /\ CReturn(-1) /\ UNCHANGED x
       \/ /\ ~have_result /\ batch # 0 /\ cgood
          /\ CReturn(batch) /\ x' = batch
    /\ UNCHANGED <<vars, batch, batch_valid, have_result, cresult>>

\* moo_tell's own refusals: the run is over, no batch, a short buffer.
TellRefused ==
    /\ At("tell") /\ (have_result \/ batch_valid)
    /\ have_result \/ batch = 0 \/ ~cgood
    /\ CReturn(-1)
    /\ UNCHANGED <<vars, batch, batch_valid, have_result, cresult, x>>

\* F and G get as many rows as the snapshot has.
Tell ==
    /\ At("tell") /\ batch_valid /\ ~have_result /\ batch # 0 /\ cgood
    /\ Begin("tell", [F |-> Size[batch], batch |-> x,
                      G |-> IF NCons > 0 THEN Size[batch] ELSE 0])
    /\ cstep' = "telling"
    /\ UNCHANGED <<cfn, cgood, batch, batch_valid, have_result, cresult, cret, x>>

\* Mutant: the snapshot is not replaced by the next batch.
ToldKeepsSnapshot ==
    /\ cstep = "telling" /\ cpc = "idle"
    /\ \/ /\ Threw /\ CReturn(-1)
          /\ UNCHANGED <<vars, x>>
       \/ /\ ret.kind = "batch" /\ CReturn(ret.n)
          /\ x' = 0
          /\ UNCHANGED vars
       \/ /\ ret.kind = "over" /\ Begin("result", NoArgs)
          /\ x' = 0 /\ cstep' = "finishing"
          /\ UNCHANGED <<cfn, cgood, cret>>
    /\ UNCHANGED <<batch, batch_valid, have_result, cresult>>

\* Session::tell returned or threw.  A throw leaves the snapshot as it was.
Told ==
    /\ cstep = "telling" /\ cpc = "idle"
    /\ \/ /\ Threw /\ CReturn(-1)
          /\ UNCHANGED <<vars, batch, x>>
       \/ /\ ret.kind = "batch" /\ CReturn(ret.n)
          /\ batch' = ret.n /\ x' = 0
          /\ UNCHANGED vars
       \/ /\ ret.kind = "over" /\ Begin("result", NoArgs)
          /\ batch' = 0 /\ x' = 0 /\ cstep' = "finishing"
          /\ UNCHANGED <<cfn, cgood, cret>>
    /\ UNCHANGED <<batch_valid, have_result, cresult>>

\* moo_result_count, moo_result and moo_ignored_count fetch the result once.
FetchResult ==
    /\ At("result") /\ ~have_result
    /\ Begin("result", NoArgs)
    /\ cstep' = "reading"
    /\ UNCHANGED <<cfn, cgood, batch, batch_valid, have_result, cresult, cret, x>>

Fetched ==
    /\ cstep \in {"finishing", "reading"} /\ cpc = "idle"
    /\ \/ /\ Threw /\ CReturn(-1)
          /\ UNCHANGED <<have_result, cresult>>
       \/ /\ ret.kind = "result"
          /\ have_result' = TRUE /\ cresult' = ret.n
          /\ IF cstep = "finishing" THEN CReturn(0)
             ELSE CReturn(IF cgood THEN ret.n ELSE -1)
    /\ UNCHANGED <<vars, batch, batch_valid, x>>

GiveResult ==
    /\ At("result") /\ have_result
    /\ CReturn(IF cgood THEN cresult ELSE -1)
    /\ UNCHANGED <<vars, batch, batch_valid, have_result, cresult, x>>

\* moo_close.
Close == cfn = "none" /\ BeginDestroy /\ UNCHANGED capi

InFunction == \/ Refresh \/ Refreshed \/ AskCount \/ AskCopy \/ TellRefused
              \/ Tell \/ Told \/ FetchResult \/ Fetched \/ GiveResult

\* A client tells what it computed from the x moo_ask gave it.
NewFunction == \/ \E fn \in Functions \ {"tell"}, good \in BOOLEAN : Call(fn, good)
               \/ x # 0 /\ \E good \in BOOLEAN : Call("tell", good)
               \/ Close

Inside == (Worker \/ InCall \/ SpuriousWakeup) /\ UNCHANGED capi

CNext == Inside \/ InFunction \/ NewFunction \/ (Terminated /\ UNCHANGED capi)

CSpec == CInit /\ [][CNext]_cvars
-----------------------------------------------------------------------------
\* While a run has not failed, the snapshot is the batch the session is
\* waiting on, or there is none: a stale snapshot would let a client answer a
\* batch that has moved on (moo_session::batch, refresh_batch).
SnapshotCurrent ==
    cfn = "none" /\ batch_valid /\ batch # 0 /\ ~reported /\ cpc = "idle"
        => have_batch /\ batch = pending

=============================================================================
