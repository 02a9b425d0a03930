----------------------------- MODULE MCSession -----------------------------
(* A session of three batches, of two sizes, driven by a C++ caller of its *)
(* own or through the C ABI.                                               *)
EXTENDS CApi

VARIABLE door   \* how this run's caller reaches the session

MCSize == <<2, 1, 2>>

DInit == CInit /\ door \in {"cpp", "c"}

DNext == /\ UNCHANGED door
         /\ \/ Inside \/ (Terminated /\ UNCHANGED capi)
            \/ door = "cpp" /\ NewCall /\ UNCHANGED capi
            \/ door = "c" /\ (InFunction \/ NewFunction)

DSpec == /\ DInit /\ [][DNext]_<<cvars, door>>
         /\ WF_cvars(Worker /\ UNCHANGED capi)
         /\ WF_cvars(InCall /\ UNCHANGED capi)
         /\ WF_cvars(InFunction)
=============================================================================
