------------------------------ MODULE AskTell ------------------------------
(***************************************************************************)
(* What mootation::Session promises its caller, with no thread in sight:   *)
(* the optimiser computes, offers one batch of candidates at a time, the   *)
(* caller answers exactly that batch, and the run ends with a result or    *)
(* with a failure, unless the caller abandons it.  Session.tla is shown to *)
(* implement this module.                                                  *)
(***************************************************************************)
EXTENDS Naturals, Sequences

CONSTANT MaxBatches   \* the most batches one run offers (the run's budget)

VARIABLES
    phase,   \* what the optimiser is doing
    told     \* the batches answered so far, in the order of the answers

vars == <<phase, told>>

Phases == {"computing", "asking", "done", "failed", "aborted"}

Init == phase = "computing" /\ told = <<>>

\* The optimiser offers batch Len(told) + 1 and waits.
Offer == /\ phase = "computing"
         /\ Len(told) < MaxBatches
         /\ phase' = "asking"
         /\ UNCHANGED told

\* The caller answers the batch on offer, and no other.
Answer == /\ phase = "asking"
          /\ phase' = "computing"
          /\ told' = Append(told, Len(told) + 1)

End(how) == phase = "computing" /\ phase' = how /\ UNCHANGED told

\* The caller gives the run up, whatever it is doing.
Abort == phase # "aborted" /\ phase' = "aborted" /\ UNCHANGED told

Compute == Offer \/ End("done") \/ End("failed")

Next == Compute \/ Answer \/ Abort

\* The caller owes nothing; the optimiser owes an offer or an end.
Spec == Init /\ [][Next]_vars /\ WF_vars(Compute)

Safe == Init /\ [][Next]_vars
=============================================================================
