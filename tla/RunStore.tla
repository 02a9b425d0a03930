----------------------------- MODULE RunStore -----------------------------
(***************************************************************************)
(* What a campaign's store promises of its records: a record that is on    *)
(* the disk for good stays there, and a run counts as recorded only once   *)
(* its record is.                                                          *)
(***************************************************************************)
VARIABLES
    kept,       \* the records on the disk for good
    counted     \* the records append() returned for

Init == kept = {} /\ counted = {}

\* Records reach the disk: one by a sync, or several when the power is lost
\* and they happened to be written.
Keep == kept \subseteq kept' /\ UNCHANGED counted

CountRun(r) == r \in kept /\ counted' = counted \cup {r} /\ UNCHANGED kept

Next == Keep \/ \E r \in kept : CountRun(r)

Spec == Init /\ [][Next]_<<kept, counted>>
=============================================================================
