-------------------------- MODULE MCSegmentStore --------------------------
(* One runner with the whole campaign, started twice, on a disk that may be *)
(* full; or a runner for each of two parts, the second started while the    *)
(* first beats.                                                             *)
EXTENDS SegmentStore
CONSTANTS p1, p2, k1, k2

Alone == [jobs |-> [p \in Runners |-> IF p = p1 THEN {k1, k2} ELSE {}], limit |-> 4,
          overlap |-> "none", torn |-> {"torn"}, fullDisk |-> TRUE, crashes |-> 1]
Parts == [jobs |-> [p \in Runners |-> IF p = p1 THEN {k1} ELSE {k2}], limit |-> 2,
          overlap |-> "beating", torn |-> {"torn"}, fullDisk |-> FALSE, crashes |-> 1]
AloneAndParts == {Alone, Parts}
=============================================================================
