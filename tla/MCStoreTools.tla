---------------------------- MODULE MCStoreTools ----------------------------
(* Three runs of two families; two parts that hold a run of their own, and   *)
(* one that differs on it.                                                   *)
EXTENDS StoreTools

Runs == {"a1", "a2", "b"}
Family == [k \in Runs |-> IF k = "b" THEN "B" ELSE "A"]
Run(k, st, id) == [key |-> k, status |-> st, id |-> id]
Parts == {{Run("a1", "done", 11), Run("b", "done", 12)},
          {Run("a2", "failed", 13), Run("b", "done", 12)},
          {Run("a1", "done", 14)}}
=============================================================================
