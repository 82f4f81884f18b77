--------------------------- MODULE MC_Reconciler ---------------------------
(* Model values and bounds for Reconciler.  Three files of three          *)
(* iterations with room for two iterations in the cache, so creating the  *)
(* third evicts the first while the reconcilers are still working on it.  *)
EXTENDS Reconciler

CONSTANTS f1, f2, f3, w1, w2

MCFiles == {f1, f2, f3}
MCWorkers == {w1, w2}
MCIteration == (f1 :> 1) @@ (f2 :> 2) @@ (f3 :> 3)
=============================================================================
