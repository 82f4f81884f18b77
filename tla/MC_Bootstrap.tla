---------------------------- MODULE MC_Bootstrap ----------------------------
(* Three ranks; Self owns r1 and r2, Pred owns p1 and p2, Succ owns none.  *)
(* The retry interval constants are those of config.h (1 and 10 seconds), *)
(* giving four remote attempts.                                            *)
EXTENDS Bootstrap, TLC

CONSTANTS r1, r2, p1, p2, nP, nR, nS

MCFiles == {r1, r2, p1, p2}
MCOwner == (r1 :> nR) @@ (r2 :> nR) @@ (p1 :> nP) @@ (p2 :> nP)
MCIteration == (r1 :> 1) @@ (r2 :> 2) @@ (p1 :> 1) @@ (p2 :> 2)

=============================================================================
