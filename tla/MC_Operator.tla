----------------------------- MODULE MC_Operator -----------------------------
(***************************************************************************)
(* The Operator of one node: the reconciler of MC_Reconciler and the rate  *)
(* limiter its AddRateLimited callers share.  The Reconciler model pushes  *)
(* at once, and RateLimiter says when each push really happens; the two   *)
(* share no variable, so their steps commute.  The limiter's claims are    *)
(* therefore explored from the states where the reconciler has nothing     *)
(* left to do: every reachable state of each is still reached, and each    *)
(* property reads the variables of one of them only.                       *)
(***************************************************************************)
EXTENDS MC_Reconciler, RateLimiter

MCNext ==
  \/ Next /\ UNCHANGED limVars
  \/ Quiescent /\ LimNext /\ UNCHANGED vars

MCSpec == Init /\ LimInit /\ [][MCNext]_<<vars, limVars>> /\ Fairness
=============================================================================
