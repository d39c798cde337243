------------------------------ MODULE MCBudget ------------------------------
(***************************************************************************)
(* Instances of Budget for TLC: two request ids, a small and a large one,  *)
(* sent by two concurrent attempts.  A call costs 2: the small one         *)
(* overruns its estimate, the large one spends it.                         *)
(***************************************************************************)
EXTENDS Budget, TLC

CONSTANTS r1, r2, a1, a2

MCRequests == {r1, r2}
MCAttempts == {a1, a2}
MCEstimate == (r1 :> 1) @@ (r2 :> 2)
MCCosts == {2}
BothCosts == {1, 2}
=============================================================================
