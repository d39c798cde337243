------------------------------- MODULE MCJudge -------------------------------
(* Three findings worth judging, one of the skill tier and two of the       *)
(* model's, in two batches on two workers, and one without a code window.   *)
EXTENDS Judge

CONSTANTS f1, f2, f3, f4

MCFindings == {f1, f2, f3, f4}
MCL1Weight == [f \in MCFindings |-> IF f = f2 THEN -20 ELSE 0]
MCL1Demoting == [f \in MCFindings |-> IF f = f2 THEN 1 ELSE 0]
MCRank == [f \in MCFindings |-> CASE f = f1 -> 1 [] f = f4 -> 2 [] f = f2 -> 3 [] OTHER -> 4]
=============================================================================
