----------------------------- MODULE MCAgentAudit -----------------------------
(* Two skills on one worker, the first of which finds two rows, one of them *)
(* a generalisation of the second skill's; the model may find in each of    *)
(* its batches what the second skill finds when it gets that far.           *)
EXTENDS AgentAudit

CONSTANTS k1, k2, k3

MCSkills == <<"injection", "crypto">>
MCRows == <<2, 1>>
MCCovers == {<<<<1, 1>>, <<2, 0>>>>}
MCKeyOf == [r \in {<<1, 0>>, <<1, 1>>, <<2, 0>>} |->
              CASE r = <<1, 0>> -> k1 [] r = <<1, 1>> -> k2 [] OTHER -> k3]
MCLlmKeys == {k3}
TwoLlmKeys == {k1, k3}
=============================================================================
