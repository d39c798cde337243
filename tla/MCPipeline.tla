------------------------------ MODULE MCPipeline ------------------------------
(***************************************************************************)
(* Pipeline for TLC: four audits are one for each stage and one that a     *)
(* failed write, a panic or a restart wastes.  The viewer's notice or run, *)
(* and a panic after the verdict, report an audit a second time.           *)
(***************************************************************************)
EXTENDS Pipeline

CONSTANT v1

MCAudits == 1..4
MCViewers == {v1}
=============================================================================
