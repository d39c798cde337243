-------------------------- MODULE MCRunLifecycle ---------------------------
(* Two viewers, a canceller, a restart and a failed store call meet up to   *)
(* two runs of the audit; dispatch happens on create, or (the switch) when  *)
(* the audit is first streamed.                                             *)
EXTENDS RunLifecycle

CONSTANTS s1, s2, k1

MCStreams == {s1, s2}
MCCancels == {k1}
OneRun == {1}
TwoRuns == {1, 2}
BothModes == BOOLEAN
OnCreate == {TRUE}

(* An audit that was dispatched ends, and every stream request is served.   *)
(* The requests are interchangeable in the model (nothing compares them or  *)
(* prefers one), so what holds of s1 holds of s2.                           *)
AuditEnds == CreatedAuditEnds /\ StreamServed(s1)
=============================================================================
