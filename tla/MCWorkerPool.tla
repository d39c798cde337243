----------------------------- MODULE MCWorkerPool -----------------------------
(* Two audits, one of them with two threads, on two slots: one ticket at a  *)
(* time, one slot left to the synchronous requests of three threads.        *)
EXTENDS WorkerPool

CONSTANTS t1, t2, t3, a1, a2

MCThreads == {t1, t2, t3}
MCAudits == {a1, a2}
MCAuditOf == [t \in MCThreads |-> IF t = t3 THEN a2 ELSE a1]

\* A request that waits for a slot gets one, whatever becomes of tickets and
\* workers: a thread that shares its audit and one that does not.  The second
\* thread of the first audit is interchangeable with t1.
ParseIsServed == Served(t1) /\ Served(t3)
=============================================================================
