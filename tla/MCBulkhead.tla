------------------------------ MODULE MCBulkhead ------------------------------
(* Four callers for one slot and a queue of two: the queue fills, sheds and *)
(* drains, and a fourth call meets every stage of the other three.          *)
EXTENDS Bulkhead

CONSTANTS c1, c2, c3, c4

MCCallers == {c1, c2, c3, c4}

\* "The wait ends when a slot frees".  The callers are interchangeable, in
\* BulkheadInit, in every action and in the fairness, so what holds of the
\* first holds of each: every call comes to an end.
EveryCallReturns == Returns(c1)
=============================================================================
