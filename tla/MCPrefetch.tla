------------------------------ MODULE MCPrefetch ------------------------------
(* Two skill threads of one audit: one asks for two files, the other for    *)
(* the last of them, which may change once.  Of the two slots one is kept   *)
(* for requests that are waited for, so that one request may be sent ahead, *)
(* by one file.                                                             *)
EXTENDS Prefetch

CONSTANTS t1, t2, a1, f1, f2

MCThreads == {t1, t2}
MCAudits == {a1}
MCAuditOf == [t \in MCThreads |-> a1]
MCFiles == {f1, f2}
MCChanging == {f1}
\* Each thread looks ahead at the file the other one is at: both want a slot
\* for a ticket, and there is one.
CrossWalk == [t \in MCThreads |-> IF t = t1 THEN <<f2, f1>> ELSE <<f1, f2>>]
SameWalk == [t \in MCThreads |-> <<f1, f2>>]
MCWalk == [t \in MCThreads |-> IF t = t1 THEN <<f2, f1>> ELSE <<f1>>]
=============================================================================
