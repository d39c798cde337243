SPECIFICATION LiveSpec
CONSTANTS
    t1 = t1
    t2 = t2
    t3 = t3
    a1 = a1
    a2 = a2
    Threads <- MCThreads
    Audits <- MCAudits
    AuditOf <- MCAuditOf
    Size = 2
    Reserve = 1
    BreakAfter = 1
INVARIANTS
    SlotsSound
PROPERTIES
    ImplementsPool
    ParseIsServed
