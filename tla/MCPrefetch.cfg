SPECIFICATION LiveSpec
CONSTANTS
    t1 = t1
    t2 = t2
    a1 = a1
    f1 = f1
    f2 = f2
    Threads <- MCThreads
    Audits <- MCAudits
    AuditOf <- MCAuditOf
    Files <- MCFiles
    Walk <- MCWalk
    Size = 2
    Reserve = 1
    Ahead = 1
    Changing <- MCChanging
    MaxVersion = 2
    MaxCount = 0
INVARIANTS
    NoTicketLeaks
    OneLeader
    StoredIsCurrent
PROPERTIES
    ImplementsPool
    WalksEnd
