SPECIFICATION BulkheadLiveSpec
CONSTANTS
    c1 = c1
    c2 = c2
    c3 = c3
    c4 = c4
    Callers <- MCCallers
    MaxConcurrent = 1
    WaitersPerSlot = 2
    Waits = TRUE
INVARIANTS
    SlotsAccounted
PROPERTIES
    NoOvertaking
    EveryCallReturns
