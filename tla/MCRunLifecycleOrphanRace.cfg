SPECIFICATION Spec
CONSTANTS
    s1 = s1
    s2 = s2
    k1 = k1
    Streams <- MCStreams
    Cancels <- MCCancels
    Runs <- OneRun
    Modes <- OnCreate
    MaxFaults = 0
    MaxCrashes = 0
PROPERTY
    OrphanHasNoOwner
CHECK_DEADLOCK FALSE
