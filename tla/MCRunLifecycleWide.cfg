SPECIFICATION Spec
CONSTANTS
    s1 = s1
    s2 = s2
    k1 = k1
    Streams <- MCStreams
    Cancels <- MCCancels
    Runs <- TwoRuns
    Modes <- BothModes
    MaxFaults = 2
    MaxCrashes = 1
INVARIANTS
    LiveIsRegistered
    StoppedRunNeverSucceeds
    ToldIsTrue
PROPERTIES
    LateClientFindsLiveRun
CHECK_DEADLOCK FALSE
