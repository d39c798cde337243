SPECIFICATION SupervisorSpec
CONSTANTS
    Warmup = 1
    Interval = 2
    Threshold = 2
    Window = 9
    StormMax = 3
    LaunchTicks = 1
    MaxOutages = 2
    MaxWaiting = 2
PROPERTIES GivenUpStaysDown NothingIsLost CrashLoopEnds
