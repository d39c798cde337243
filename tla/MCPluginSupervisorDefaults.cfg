SPECIFICATION SupervisorSpec
CONSTANTS
    Warmup <- DefaultWarmup
    Interval <- DefaultInterval
    Threshold <- DefaultThreshold
    Window <- DefaultWindow
    StormMax <- DefaultStormMax
    LaunchTicks = 0
    MaxOutages = 0
    MaxWaiting = 1
PROPERTY CrashLoopEnds
