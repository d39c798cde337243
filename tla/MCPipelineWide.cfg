SPECIFICATION PipelineSpec
CONSTANTS
    Post = Post
    v1 = v1
    Audits <- MCAudits
    Viewers <- MCViewers
    MaxFaults = 2
    MaxCrashes = 1
CHECK_DEADLOCK FALSE
INVARIANTS
    StagesInOrder
    LaunchedIsRecorded
