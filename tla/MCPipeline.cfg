SPECIFICATION PipelineLiveSpec
CONSTANTS
    Post = Post
    v1 = v1
    Audits <- MCAudits
    Viewers <- MCViewers
    MaxFaults = 1
    MaxCrashes = 1
CHECK_DEADLOCK FALSE
INVARIANTS
    StagesInOrder
    LaunchedIsRecorded
PROPERTIES
    PipelineEnds
