SPECIFICATION Spec
CONSTANTS
    f1 = f1
    f2 = f2
    f3 = f3
    f4 = f4
    Findings <- MCFindings
    Deterministic = {f1}
    Policy = {}
    NoWindow = {f4}
    Dismissed = {}
    L1Weight <- MCL1Weight
    L1Demoting <- MCL1Demoting
    Rank <- MCRank
    TopN = 3
    BatchSize = 2
    Concurrency = 2
    ToolCalls = 1
    MinJudged = 2
    Answers = {"uncited", "demoted", "closed"}
    Runs = 2
    MaxVersion = 2
INVARIANTS
    VerdictIsOfThisText
