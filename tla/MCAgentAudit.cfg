SPECIFICATION LiveSpec
CONSTANTS
    k1 = k1
    k2 = k2
    k3 = k3
    Skills <- MCSkills
    SkillWorkers = 1
    Rows <- MCRows
    Covers <- MCCovers
    KeyOf <- MCKeyOf
    LlmKeys <- MCLlmKeys
    Batches = 3
    FailureCap = 2
    Attempts = 2
    WantsLlm = TRUE
    Enforce = TRUE
    JudgeBatches = 1
INVARIANTS
    ResultIsComplete
    DegradedIsTruthful
    StreamIsWellFormed
    AtMostOneLateBatch
PROPERTIES
    StreamEnds
