CONSTANTS
    Mutations <- OddCalls
    MaxRuns = 2
    MaxLoop = 2
    MaxToolCall = 1
    MaxModelGenerateRetries = 1
    MaxFinalizationRetries = 1
    MaxCalls = 3
    MaxCallsPerResponse = 2
SPECIFICATION FairSpec
CHECK_DEADLOCK FALSE
INVARIANTS
    BudgetsHold
    RecordsCoverTheWork
    VerbatimRemembers
    RequestsAreWellFormed
PROPERTIES
    RunEnds
