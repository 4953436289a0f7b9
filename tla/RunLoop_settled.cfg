CONSTANTS
    Mutations <- NoCalls
    MaxRuns = 1
    MaxLoop = 2
    MaxToolCall = 2
    MaxModelGenerateRetries = 0
    MaxFinalizationRetries = 0
    MaxCalls = 2
    MaxCallsPerResponse = 2
SPECIFICATION Spec
CHECK_DEADLOCK FALSE
INVARIANTS
    StoredIsSettled
