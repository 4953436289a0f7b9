CONSTANTS
    n1 = n1
    n2 = n2
    Names <- TwoNames
    Counts <- SomeCounts
    MaxObjects = 2
    MaxStarts = 2
    MaxSignals = 1
    TaskLists <- SomeLists
    NumResources = 2
    MaxRequests = 1
SPECIFICATION ProcessSpec
CHECK_DEADLOCK FALSE
INVARIANTS
    LoopIsSound
    ServerIsSound
PROPERTIES
    LoopMakesProgress
    ShutdownCompletes
