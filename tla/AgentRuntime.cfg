CONSTANTS
    s1 = s1
    e1 = e1
    e2 = e2
    Sessions <- OneSession
    Events <- TwoEvents
    Mention = Mention
    NoSession = NoSession
    MaxRun = 3
    MaxTriggersPerRun = 2
    MaxActiveEvents = 2
    MaxManualRunRetries = 2
SPECIFICATION FairSpec
CHECK_DEADLOCK FALSE
INVARIANTS
    RunningRunIsDriven
    NoStrandedTrigger
    RetryChainIsContiguous
    StoppedSessionIsQuiet
    EventsAreOneShot
PROPERTIES
    TriggerQueueSpec
    RecordsAreWriteOnce
    SessionsMakeProgress
