CONSTANTS
    s1 = s1
    e1 = e1
    e2 = e2
    Sessions <- OneSession
    Events <- OneEvent
    Mention = Mention
    NoSession = NoSession
    MaxRun = 3
    MaxTriggersPerRun = 1
    MaxActiveEvents = 1
    MaxManualRunRetries = 0
SPECIFICATION FairSpec
CHECK_DEADLOCK FALSE
PROPERTIES
    RestartFactsReachARun
