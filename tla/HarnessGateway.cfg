CONSTANTS
    u = u
    v = v
    a = a
    Callers = {c1, c2}
    Keys = {k1}
    Requests <- Conversation
    Answers = {a}
    MaxSessions = 2
    Clients = {d1, d2}
    Credentials = {k1}
    MaxProcesses = 2
    EventCap = 1
    MaxCalls = 1
    Notifications <- TurnEvents
SPECIFICATION FairHarnessSpec
CHECK_DEADLOCK FALSE
INVARIANTS
    DirectoriesFollowTheirUsers
    AnswersAreInContext
    NothingIsLeftBehind
PROPERTIES
    ShutdownEnds
