CONSTANTS
    Symbols = {x, y}
    Askers = {c, d}
    MaxRuns = 3
    ShardSize = 2
    MaxLog = 2
    Readers = {r}
    MaxMessages = 2
    MaxOpen = 2
    StreamBuffer = 1
    MaxReads = 2
    MaxConnections = 2
    PageSize = 1
    MaxStarts = 3
    Clients = {b1, b2}
    Handlers = {h1, h2}
    MaxLogins = 2
    LoginTTL = 1
    SessionTTL = 1
    TokenLives = {1}
    Watches = {w}
    MaxTime = 3
    MaxAge = 2
SPECIFICATION ServicesSpec
CONSTRAINTS
    NoExcuse
    FirstLoginIsTheFirstClients
ACTION_CONSTRAINT
    SlotsInOrder
CHECK_DEADLOCK FALSE
INVARIANTS
    WaitersHaveAStream
    HistoryIsFaithful
    PagesMissNothing
    ToldTagsWakeOnce
    LoginsAreOneShot
    EventsFollowTheSamples
PROPERTIES
    CloseReleasesEveryone
    CredentialsNeedASession
