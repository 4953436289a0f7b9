CONSTANTS
    Providers = {p1}
    MaxTokens = 2
    Urls = {u1, u2}
    Secrets = {s1, s2}
    Models = {m1}
    Admins = {a1, a2}
    Requests = {r1}
    MaxLines = 1
    None = None
SPECIFICATION LLMSpec
SYMMETRY Symmetry
CHECK_DEADLOCK FALSE
INVARIANTS
    TokensAreOwned
    CatalogEditsAreKept
    RepliesAreWhole
PROPERTIES
    CredentialsAreConfigured
