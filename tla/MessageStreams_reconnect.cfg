CONSTANTS
    MaxMessages = 3
    MaxOpen = 1
    StreamBuffer = 1
    MaxReads = 2
    MaxConnections = 3
SPECIFICATION StreamsSpec
CONSTRAINT NoGap
CHECK_DEADLOCK FALSE
INVARIANTS
    ReconnectsCatchUp
