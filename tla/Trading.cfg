CONSTANTS
    btc = btc
    eth = eth
    c1 = c1
    Instruments = {btc, eth}
    Spot = {eth}
    Prices = {16, 32}
    Requests <- AllOrders
    StopChanges <- SomeStops
    CloseSizes = {1}
    FeeUnit = 16
    MakerRate = 1
    TakerRate = 2
    InitialBalance = 64
    LossLimit = 12
    HasMaxDD = TRUE
    Clients = {c1}
    MaxOrders = 2
    MaxLots = 2
    MaxRestarts = 1
SPECIFICATION FairSpec
CHECK_DEADLOCK FALSE
INVARIANTS
    AccountIsSound
    StoppedHasNoOpenOrder
    DeletedLeavesNothing
PROPERTIES
    OrdersEndOnce
    ClosesAreAimed
    FloorIsEnforced
    StoppedIsLiquidated
