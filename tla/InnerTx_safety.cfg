CONSTANTS
    MarginBps = 2000
    SlippageBps = 0
    MinCharge = 4
    Reference = 10
    BaseReserve = 5
    MaxOps = 3
    MaxAsked = 4
    PriceUnit = 3
    BaseFees <- MCBaseFees
    Route <- MCRoute
    Markets <- MCMarkets
    Gone = Gone
    Floats <- MCFloats
SPECIFICATION Spec
INVARIANTS
    TypeOK
    PricedIsBuilt
    FeeAccepted
    CostCovered
    OnlyTheUserActs
    OwnEntriesSponsored
    BootstrapAuthorised
    GateCoversSend
    StillMarketNotRefused
CHECK_DEADLOCK FALSE
