CONSTANTS
    MarginBps = 2000
    SlippageBps = 0
    MinCharge = 4
    Reference = 10
    BaseReserve = 5
    MaxOps = 2
    MaxAsked = 2
    PriceUnit = 3
    BaseFees <- MCBaseFees
    Route <- MCRoute
    Markets <- MCMarkets
    Gone = Gone
    Floats <- MCFloats
SPECIFICATION Spec
INVARIANT SignersComplete
CHECK_DEADLOCK FALSE
