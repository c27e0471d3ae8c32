SPECIFICATION FairFeedsSpec
CONSTANTS
    WETH = 1
    USDC = 2
    Decimals <- KnownDecimals
    Dust = 5
    Whale = 50
    Digits = 2
    Usize = 1024
    U128 = 4096
    U256 = 16384
    Calls <- SmallCalls
    NoCall = NoCall
    Actionable = {1, 2, 4}
    MevQueueSize = 1
    ChannelSize = 1
    MaxEvents = 4
INVARIANTS
    HintsFlow
PROPERTIES
    PairSwapsTrigger
    HintsArrive
    StreamReturns
