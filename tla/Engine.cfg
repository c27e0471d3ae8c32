SPECIFICATION FairSpec
CONSTANTS
    MinProfitBps = 3000
    MaxRewardBps = 6500
    ReferenceGwei = 20
    WeiPerCentigwei = 1
    U32 = 65536
    IncrementBps = 1500
    small = small
    large = large
    Opps = {small, large}
    QueueSize = 1
    FloorBps = 2500
    Profits <- SmallAndLarge
    NodeFees = {6000}
    FallbackFee = 6000
    GasUsed = 1
    MaxAttempts = 2
    MaxLosses = {1000, 32767}
    I128 = 16384
    MaxInt = 4000
    Extras = {0}
    GasCosts = {3000}
    MaxHead = 2
INVARIANTS
    SilentWhenTold
    LogOffByRaises
PROPERTIES
    BreakerTripsOnWraps
    OpportunitiesEnd
