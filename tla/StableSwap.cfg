SPECIFICATION Spec
CONSTANTS
    Basis = 20
    Pips = 10
    Q = 64
    Word = 65536
    MaxSqrt = 23169
    Rounds = 20
    MinProfitBps = 3500
    MaxRewardBps = 6500
    ReferenceGwei = 1
    WeiPerCentigwei = 1
    U32 = 16384
    IncrementBps = 1500
    Routes <- Stable
    Premium = 2
    Candidates <- Grid
    Factors <- Around
    GasOverhead = 2
    GasPerLeg = 1
    GasPerTick = 1
    BaseRewardBps = 6490
    ObservedBps = {6490, 6550}
    BaseFees = {0, 1, 60, 150, 170}
INVARIANT
    PaysFromBalances
CHECK_DEADLOCK FALSE
