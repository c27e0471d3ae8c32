SPECIFICATION FairSpec
CONSTANTS
    Relays = {r1, r2}
    MaxAttempts = 4
    MinProfitBps = 3000
    MaxRewardBps = 6500
    ReferenceGwei = 20
    WeiPerCentigwei = 2
    U32 = 65536
    IncrementBps = 1500
    Openings = {10, 99}
    Target = 2
    MaxHead = 3
CHECK_DEADLOCK FALSE
INVARIANTS
    AcceptanceEndsBidding
    BidsBounded
PROPERTIES
    RaisedOverRefusals
    Terminates
