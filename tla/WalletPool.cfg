SPECIFICATION FairSpec
CONSTANTS
    NumWallets = 2
    Tasks = {t1, t2, t3}
    NoTask = NoTask
    StartCounts = {0}
    MinedWallets = {0}
    MaxCount = 2
INVARIANTS
    TypeOK
    UniqueUnlessBackward
    ContiguousUnlessSynced
    NeverBelowApplied
PROPERTIES
    BackwardOnlyOverAwaitedCalls
    Allocates
    CallsReturn
    LaggardsCatchUp
