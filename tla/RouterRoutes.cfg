SPECIFICATION Spec
CONSTANTS
    N = 3
    Markets <- FewPools
    Anchors <- SecondThenFirst
    MaxHops = 2
    MinLogProfit = 1
INVARIANTS
    TypeOK
    CyclesAreNegative
    NoPoolBothWays
    RoutesAreRoundTrips
PROPERTY
    EndsWithNothing
CHECK_DEADLOCK FALSE
