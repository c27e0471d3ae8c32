SPECIFICATION Spec
CONSTANTS
    N = 3
    Markets <- FourPools
    Anchors <- SecondThenFirst
    MaxHops = 5
    MinLogProfit = 0
PROPERTY SearchEnds
CHECK_DEADLOCK FALSE
