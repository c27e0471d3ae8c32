SPECIFICATION FairLogSpec
CONSTANTS
    Loggers = {l1, l2}
    Readers = {d1}
    Reporters = {s1}
    Free = Free
    NetProfits <- ProfitsAndLosses
    Window = 1
    MaxInt = 7
    MaxNow = 3
CHECK_DEADLOCK FALSE
INVARIANTS
    SumOfWindow
PROPERTY
    CallsReturn
