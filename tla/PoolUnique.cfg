SPECIFICATION Spec
CONSTANTS
    NumWallets = 1
    Tasks = {t1, t2, t3}
    NoTask = NoTask
    StartCounts = {0}
    MinedWallets = {0}
    MaxCount = 2
INVARIANT
    NoncesUnique
