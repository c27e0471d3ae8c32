SPECIFICATION FairSpec
CONSTANTS
    Endpoints = {e1, e2}
    Hashes = {h1, h2, h3}
    Swaps = {h1}
    Oversized = {h3}
    Window = 2
    MaxSize = 1
    QueueSize = 1
    MaxDelay = 3
    MaxNow = 3
INVARIANTS
    OneForwardPerAdmission
PROPERTIES
    NoEarlyRepeat
    Resubscribes
