SPECIFICATION Spec
CONSTANTS
    l1 = l1
    l2 = l2
    l3 = l3
    None = None
    Requests = {l1, l2, l3}
    Users = {l1, l2}
    Path <- SmallPath
    Client <- SmallClient
    Rules <- SmallRules
    Window = 3
    MaxDelay = 1
    MaxClock = 4
SYMMETRY Symmetry
CHECK_DEADLOCK FALSE
INVARIANTS SlidingWindow OneUse
