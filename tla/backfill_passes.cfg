SPECIFICATION Spec
CONSTANTS
    None = None
    p1 = p1
    p2 = p2
    p3 = p3
    Passes <- Passes3
    DryPasses <- OnlyP3
    Results <- AllResults
    Fetches <- SomeFetches
    Stored <- StoredC44
    MaxDbFaults = 2
INVARIANTS StatsTellTable TwiceOnlyIfExcused
CHECK_DEADLOCK FALSE
