SPECIFICATION Spec
CONSTANTS
    j1 = j1
    j2 = j2
    Jobs <- OneJob
    Templates <- Basic
    Letters <- OnlyC
    ZeroReferences = FALSE
    MaxDbFaults = 0
    MaxCrashes = 0
INVARIANT WriteBackKept
CHECK_DEADLOCK FALSE
