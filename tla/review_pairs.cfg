SPECIFICATION FairSpec
CONSTANTS
    r1 = r1
    r2 = r2
    r3 = r3
    q1 = q1
    q2 = q2
    Refs <- ThreeRefs
    Requests <- TwoRequests
    Ops <- AllOps
    Values <- TwoValues
    First <- ThreeRows
    MaxDbFaults = 1
INVARIANTS TypeOK AuditReplays AllOrNothing
PROPERTY EveryRequestEnds
CHECK_DEADLOCK FALSE
