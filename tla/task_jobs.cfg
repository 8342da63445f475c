SPECIFICATION FairSpec
CONSTANTS
    j1 = j1
    j2 = j2
    Jobs <- TwoJobs
    Templates = {"basic", "mechanical", "defect", "comprehensive"}
    Letters <- OnlyC
    ZeroReferences = TRUE
    MaxDbFaults = 2
    MaxCrashes = 1
CONSTRAINT Load
INVARIANT WholeOrNothing
INVARIANT StrandedOnlyByFault
INVARIANT RevokedOnlyByLostAck
INVARIANT AbandonedExplained
PROPERTY LifecycleRefined
PROPERTY AcceptedSettles
CHECK_DEADLOCK FALSE
