SPECIFICATION Spec
CONSTANTS
    None = None
    q1 = q1
    q2 = q2
    e1 = e1
    e2 = e2
    r1 = r1
    EAM = EAM
    Requests <- TwoRequests
    Executions <- TwoExecutions
    Readers <- OneReader
    Names <- OneName
    Lists <- SomeLists
    MaxDbFaults = 1
    MaxKills = 1
INVARIANTS ResultsWhole JobsNamePotential AnswersTell ReportCovers
PROPERTY RunningCompletes
CHECK_DEADLOCK FALSE
