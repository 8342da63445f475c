SPECIFICATION Spec
CONSTANTS
    None = None
    j1 = j1
    j2 = j2
    Potentials <- SomePotentials
    Files <- SomeFiles
    Meta <- SomeMeta
    Libraries <- SomeLibraries
    Preloaded <- SomeThere
    Jobs <- TwoJobs
    MaxLaunches = 3
    MaxFailures = 2
    MaxCrashes = 1
INVARIANTS ReadExplained MixedExplained
PROPERTIES SteadyFiles OwnPreferred
CHECK_DEADLOCK FALSE
