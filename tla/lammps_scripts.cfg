SPECIFICATION Spec
CONSTANTS
    None = None
    Crystals <- SomeCrystals
    Rows <- SomeRows
    Sites = 54
    Sizes = {1, 2, 3}
    Deviations <- SomeDeviations
    MaxNan = 2
INVARIANTS TypeOK ValuesAreCrystals NanShows
CHECK_DEADLOCK FALSE
