SPECIFICATION SourcesSpec
CONSTANTS
    Absent = Absent
    OtherSystems <- SomeSystems
    Documents <- SomeDocuments
    MaxDocuments = 4
    None = None
    Lower <- MCLower
    Tables <- MCTables
    Parameters <- MCParameters
    WikiItems <- MCWikiItems
    WikiParams <- MCWikiParams
    Individuals <- MCIndividuals
    MaxWrites = 2
INVARIANTS OneValueEach PreferredFirst BestOfItsPhase OrderIndependent
INVARIANTS StoredOnce AutoOnlyByClaim QuantityKept OpenExplained ResolutionsAgree
PROPERTY TableFirst
CHECK_DEADLOCK FALSE
