CONSTANTS
    None = None
    Senders = {"manual", "scheduler_bulk"}
    Limit = 1
    Catalogues <- MCCatalogues
    Known <- MCKnown
    Credentials <- MCCredentials
    MaxJobs = {0, 1}
    Discoveries <- MCDiscoveries
    Schedules <- MCSchedules
    MaxRows = 2
    MaxWalks = 1
    MaxLost = 1
SPECIFICATION Spec
INVARIANT TypeOK
INVARIANT OnlyOperatorsQueue
INVARIANT BulkAccounts
INVARIANT HistoryWhole
CHECK_DEADLOCK FALSE
