SPECIFICATION FairSpec
CONSTANTS
    db1 = db1
    db2 = db2
    NoDatabase = NoDatabase
    Shared = Shared
    Missing = Missing
    Databases <- TwoDatabases
    PerDatabaseFiles = FALSE
    InitialBackoff = 1
    MaxBackoff = 2
    TornWrites = TRUE
    MaxTime = 2
    EntriesPerTime = 1
INVARIANTS NothingPassedOver WrittenOnce
PROPERTIES TornEndsFile EntryExported
