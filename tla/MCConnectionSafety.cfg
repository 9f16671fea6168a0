SPECIFICATION Spec
CONSTANTS
    NumDatabases <- OneDatabase
    DCDEnabled = TRUE
    AlertLogEnabled = TRUE
    DeadlineRace = TRUE
INVARIANTS
    TypeOK
    OutagesTracked
    PoolsSafe
    WarmupUndisturbed
PROPERTY QueuedAtKept
