SPECIFICATION Spec
CONSTANTS
    scheduled = scheduled
    activity = activity
    sql1 = sql1
    cursor1 = cursor1
    Writers <- TwoWriters
    Nobody = Nobody
    NoBatch = NoBatch
    SQLs <- OneSQL
    Cursors <- OneCursor
    NumTables = 2
    DayLength = 2
    Retention = 2
    CleanupInterval = 1
    MaxDelay = 1
    MaxBacklog = 1
    MaxTime = 5
    MaxRows = 2
SYMMETRY InterchangeableWriters
INVARIANTS
    ReferencesKept
PROPERTY OnlyExpiredRemoved
