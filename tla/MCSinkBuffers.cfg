SPECIFICATION Spec
CONSTANTS
    scheduled = scheduled
    activity = activity
    Writers <- TwoWriters
    Nobody = Nobody
    MaxPending = 2
    MaxSamples = 3
    MaxRows = 2
    MaxUnheard = 1
SYMMETRY InterchangeableWriters
CHECK_DEADLOCK FALSE
INVARIANTS
    BufferBounded
    NoSampleLost
    StoredOnce
    LatestIsNewest
    RowsAccounted
    CloseLeavesNothing
PROPERTIES
    ImplementsTelemetryLog
