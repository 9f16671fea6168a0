SPECIFICATION Spec
CONSTANTS
    NumDatabases = 2
    NumFiles = 1
    MaxEdits = 2
    MaxOutside = 1
INVARIANTS UnchangedIsCurrent NoSendBlocks WarmupNotOverlooked TroubleReported
PROPERTY LastGoodKept
CHECK_DEADLOCK FALSE
