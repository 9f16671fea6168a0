SPECIFICATION ConsumersSpec
CONSTANTS
    Keys <- ThreeCursors
    TopN = 1
    TopSQLLimit = 2
    MaxWork = 3
INVARIANTS NoManufacturedWorkload WorkAttributed KnownPlansStored
