SPECIFICATION FairSpec
CONSTANTS
    NumDatabases <- OneDatabase
    DCDEnabled = TRUE
    AlertLogEnabled = FALSE
    DeadlineRace = TRUE
PROPERTY TargetRestored
