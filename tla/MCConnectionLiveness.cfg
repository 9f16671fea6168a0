SPECIFICATION FairSpec
CONSTANTS
    NumDatabases <- OneDatabase
    DCDEnabled = TRUE
    AlertLogEnabled = FALSE
    DeadlineRace = FALSE
PROPERTIES
    TargetRestored
    ActivityGoesOn
