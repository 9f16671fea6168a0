SPECIFICATION Spec
CONSTANTS
    orcl = orcl
    inst1 = inst1
    Databases <- OneTarget
    OracleInsts <- SingleInstance
    Interval = 2
    Lookback = 3
    MaxLag = 1
    MaxTime = 5
INVARIANTS
    NoRowSkipped
    WatermarkStored
