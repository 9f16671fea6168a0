SPECIFICATION Spec
CONSTANTS
    Tablespaces = {t}
    Counters = {c}
    Interval = 2
    MaxTime = 5
    MaxEvents = 2
INVARIANT ViewsTruthful
PROPERTY DeltasHonest
CHECK_DEADLOCK FALSE
