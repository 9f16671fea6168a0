SPECIFICATION FairSpec
CONSTANTS
    i1 = i1
    i2 = i2
    Instances <- TwoInstances
    NoInstance = NoInstance
    Orphan = Orphan
INVARIANTS
    TypeOK
    SessionOwnsLock
    WritesOnlyAfterElection
PROPERTIES
    ImplementsLeadership
    DeposedLeaderStops
    StandbyTakesOver
