SPECIFICATION FairReportsSpec
CONSTANTS
    Watched <- OneLostOneGained
    Reporters <- TwoOfTheNewLeader
    MaxChanges = 1
    MaxBehind = 1
INVARIANT TableFresh
PROPERTY TableConverges
