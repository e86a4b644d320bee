SPECIFICATION FairSpec
CONSTANTS
    Reports = {"report1"}
    Labels = {"label1"}
    MaxTries = 2
    AccessExpiryBuffer = 2
    AccessLife = 4
    TimeLimit = 2
    StartTime = 3
    MaxTime = 11
CHECK_DEADLOCK FALSE
INVARIANT TypeOK
INVARIANT TokenFresh
INVARIANT StoredOnce
INVARIANT ClosedIfLabelled
PROPERTY JobsEnd
