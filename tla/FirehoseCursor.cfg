SPECIFICATION FairSpec
CONSTANTS
    MaxSeq = 5
    Kind <- MCKind
    EnableRewind = TRUE
    InitialPoints = {0, 1}
    MaxQueue = 1
    FaultKinds = {"crash", "stop", "drop", "database"}
    MaxFaults = 2
CHECK_DEADLOCK FALSE
INVARIANT TypeOK
INVARIANT NothingLostBelowPoint
PROPERTY RegressionIsFatal
PROPERTY EventuallyAccounted
PROPERTY ContractSpec
