SPECIFICATION FairSpec
CONSTANTS
    MaxSeq = 5
    Kind <- MCKindQuiet
    EnableRewind = TRUE
    InitialPoints = {1}
    MaxQueue = 2
    FaultKinds = {"drop"}
    MaxFaults = 1
CHECK_DEADLOCK FALSE
INVARIANT KeepsRunning
