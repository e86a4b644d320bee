SPECIFICATION ModerationSpec
CONSTANTS
    Accounts <- MCAccounts
    BatchSize = 2
    Jobs <- JobNames
    AckFilter <- MCAckFilter
    LabelFilter <- MCLabelFilter
    RequirePending = TRUE
    InitialReports <- MCReports
    MaxEvents = 3
    t1 = t1
    t2 = t2
    Threads <- MCThreads
    Gates = 2
    Window <- MCWindow2
    Limit <- MCLimit2
    MaxTries = 2
    StartTime = 1
    MaxTime = 5
    MaxLabels = 5
CHECK_DEADLOCK FALSE
INVARIANT TypeOK
INVARIANT TagsTruthful
INVARIANT ScrubbedWereGone
INVARIANT GateTypeOK
INVARIANT TwiceTheLimit
INVARIANT LabelBursts
PROPERTY ThreadsStop
