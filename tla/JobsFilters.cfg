SPECIFICATION Spec
CONSTANTS
    Accounts <- MCAccounts
    BatchSize = 2
    Jobs <- JobNames
    AckFilter <- MCAckFilter
    LabelFilter <- MCLabelFilter
    RequirePending = TRUE
    InitialReports <- MCReports
    MaxEvents = 0
CHECK_DEADLOCK FALSE
INVARIANT OnlyMatchedLabelled
