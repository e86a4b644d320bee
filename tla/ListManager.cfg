SPECIFICATION FairSpec
CONSTANTS
    d1 = d1
    d2 = d2
    d3 = d3
    Dids <- MCDids
    Groups = {"Soft_Deleted", "nsfw"}
    BlacklistName = "Soft_Deleted"
    BlacklistVersions <- MCBlacklists
    MaxItemsInList = 2
    DryRun = FALSE
    FirstOf <- MCNewestOf
    InitialMembers <- MCInitialMembers
    FaultKinds = {"crash", "stop", "error", "resent", "exhausted"}
    MaxFaults = 2
    MaxRequests = 4
    MaxLists = 6
CHECK_DEADLOCK FALSE
INVARIANT TypeOK
INVARIANT NeverListedTwice
INVARIANT ListsBounded
PROPERTY BacklogDrains
PROPERTY ContractSpec
