SPECIFICATION Spec
CONSTANTS
    Dids = {"alice", "bob", "carol"}
    Rkeys = {"", "one", "two"}
    ServiceDid = "carol"
    Factor <- MCFactor
    ContentFactor <- MCContentFactor
    FacetThreshold <- MCThreshold
    UnsignedShort = 4
    MaxAccounts = 2
    MaxContentItems = 1
    Messages <- MCMessages
    MaxMessages = 1
    MaxLookups = 0
CHECK_DEADLOCK FALSE
INVARIANT PlainPostsCounted
