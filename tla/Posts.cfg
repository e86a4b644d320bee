SPECIFICATION PostsSpec
CONSTANTS
    Dids = {"alice", "bob", "carol"}
    Rkeys = {"", "one", "two"}
    ServiceDid = "carol"
    Factor <- MCFactor
    ContentFactor <- MCContentFactor
    FacetThreshold <- MCThreshold
    UnsignedShort = 4
    MaxAccounts = 2
    MaxContentItems = 1
    Messages <- MCMessages
    MaxMessages = 2
    MaxLookups = 1
    Threads = {t1, t2}
    Urls = {"shop", "blog", "short", "again", "broken"}
    Cids = {"cat", "film", "post"}
    WellFormed = {"shop", "blog", "short", "again"}
    Host <- MCHost
    Redirections <- MCRedirections
    UrlRedirectLimit = 2
    Matched = {"short"}
    Contents <- MCContents
    InitialHosts = {"short.example"}
    HostTables <- MCHostTables
    MaxContents = 3
    MaxRefreshes = 1
CHECK_DEADLOCK FALSE
INVARIANT TypeOK
INVARIANT InteractionsBalance
INVARIANT AlertsExplained
INVARIANT ContentWithinAccount
INVARIANT RepliesAndQuotesCounted
INVARIANT CheckerTypeOK
INVARIANT FollowedOnce
INVARIANT MatchesAttributed
INVARIANT OnlyTargetsPassedOver
PROPERTY ListsHandled
