SPECIFICATION Spec
CONSTANTS
    d1 = d1
    Dids = {d1}
    Filters = {"slur", "spam", "scam"}
    Groups = {"spam", "scams"}
    NoGroup = NoGroup
    RuleTables <- MCTables
    Texts <- MCTexts
    Emits <- MCEmits
    Messages <- MCMessages
    Producers = {"post_processor", "embed_checker"}
    Reporters = {"agent1", "agent2"}
    MaxMessages = 1
    MaxRefreshes = 0
CHECK_DEADLOCK FALSE
INVARIANT BlocksInScope
