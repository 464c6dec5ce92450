SPECIFICATION FairSpec
CONSTANTS
    Engines <- TwoRanks
    Clients = {c1}
    Reqs = {1, 2}
    Abortable = {2}
    Tokens <- MCTokens
    SyncEvery = 2
    PauseModes = {"keep", "wait", "abort_all"}
    MaxPauses = 1
    MaxPublished = 1
    CalmAbort = TRUE
    CalmPause = TRUE
    PromptFirst = TRUE
INVARIANTS
    CollectivesMatch
    
    QuietAgreement
PROPERTIES
    EveryRequestServed
    CallsAnswered
    EnginesComeToRest
CHECK_DEADLOCK FALSE
