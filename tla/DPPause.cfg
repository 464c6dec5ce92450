\* The two engines receive pause_scheduler at different times, and requests
\* arrive in between.
SPECIFICATION Spec
CONSTANTS
    Engines <- TwoRanks
    Clients = {c1}
    Reqs = {1, 2}
    Tokens <- MCTokens
    SyncEvery = 2
    Abortable = {}
    PauseModes = {"keep"}
    MaxPauses = 1
    MaxPublished = 1
    CalmAbort = TRUE
    CalmPause = FALSE
    PromptFirst = TRUE
INVARIANT NobodyLeftOut
CHECK_DEADLOCK FALSE
