SPECIFICATION Spec
CONSTANTS
    r1 = r1
    r2 = r2
    r3 = r3
    b1 = b1
    b2 = b2
    b3 = b3
    b4 = b4
    b5 = b5
    b6 = b6
    b7 = b7
    Reqs = {r1, r2}
    Blocks = {b1, b2, b3, b4, b5, b6, b7}
    BlockOrder <- SevenBlocks
    Null = Null
    NoHash = NoHash
    Hashes <- TextHashes
    BlockSize = 1
    Window = 0
    UseEagle = FALSE
    MaxModelLen = 7
    Configs <- PriorityResets
    PromptLen <- LongPrompt
    MaxRunning = 3
    LongPrefill = 2
    Rank <- MCRank
    ReserveFullISL = TRUE
    Connector = FALSE
    MaxExternal = 0
    FailurePolicies = {"recompute"}
    AbortAllowed = FALSE
INVARIANT CacheHolds
