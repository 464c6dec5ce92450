SPECIFICATION FairSpec
CONSTANTS
    r1 = r1
    r2 = r2
    r3 = r3
    b1 = b1
    b2 = b2
    b3 = b3
    b4 = b4
    b5 = b5
    b6 = b6
    b7 = b7
    Reqs = {r1, r2}
    Blocks = {b1, b2, b3}
    BlockOrder <- ThreeBlocks
    Null = Null
    NoHash = NoHash
    Hashes <- TextHashes
    BlockSize = 2
    Window = 0
    UseEagle = FALSE
    MaxModelLen = 6
    Configs <- BothModes
    PromptLen <- MCPromptLen
    MaxRunning = 2
    LongPrefill = 0
    Rank <- MCRank
    ReserveFullISL = TRUE
    Connector = FALSE
    MaxExternal = 0
    FailurePolicies = {"recompute"}
    AbortAllowed = TRUE
INVARIANTS
    TypeOK
    QueuesAgree
    OutputsInOrder
    CacheHolds
    NoBlockLeaks
    NeverRaises
    PlaceholdersExact
PROPERTY EveryRequestFinishes
