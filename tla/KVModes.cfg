CONSTANTS
    NumBlocks = 3
    Blocks <- MCBlocks
    BlockOrder <- MCBlockOrder
    Hashes <- MCHashes
    Prompts <- TwoPrompts
    Null = Null
    NoHash = NoHash
    Reqs = {r1, r2}
    Token = {x, y}
    BlockSize = 2
    Window = 0
    UseEagle = FALSE
    MaxModelLen = 4
    MaxExternal = 2
    MaxLookahead = 1
    CanEvict = FALSE
    WholePromptLoad = TRUE
SPECIFICATION ModesSpec
SYMMETRY Symmetric
INVARIANTS
    ModesTypeOK
    RefCounts
    ModesCacheConsistent
    OwnHashes
    AssertsHold
    SlotsCover
    FullPrefixClosed
    SlidingWindowKept
    FullCommonPrefixSound
