\* Sliding-window attention; a connector may load every token of a prompt.
CONSTANTS
    NumBlocks = 3
    Blocks <- MCBlocks
    BlockOrder <- MCBlockOrder
    Hashes <- MCHashes
    Prompts <- OnePrompt
    Null = Null
    NoHash = NoHash
    Reqs = {r1, r2}
    Token = {x}
    BlockSize = 2
    Window = 3
    UseEagle = FALSE
    MaxModelLen = 6
    MaxExternal = 3
    MaxLookahead = 0
    CanEvict = FALSE
    WholePromptLoad = TRUE
SPECIFICATION Spec
SYMMETRY Symmetric
INVARIANT WindowKept
