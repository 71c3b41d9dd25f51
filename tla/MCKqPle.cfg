\* The address and value streams, in all chunkings.
SPECIFICATION Spec
CONSTANTS
    Token = {0, 1, 2}
    EosToken = 2
    ContextLength = 7
    MaxChunk = 3
    Heads = 4
    Order <- MCOrder
    HeadOffset <- MCHeadOffset
    HeadVocabSize <- MCHeadVocabSize
    MemberRows = 11
    Members = 2
    Hash <- MCHash
    Taps = 3
    Dilation = 2
INVARIANTS ChunksDoNotMatter TapsDilated StreamsAligned
