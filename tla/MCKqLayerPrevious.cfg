CONSTANTS
    Token = {t1, t2}
    ChunkMax = 2
    Chunk <- MCChunk
    QsaCapacity = 3
    ContextLength = 3
    MaxTokens = 4
SPECIFICATION Spec
INVARIANTS
    PreviousIntactUntilNextSuccess
