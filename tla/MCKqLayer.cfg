\* One layer of each family.  Chunks of one or two tokens against a capacity
\* and a context of three: refusals, copies and rollbacks all occur.
CONSTANTS
    Token = {t1, t2}
    ChunkMax = 2
    Chunk <- MCChunk
    QsaCapacity = 3
    ContextLength = 3
    MaxTokens = 4
SPECIFICATION Spec
INVARIANTS
    ActiveIsCommitted
    PreviousIntact
    IntentsAlwaysAligned
PROPERTIES
    ImplementsAtomic
