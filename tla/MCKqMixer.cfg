\* Both families of mixers behind the layer's slots.
SPECIFICATION Spec
CONSTANTS
    x = x
    y = y
    Input <- MCInput
    Zero = zero
    Chunk <- MCChunk
    Kernel = 3
    Capacity = 6
    BlockSize = 2
    TopK = 2
    Score <- MCScore
    MaxTokens = 6
SYMMETRY MCSymmetry
INVARIANTS OutputsOfStream AttentionWithinBudget CopyAccepted
PROPERTY ImplementsAtomic
