SPECIFICATION Spec
CONSTANTS
    Byte <- MCByte
    AddressSpace = 7
    Buffers <- MCBuffers
    ChunkSizes = {1, 2, 3, 4}
    Unsized = Unsized
INVARIANTS
    ChunksFitTheFile
    AllocatedTailIsZero
    ReadsAgree
PROPERTIES
    ImplementsByteFile
