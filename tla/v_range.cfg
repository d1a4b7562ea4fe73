SPECIFICATION Spec
CONSTANTS
    Mega = 4
    Word32 = 32
    Word64 = 64
    ChunkSizesMb = {0, 1, 2, 9}
    DefaultMb = 1
    ObjectSizes = {0, 1, 3, 4, 5, 8, 9, 16, 17}
    Ranges <- ToTheEnd
    MaxChunks = 8
    Nil = Nil
INVARIANTS
    RangeIsSlice
CHECK_DEADLOCK FALSE
