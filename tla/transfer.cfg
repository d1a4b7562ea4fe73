SPECIFICATION FairSpec
CONSTANTS
    Mega = 4
    Word32 = 32
    Word64 = 64
    ChunkSizesMb = {0, 1, 2, 8, 9}
    DefaultMb = 1
    ObjectSizes = {0, 1, 3, 4, 5, 8, 9, 16, 17}
    Ranges <- AnyRange
    MaxChunks = 8
    Nil = Nil
INVARIANTS
    WholeObject
    NoOtherRange
PROPERTY
    PlanEnds
CHECK_DEADLOCK FALSE
