SPECIFICATION Spec
CONSTANTS
    p1 = p1
    p2 = p2
    Chunk = {k1, k2}
    Payload = {p1, p2}
    Size <- MCSize
    FaultKinds = {"crash", "open", "read", "write", "flush", "rename", "unlink"}
    MaxFaults = 2
    Torn = Torn
    Nil = Nil
INVARIANT
    CountedIsStored
    TotalIsSum
PROPERTY
    ImplementsChunkMap
