SPECIFICATION Spec
CONSTANTS
    p1 = p1
    p2 = p2
    Chunk = {k1, k2}
    Payload = {p1, p2}
    Size <- MCSize
    FaultKinds = {"flush"}
    MaxFaults = 1
    Torn = Torn
    Nil = Nil
INVARIANT
    AckedWriteStored
