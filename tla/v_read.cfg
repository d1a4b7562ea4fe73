SPECIFICATION Spec
CONSTANTS
    Checksum <- MCChecksum
    Nil = Nil
    Node = {n1, n2, n3}
    Members = {n1, n2, n3}
    Filename = {f1}
    ObjectId = {o1}
    Data = {d1}
    Client = {c1, c2}
    Recoverer = {}
    Background = {}
    NumChunks = 1
    ReplicationFactor = 3
    MaxVersion = 1
    ReportedCounts = {0}
    SelectsOverlap = FALSE
    WriteAck = "majority"
    Strategy = "least_used"
    Ops = {"put", "get", "delete"}
    FaultKinds = {}
    MaxFaults = 0
SYMMETRY Symmetry
INVARIANTS ReadFailsAtLocate
