SPECIFICATION Spec
CONSTANTS
    Checksum <- MCChecksum
    Nil = Nil
    Node = {n1, n2}
    Members = {n1, n2}
    Filename = {f1}
    ObjectId = {o1, o2}
    Data = {d1, d2}
    Client = {c1, c2}
    Recoverer = {}
    Background = {}
    NumChunks = 2
    ReplicationFactor = 2
    MaxVersion = 1
    ReportedCounts = {0}
    SelectsOverlap = FALSE
    WriteAck = "majority"
    Strategy = "least_used"
    Ops = {"put", "get", "delete"}
    FaultKinds = {"node", "rpc", "late", "client"}
    MaxFaults = 1
SYMMETRY Symmetry
INVARIANTS AckedPutReadable GetReturnsPut NamesAccountedFor
PROPERTY ImplementsObjectMap
