SPECIFICATION Spec
CONSTANTS
    Checksum <- MCChecksum
    Nil = Nil
    Node = {n1, n2, n3}
    Members = {n1, n2}
    Filename = {f1}
    ObjectId = {o1}
    Data = {d1}
    Client = {c1}
    Recoverer = {r1, r2}
    Background = {r1, r2}
    NumChunks = 1
    ReplicationFactor = 3
    MaxVersion = 3
    ReportedCounts = {0}
    SelectsOverlap = FALSE
    WriteAck = "majority"
    Strategy = "least_used"
    Ops = {"put"}
    FaultKinds = {}
    MaxFaults = 0
SYMMETRY Symmetry
PROPERTIES VersionNeverFalls
